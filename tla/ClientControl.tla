--------------------------- MODULE ClientControl ---------------------------
(***************************************************************************)
(* The controls of frpc (client/control.go): the goroutines reader, writer *)
(* and msgHandler of each, the two channels between them, and worker,      *)
(* which shuts them down when the connection is gone.  ClientService makes *)
(* a control for each login.                                               *)
(***************************************************************************)
EXTENDS Naturals, Sequences

CONSTANTS
  MaxControls, \* bound: controls that are ever made
  QueueCap     \* capacity of sendCh and readCh, 100 in the code

ASSUME ControlAssumption == MaxControls \in Nat /\ QueueCap \in Nat \ {0}

\* Control objects, in the order in which they are made.
Control == 1..MaxControls

\* What msgHandler tells apart: a Pong with an error, and all the others, which
\* may make it send a message (a NewProxyResp for a proxy that cannot run).
Msg == {"other", "pongErr"}

VARIABLES
  conn,    \* the connection of each control
  reader,  \* pc of each reader
  hand,    \* the message a reader is about to put into readCh
  readCh,
  handler, \* pc of each msgHandler
  sendCh,  \* number of messages: writer treats all alike
  writer,  \* pc of each writer
  worker   \* pc of each worker

ctlVars == <<conn, reader, hand, readCh, handler, sendCh, writer, worker>>

ControlTypeOK ==
  /\ conn \in [Control -> {"none", "open", "closed"}]
  /\ reader \in [Control -> {"none", "read", "put", "done"}]
  /\ hand \in [Control -> Msg]
  /\ readCh \in [Control -> Seq(Msg)]
  /\ \A c \in Control : Len(readCh[c]) <= QueueCap
  /\ handler \in [Control -> {"none", "select", "send", "done"}]
  /\ sendCh \in [Control -> 0..QueueCap]
  /\ writer \in [Control -> {"none", "init", "run", "write", "done"}]
  /\ worker \in [Control -> {"none", "wait", "handler", "writer", "done"}]

ControlInit ==
  /\ conn = [c \in Control |-> "none"]
  /\ reader = [c \in Control |-> "none"]
  /\ hand = [c \in Control |-> "other"]
  /\ readCh = [c \in Control |-> <<>>]
  /\ handler = [c \in Control |-> "none"]
  /\ sendCh = [c \in Control |-> 0]
  /\ writer = [c \in Control |-> "none"]
  /\ worker = [c \in Control |-> "none"]

\* worker closes the channels on its way.
ReadClosed(c) == worker[c] \in {"handler", "writer", "done"}
SendClosed(c) == worker[c] \in {"writer", "done"}

\* From NewControl to the end of the shutdown.
Live(c) == worker[c] \notin {"none", "done"}

\* NewControl and Run: all goroutines are started.
Run(c) ==
  /\ conn' = [conn EXCEPT ![c] = "open"]
  /\ reader' = [reader EXCEPT ![c] = "read"]
  /\ handler' = [handler EXCEPT ![c] = "select"]
  /\ writer' = [writer EXCEPT ![c] = "init"]
  /\ worker' = [worker EXCEPT ![c] = "wait"]
  /\ UNCHANGED <<hand, readCh, sendCh>>

-----------------------------------------------------------------------------
(* The connection and the senders outside the control *)

\* frps or the network ends the connection.
Break(c) ==
  /\ conn[c] = "open"
  /\ conn' = [conn EXCEPT ![c] = "closed"]
  /\ UNCHANGED <<reader, hand, readCh, handler, sendCh, writer, worker>>

\* msgTransporter.Send, which waits for room and recovers from a closed channel.
ProtectedSend(c) ==
  IF SendClosed(c) THEN UNCHANGED sendCh
  ELSE sendCh[c] < QueueCap /\ sendCh' = [sendCh EXCEPT ![c] = @ + 1]

\* A proxy or a visitor sends a message.
ProxySend(c) ==
  /\ Live(c)
  /\ ProtectedSend(c)
  /\ UNCHANGED <<conn, reader, hand, readCh, handler, writer, worker>>

-----------------------------------------------------------------------------
(* reader *)

ReaderRead(c) ==
  /\ reader[c] = "read"
  /\ conn[c] = "open"
  /\ \E m \in Msg : hand' = [hand EXCEPT ![c] = m]
  /\ reader' = [reader EXCEPT ![c] = "put"]
  /\ UNCHANGED <<conn, readCh, handler, sendCh, writer, worker>>

\* A failed read; closedCh is closed on the way out.
ReaderFail(c) ==
  /\ reader[c] = "read"
  /\ conn[c] = "closed"
  /\ reader' = [reader EXCEPT ![c] = "done"]
  /\ UNCHANGED <<conn, hand, readCh, handler, sendCh, writer, worker>>

ReaderPut(c) ==
  /\ reader[c] = "put"
  /\ Len(readCh[c]) < QueueCap
  /\ readCh' = [readCh EXCEPT ![c] = Append(@, hand[c])]
  /\ hand' = [hand EXCEPT ![c] = "other"]
  /\ reader' = [reader EXCEPT ![c] = "read"]
  /\ UNCHANGED <<conn, handler, sendCh, writer, worker>>

-----------------------------------------------------------------------------
(* msgHandler *)

\* The ticker of the heartbeat: SetPing may fail, and the handler returns with
\* the connection left open.
HandlerTick(c) ==
  /\ handler[c] = "select"
  /\ \E pc \in {"send", "done"} : handler' = [handler EXCEPT ![c] = pc]
  /\ UNCHANGED <<conn, reader, hand, readCh, sendCh, writer, worker>>

\* No Pong in time.
HandlerTimeout(c) ==
  /\ handler[c] = "select"
  /\ handler' = [handler EXCEPT ![c] = "done"]
  /\ conn' = [conn EXCEPT ![c] = "closed"]
  /\ UNCHANGED <<reader, hand, readCh, sendCh, writer, worker>>

\* The next message, or the end of a closed and empty readCh.
HandlerRecv(c) ==
  /\ handler[c] = "select"
  /\ IF readCh[c] = <<>>
       THEN /\ ReadClosed(c)
            /\ handler' = [handler EXCEPT ![c] = "done"]
            /\ UNCHANGED <<conn, readCh>>
       ELSE /\ readCh' = [readCh EXCEPT ![c] = Tail(@)]
            /\ \/ /\ Head(readCh[c]) = "other"
                  /\ \E pc \in {"select", "send"} : handler' = [handler EXCEPT ![c] = pc]
                  /\ UNCHANGED conn
               \/ /\ Head(readCh[c]) = "pongErr"
                  /\ handler' = [handler EXCEPT ![c] = "done"]
                  /\ conn' = [conn EXCEPT ![c] = "closed"]
  /\ UNCHANGED <<reader, hand, sendCh, writer, worker>>

HandlerSend(c) ==
  /\ handler[c] = "send"
  /\ sendCh[c] < QueueCap
  /\ sendCh' = [sendCh EXCEPT ![c] = @ + 1]
  /\ handler' = [handler EXCEPT ![c] = "select"]
  /\ UNCHANGED <<conn, reader, hand, readCh, writer, worker>>

-----------------------------------------------------------------------------
(* writer *)

\* crypto.NewWriter may fail.
WriterInit(c) ==
  /\ writer[c] = "init"
  /\ \/ writer' = [writer EXCEPT ![c] = "run"] /\ UNCHANGED conn
     \/ /\ writer' = [writer EXCEPT ![c] = "done"]
        /\ conn' = [conn EXCEPT ![c] = "closed"]
  /\ UNCHANGED <<reader, hand, readCh, handler, sendCh, worker>>

WriterRecv(c) ==
  /\ writer[c] = "run"
  /\ IF sendCh[c] > 0
       THEN /\ sendCh' = [sendCh EXCEPT ![c] = @ - 1]
            /\ writer' = [writer EXCEPT ![c] = "write"]
       ELSE /\ SendClosed(c)
            /\ writer' = [writer EXCEPT ![c] = "done"]
            /\ UNCHANGED sendCh
  /\ UNCHANGED <<conn, reader, hand, readCh, handler, worker>>

\* A write error ends writer and leaves the connection open.
WriterWrite(c) ==
  /\ writer[c] = "write"
  /\ \E pc \in {"run", "done"} : writer' = [writer EXCEPT ![c] = pc]
  /\ UNCHANGED <<conn, reader, hand, readCh, handler, sendCh, worker>>

-----------------------------------------------------------------------------
(* worker *)

\* Mutant of WorkerClosed: the channels are closed without waiting for reader.
WorkerClosedEarly(c) ==
  /\ worker[c] = "wait"
  /\ conn[c] = "closed"
  /\ worker' = [worker EXCEPT ![c] = "handler"]
  /\ UNCHANGED <<conn, reader, hand, readCh, handler, sendCh, writer>>

\* closedCh is closed: reader has returned.  readCh is closed.
WorkerClosed(c) ==
  /\ worker[c] = "wait"
  /\ reader[c] = "done"
  /\ worker' = [worker EXCEPT ![c] = "handler"]
  /\ UNCHANGED <<conn, reader, hand, readCh, handler, sendCh, writer>>

\* sendCh is closed.
WorkerHandlerDone(c) ==
  /\ worker[c] = "handler"
  /\ handler[c] = "done"
  /\ worker' = [worker EXCEPT ![c] = "writer"]
  /\ UNCHANGED <<conn, reader, hand, readCh, handler, sendCh, writer>>

\* The proxies and visitors are closed (what they send is dropped), then
\* closedDoneCh.  What is left in the channels is garbage.
WorkerWriterDone(c) ==
  /\ worker[c] = "writer"
  /\ writer[c] = "done"
  /\ worker' = [worker EXCEPT ![c] = "done"]
  /\ readCh' = [readCh EXCEPT ![c] = <<>>]
  /\ sendCh' = [sendCh EXCEPT ![c] = 0]
  /\ UNCHANGED <<conn, reader, hand, handler, writer>>

-----------------------------------------------------------------------------
Reader(c) == ReaderFail(c) \/ ReaderPut(c)
Writer(c) == WriterInit(c) \/ WriterRecv(c) \/ WriterWrite(c)
Worker(c) == WorkerClosed(c) \/ WorkerHandlerDone(c) \/ WorkerWriterDone(c)

ControlNext(c) ==
  \/ Break(c) \/ ProxySend(c)
  \/ ReaderRead(c) \/ Reader(c)
  \/ HandlerTick(c) \/ HandlerTimeout(c) \/ HandlerRecv(c) \/ HandlerSend(c)
  \/ Writer(c)
  \/ Worker(c)

\* The sends that nothing unblocks: reader waits for a msgHandler that has
\* returned, or msgHandler waits for a writer that has returned.
Wedged(c) ==
  \/ reader[c] = "put" /\ Len(readCh[c]) = QueueCap /\ handler[c] = "done"
  \/ handler[c] = "send" /\ sendCh[c] = QueueCap /\ writer[c] = "done"
=============================================================================
