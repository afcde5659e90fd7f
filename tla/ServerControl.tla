---------------------------- MODULE ServerControl ----------------------------
(***************************************************************************)
(* One frps Control (server/control.go) from the moment Start has launched *)
(* its goroutines until stoper has released everything: the writer, the    *)
(* reader, the manager and the stoper, the goroutine that asks for the     *)
(* initial pool, the goroutines of user connections inside GetWorkConn and *)
(* the connections that arrive through RegisterWorkConn.                   *)
(*                                                                         *)
(* What a message contains is abstracted to what the manager does with it; *)
(* what registering and closing a proxy does is in ProxyRegistry.          *)
(***************************************************************************)
EXTENDS Naturals, Sequences, FiniteSets

CONSTANTS
  SendCap,          \* capacity of sendCh (10 in the code)
  ReadCap,          \* capacity of readCh (10 in the code)
  WorkSlack,        \* workConnCh has PoolCount + WorkSlack slots (10 in the code)
  PoolCount,        \* min(loginMsg.PoolCount, MaxPoolCount)
  TCPMux,           \* serverCfg.TCPMux
  HeartbeatTimeout, \* serverCfg.HeartbeatTimeout, in ticks
  MaxMsgs,          \* bound: messages the client sends on this connection
  Users,            \* bound: user connections that ask for a work connection
  WorkConns         \* bound: work connections the client opens

ASSUME ControlAssumption ==
  /\ SendCap \in Nat \ {0}
  /\ ReadCap \in Nat \ {0}
  /\ WorkSlack \in Nat
  /\ PoolCount \in Nat
  /\ TCPMux \in BOOLEAN
  /\ HeartbeatTimeout \in Nat
  /\ MaxMsgs \in Nat
  /\ IsFiniteSet(Users) /\ IsFiniteSet(WorkConns)

VARIABLES
  conn,       \* the control connection: "open", "broken" by the peer or the net, "closed" by us
  budget,     \* messages the client may still send
  reader,     \* pc of reader()
  rmsg,       \* the message reader holds while it blocks on readCh
  readCh,     \* queue of messages from reader to manager
  readClosed,
  manager,    \* pc of manager()
  age,        \* ticks since lastPing
  sendCh,     \* number of messages queued for writer
  sendClosed,
  writer,     \* pc of writer()
  stoper,     \* pc of stoper()
  allStart,   \* allShutdown.Start() was called
  poolReqs,   \* ReqWorkConn messages the pool goroutine of Start still sends
  natSends,   \* goroutines of HandleNatHole* that still send their answer
  user,       \* pc of each user connection in GetWorkConn
  wc,         \* where each work connection is
  workClosed  \* workConnCh is closed

chanVars == <<rmsg, readCh, readClosed, sendCh, sendClosed>>
workVars == <<user, wc, workClosed>>
vars == <<conn, budget, reader, manager, age, writer, stoper, allStart,
          poolReqs, natSends, chanVars, workVars>>

Msg == {"NewProxy", "CloseProxy", "Ping", "BadPing", "NatHole"}

HeartbeatOn == ~TCPMux /\ HeartbeatTimeout > 0

Pool == {w \in WorkConns : wc[w] = "pooled"}

TypeOK ==
  /\ conn \in {"open", "broken", "closed"}
  /\ budget \in 0..MaxMsgs
  /\ reader \in {"read", "put", "done"}
  /\ rmsg \in Msg \cup {"none"}
  /\ readCh \in Seq(Msg)
  /\ Len(readCh) <= ReadCap
  /\ readClosed \in BOOLEAN
  /\ manager \in {"recv", "send", "sendExit", "done"}
  /\ age \in 0..(HeartbeatTimeout + 1)
  /\ sendCh \in 0..SendCap
  /\ sendClosed \in BOOLEAN
  /\ writer \in {"init", "recv", "write", "done"}
  /\ stoper \in {"waitStart", "waitReader", "waitManager", "waitWriter",
                 "drain", "done"}
  /\ allStart \in BOOLEAN
  /\ poolReqs \in 0..PoolCount
  /\ natSends \in Nat
  /\ user \in [Users -> {"idle", "req", "wait", "refill", "got", "err"}]
  /\ wc \in [WorkConns -> {"none", "pooled", "used", "closed", "orphan"}]
  /\ workClosed \in BOOLEAN

(***************************************************************************)
(* NewControl made the channels; Start has sent LoginResp, set started and *)
(* launched the goroutines.                                                *)
(***************************************************************************)
Init ==
  /\ conn = "open"
  /\ budget = MaxMsgs
  /\ reader = "read"
  /\ rmsg = "none"
  /\ readCh = <<>>
  /\ readClosed = FALSE
  /\ manager = "recv"
  /\ age = 0
  /\ sendCh = 0
  /\ sendClosed = FALSE
  /\ writer = "init"
  /\ stoper = "waitStart"
  /\ allStart = FALSE
  /\ poolReqs = PoolCount
  /\ natSends = 0
  /\ user = [u \in Users |-> "idle"]
  /\ wc = [w \in WorkConns |-> "none"]
  /\ workClosed = FALSE

-----------------------------------------------------------------------------
(* The outside world. *)

\* The client goes away, the network fails, or the client sends something
\* ReadMsg cannot decode.
PeerBreaks ==
  /\ conn = "open"
  /\ conn' = "broken"
  /\ UNCHANGED <<budget, reader, manager, age, writer, stoper, allStart,
                 poolReqs, natSends, chanVars, workVars>>

\* One second passes since lastPing; past the timeout more time changes nothing.
Tick ==
  /\ HeartbeatOn
  /\ age <= HeartbeatTimeout
  /\ age' = age + 1
  /\ UNCHANGED <<conn, budget, reader, manager, writer, stoper, allStart,
                 poolReqs, natSends, chanVars, workVars>>

\* Close, Replaced and CloseUser: all they do to a running control is
\* allShutdown.Start().
RequestShutdown ==
  /\ ~allStart
  /\ allStart' = TRUE
  /\ UNCHANGED <<conn, budget, reader, manager, age, writer, stoper,
                 poolReqs, natSends, chanVars, workVars>>

-----------------------------------------------------------------------------
(* reader() *)

ReaderRead(m) ==
  /\ reader = "read"
  /\ conn = "open"
  /\ budget > 0
  /\ budget' = budget - 1
  /\ rmsg' = m
  /\ reader' = "put"
  /\ UNCHANGED <<conn, readCh, readClosed, manager, age, sendCh, sendClosed,
                 writer, stoper, allStart, poolReqs, natSends, workVars>>

\* ReadMsg fails: on io.EOF reader just returns, on another error it closes
\* the connection first.  The deferred calls mark it done and start the shutdown.
ReaderFail ==
  /\ reader = "read"
  /\ conn # "open"
  /\ conn' \in {conn, "closed"}
  /\ reader' = "done"
  /\ allStart' = TRUE
  /\ UNCHANGED <<budget, manager, age, writer, stoper, poolReqs, natSends,
                 chanVars, workVars>>

\* Mutant of ReaderPut: readCh has no capacity.
ReaderPutUnbounded ==
  /\ reader = "put"
  /\ readCh' = Append(readCh, rmsg)
  /\ rmsg' = "none"
  /\ reader' = "read"
  /\ UNCHANGED <<conn, budget, readClosed, manager, age, sendCh,
                 sendClosed, writer, stoper, allStart, poolReqs, natSends,
                 workVars>>

\* ctl.readCh <- m blocks while the queue is full.
ReaderPut ==
  /\ reader = "put"
  /\ Len(readCh) < ReadCap
  /\ readCh' = Append(readCh, rmsg)
  /\ rmsg' = "none"
  /\ reader' = "read"
  /\ UNCHANGED <<conn, budget, readClosed, manager, age, sendCh,
                 sendClosed, writer, stoper, allStart, poolReqs, natSends,
                 workVars>>

-----------------------------------------------------------------------------
(* manager() *)

\* One message.  A new proxy and a ping are answered through sendCh; an
\* invalid ping is answered and ends the manager; closing a proxy is not
\* answered; a nat hole visitor or client message is handled by a goroutine of
\* its own that answers later (a nat hole report is taken like CloseProxy here).
ManagerRecv ==
  /\ manager = "recv"
  /\ readCh # <<>>
  /\ readCh' = Tail(readCh)
  /\ LET m == Head(readCh) IN
       /\ manager' = CASE m \in {"NewProxy", "Ping"} -> "send"
                       [] m = "BadPing" -> "sendExit"
                       [] OTHER -> "recv"
       /\ age' = IF m = "Ping" THEN 0 ELSE age
       /\ natSends' = IF m = "NatHole" THEN natSends + 1 ELSE natSends
  /\ UNCHANGED <<conn, budget, reader, rmsg, readClosed, sendCh, sendClosed,
                 writer, stoper, allStart, poolReqs, workVars>>

\* Mutant of ManagerSend: a select with a default that drops the answer.
ManagerSendOrDrop ==
  /\ manager \in {"send", "sendExit"}
  /\ sendCh' = IF sendCh < SendCap THEN sendCh + 1 ELSE sendCh
  /\ IF manager = "send"
       THEN manager' = "recv" /\ UNCHANGED allStart
       ELSE manager' = "done" /\ allStart' = TRUE
  /\ UNCHANGED <<conn, budget, reader, rmsg, readCh, readClosed, age,
                 sendClosed, writer, stoper, poolReqs, natSends, workVars>>

\* ctl.sendCh <- resp, not protected by PanicToError.
ManagerSend ==
  /\ manager \in {"send", "sendExit"}
  /\ sendCh < SendCap
  /\ sendCh' = sendCh + 1
  /\ IF manager = "send"
       THEN manager' = "recv" /\ UNCHANGED allStart
       ELSE manager' = "done" /\ allStart' = TRUE
  /\ UNCHANGED <<conn, budget, reader, rmsg, readCh, readClosed, age,
                 sendClosed, writer, stoper, poolReqs, natSends, workVars>>

\* readCh is closed and empty, or the heartbeat ticker finds lastPing too old.
ManagerExit ==
  /\ manager = "recv"
  /\ \/ readClosed /\ readCh = <<>>
     \/ HeartbeatOn /\ age > HeartbeatTimeout
  /\ manager' = "done"
  /\ allStart' = TRUE
  /\ UNCHANGED <<conn, budget, reader, age, writer, stoper, poolReqs,
                 natSends, chanVars, workVars>>

-----------------------------------------------------------------------------
(* writer() *)

\* crypto.NewWriter; an error ends the writer at once.
WriterInit ==
  /\ writer = "init"
  /\ \/ writer' = "recv" /\ UNCHANGED allStart
     \/ writer' = "done" /\ allStart' = TRUE
  /\ UNCHANGED <<conn, budget, reader, manager, age, stoper, poolReqs,
                 natSends, chanVars, workVars>>

WriterRecv ==
  /\ writer = "recv"
  /\ sendCh > 0
  /\ sendCh' = sendCh - 1
  /\ writer' = "write"
  /\ UNCHANGED <<conn, budget, reader, rmsg, readCh, readClosed, manager, age,
                 sendClosed, stoper, allStart, poolReqs, natSends, workVars>>

\* WriteMsg may still succeed on a connection the peer has left.
WriterWrite ==
  /\ writer = "write"
  /\ \/ conn # "closed" /\ writer' = "recv" /\ UNCHANGED allStart
     \/ conn # "open" /\ writer' = "done" /\ allStart' = TRUE
  /\ UNCHANGED <<conn, budget, reader, manager, age, stoper, poolReqs,
                 natSends, chanVars, workVars>>

WriterExit ==
  /\ writer = "recv"
  /\ sendClosed
  /\ sendCh = 0
  /\ writer' = "done"
  /\ allStart' = TRUE
  /\ UNCHANGED <<conn, budget, reader, manager, age, stoper, poolReqs,
                 natSends, chanVars, workVars>>

-----------------------------------------------------------------------------
(* stoper() *)

\* Mutant of StoperStart: ctl.conn.Close() is forgotten.
StoperStartKeepsConn ==
  /\ stoper = "waitStart"
  /\ allStart
  /\ stoper' = "waitReader"
  /\ UNCHANGED <<conn, budget, reader, manager, age, writer, allStart, poolReqs,
                 natSends, chanVars, workVars>>

StoperStart ==
  /\ stoper = "waitStart"
  /\ allStart
  /\ conn' = "closed"
  /\ stoper' = "waitReader"
  /\ UNCHANGED <<budget, reader, manager, age, writer, allStart, poolReqs,
                 natSends, chanVars, workVars>>

\* Mutant of StoperCloseRead: readerShutdown.WaitDone() is forgotten.
StoperCloseReadEarly ==
  /\ stoper = "waitReader"
  /\ readClosed' = TRUE
  /\ stoper' = "waitManager"
  /\ UNCHANGED <<conn, budget, reader, rmsg, readCh, manager, age, sendCh,
                 sendClosed, writer, allStart, poolReqs, natSends, workVars>>

StoperCloseRead ==
  /\ stoper = "waitReader"
  /\ reader = "done"
  /\ readClosed' = TRUE
  /\ stoper' = "waitManager"
  /\ UNCHANGED <<conn, budget, reader, rmsg, readCh, manager, age, sendCh,
                 sendClosed, writer, allStart, poolReqs, natSends, workVars>>

StoperCloseSend ==
  /\ stoper = "waitManager"
  /\ manager = "done"
  /\ sendClosed' = TRUE
  /\ stoper' = "waitWriter"
  /\ UNCHANGED <<conn, budget, reader, rmsg, readCh, readClosed, manager, age,
                 sendCh, writer, allStart, poolReqs, natSends, workVars>>

\* Mutant of StoperCloseWork: the pool is drained but workConnCh stays open.
StoperKeepsWorkOpen ==
  /\ stoper = "waitWriter"
  /\ writer = "done"
  /\ stoper' = "drain"
  /\ UNCHANGED <<conn, budget, reader, manager, age, writer, allStart,
                 poolReqs, natSends, chanVars, user, wc, workClosed>>

StoperCloseWork ==
  /\ stoper = "waitWriter"
  /\ writer = "done"
  /\ workClosed' = TRUE
  /\ stoper' = "drain"
  /\ UNCHANGED <<conn, budget, reader, manager, age, writer, allStart,
                 poolReqs, natSends, chanVars, user, wc>>

\* for workConn := range ctl.workConnCh
StoperDrain(w) ==
  /\ stoper = "drain"
  /\ w \in Pool
  /\ wc' = [wc EXCEPT ![w] = "closed"]
  /\ UNCHANGED <<conn, budget, reader, manager, age, writer, stoper, allStart,
                 poolReqs, natSends, chanVars, user, workClosed>>

\* The proxies are released (ProxyRegistry) and allShutdown.Done() is called.
StoperDone ==
  /\ stoper = "drain"
  /\ Pool = {}
  /\ stoper' = "done"
  /\ UNCHANGED <<conn, budget, reader, manager, age, writer, allStart,
                 poolReqs, natSends, chanVars, workVars>>

-----------------------------------------------------------------------------
(* Senders that PanicToError protects: on a closed sendCh they give up. *)

\* TRUE when a protected send gets past sendCh, one way or the other.
ProtectedSend ==
  \/ sendClosed /\ UNCHANGED sendCh
  \/ ~sendClosed /\ sendCh < SendCap /\ sendCh' = sendCh + 1

\* One round of the pool goroutine of Start.
PoolRequest ==
  /\ poolReqs > 0
  /\ ProtectedSend
  /\ poolReqs' = poolReqs - 1
  /\ UNCHANGED <<conn, budget, reader, rmsg, readCh, readClosed, manager, age,
                 sendClosed, writer, stoper, allStart, natSends, workVars>>

\* The answer of a nat hole handler, sent through the message transporter.
NatHoleAnswer ==
  /\ natSends > 0
  /\ ProtectedSend
  /\ natSends' = natSends - 1
  /\ UNCHANGED <<conn, budget, reader, rmsg, readCh, readClosed, manager, age,
                 sendClosed, writer, stoper, allStart, poolReqs, workVars>>

-----------------------------------------------------------------------------
(* GetWorkConn *)

\* Receive from workConnCh: a pooled connection, or "closed and empty".
TakeWorkConn(u) ==
  \/ /\ \E w \in Pool : wc' = [wc EXCEPT ![w] = "used"]
     /\ user' = [user EXCEPT ![u] = "refill"]
  \/ /\ Pool = {}
     /\ workClosed
     /\ user' = [user EXCEPT ![u] = "err"]
     /\ UNCHANGED wc

\* The first select: take one from the pool, or go and ask for one.
UserFirst(u) ==
  /\ user[u] = "idle"
  /\ \/ TakeWorkConn(u)
     \/ /\ Pool = {}
        /\ ~workClosed
        /\ user' = [user EXCEPT ![u] = "req"]
        /\ UNCHANGED wc
  /\ UNCHANGED <<conn, budget, reader, manager, age, writer, stoper, allStart,
                 poolReqs, natSends, chanVars, workClosed>>

\* Ask frpc for a connection; an error means that the control is closed.
UserRequest(u) ==
  /\ user[u] = "req"
  /\ ProtectedSend
  /\ user' = [user EXCEPT ![u] = IF sendClosed THEN "err" ELSE "wait"]
  /\ UNCHANGED <<conn, budget, reader, rmsg, readCh, readClosed, manager, age,
                 sendClosed, writer, stoper, allStart, poolReqs, natSends, wc,
                 workClosed>>

\* Mutant of UserWait: the second select has no timeout.
UserWaitForever(u) ==
  /\ user[u] = "wait"
  /\ TakeWorkConn(u)
  /\ UNCHANGED <<conn, budget, reader, manager, age, writer, stoper, allStart,
                 poolReqs, natSends, chanVars, workClosed>>

\* The second select, with its UserConnTimeout.
UserWait(u) ==
  /\ user[u] = "wait"
  /\ \/ TakeWorkConn(u)
     \/ user' = [user EXCEPT ![u] = "err"] /\ UNCHANGED wc
  /\ UNCHANGED <<conn, budget, reader, manager, age, writer, stoper, allStart,
                 poolReqs, natSends, chanVars, workClosed>>

\* Replace the connection that was taken, then return it.
UserRefill(u) ==
  /\ user[u] = "refill"
  /\ ProtectedSend
  /\ user' = [user EXCEPT ![u] = "got"]
  /\ UNCHANGED <<conn, budget, reader, rmsg, readCh, readClosed, manager, age,
                 sendClosed, writer, stoper, allStart, poolReqs, natSends, wc,
                 workClosed>>

\* RegisterWorkConn, called by a connection handler that found this control
\* in the ControlManager.  A full pool is an error and the handler closes the
\* connection; a closed channel panics, and the recovered panic returns nil.
RegisterWorkConn(w) ==
  /\ wc[w] = "none"
  /\ wc' = [wc EXCEPT ![w] =
              IF workClosed THEN "orphan"
              ELSE IF Cardinality(Pool) < PoolCount + WorkSlack THEN "pooled"
              ELSE "closed"]
  /\ UNCHANGED <<conn, budget, reader, manager, age, writer, stoper, allStart,
                 poolReqs, natSends, chanVars, user, workClosed>>

-----------------------------------------------------------------------------
Reader == ReaderFail \/ ReaderPut
Manager == ManagerRecv \/ ManagerSend \/ ManagerExit
Writer == WriterInit \/ WriterRecv \/ WriterWrite \/ WriterExit
Stoper ==
  \/ StoperStart
  \/ StoperCloseRead
  \/ StoperCloseSend
  \/ StoperCloseWork
  \/ \E w \in WorkConns : StoperDrain(w)
  \/ StoperDone
User(u) == UserFirst(u) \/ UserRequest(u) \/ UserWait(u) \/ UserRefill(u)

Next ==
  \/ PeerBreaks
  \/ Tick
  \/ RequestShutdown
  \/ \E m \in Msg : ReaderRead(m)
  \/ Reader
  \/ Manager
  \/ Writer
  \/ Stoper
  \/ PoolRequest
  \/ NatHoleAnswer
  \/ \E u \in Users : User(u)
  \/ \E w \in WorkConns : RegisterWorkConn(w)

Spec == Init /\ [][Next]_vars

\* The Go scheduler runs every goroutine that can run, a write on a live
\* connection returns, and the timer of the second select fires.  Nothing is
\* assumed of the client, of the network, of users or of time.
FairReader == WF_vars(Reader)
FairManager == WF_vars(Manager)
FairWriter == WF_vars(Writer)
FairStoper == WF_vars(Stoper)
FairPool == WF_vars(PoolRequest)
FairNatHole == WF_vars(NatHoleAnswer)
FairUser(u) == WF_vars(User(u))

Fairness ==
  /\ FairReader /\ FairManager /\ FairWriter /\ FairStoper
  /\ FairPool /\ FairNatHole
  /\ \A u \in Users : FairUser(u)

FairSpec == Spec /\ Fairness

-----------------------------------------------------------------------------
(* Properties *)

\* The unprotected sends of reader and manager never meet a closed channel:
\* stoper closes readCh only after reader returned and sendCh only after
\* manager returned, so neither goroutine can panic and lose its deferred calls.
NoSendOnClosedChannel ==
  /\ reader = "put" => ~readClosed
  /\ manager \in {"send", "sendExit"} => ~sendClosed

\* When the control is closed nothing of it still runs and the pool is empty,
\* although connections kept arriving through RegisterWorkConn during the
\* drain: no pooled connection survives its control.
ClosedControlIsEmpty ==
  stoper = "done" =>
    /\ reader = "done" /\ manager = "done" /\ writer = "done"
    /\ conn = "closed"
    /\ Pool = {}

\* What makes the two invariants above inductive: how far stoper has come
\* decides which channels are closed and which goroutines have returned.
StoperOrder ==
  /\ reader = "put" => rmsg \in Msg
  /\ stoper # "waitStart" => conn = "closed"
  /\ readClosed => reader = "done"
  /\ sendClosed => manager = "done"
  /\ stoper \in {"waitManager", "waitWriter", "drain", "done"} => reader = "done"
  /\ stoper \in {"waitWriter", "drain", "done"} => manager = "done"
  /\ stoper \in {"drain", "done"} => writer = "done" /\ workClosed

IInv == TypeOK /\ StoperOrder /\ ClosedControlIsEmpty

\* When a goroutine is not blocked, and that one that is not can make a step.
ReaderReady ==
  \/ reader = "read" /\ conn # "open"
  \/ reader = "put" /\ Len(readCh) < ReadCap

ManagerReady ==
  \/ manager = "recv" /\ (readCh # <<>> \/ readClosed)
  \/ manager \in {"send", "sendExit"} /\ sendCh < SendCap

WriterReady == writer \in {"init", "write"} \/ (writer = "recv" /\ (sendCh > 0 \/ sendClosed))

StoperReady ==
  \/ stoper = "waitStart" /\ allStart
  \/ stoper = "waitReader" /\ reader = "done"
  \/ stoper = "waitManager" /\ manager = "done"
  \/ stoper = "waitWriter" /\ writer = "done"
  \/ stoper = "drain"

UserReady(u) ==
  \/ user[u] \in {"idle", "wait"}
  \/ user[u] \in {"req", "refill"} /\ (sendClosed \/ sendCh < SendCap)

GuardsEnable ==
  /\ ReaderReady => ENABLED <<Reader>>_vars
  /\ ManagerReady => ENABLED <<Manager>>_vars
  /\ WriterReady => ENABLED <<Writer>>_vars
  /\ StoperReady => ENABLED <<Stoper>>_vars
  /\ \A u \in Users : UserReady(u) => ENABLED <<User(u)>>_vars

\* The two ways in which closing a control can hang: reader blocks on a full
\* readCh whose manager has returned, or manager blocks on a full sendCh whose
\* writer has returned.
ReaderWedged ==
  reader = "put" /\ manager = "done" /\ Len(readCh) = ReadCap

ManagerWedged ==
  manager \in {"send", "sendExit"} /\ writer = "done" /\ sendCh = SendCap

Wedged == ReaderWedged \/ ManagerWedged

\* A shutdown that was started completes, unless one of the two blocked sends
\* above stops it: there is no third way for stoper to hang.
ClosesUnlessWedged == allStart ~> (stoper = "done" \/ Wedged)

\* Every user connection that asked for a work connection gets one or an error,
\* unless the control is wedged: a request blocked on sendCh is released by the
\* writer or by close(sendCh), and the wait for the answer has a timeout.
UserAnswered ==
  \A u \in Users : user[u] = "req" ~> (user[u] \in {"got", "err"} \/ Wedged)

\* No step of any goroutine, of the client or of the stoper ends a wedge: the
\* control then keeps its proxies, its ports and its run id for good.
WedgeIsPermanent == [][Wedged => Wedged']_vars
=============================================================================
