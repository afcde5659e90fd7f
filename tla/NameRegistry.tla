----------------------------- MODULE NameRegistry -----------------------------
(***************************************************************************)
(* What the proxy manager of frps promises to its clients about names: a   *)
(* name has one holder at a time, only the holder serves it and only the   *)
(* holder gives it up, after it has ended serving it; a client that quits  *)
(* ends serving all its names at once and is gone when it holds none.      *)
(***************************************************************************)
CONSTANTS Client, Name

VARIABLES
  client,   \* "up", "stopping" or "closed"
  holder,   \* holder[n]: the client that holds name n, none if it is free
  serving   \* serving[c]: the names that client c serves

vars == <<client, holder, serving>>

Init ==
  /\ client = [c \in Client |-> "up"]
  /\ holder = [n \in Name |-> {}]
  /\ serving = [c \in Client |-> {}]

Claim(c, n) ==
  /\ client[c] = "up"
  /\ holder[n] = {}
  /\ holder' = [holder EXCEPT ![n] = {c}]
  /\ UNCHANGED <<client, serving>>

Serve(c, n) ==
  /\ client[c] = "up"
  /\ holder[n] = {c}
  /\ n \notin serving[c]
  /\ serving' = [serving EXCEPT ![c] = @ \cup {n}]
  /\ UNCHANGED <<client, holder>>

EndServing(c, n) ==
  /\ n \in serving[c]
  /\ holder[n] = {c}
  /\ serving' = [serving EXCEPT ![c] = @ \ {n}]
  /\ UNCHANGED <<client, holder>>

GiveUp(c, n) ==
  /\ client[c] # "closed"
  /\ holder[n] = {c}
  /\ n \notin serving[c]
  /\ holder' = [holder EXCEPT ![n] = {}]
  /\ UNCHANGED <<client, serving>>

Quit(c) ==
  /\ client[c] = "up"
  /\ client' = [client EXCEPT ![c] = "stopping"]
  /\ serving' = [serving EXCEPT ![c] = {}]
  /\ UNCHANGED holder

Leave(c) ==
  /\ client[c] = "stopping"
  /\ \A n \in Name : holder[n] # {c}
  /\ client' = [client EXCEPT ![c] = "closed"]
  /\ UNCHANGED <<holder, serving>>

\* Every step changes something.
Next ==
  /\ vars' # vars
  /\ \E c \in Client :
       \/ \E n \in Name : \/ Claim(c, n)
                          \/ Serve(c, n)
                          \/ EndServing(c, n)
                          \/ GiveUp(c, n)
       \/ Quit(c)
       \/ Leave(c)

Spec == Init /\ [][Next]_vars
=============================================================================
