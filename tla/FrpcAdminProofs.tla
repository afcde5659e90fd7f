--------------------------- MODULE FrpcAdminProofs ---------------------------
(***************************************************************************)
(* The configuration file under the admin API of frpc, for any number of   *)
(* tabs, requests and texts: it keeps its token, an upload that is reported*)
(* as a success is stored and applied, and every upload ends.  What has    *)
(* to happen is proved from [] GuardsEnable, since the prover does not look*)
(* into ENABLED.                                                           *)
(***************************************************************************)
EXTENDS FrpcAdmin, TLAPS

USE DEF cfgVars

Upload(q) == q.kind \in {"put", "reload"}

(* The part of TypeOK that speaks of one request. *)
ReqOK(q) ==
    /\ q \in Request
    /\ q.kind = "none" <=> q.stage = "free"
    /\ q.kind = "none" => q = NoReq
    /\ q.stage \in {"read", "torn"} => q.kind = "put"
    /\ q.stage \in {"parsed", "stored"} => q.kind = "reload" /\ q.parsed \in Valid
    /\ q.stage \in {"answered", "lost"} => q.tab \in Tab

Requests == req \in [Slot -> Request] /\ \A r \in Slot : ReqOK(req[r])

(* The variables besides the requests. *)
Plain ==
    /\ file \in File /\ up \in BOOLEAN
    /\ pxyCfgs \in Valid /\ running \in Valid /\ fresh \subseteq Valid
    /\ overtaken \in BOOLEAN
    /\ page \in [Tab -> Page] /\ textarea \in [Tab -> Text]
    /\ status \in [Tab -> SUBSET Row] /\ dialog \in [Tab -> BOOLEAN]
    /\ hurt \in BOOLEAN

(* As long as nothing hurt the file there is at most one PUT, it carries a *)
(* [common] section and, once it has read the file, the token.             *)
Tokens ==
    ~hurt =>
      /\ \A p, r \in Slot : (req[p].kind = "put" /\ req[r].kind = "put") => p = r
      /\ \A r \in Slot : req[r].kind = "put" =>
           /\ req[r].text \in HasCommon
           /\ req[r].stage \in {"read", "torn"} => req[r].token
           /\ req[r].stage = "torn" => file.text = Empty
      /\ (\A r \in Slot : req[r].stage # "torn") => file.token /\ file.text \in HasCommon

(* What an upload q that is alone has done so far to the file f, to the    *)
(* proxies p of the controls to come and to those c of the present one,    *)
(* which o says was made before.                                           *)
Done(q, f, p, c, o) ==
    /\ q.stage = "torn" => f.text = Empty
    /\ (q.kind = "reload" \/ q.stage = "answered") => f.text = q.text
    /\ q.stage \in {"parsed", "stored"} => q.parsed = Rendered[q.text]
    /\ q.stage = "stored" => p = q.parsed
    /\ (q.kind = "reload" /\ q.stage = "answered" /\ Parses(q.text))
          => p = Rendered[q.text] /\ (c = Rendered[q.text] \/ o)

Cleanly ==
    \A r \in Slot : req[r].clean =>
      /\ Upload(req[r]) /\ req[r].stage # "lost"
      /\ \A p \in Slot : Upload(req[p]) => p = r
      /\ up \/ (req[r].kind = "put" /\ req[r].stage = "sent")
      /\ Done(req[r], file, pxyCfgs, running, overtaken)

Types == Plain /\ Requests

Inv == Types /\ Tokens /\ Cleanly

-----------------------------------------------------------------------------
(* Requests. *)

LEMMA NoReqOK ==
    /\ ReqOK(NoReq) /\ NoReq \in Request /\ NoReq.kind = "none" /\ NoReq.stage = "free"
    /\ NoReq.tab = NoTab /\ NoReq.clean = FALSE
  BY FrpcAdminAssumption DEF NoReq, ReqOK, Request

LEMMA FetchOK ==
    ASSUME NEW kind \in {"getconfig", "status", "put"}, NEW tab \in Tab
    PROVE  /\ ReqOK(Fetch(kind, tab)) /\ Fetch(kind, tab) \in Request
           /\ Fetch(kind, tab).kind = kind /\ Fetch(kind, tab).stage = "sent"
           /\ Fetch(kind, tab).tab = tab /\ Fetch(kind, tab).clean = FALSE
  BY FrpcAdminAssumption DEF Fetch, NoReq, ReqOK, Request

LEMMA AnswerOK ==
    ASSUME NEW q \in Request, q.kind # "none"
    PROVE  /\ ReqOK(Answer(q)) /\ Answer(q) \in Request
           /\ q.tab = NoTab => Answer(q) = NoReq
           /\ q.tab # NoTab =>
                /\ Answer(q).kind = q.kind /\ Answer(q).stage = "answered"
                /\ Answer(q).text = q.text /\ Answer(q).clean = q.clean
                /\ Answer(q).tab = q.tab
  <1>1. CASE q.tab = NoTab
    BY <1>1, NoReqOK DEF Answer
  <1>2. CASE q.tab # NoTab
    <2> DEFINE a == [q EXCEPT !.stage = "answered", !.token = FALSE, !.parsed = Empty]
    <2>1. Answer(q) = a
      BY <1>2 DEF Answer
    <2>2. a \in Request /\ q.tab \in Tab
      BY <1>2, FrpcAdminAssumption DEF Request
    <2>3. /\ a.kind = q.kind /\ a.stage = "answered" /\ a.text = q.text
          /\ a.clean = q.clean /\ a.tab = q.tab
      BY DEF Request
    <2> HIDE DEF a
    <2>4. ReqOK(a)
      BY <2>2, <2>3 DEF ReqOK
    <2> QED  BY <1>2, <2>1, <2>2, <2>3, <2>4
  <1> QED  BY <1>1, <1>2

(* Changes of history, of the tab and of what the tab shows keep a request.*)
LEMMA TouchOK ==
    ASSUME NEW q, ReqOK(q), NEW m \in BOOLEAN, NEW c \in BOOLEAN
    PROVE  /\ [q EXCEPT !.mounted = m] \in Request
           /\ [q EXCEPT !.clean = c] \in Request
           /\ q.tab \in Tab => ReqOK([q EXCEPT !.mounted = m])
           /\ q.kind # "none" => ReqOK([q EXCEPT !.clean = c])
           /\ ReqOK([q EXCEPT !.clean = FALSE])
  <1>1. q \in Request
    BY DEF ReqOK
  <1>2. [q EXCEPT !.mounted = m] \in Request /\ [q EXCEPT !.clean = c] \in Request
    BY <1>1 DEF Request
  <1>3. q.tab \in Tab => ReqOK([q EXCEPT !.mounted = m])
    <2> SUFFICES ASSUME q.tab \in Tab PROVE ReqOK([q EXCEPT !.mounted = m])
      OBVIOUS
    <2>1. q.kind # "none"
      BY FrpcAdminAssumption, NoReqOK DEF ReqOK
    <2> QED  BY <1>1, <1>2, <2>1 DEF ReqOK, Request
  <1>4. ASSUME NEW b \in BOOLEAN, q.kind # "none" PROVE ReqOK([q EXCEPT !.clean = b])
    <2>1. [q EXCEPT !.clean = b] \in Request
      BY <1>1 DEF Request
    <2> QED  BY <1>1, <2>1, <1>4 DEF ReqOK, Request
  <1>5. q.kind = "none" => [q EXCEPT !.clean = FALSE] = q
    BY <1>1 DEF ReqOK, NoReq, Request
  <1> QED  BY <1>2, <1>3, <1>4, <1>5

LEMMA RequestsOne ==
    ASSUME Requests, NEW r \in Slot, NEW q, ReqOK(q), req' = [req EXCEPT ![r] = q]
    PROVE  Requests'
  <1>1. req \in [Slot -> Request] /\ q \in Request
    BY DEF Requests, ReqOK
  <1>2. \A p \in Slot : ReqOK(req'[p])
    BY <1>1 DEF Requests
  <1>3. req' \in [Slot -> Request]
    BY <1>1
  <1> QED  BY <1>2, <1>3 DEF Requests

LEMMA RequestsAll ==
    ASSUME req' = [q \in Slot |-> req'[q]], \A q \in Slot : ReqOK(req'[q])
    PROVE  Requests'
  BY DEF Requests, ReqOK

-----------------------------------------------------------------------------
(* Types. *)

LEMMA InitTypes == Init => Types
  <1> SUFFICES ASSUME Init PROVE Types
    OBVIOUS
  <1>1. Plain
    BY FrpcAdminAssumption DEF Init, Plain, File, Page
  <1>2. Requests
    BY NoReqOK DEF Init, Requests
  <1> QED  BY <1>1, <1>2 DEF Types

LEMMA VisitRequests ==
    ASSUME Requests, NEW tab \in Tab, NEW p, NEW r \in Slot, Visit(tab, p, r)
    PROVE  Requests'
  <1>1. req' = [q \in Slot |->
                 IF q = r
                 THEN Fetch(IF p = "/" THEN "status" ELSE "getconfig", tab)
                 ELSE IF req[q].tab = tab THEN [req[q] EXCEPT !.mounted = FALSE]
                 ELSE req[q]]
    BY DEF Visit
  <1>2. ASSUME NEW q \in Slot PROVE ReqOK(req'[q])
    <2>1. ReqOK(req[q])
      BY DEF Requests
    <2>2. CASE q = r
      BY <1>1, <2>2, FetchOK
    <2>3. CASE q # r /\ req[q].tab = tab
      BY <1>1, <2>1, <2>3, TouchOK
    <2>4. CASE q # r /\ req[q].tab # tab
      BY <1>1, <2>1, <2>4
    <2> QED  BY <2>2, <2>3, <2>4
  <1> QED  BY <1>1, <1>2, RequestsAll

(* The request of an upload. *)
Put(tab, t, c) == [Fetch("put", tab) EXCEPT !.text = t, !.mounted = FALSE, !.clean = c]

LEMMA PutOK ==
    ASSUME NEW tab \in Tab, NEW t \in Text, NEW c \in BOOLEAN
    PROVE  /\ Put(tab, t, c) \in Request /\ ReqOK(Put(tab, t, c))
           /\ Put(tab, t, c).kind = "put" /\ Put(tab, t, c).stage = "sent"
           /\ Put(tab, t, c).text = t /\ Put(tab, t, c).clean = c
  <1>1. Fetch("put", tab) \in Request /\ Fetch("put", tab).kind = "put"
          /\ Fetch("put", tab).stage = "sent"
    BY FetchOK
  <1>2. Put(tab, t, c) \in Request
    BY <1>1 DEF Put, Request
  <1>3. Put(tab, t, c).kind = "put" /\ Put(tab, t, c).stage = "sent" /\ Put(tab, t, c).text = t
    BY <1>1 DEF Put, Request
  <1>4. Put(tab, t, c).clean = c
    BY <1>1, Zenon DEF Put, Request
  <1> QED  BY <1>2, <1>3, <1>4 DEF ReqOK

LEMMA ConfirmRequests ==
    ASSUME Types, NEW tab \in Tab, NEW r \in Slot, Confirm(tab, r)
    PROVE  Requests'
  <1> DEFINE new == Put(tab, textarea[tab], Uploads = {})
  <1>1. req' = [q \in Slot |-> IF q = r THEN new ELSE [req[q] EXCEPT !.clean = FALSE]]
    BY DEF Confirm, Put
  <1>2. textarea[tab] \in Text /\ (Uploads = {}) \in BOOLEAN
    BY DEF Types, Plain
  <1>3. ReqOK(new)
    BY <1>2, PutOK
  <1> HIDE DEF new
  <1>4. ASSUME NEW q \in Slot PROVE ReqOK(req'[q])
    <2>1. ReqOK(req[q])
      BY DEF Types, Requests
    <2>2. CASE q # r
      BY <1>1, <2>1, <2>2, TouchOK
    <2> QED  BY <1>1, <1>3, <2>2
  <1> QED  BY <1>1, <1>4, RequestsAll

LEMMA CrashRequests ==
    ASSUME Requests, Crash PROVE Requests'
  <1>1. req' = [r \in Slot |->
                 IF req[r].tab = NoTab THEN NoReq
                 ELSE IF req[r].stage = "answered"
                      THEN [req[r] EXCEPT !.clean = FALSE]
                      ELSE [req[r] EXCEPT !.stage = "lost", !.clean = FALSE,
                                          !.token = FALSE, !.parsed = Empty]]
    BY DEF Crash
  <1>2. ASSUME NEW r \in Slot PROVE ReqOK(req'[r])
    <2>1. ReqOK(req[r]) /\ req[r] \in Request
      BY DEF Requests
    <2>2. CASE req[r].tab = NoTab
      BY <1>1, <2>2, NoReqOK
    <2>3. CASE req[r].tab # NoTab /\ req[r].stage = "answered"
      BY <1>1, <2>1, <2>3, TouchOK
    <2>4. CASE req[r].tab # NoTab /\ req[r].stage # "answered"
      <3> DEFINE q == [req[r] EXCEPT !.stage = "lost", !.clean = FALSE,
                                     !.token = FALSE, !.parsed = Empty]
      <3>1. req[r].kind # "none" /\ req[r].tab \in Tab
        BY <2>1, <2>4, NoReqOK DEF ReqOK, Request
      <3>2. q \in Request /\ q.kind = req[r].kind /\ q.stage = "lost" /\ q.tab = req[r].tab
        BY <2>1, FrpcAdminAssumption DEF Request
      <3>3. req'[r] = q
        BY <1>1, <2>4
      <3> HIDE DEF q
      <3>4. ReqOK(q)
        BY <3>1, <3>2 DEF ReqOK
      <3> QED  BY <3>3, <3>4
    <2> QED  BY <2>2, <2>3, <2>4
  <1> QED  BY <1>1, <1>2, RequestsAll

(* The body of an answer. *)
LEMMA BodyOK ==
    ASSUME NEW q \in Request, NEW t \in Text
    PROVE  /\ [q EXCEPT !.text = t] \in Request
           /\ [q EXCEPT !.text = t].kind = q.kind /\ [q EXCEPT !.text = t].tab = q.tab
           /\ [q EXCEPT !.text = t].clean = q.clean
  BY DEF Request

LEMMA HandleRequests ==
    ASSUME Types, NEW r \in Slot, Handle(r) PROVE Requests'
  <1>0. /\ Requests /\ req[r] \in Request /\ ReqOK(req[r])
        /\ file.text \in Text /\ file.token \in BOOLEAN /\ running \in Text
    BY FrpcAdminAssumption DEF Types, Requests, Plain, File
  <1>1. CASE ApiStatus(r)
    <2>1. req' = [req EXCEPT ![r] = Answer([req[r] EXCEPT !.text = running])]
      BY <1>1 DEF ApiStatus
    <2>2. [req[r] EXCEPT !.text = running] \in Request
      BY <1>0, BodyOK
    <2>3. [req[r] EXCEPT !.text = running].kind # "none"
      BY <1>0, <1>1, BodyOK DEF ApiStatus
    <2> QED  BY <1>0, <2>1, <2>2, <2>3, AnswerOK, RequestsOne
  <1>2. CASE ApiGetConfig(r)
    <2>1. PICK t \in Text : req' = [req EXCEPT ![r] = Answer([req[r] EXCEPT !.text = t])]
      BY <1>0, <1>2, FrpcAdminAssumption DEF ApiGetConfig
    <2>2. [req[r] EXCEPT !.text = t] \in Request
      BY <1>0, BodyOK
    <2>3. [req[r] EXCEPT !.text = t].kind # "none"
      BY <1>0, <1>2, BodyOK DEF ApiGetConfig
    <2> QED  BY <1>0, <2>1, <2>2, <2>3, AnswerOK, RequestsOne
  <1>3. CASE PutRead(r)
    <2> DEFINE q == [req[r] EXCEPT !.stage = "read", !.token = file.token]
    <2>1. req' = [req EXCEPT ![r] = q] /\ req[r].kind = "put"
      BY <1>0, <1>3 DEF PutRead, Requests
    <2>2. q \in Request /\ q.kind = "put" /\ q.stage = "read"
      BY <1>0, <2>1 DEF Request
    <2> HIDE DEF q
    <2>3. ReqOK(q)
      BY <2>2 DEF ReqOK
    <2> QED  BY <1>0, <2>1, <2>3, RequestsOne
  <1>4. CASE PutTruncate(r)
    <2> DEFINE q == [req[r] EXCEPT !.stage = "torn"]
    <2>1. req' = [req EXCEPT ![r] = q] /\ req[r].kind = "put"
      BY <1>0, <1>4 DEF PutTruncate, ReqOK
    <2>2. q \in Request /\ q.kind = "put" /\ q.stage = "torn"
      BY <1>0, <2>1 DEF Request
    <2> HIDE DEF q
    <2>3. ReqOK(q)
      BY <2>2 DEF ReqOK
    <2> QED  BY <1>0, <2>1, <2>3, RequestsOne
  <1>5. CASE PutWrite(r)
    <2>1. req' = [req EXCEPT ![r] = Answer(req[r])] /\ req[r].kind = "put"
      BY <1>0, <1>5 DEF PutWrite, ReqOK
    <2> QED  BY <1>0, <2>1, AnswerOK, RequestsOne
  <1>6. CASE PutFails(r)
    <2> DEFINE q == [req[r] EXCEPT !.clean = FALSE]
    <2>1. req' = [req EXCEPT ![r] = Answer(q)] /\ req[r].kind = "put"
      BY <1>6 DEF PutFails
    <2>2. q \in Request /\ q.kind # "none"
      BY <1>0, <2>1 DEF Request
    <2> HIDE DEF q
    <2> QED  BY <1>0, <2>1, <2>2, AnswerOK, RequestsOne
  <1>7. CASE ReloadParse(r)
    <2> DEFINE q == [req[r] EXCEPT !.stage = "parsed", !.parsed = Rendered[file.text]]
    <2>1. req[r].kind = "reload"
      BY <1>7 DEF ReloadParse
    <2>2. CASE Parses(file.text)
      <3>1. req' = [req EXCEPT ![r] = q]
        BY <1>7, <2>2 DEF ReloadParse
      <3>2. Rendered[file.text] \in Valid /\ Rendered[file.text] \in Text
        BY <1>0, <2>2, FrpcAdminAssumption DEF Parses
      <3>3. q \in Request /\ q.kind = "reload" /\ q.stage = "parsed" /\ q.parsed \in Valid
        BY <1>0, <2>1, <3>2 DEF Request
      <3> HIDE DEF q
      <3>4. ReqOK(q)
        BY <3>3 DEF ReqOK
      <3> QED  BY <1>0, <3>1, <3>4, RequestsOne
    <2>3. CASE ~Parses(file.text)
      <3>1. req' = [req EXCEPT ![r] = Answer(req[r])]
        BY <1>7, <2>3 DEF ReloadParse
      <3> QED  BY <1>0, <2>1, <3>1, AnswerOK, RequestsOne
    <2> QED  BY <2>2, <2>3
  <1>8. CASE ReloadStore(r)
    <2> DEFINE q == [req[r] EXCEPT !.stage = "stored"]
    <2>1. /\ req' = [req EXCEPT ![r] = q]
          /\ req[r].kind = "reload" /\ req[r].parsed \in Valid
      BY <1>0, <1>8 DEF ReloadStore, ReqOK
    <2>2. q \in Request /\ q.kind = "reload" /\ q.stage = "stored" /\ q.parsed \in Valid
      BY <1>0, <2>1 DEF Request
    <2> HIDE DEF q
    <2>3. ReqOK(q)
      BY <2>2 DEF ReqOK
    <2> QED  BY <1>0, <2>1, <2>3, RequestsOne
  <1>9. CASE ReloadApply(r)
    <2>1. req' = [req EXCEPT ![r] = Answer(req[r])] /\ req[r].kind = "reload"
      BY <1>0, <1>9 DEF ReloadApply, ReqOK
    <2> QED  BY <1>0, <2>1, AnswerOK, RequestsOne
  <1> QED  BY <1>1, <1>2, <1>3, <1>4, <1>5, <1>6, <1>7, <1>8, <1>9 DEF Handle

LEMMA ReceiveRequests ==
    ASSUME Types, NEW r \in Slot, Receive(r) \/ Reject(r) PROVE Requests'
  <1>0. Requests /\ req[r] \in Request /\ ReqOK(req[r])
    BY DEF Types, Requests
  <1>1. CASE req' = [req EXCEPT ![r] = NoReq]
    BY <1>0, <1>1, NoReqOK, RequestsOne
  <1>2. CASE GotPut(r)
    <2> DEFINE q == [req[r] EXCEPT !.kind = "reload", !.stage = "sent"]
    <2>1. req' = [req EXCEPT ![r] = q]
      BY <1>0, <1>2 DEF GotPut, Requests
    <2>2. q \in Request /\ q.kind = "reload" /\ q.stage = "sent"
      BY <1>0 DEF Request
    <2> HIDE DEF q
    <2>3. ReqOK(q)
      BY <2>2 DEF ReqOK
    <2> QED  BY <1>0, <2>1, <2>3, RequestsOne
  <1>3. CASE /\ Upload(req[r]) /\ req[r].stage \in {"sent", "read", "torn", "parsed", "stored"}
             /\ req' = [req EXCEPT ![r].tab = NoTab, ![r].clean = FALSE]
    <2> DEFINE q == [req[r] EXCEPT !.tab = NoTab, !.clean = FALSE]
    <2>1. req' = [req EXCEPT ![r] = q]
      BY <1>0, <1>3 DEF Requests
    <2>2. q \in Request /\ q.kind = req[r].kind /\ q.stage = req[r].stage /\ q.parsed = req[r].parsed
      BY <1>0 DEF Request
    <2> HIDE DEF q
    <2>3. ReqOK(q)
      BY <1>0, <1>3, <2>2 DEF ReqOK, Upload
    <2> QED  BY <1>0, <2>1, <2>3, RequestsOne
  <1> QED
    BY <1>1, <1>2, <1>3 DEF Receive, Reject, GotStatus, GotConfig, GotReload, Upload

LEMMA UserTypes ==
    ASSUME Types, NEW tab \in Tab, User(tab) PROVE Types'
  <1> Plain /\ Requests
    BY DEF Types
  <1>1. ASSUME NEW p \in Page, NEW r \in Slot, Visit(tab, p, r) PROVE Types'
    <2>1. Plain'
      BY <1>1, FrpcAdminAssumption DEF Visit, Plain
    <2> QED  BY <1>1, <2>1, VisitRequests DEF Types
  <1>2. ASSUME NEW r \in Slot, Refresh(tab, r) PROVE Types'
    <2>1. Plain' /\ req' = [req EXCEPT ![r] = Fetch("getconfig", tab)]
      BY <1>2 DEF Refresh, Plain
    <2> QED  BY <2>1, FetchOK, RequestsOne DEF Types
  <1>3. CASE (\E t \in Typed : Edit(tab, t)) \/ UploadConfig(tab) \/ Cancel(tab) \/ ConfirmEmpty(tab)
    <2>1. req' = req
      BY <1>3 DEF Edit, UploadConfig, Cancel, ConfirmEmpty
    <2>2. Plain'
      BY <1>3, FrpcAdminAssumption DEF Plain, Edit, UploadConfig, Cancel, ConfirmEmpty
    <2> QED  BY <2>1, <2>2 DEF Types, Requests
  <1>4. ASSUME NEW r \in Slot, Confirm(tab, r) PROVE Types'
    <2>1. UNCHANGED <<file, cfgVars, up, page, textarea, status>>
          /\ dialog' = [dialog EXCEPT ![tab] = FALSE]
      BY <1>4 DEF Confirm
    <2>2. hurt' \in BOOLEAN
      <3>1. hurt' = (hurt \/ textarea[tab] \notin HasCommon
                          \/ \E q \in Uploads : req[q].kind = "put")
        BY <1>4 DEF Confirm
      <3> QED  BY <3>1
    <2>3. Plain'
      BY <2>1, <2>2 DEF Plain
    <2> QED  BY <1>4, <2>3, ConfirmRequests DEF Types
  <1> QED  BY <1>1, <1>2, <1>3, <1>4 DEF User

LEMMA HandlePlain ==
    ASSUME Types, NEW r \in Slot, Handle(r) PROVE Plain'
  <1> Plain /\ req[r] \in Request /\ ReqOK(req[r])
    BY DEF Types, Requests
  <1>1. UNCHANGED <<up, page, textarea, status, dialog>>
    BY DEF Handle, ApiStatus, ApiGetConfig, PutRead, PutTruncate, PutWrite, PutFails,
           ReloadParse, ReloadStore, ReloadApply
  <1>2. hurt' \in BOOLEAN
    <2>1. hurt' = hurt \/ hurt' = (hurt \/ req[r].stage = "torn")
      BY DEF Handle, ApiStatus, ApiGetConfig, PutRead, PutTruncate, PutWrite, PutFails,
             ReloadParse, ReloadStore, ReloadApply
    <2> QED  BY <2>1 DEF Plain
  <1>3. pxyCfgs' \in Valid /\ running' \in Valid
    <2>1. /\ \/ pxyCfgs' = pxyCfgs
             \/ pxyCfgs' = req[r].parsed /\ req[r].stage = "parsed"
          /\ \/ running' = running
             \/ running' = req[r].parsed /\ req[r].stage = "stored"
      BY DEF Handle, ApiStatus, ApiGetConfig, PutRead, PutTruncate, PutWrite, PutFails,
             ReloadParse, ReloadStore, ReloadApply
    <2> QED  BY <2>1 DEF Plain, ReqOK
  <1>4. file' \in File
    <2>1. \/ file' = file \/ file' = [text |-> Empty, token |-> FALSE]
          \/ file' = NewContent(req[r]) \/ file' = [file EXCEPT !.text = Garbled]
      BY DEF Handle, ApiStatus, ApiGetConfig, PutRead, PutTruncate, PutWrite, PutFails,
             ReloadParse, ReloadStore, ReloadApply
    <2>2. NewContent(req[r]) \in File
      <3>1. (req[r].token /\ req[r].text \in HasCommon) \in BOOLEAN /\ req[r].text \in Text
        BY DEF Request
      <3> QED  BY <3>1 DEF NewContent, File
    <2>3. [text |-> Empty, token |-> FALSE] \in File /\ [file EXCEPT !.text = Garbled] \in File
      BY FrpcAdminAssumption DEF File, Plain
    <2> QED  BY <2>1, <2>2, <2>3 DEF Plain
  <1>5. fresh' = fresh /\ (overtaken' = overtaken \/ overtaken' = FALSE)
    BY DEF Handle, ApiStatus, ApiGetConfig, PutRead, PutTruncate, PutWrite, PutFails,
           ReloadParse, ReloadStore, ReloadApply
  <1> QED  BY <1>1, <1>2, <1>3, <1>4, <1>5 DEF Plain

LEMMA ReceivePlain ==
    ASSUME Types, NEW r \in Slot, Receive(r) \/ Reject(r) PROVE Plain'
  <1> Plain /\ req[r] \in Request /\ ReqOK(req[r])
    BY DEF Types, Requests
  <1>1. UNCHANGED <<file, cfgVars, up, page, dialog, hurt>>
    BY DEF Receive, Reject, GotStatus, GotConfig, GotPut, GotReload
  <1>2. req[r].stage = "answered" => req[r].tab \in Tab /\ req[r].text \in Text
    BY DEF ReqOK, Request
  <1>3. \/ textarea' = textarea
        \/ req[r].stage = "answered" /\ textarea' = [textarea EXCEPT ![req[r].tab] = req[r].text]
    BY DEF Receive, Reject, GotStatus, GotConfig, GotPut, GotReload
  <1>4. \/ status' = status
        \/ req[r].stage = "answered" /\ status' = [status EXCEPT ![req[r].tab] = RowsOf[req[r].text]]
    BY DEF Receive, Reject, GotStatus, GotConfig, GotPut, GotReload
  <1>5. textarea' \in [Tab -> Text]
    BY <1>2, <1>3 DEF Plain
  <1>6. status' \in [Tab -> SUBSET Row]
    BY <1>2, <1>4, FrpcAdminAssumption DEF Plain
  <1> QED  BY <1>1, <1>5, <1>6 DEF Plain

LEMMA StepTypes ==
    ASSUME Types, [Next]_vars PROVE Types'
  <1> Plain /\ Requests
    BY DEF Types
  <1>1. ASSUME NEW tab \in Tab, User(tab) PROVE Types'
    BY <1>1, UserTypes
  <1>2. ASSUME NEW r \in Slot, Handle(r) PROVE Types'
    BY <1>2, HandleRequests, HandlePlain DEF Types
  <1>3. ASSUME NEW r \in Slot, Receive(r) \/ Reject(r) PROVE Types'
    BY <1>3, ReceiveRequests, ReceivePlain DEF Types
  <1>4. CASE Crash
    <2>1. hurt' \in BOOLEAN
      <3>1. hurt' = (hurt \/ Torn # {})
        BY <1>4 DEF Crash
      <3> QED  BY <3>1
    <2>2. UNCHANGED <<file, pxyCfgs, running, overtaken, page, textarea, status, dialog>>
          /\ fresh' = {} /\ up' = FALSE
      BY <1>4 DEF Crash
    <2>3. Plain'
      BY <2>1, <2>2 DEF Plain
    <2> QED  BY <1>4, <2>3, CrashRequests DEF Types
  <1>5. CASE Start
    <2>1. Plain'
      BY <1>5 DEF Start, Plain, Parses
    <2> QED  BY <1>5, <2>1 DEF Start, Types, Requests
  <1>6. CASE KeeperLogin \/ KeeperStore
    <2>1. UNCHANGED <<file, pxyCfgs, up, page, textarea, status, dialog, req, hurt>>
      BY <1>6 DEF KeeperLogin, KeeperStore
    <2>2. fresh' \subseteq Valid /\ running' \in Valid /\ overtaken' \in BOOLEAN
      BY <1>6 DEF KeeperLogin, KeeperStore, Plain
    <2> QED  BY <2>1, <2>2 DEF Types, Plain, Requests
  <1>7. CASE UNCHANGED vars
    BY <1>7 DEF vars, Types, Plain, Requests
  <1> QED  BY <1>1, <1>2, <1>3, <1>4, <1>5, <1>6, <1>7 DEF Next

-----------------------------------------------------------------------------
(* The file and the uploads. *)

(* p is q, but for its tab, and perhaps not clean any more. *)
Fades(p, q) ==
    /\ p.kind = q.kind /\ p.stage = q.stage /\ p.text = q.text
    /\ p.parsed = q.parsed /\ p.token = q.token
    /\ p.clean => q.clean

Idle(p) == ~Upload(p) /\ ~p.clean

(* Steps that touch neither the file nor an upload's progress. *)
QuietStep ==
    /\ UNCHANGED <<file, pxyCfgs, running, overtaken, up, hurt>>
    /\ \A r \in Slot : \/ Fades(req'[r], req[r])
                       \/ Idle(req'[r]) /\ req[r].stage # "torn"

LEMMA Quiet ==
    ASSUME Inv, Requests', QuietStep
    PROVE  Tokens' /\ Cleanly'
  <1> UNCHANGED <<file, pxyCfgs, running, overtaken, up, hurt>>
    BY DEF QuietStep
  <1>1. \A r \in Slot : ReqOK(req'[r])
    BY DEF Requests
  <1>2. \A r \in Slot : /\ Upload(req'[r]) => Fades(req'[r], req[r])
                        /\ req'[r].clean => Fades(req'[r], req[r])
                        /\ req[r].stage = "torn" => req'[r].stage = "torn"
                        /\ req'[r].stage = "torn" => Fades(req'[r], req[r])
    BY <1>1 DEF QuietStep, Idle, Fades, Upload, ReqOK
  <1>3. Tokens'
    <2> SUFFICES ASSUME ~hurt'
                 PROVE  /\ \A p, r \in Slot : (req'[p].kind = "put" /\ req'[r].kind = "put") => p = r
                        /\ \A r \in Slot : req'[r].kind = "put" =>
                             /\ req'[r].text \in HasCommon
                             /\ req'[r].stage \in {"read", "torn"} => req'[r].token
                             /\ req'[r].stage = "torn" => file'.text = Empty
                        /\ (\A r \in Slot : req'[r].stage # "torn")
                             => file'.token /\ file'.text \in HasCommon
      BY DEF Tokens
    <2>1. /\ \A p, r \in Slot : (req[p].kind = "put" /\ req[r].kind = "put") => p = r
          /\ \A r \in Slot : req[r].kind = "put" =>
               /\ req[r].text \in HasCommon
               /\ req[r].stage \in {"read", "torn"} => req[r].token
               /\ req[r].stage = "torn" => file.text = Empty
          /\ (\A r \in Slot : req[r].stage # "torn") => file.token /\ file.text \in HasCommon
      BY DEF Inv, Tokens
    <2>2. \A r \in Slot : req'[r].kind = "put" => Fades(req'[r], req[r])
      BY <1>2 DEF Upload
    <2> QED  BY <1>2, <2>1, <2>2 DEF Fades
  <1>4. Cleanly'
    <2> SUFFICES ASSUME NEW r \in Slot, req'[r].clean
                 PROVE  /\ Upload(req'[r]) /\ req'[r].stage # "lost"
                        /\ \A p \in Slot : Upload(req'[p]) => p = r
                        /\ up' \/ (req'[r].kind = "put" /\ req'[r].stage = "sent")
                        /\ Done(req'[r], file', pxyCfgs', running', overtaken')
      BY DEF Cleanly
    <2>1. Fades(req'[r], req[r]) /\ req[r].clean
      BY <1>2 DEF Fades
    <2>2. /\ Upload(req[r]) /\ req[r].stage # "lost"
          /\ \A p \in Slot : Upload(req[p]) => p = r
          /\ up \/ (req[r].kind = "put" /\ req[r].stage = "sent")
          /\ Done(req[r], file, pxyCfgs, running, overtaken)
      BY <2>1 DEF Inv, Cleanly
    <2>3. \A p \in Slot : Upload(req'[p]) => Upload(req[p])
      BY <1>2 DEF Fades, Upload
    <2>4. Done(req'[r], file', pxyCfgs', running', overtaken')
      BY <2>1, <2>2 DEF Fades, Done
    <2> QED  BY <2>1, <2>2, <2>3, <2>4 DEF Fades, Upload
  <1> QED  BY <1>3, <1>4

(* A step of an upload, seen from the uploads that are alone. *)
LEMMA CleanlyOne ==
    ASSUME Inv, NEW r \in Slot, NEW q, Upload(req[r]), req' = [req EXCEPT ![r] = q],
           up' = up,
           q.clean => /\ req[r].clean /\ Upload(q) /\ q.stage # "lost" /\ up
                      /\ Done(q, file', pxyCfgs', running', overtaken')
    PROVE  Cleanly'
  <1> SUFFICES ASSUME NEW p \in Slot, req'[p].clean
               PROVE  /\ Upload(req'[p]) /\ req'[p].stage # "lost"
                      /\ \A o \in Slot : Upload(req'[o]) => o = p
                      /\ up' \/ (req'[p].kind = "put" /\ req'[p].stage = "sent")
                      /\ Done(req'[p], file', pxyCfgs', running', overtaken')
    BY DEF Cleanly
  <1>1. req \in [Slot -> Request]
    BY DEF Inv, Types, Requests
  <1>2. \A o \in Slot : o # r => req'[o] = req[o]
    BY <1>1
  <1>3. req'[r] = q
    BY <1>1
  <1>4. p = r
    BY <1>2 DEF Inv, Cleanly
  <1>5. \A o \in Slot : Upload(req[o]) => o = p
    BY <1>3, <1>4 DEF Inv, Cleanly
  <1> QED  BY <1>2, <1>3, <1>4, <1>5

(* A step of the only PUT. *)
LEMMA TokensPut ==
    ASSUME Inv, NEW r \in Slot, NEW q, req[r].kind = "put", req' = [req EXCEPT ![r] = q],
           hurt => hurt',
           ~hurt' => /\ q.kind = "put" =>
                          /\ q.text \in HasCommon
                          /\ q.stage \in {"read", "torn"} => q.token
                          /\ q.stage = "torn" => file'.text = Empty
                     /\ q.stage # "torn" => file'.token /\ file'.text \in HasCommon
    PROVE  Tokens'
  <1> SUFFICES ASSUME ~hurt'
               PROVE  /\ \A p, o \in Slot : (req'[p].kind = "put" /\ req'[o].kind = "put") => p = o
                      /\ \A p \in Slot : req'[p].kind = "put" =>
                           /\ req'[p].text \in HasCommon
                           /\ req'[p].stage \in {"read", "torn"} => req'[p].token
                           /\ req'[p].stage = "torn" => file'.text = Empty
                      /\ (\A p \in Slot : req'[p].stage # "torn")
                           => file'.token /\ file'.text \in HasCommon
    BY DEF Tokens
  <1>1. req \in [Slot -> Request]
    BY DEF Inv, Types, Requests
  <1>2. \A o \in Slot : o # r => req'[o] = req[o]
    BY <1>1
  <1>3. req'[r] = q
    BY <1>1
  <1>4. \A o \in Slot : req[o].kind = "put" => o = r
    BY DEF Inv, Tokens
  <1> QED  BY <1>2, <1>3, <1>4

(* A step that ends a request, or makes a reload of it. *)
LEMMA TokensKeep ==
    ASSUME Inv, NEW r \in Slot, NEW q, req[r].stage # "torn", q.kind # "put", q.stage # "torn",
           req' = [req EXCEPT ![r] = q], UNCHANGED <<file, hurt>>
    PROVE  Tokens'
  <1>1. req \in [Slot -> Request]
    BY DEF Inv, Types, Requests
  <1>2. \A o \in Slot : o # r => req'[o] = req[o]
    BY <1>1
  <1>3. req'[r] = q
    BY <1>1
  <1>4. (\A o \in Slot : req'[o].stage # "torn") => (\A o \in Slot : req[o].stage # "torn")
    BY <1>2
  <1> QED  BY <1>2, <1>3, <1>4 DEF Inv, Tokens

(* While the only PUT has not truncated the file, the file is whole. *)
LEMMA Whole ==
    ASSUME Inv, ~hurt, NEW r \in Slot, req[r].kind = "put", req[r].stage # "torn"
    PROVE  file.token /\ file.text \in HasCommon
  <1>1. \A o \in Slot : req[o].stage = "torn" => req[o].kind = "put"
    BY DEF Inv, Types, Requests, ReqOK
  <1>2. \A o \in Slot : req[o].stage # "torn"
    BY <1>1 DEF Inv, Tokens
  <1> QED  BY <1>2 DEF Inv, Tokens

LEMMA PutReadInv ==
    ASSUME Inv, NEW r \in Slot, PutRead(r) PROVE Tokens' /\ Cleanly'
  <1> DEFINE q == [req[r] EXCEPT !.stage = "read", !.token = file.token]
  <1>1. /\ req[r] \in Request /\ req[r].kind = "put" /\ req[r].stage = "sent" /\ up
        /\ req' = [req EXCEPT ![r] = q] /\ UNCHANGED <<file, pxyCfgs, running, overtaken, up, hurt>>
    BY DEF Inv, Types, Requests, PutRead
  <1>2. file.token \in BOOLEAN
    BY DEF Inv, Types, Plain, File
  <1>3. /\ q.kind = "put" /\ q.stage = "read" /\ q.text = req[r].text /\ q.token = file.token
        /\ q.clean = req[r].clean
    BY <1>1, <1>2 DEF Request
  <1> HIDE DEF q
  <1>4. ~hurt => file.token /\ file.text \in HasCommon /\ req[r].text \in HasCommon
    BY <1>1, Whole DEF Inv, Tokens
  <1>5. Tokens'
    BY <1>1, <1>3, <1>4, TokensPut
  <1>6. Done(q, file', pxyCfgs', running', overtaken')
    BY <1>3 DEF Done
  <1>7. Upload(req[r]) /\ Upload(q)
    BY <1>1, <1>3 DEF Upload
  <1>8. Cleanly'
    BY <1>1, <1>3, <1>6, <1>7, CleanlyOne
  <1> QED  BY <1>5, <1>8

LEMMA PutTruncateInv ==
    ASSUME Inv, NEW r \in Slot, PutTruncate(r) PROVE Tokens' /\ Cleanly'
  <1> DEFINE q == [req[r] EXCEPT !.stage = "torn"]
  <1>1. /\ req[r] \in Request /\ ReqOK(req[r]) /\ req[r].stage = "read" /\ up
        /\ req' = [req EXCEPT ![r] = q] /\ UNCHANGED <<pxyCfgs, running, overtaken, up, hurt>>
        /\ file' = [text |-> Empty, token |-> FALSE]
    BY DEF Inv, Types, Requests, PutTruncate
  <1>2. req[r].kind = "put" /\ file'.text = Empty
    BY <1>1 DEF ReqOK
  <1>3. /\ q.kind = "put" /\ q.stage = "torn" /\ q.text = req[r].text
        /\ q.token = req[r].token /\ q.clean = req[r].clean
    BY <1>1, <1>2 DEF Request
  <1> HIDE DEF q
  <1>4. ~hurt => req[r].token /\ req[r].text \in HasCommon
    BY <1>1, <1>2 DEF Inv, Tokens
  <1>5. Tokens'
    BY <1>1, <1>2, <1>3, <1>4, TokensPut
  <1>6. Done(q, file', pxyCfgs', running', overtaken')
    BY <1>2, <1>3 DEF Done
  <1>7. Upload(req[r]) /\ Upload(q)
    BY <1>2, <1>3 DEF Upload
  <1>8. Cleanly'
    BY <1>1, <1>3, <1>6, <1>7, CleanlyOne
  <1> QED  BY <1>5, <1>8

LEMMA PutWriteInv ==
    ASSUME Inv, NEW r \in Slot, PutWrite(r) PROVE Tokens' /\ Cleanly'
  <1> DEFINE q == Answer(req[r])
  <1>1. /\ req[r] \in Request /\ ReqOK(req[r]) /\ req[r].stage = "torn" /\ up
        /\ req' = [req EXCEPT ![r] = q] /\ UNCHANGED <<pxyCfgs, running, overtaken, up, hurt>>
        /\ \/ file' = NewContent(req[r])
           \/ file.text # Empty /\ file' = [file EXCEPT !.text = Garbled]
    BY DEF Inv, Types, Requests, PutWrite
  <1>2. req[r].kind = "put"
    BY <1>1 DEF ReqOK
  <1>3. \/ q = NoReq
        \/ /\ q.kind = "put" /\ q.stage = "answered" /\ q.text = req[r].text
           /\ q.clean = req[r].clean
    BY <1>1, <1>2, AnswerOK
  <1> HIDE DEF q
  <1>4. (~hurt \/ req[r].clean) => file' = NewContent(req[r])
    <2>1. (~hurt \/ req[r].clean) => file.text = Empty
      BY <1>1, <1>2 DEF Inv, Tokens, Cleanly, Done
    <2> QED  BY <1>1, <2>1
  <1>5. ~hurt => req[r].token /\ req[r].text \in HasCommon
    BY <1>1, <1>2 DEF Inv, Tokens
  <1>6. ~hurt => file'.token /\ file'.text \in HasCommon
    <2>1. ~hurt => file' = [text |-> req[r].text, token |-> TRUE]
      <3>1. ~hurt => (req[r].token /\ req[r].text \in HasCommon) = TRUE
        BY <1>5
      <3> QED  BY <1>4, <3>1 DEF NewContent
    <2> QED  BY <1>5, <2>1
  <1>7. Tokens'
    BY <1>1, <1>2, <1>3, <1>5, <1>6, NoReqOK, TokensPut
  <1>8. q.clean => /\ req[r].clean /\ Upload(q) /\ q.stage # "lost" /\ up
                   /\ Done(q, file', pxyCfgs', running', overtaken')
    <2> SUFFICES ASSUME q.clean
                 PROVE  /\ req[r].clean /\ Upload(q) /\ q.stage # "lost" /\ up
                        /\ Done(q, file', pxyCfgs', running', overtaken')
      OBVIOUS
    <2>1. /\ q.kind = "put" /\ q.stage = "answered" /\ q.text = req[r].text /\ req[r].clean
      BY <1>3, NoReqOK
    <2>2. file'.text = req[r].text
      BY <1>4, <2>1 DEF NewContent
    <2> QED  BY <1>1, <2>1, <2>2 DEF Done, Upload
  <1>9. Upload(req[r])
    BY <1>2 DEF Upload
  <1>10. Cleanly'
    BY <1>1, <1>8, <1>9, CleanlyOne
  <1> QED  BY <1>7, <1>10

LEMMA PutFailsInv ==
    ASSUME Inv, NEW r \in Slot, PutFails(r) PROVE Tokens' /\ Cleanly'
  <1> DEFINE q0 == [req[r] EXCEPT !.clean = FALSE]
             q == Answer(q0)
  <1>1. /\ req[r] \in Request /\ req[r].kind = "put" /\ up
        /\ req' = [req EXCEPT ![r] = q] /\ UNCHANGED <<file, pxyCfgs, running, overtaken, up>>
        /\ hurt' = (hurt \/ req[r].stage = "torn")
    BY DEF Inv, Types, Requests, PutFails
  <1>2. q0 \in Request /\ q0.kind = "put" /\ q0.clean = FALSE /\ q0.text = req[r].text
    BY <1>1 DEF Request
  <1> HIDE DEF q0
  <1>3. /\ ~q.clean
        /\ \/ q = NoReq
           \/ q.kind = "put" /\ q.stage = "answered" /\ q.text = req[r].text
    BY <1>2, AnswerOK, NoReqOK
  <1> HIDE DEF q
  <1>4. ~hurt' => file.token /\ file.text \in HasCommon /\ req[r].text \in HasCommon
    BY <1>1, Whole DEF Inv, Tokens
  <1>5. Tokens'
    BY <1>1, <1>3, <1>4, NoReqOK, TokensPut
  <1>6. Upload(req[r])
    BY <1>1 DEF Upload
  <1>7. Cleanly'
    BY <1>1, <1>3, <1>6, CleanlyOne
  <1> QED  BY <1>5, <1>7

LEMMA ReloadParseInv ==
    ASSUME Inv, NEW r \in Slot, ReloadParse(r) PROVE Tokens' /\ Cleanly'
  <1>1. /\ req[r] \in Request /\ req[r].kind = "reload" /\ req[r].stage = "sent" /\ up
        /\ UNCHANGED <<file, pxyCfgs, running, overtaken, up, hurt>> /\ file.text \in Text
    BY DEF Inv, Types, Requests, Plain, File, ReloadParse
  <1>2. req[r].clean => file.text = req[r].text
    BY <1>1 DEF Inv, Cleanly, Done
  <1>3. CASE Parses(file.text)
    <2> DEFINE q == [req[r] EXCEPT !.stage = "parsed", !.parsed = Rendered[file.text]]
    <2>1. req' = [req EXCEPT ![r] = q]
      BY <1>3 DEF ReloadParse
    <2>2. /\ q.kind = "reload" /\ q.stage = "parsed" /\ q.text = req[r].text
          /\ q.parsed = Rendered[file.text] /\ q.clean = req[r].clean
      BY <1>1 DEF Request
    <2> HIDE DEF q
    <2>3. Tokens'
      BY <1>1, <2>1, <2>2, TokensKeep
    <2>4. q.clean => Done(q, file', pxyCfgs', running', overtaken')
      BY <1>1, <1>2, <2>2 DEF Done
    <2>5. Upload(req[r]) /\ Upload(q)
      BY <1>1, <2>2 DEF Upload
    <2> QED  BY <1>1, <2>1, <2>2, <2>3, <2>4, <2>5, CleanlyOne
  <1>4. CASE ~Parses(file.text)
    <2> DEFINE q == Answer(req[r])
    <2>1. req' = [req EXCEPT ![r] = q]
      BY <1>4 DEF ReloadParse
    <2>2. \/ q = NoReq
          \/ /\ q.kind = "reload" /\ q.stage = "answered" /\ q.text = req[r].text
             /\ q.clean = req[r].clean
      BY <1>1, AnswerOK
    <2> HIDE DEF q
    <2>3. Tokens'
      BY <1>1, <2>1, <2>2, NoReqOK, TokensKeep
    <2>4. q.clean => req[r].clean /\ Upload(q) /\ q.stage # "lost" /\ Done(q, file', pxyCfgs', running', overtaken')
      BY <1>1, <1>2, <1>4, <2>2, NoReqOK DEF Done, Upload
    <2>5. Upload(req[r])
      BY <1>1 DEF Upload
    <2> QED  BY <1>1, <2>1, <2>3, <2>4, <2>5, CleanlyOne
  <1> QED  BY <1>3, <1>4

LEMMA ReloadStoreInv ==
    ASSUME Inv, NEW r \in Slot, ReloadStore(r) PROVE Tokens' /\ Cleanly'
  <1> DEFINE q == [req[r] EXCEPT !.stage = "stored"]
  <1>1. /\ req[r] \in Request /\ ReqOK(req[r]) /\ req[r].stage = "parsed" /\ up
        /\ UNCHANGED <<file, up, hurt>> /\ pxyCfgs' = req[r].parsed
        /\ req' = [req EXCEPT ![r] = q]
    BY DEF Inv, Types, Requests, ReloadStore
  <1>2. req[r].kind = "reload"
    BY <1>1 DEF ReqOK
  <1>3. /\ q.kind = "reload" /\ q.stage = "stored" /\ q.text = req[r].text
        /\ q.parsed = req[r].parsed /\ q.clean = req[r].clean
    BY <1>1, <1>2 DEF Request
  <1> HIDE DEF q
  <1>4. Tokens'
    BY <1>1, <1>2, <1>3, TokensKeep
  <1>5. req[r].clean => file.text = req[r].text /\ req[r].parsed = Rendered[req[r].text]
    BY <1>1, <1>2 DEF Inv, Cleanly, Done
  <1>6. q.clean => Done(q, file', pxyCfgs', running', overtaken')
    BY <1>1, <1>3, <1>5 DEF Done
  <1>7. Upload(req[r]) /\ Upload(q)
    BY <1>2, <1>3 DEF Upload
  <1> QED  BY <1>1, <1>3, <1>4, <1>6, <1>7, CleanlyOne

LEMMA ReloadApplyInv ==
    ASSUME Inv, NEW r \in Slot, ReloadApply(r) PROVE Tokens' /\ Cleanly'
  <1> DEFINE q == Answer(req[r])
  <1>1. /\ req[r] \in Request /\ ReqOK(req[r]) /\ req[r].stage = "stored" /\ up
        /\ UNCHANGED <<file, pxyCfgs, up, hurt>> /\ running' = req[r].parsed
        /\ req' = [req EXCEPT ![r] = q]
    BY DEF Inv, Types, Requests, ReloadApply
  <1>2. req[r].kind = "reload"
    BY <1>1 DEF ReqOK
  <1>3. \/ q = NoReq
        \/ /\ q.kind = "reload" /\ q.stage = "answered" /\ q.text = req[r].text
           /\ q.clean = req[r].clean
    BY <1>1, <1>2, AnswerOK
  <1> HIDE DEF q
  <1>4. Tokens'
    BY <1>1, <1>2, <1>3, NoReqOK, TokensKeep
  <1>5. req[r].clean => /\ file.text = req[r].text
                        /\ req[r].parsed = Rendered[req[r].text] /\ pxyCfgs = req[r].parsed
    BY <1>1, <1>2 DEF Inv, Cleanly, Done
  <1>6. q.clean => req[r].clean /\ Upload(q) /\ q.stage # "lost" /\ Done(q, file', pxyCfgs', running', overtaken')
    BY <1>1, <1>3, <1>5, NoReqOK DEF Done, Upload
  <1>7. Upload(req[r])
    BY <1>2 DEF Upload
  <1> QED  BY <1>1, <1>4, <1>6, <1>7, CleanlyOne

LEMMA GotPutInv ==
    ASSUME Inv, NEW r \in Slot, GotPut(r) PROVE Tokens' /\ Cleanly'
  <1> DEFINE q == [req[r] EXCEPT !.kind = "reload", !.stage = "sent"]
  <1>1. /\ req[r] \in Request /\ req[r].kind = "put" /\ req[r].stage = "answered"
        /\ req' = [req EXCEPT ![r] = q] /\ UNCHANGED <<file, pxyCfgs, running, overtaken, up, hurt>>
    BY DEF Inv, Types, Requests, GotPut
  <1>2. /\ q.kind = "reload" /\ q.stage = "sent" /\ q.text = req[r].text
        /\ q.clean = req[r].clean
    BY <1>1 DEF Request
  <1> HIDE DEF q
  <1>3. Tokens'
    BY <1>1, <1>2, TokensKeep
  <1>4. req[r].clean => file.text = req[r].text /\ up
    BY <1>1 DEF Inv, Cleanly, Done
  <1>5. q.clean => Done(q, file', pxyCfgs', running', overtaken')
    BY <1>1, <1>2, <1>4 DEF Done
  <1>6. Upload(req[r]) /\ Upload(q)
    BY <1>1, <1>2 DEF Upload
  <1> QED  BY <1>1, <1>2, <1>3, <1>4, <1>5, <1>6, CleanlyOne

LEMMA ConfirmInv ==
    ASSUME Inv, Requests', NEW tab \in Tab, NEW r \in Slot, Confirm(tab, r)
    PROVE  Tokens' /\ Cleanly'
  <1> DEFINE c == Uploads = {}
             new == Put(tab, textarea[tab], c)
  <1>1. /\ req' = [q \in Slot |-> IF q = r THEN new ELSE [req[q] EXCEPT !.clean = FALSE]]
        /\ req[r].kind = "none" /\ UNCHANGED <<file, pxyCfgs, running, overtaken, up>>
        /\ hurt' = (hurt \/ textarea[tab] \notin HasCommon
                         \/ \E q \in Uploads : req[q].kind = "put")
    BY DEF Confirm, Put, Fresh
  <1>2. textarea[tab] \in Text /\ c \in BOOLEAN
    BY DEF Inv, Types, Plain
  <1> HIDE DEF c
  <1>3. /\ new.kind = "put" /\ new.stage = "sent" /\ new.text = textarea[tab]
        /\ new.clean = c
    BY <1>2, PutOK
  <1> HIDE DEF new
  <1>4. req'[r] = new
    BY <1>1
  <1>5. \A q \in Slot : q # r => /\ req'[q].kind = req[q].kind /\ req'[q].stage = req[q].stage
                                /\ req'[q].text = req[q].text /\ req'[q].token = req[q].token
                                /\ ~req'[q].clean
    <2> SUFFICES ASSUME NEW q \in Slot, q # r
                 PROVE  /\ req'[q].kind = req[q].kind /\ req'[q].stage = req[q].stage
                        /\ req'[q].text = req[q].text /\ req'[q].token = req[q].token
                        /\ ~req'[q].clean
      OBVIOUS
    <2>1. req'[q] = [req[q] EXCEPT !.clean = FALSE] /\ req[q] \in Request
      BY <1>1 DEF Inv, Types, Requests
    <2> QED  BY <2>1 DEF Request
  <1>6. Tokens'
    <2> SUFFICES ASSUME ~hurt'
                 PROVE  /\ \A p, o \in Slot : (req'[p].kind = "put" /\ req'[o].kind = "put") => p = o
                        /\ \A p \in Slot : req'[p].kind = "put" =>
                             /\ req'[p].text \in HasCommon
                             /\ req'[p].stage \in {"read", "torn"} => req'[p].token
                             /\ req'[p].stage = "torn" => file'.text = Empty
                        /\ (\A p \in Slot : req'[p].stage # "torn")
                             => file'.token /\ file'.text \in HasCommon
      BY DEF Tokens
    <2>1. ~hurt /\ textarea[tab] \in HasCommon /\ \A q \in Slot : req[q].kind # "put"
      BY <1>1 DEF Uploads
    <2>2. \A p \in Slot : req'[p].kind = "put" => p = r
      BY <1>5, <2>1
    <2>3. (\A p \in Slot : req[p].stage # "torn") => file.token /\ file.text \in HasCommon
      BY <2>1 DEF Inv, Tokens
    <2>4. req[r].stage # "torn"
      BY <1>1 DEF Inv, Types, Requests, ReqOK
    <2>5. (\A p \in Slot : req'[p].stage # "torn") => file'.token /\ file'.text \in HasCommon
      BY <1>1, <1>5, <2>3, <2>4
    <2> QED  BY <1>3, <1>4, <2>1, <2>2, <2>5
  <1>7. Cleanly'
    <2> SUFFICES ASSUME NEW p \in Slot, req'[p].clean
                 PROVE  /\ Upload(req'[p]) /\ req'[p].stage # "lost"
                        /\ \A o \in Slot : Upload(req'[o]) => o = p
                        /\ up' \/ (req'[p].kind = "put" /\ req'[p].stage = "sent")
                        /\ Done(req'[p], file', pxyCfgs', running', overtaken')
      BY DEF Cleanly
    <2>1. p = r
      BY <1>5
    <2>2. Uploads = {}
      BY <1>3, <1>4, <2>1 DEF c
    <2>3. \A o \in Slot : o # r => ~Upload(req'[o])
      BY <1>5, <2>2 DEF Uploads, Upload
    <2>4. Done(new, file', pxyCfgs', running', overtaken') /\ Upload(new)
      BY <1>3 DEF Done, Upload
    <2> QED  BY <1>3, <1>4, <2>1, <2>3, <2>4
  <1> QED  BY <1>6, <1>7

LEMMA CrashInv ==
    ASSUME Inv, Crash PROVE Tokens' /\ Cleanly'
  <1>1. /\ req' = [r \in Slot |->
                 IF req[r].tab = NoTab THEN NoReq
                 ELSE IF req[r].stage = "answered"
                      THEN [req[r] EXCEPT !.clean = FALSE]
                      ELSE [req[r] EXCEPT !.stage = "lost", !.clean = FALSE,
                                          !.token = FALSE, !.parsed = Empty]]
        /\ hurt' = (hurt \/ Torn # {}) /\ file' = file
    BY DEF Crash
  <1>2. ASSUME NEW r \in Slot
        PROVE  /\ ~req'[r].clean /\ req'[r].stage \in {"free", "answered", "lost"}
               /\ req'[r].kind = "put" => req[r].kind = "put" /\ req'[r].text = req[r].text
    <2>1. req[r] \in Request
      BY DEF Inv, Types, Requests
    <2>2. CASE req[r].tab = NoTab
      BY <1>1, <2>2, NoReqOK
    <2>3. CASE req[r].tab # NoTab /\ req[r].stage = "answered"
      <3>1. req'[r] = [req[r] EXCEPT !.clean = FALSE]
        BY <1>1, <2>3
      <3> QED  BY <2>1, <2>3, <3>1 DEF Request
    <2>4. CASE req[r].tab # NoTab /\ req[r].stage # "answered"
      <3>1. req'[r] = [req[r] EXCEPT !.stage = "lost", !.clean = FALSE,
                                     !.token = FALSE, !.parsed = Empty]
        BY <1>1, <2>4
      <3> QED  BY <2>1, <3>1 DEF Request
    <2> QED  BY <2>2, <2>3, <2>4
  <1>3. Tokens'
    <2> SUFFICES ASSUME ~hurt'
                 PROVE  /\ \A p, o \in Slot : (req'[p].kind = "put" /\ req'[o].kind = "put") => p = o
                        /\ \A p \in Slot : req'[p].kind = "put" =>
                             /\ req'[p].text \in HasCommon
                             /\ req'[p].stage \in {"read", "torn"} => req'[p].token
                             /\ req'[p].stage = "torn" => file'.text = Empty
                        /\ (\A p \in Slot : req'[p].stage # "torn")
                             => file'.token /\ file'.text \in HasCommon
      BY DEF Tokens
    <2>1. ~hurt /\ \A r \in Slot : req[r].stage # "torn"
      BY <1>1 DEF Torn
    <2>2. /\ \A p, o \in Slot : (req[p].kind = "put" /\ req[o].kind = "put") => p = o
          /\ \A p \in Slot : req[p].kind = "put" => req[p].text \in HasCommon
          /\ file.token /\ file.text \in HasCommon
      BY <2>1 DEF Inv, Tokens
    <2> QED  BY <1>1, <1>2, <2>2
  <1>4. Cleanly'
    BY <1>2 DEF Cleanly
  <1> QED  BY <1>3, <1>4

LEMMA StartInv ==
    ASSUME Inv, Start PROVE Tokens' /\ Cleanly'
  <1>1. ~up /\ UNCHANGED <<file, req, hurt>>
    BY DEF Start
  <1>2. Tokens'
    BY <1>1 DEF Inv, Tokens
  <1>3. \A r \in Slot : req[r].clean =>
           /\ req[r].kind = "put" /\ req[r].stage = "sent"
           /\ \A p \in Slot : Upload(req[p]) => p = r
    BY <1>1 DEF Inv, Cleanly
  <1>4. Cleanly'
    BY <1>1, <1>3 DEF Cleanly, Done, Upload
  <1> QED  BY <1>2, <1>4

(* Replacing a request that is not truncating the file by one that is no   *)
(* upload, or fading it, is quiet.                                         *)
LEMMA QuietOne ==
    ASSUME Inv, Requests', UNCHANGED <<file, pxyCfgs, running, overtaken, up, hurt>>,
           NEW r \in Slot, NEW q, req' = [req EXCEPT ![r] = q],
           Fades(q, req[r]) \/ (Idle(q) /\ req[r].stage # "torn")
    PROVE  Tokens' /\ Cleanly'
  <1>1. req \in [Slot -> Request]
    BY DEF Inv, Types, Requests
  <1>2. \A p \in Slot : req'[p] = IF p = r THEN q ELSE req[p]
    BY <1>1
  <1>3. \A p \in Slot : Fades(req[p], req[p])
    BY DEF Fades
  <1>4. \A p \in Slot : \/ Fades(req'[p], req[p])
                        \/ Idle(req'[p]) /\ req[p].stage # "torn"
    BY <1>2, <1>3
  <1>5. QuietStep
    BY <1>4 DEF QuietStep
  <1> QED  BY <1>5, Quiet

LEMMA NoReqIdle == Idle(NoReq)
  BY NoReqOK DEF Idle, Upload

LEMMA UserInv ==
    ASSUME Inv, Requests', NEW tab \in Tab, User(tab) PROVE Tokens' /\ Cleanly'
  <1>0. \A p \in Slot : Fades(req[p], req[p]) /\ ReqOK(req[p]) /\ req[p] \in Request
    BY DEF Fades, Inv, Types, Requests
  <1>1. ASSUME NEW p \in Page, NEW r \in Slot, Visit(tab, p, r) PROVE Tokens' /\ Cleanly'
    <2>1. /\ req' = [q \in Slot |->
                     IF q = r
                     THEN Fetch(IF p = "/" THEN "status" ELSE "getconfig", tab)
                     ELSE IF req[q].tab = tab THEN [req[q] EXCEPT !.mounted = FALSE]
                     ELSE req[q]]
          /\ req[r].kind = "none" /\ UNCHANGED <<file, pxyCfgs, running, overtaken, up, hurt>>
      BY <1>1 DEF Visit, Fresh
    <2>2. Idle(req'[r]) /\ req[r].stage # "torn"
      <3>1. req'[r] = Fetch("status", tab) \/ req'[r] = Fetch("getconfig", tab)
        BY <2>1
      <3>2. Idle(Fetch("status", tab)) /\ Idle(Fetch("getconfig", tab))
        BY FetchOK DEF Idle, Upload
      <3>3. req[r].stage # "torn"
        BY <1>0, <2>1 DEF ReqOK
      <3> QED  BY <3>1, <3>2, <3>3
    <2>3. ASSUME NEW q \in Slot, q # r PROVE Fades(req'[q], req[q])
      <3>1. CASE req[q].tab = tab
        <4>1. req'[q] = [req[q] EXCEPT !.mounted = FALSE] /\ req[q] \in Request
          BY <1>0, <2>1, <2>3, <3>1
        <4> QED  BY <4>1 DEF Fades, Request
      <3>2. CASE req[q].tab # tab
        BY <1>0, <2>1, <2>3, <3>2
      <3> QED  BY <3>1, <3>2
    <2>4. QuietStep
      BY <2>1, <2>2, <2>3 DEF QuietStep
    <2> QED  BY <2>4, Quiet
  <1>2. ASSUME NEW r \in Slot, Refresh(tab, r) PROVE Tokens' /\ Cleanly'
    <2>1. /\ req' = [req EXCEPT ![r] = Fetch("getconfig", tab)] /\ req[r].kind = "none"
          /\ UNCHANGED <<file, pxyCfgs, running, overtaken, up, hurt>>
      BY <1>2 DEF Refresh, Fresh
    <2>2. Idle(Fetch("getconfig", tab)) /\ req[r].stage # "torn"
      BY <1>0, <2>1, FetchOK DEF Idle, Upload, ReqOK
    <2> QED  BY <2>1, <2>2, QuietOne
  <1>3. CASE (\E t \in Typed : Edit(tab, t)) \/ UploadConfig(tab) \/ Cancel(tab) \/ ConfirmEmpty(tab)
    <2>1. UNCHANGED <<req, file, pxyCfgs, running, overtaken, up, hurt>>
      BY <1>3 DEF Edit, UploadConfig, Cancel, ConfirmEmpty
    <2>2. QuietStep
      BY <1>0, <2>1 DEF QuietStep
    <2> QED  BY <2>2, Quiet
  <1>4. ASSUME NEW r \in Slot, Confirm(tab, r) PROVE Tokens' /\ Cleanly'
    BY <1>4, ConfirmInv
  <1> QED  BY <1>1, <1>2, <1>3, <1>4 DEF User

LEMMA HandleInv ==
    ASSUME Inv, Requests', NEW r \in Slot, Handle(r) PROVE Tokens' /\ Cleanly'
  <1>0. ReqOK(req[r]) /\ req[r] \in Request /\ file.text \in Text /\ running \in Text
    BY FrpcAdminAssumption DEF Inv, Types, Requests, Plain, File
  <1>1. CASE ApiStatus(r) \/ ApiGetConfig(r)
    <2>1. PICK t \in Text : req' = [req EXCEPT ![r] = Answer([req[r] EXCEPT !.text = t])]
      BY <1>0, <1>1, FrpcAdminAssumption DEF ApiStatus, ApiGetConfig
    <2>2. /\ UNCHANGED <<file, pxyCfgs, running, overtaken, up, hurt>> /\ req[r].stage = "sent"
          /\ req[r].kind \in {"status", "getconfig"}
      BY <1>1 DEF ApiStatus, ApiGetConfig
    <2> DEFINE q == [req[r] EXCEPT !.text = t]
    <2>3. q \in Request /\ q.kind = req[r].kind /\ q.clean = req[r].clean
      BY <1>0, BodyOK
    <2>4. ~req[r].clean
      BY <2>2 DEF Inv, Cleanly, Upload
    <2> HIDE DEF q
    <2>5. Answer(q) = NoReq \/ (Answer(q).kind = req[r].kind /\ ~Answer(q).clean)
      BY <2>2, <2>3, <2>4, AnswerOK
    <2>6. Idle(Answer(q))
      BY <2>2, <2>5, NoReqIdle DEF Idle, Upload
    <2> QED  BY <2>1, <2>2, <2>6, QuietOne DEF q
  <1> QED
    BY <1>1, PutReadInv, PutTruncateInv, PutWriteInv, PutFailsInv, ReloadParseInv,
       ReloadStoreInv, ReloadApplyInv DEF Handle

LEMMA ReceiveInv ==
    ASSUME Inv, Requests', NEW r \in Slot, Receive(r) \/ Reject(r) PROVE Tokens' /\ Cleanly'
  <1>0. ReqOK(req[r]) /\ req \in [Slot -> Request] /\ req[r] \in Request
    BY DEF Inv, Types, Requests
  <1>1. CASE GotStatus(r) \/ GotConfig(r) \/ GotReload(r)
    <2>1. /\ req' = [req EXCEPT ![r] = NoReq] /\ req[r].stage # "torn"
          /\ UNCHANGED <<file, pxyCfgs, running, overtaken, up, hurt>>
      BY <1>1 DEF GotStatus, GotConfig, GotReload
    <2> QED  BY <2>1, NoReqIdle, QuietOne
  <1>2. CASE GotPut(r)
    BY <1>2, GotPutInv
  <1>3. CASE Reject(r)
    <2>1. UNCHANGED <<file, pxyCfgs, running, overtaken, up, hurt>>
      BY <1>3 DEF Reject
    <2>2. CASE req' = [req EXCEPT ![r] = NoReq] /\ req[r].stage \in {"sent", "answered", "lost"}
      BY <2>1, <2>2, NoReqIdle, QuietOne
    <2>3. CASE req' = [req EXCEPT ![r].tab = NoTab, ![r].clean = FALSE]
      <3> DEFINE q == [req[r] EXCEPT !.tab = NoTab, !.clean = FALSE]
      <3>1. req' = [req EXCEPT ![r] = q]
        BY <1>0, <2>3
      <3>2. Fades(q, req[r])
        BY <1>0 DEF Fades, Request
      <3> HIDE DEF q
      <3> QED  BY <2>1, <3>1, <3>2, QuietOne
    <2> QED  BY <1>3, <2>2, <2>3 DEF Reject
  <1> QED  BY <1>1, <1>2, <1>3 DEF Receive

(* keepControllerWorking beside an upload: a control that is stored serves *)
(* what the configuration was when it was made.                            *)
LEMMA KeeperInv ==
    ASSUME Inv, Requests', KeeperLogin \/ KeeperStore PROVE Tokens' /\ Cleanly'
  <1>0. \A p \in Slot : Fades(req[p], req[p])
    BY DEF Fades
  <1>1. CASE KeeperLogin
    <2>1. UNCHANGED <<req, file, pxyCfgs, running, overtaken, up, hurt>>
      BY <1>1 DEF KeeperLogin
    <2>2. QuietStep
      BY <1>0, <2>1 DEF QuietStep
    <2> QED  BY <2>2, Quiet
  <1>2. CASE KeeperStore
    <2>1. UNCHANGED <<req, file, pxyCfgs, up, hurt>> /\ (overtaken' \/ running' = pxyCfgs)
      BY <1>2 DEF KeeperStore
    <2>2. Tokens'
      BY <2>1 DEF Inv, Tokens
    <2>3. ASSUME NEW p \in Slot, Done(req[p], file, pxyCfgs, running, overtaken)
          PROVE  Done(req'[p], file', pxyCfgs', running', overtaken')
      BY <2>1, <2>3 DEF Done
    <2>4. Cleanly'
      BY <2>1, <2>3 DEF Inv, Cleanly
    <2> QED  BY <2>2, <2>4
  <1> QED  BY <1>1, <1>2

LEMMA StepInv ==
    ASSUME Inv, [Next]_vars PROVE Inv'
  <1>1. Types' /\ Requests'
    BY StepTypes DEF Inv, Types
  <1>2. ASSUME NEW tab \in Tab, User(tab) PROVE Tokens' /\ Cleanly'
    BY <1>1, <1>2, UserInv
  <1>3. ASSUME NEW r \in Slot, Handle(r) PROVE Tokens' /\ Cleanly'
    BY <1>1, <1>3, HandleInv
  <1>4. ASSUME NEW r \in Slot, Receive(r) \/ Reject(r) PROVE Tokens' /\ Cleanly'
    BY <1>1, <1>4, ReceiveInv
  <1>5. CASE UNCHANGED vars
    <2>1. UNCHANGED <<file, pxyCfgs, running, overtaken, up, req, hurt>>
      BY <1>5 DEF vars
    <2>2. \A p \in Slot : Fades(req[p], req[p])
      BY DEF Fades
    <2>3. QuietStep
      BY <2>1, <2>2 DEF QuietStep
    <2> QED  BY <1>1, <2>3, Quiet DEF Inv
  <1>6. (Tokens' /\ Cleanly') \/ UNCHANGED vars
    <2>1. CASE KeeperLogin \/ KeeperStore \/ Crash \/ Start
      BY <1>1, <2>1, KeeperInv, CrashInv, StartInv
    <2> QED  BY <1>2, <1>3, <1>4, <2>1 DEF Next
  <1> QED  BY <1>1, <1>5, <1>6 DEF Inv

LEMMA InvAlways == Spec => []Inv
  <1>1. Init => Inv
    <2> SUFFICES ASSUME Init PROVE Inv
      OBVIOUS
    <2>1. /\ req = [r \in Slot |-> NoReq] /\ file = [text |-> Original, token |-> TRUE]
      BY DEF Init
    <2>2. Tokens
      BY <2>1, NoReqOK, FrpcAdminAssumption DEF Tokens
    <2>3. Cleanly
      BY <2>1, NoReqOK DEF Cleanly
    <2> QED  BY <2>2, <2>3, InitTypes DEF Inv
  <1>2. Inv /\ [Next]_vars => Inv'
    BY StepInv
  <1> QED  BY <1>1, <1>2, PTL DEF Spec

-----------------------------------------------------------------------------
(* The variables of page and admin API keep their types; a handler runs    *)
(* only for a request of its kind, and an answer is for a tab.             *)
THEOREM TypeCorrect == Spec => []TypeOK
  <1>1. Inv => TypeOK
    BY DEF Inv, Types, Plain, Requests, ReqOK, TypeOK
  <1> QED  BY <1>1, InvAlways, PTL

(* apiPutConfig never loses the token or the [common] section, unless an   *)
(* upload has none, runs beside another PUT or is cut off while it writes. *)
THEOREM FileIntactAlways == Spec => []FileIntact
  <1>1. Inv => FileIntact
    BY DEF Inv, Tokens, FileIntact, Torn
  <1> QED  BY <1>1, InvAlways, PTL

(* uploadConfig of ClientConfigure.vue: a success that is shown for an     *)
(* upload which was alone, and whose text parses, says what the file holds *)
(* and what every control to come serves, and what the present one serves  *)
(* unless keepControllerWorking was making it meanwhile.                   *)
THEOREM SuccessMeansAppliedHolds == Spec => SuccessMeansApplied
  <1> DEFINE Act == \A r \in Slot :
         (GotReload(r) /\ req[r].clean /\ Parses(req[r].text))
           => /\ file.text = req[r].text
              /\ pxyCfgs = Rendered[req[r].text]
              /\ running = Rendered[req[r].text] \/ overtaken
  <1>1. Inv /\ [Next]_vars => [Act]_vars
    <2> SUFFICES ASSUME Inv, NEW r \in Slot, GotReload(r), req[r].clean, Parses(req[r].text)
                 PROVE  /\ file.text = req[r].text
                        /\ pxyCfgs = Rendered[req[r].text]
                        /\ running = Rendered[req[r].text] \/ overtaken
      OBVIOUS
    <2>1. Done(req[r], file, pxyCfgs, running, overtaken)
      BY DEF Inv, Cleanly
    <2> QED  BY <2>1 DEF Done, GotReload
  <1> HIDE DEF Act
  <1>2. Spec => [][Act]_vars
    BY <1>1, InvAlways, PTL DEF Spec
  <1> QED  BY <1>2 DEF Act, SuccessMeansApplied

-----------------------------------------------------------------------------
(* How one step changes a request, whoever takes it: the slot is freed, or *)
(* taken, or the request stays where it is, loses its tab, goes on along   *)
(* Flow, has its PUT followed by its reload, or is lost with the client.   *)
Flow ==
    {<<"sent", "read">>, <<"read", "torn">>, <<"sent", "parsed">>, <<"sent", "answered">>,
     <<"read", "answered">>, <<"torn", "answered">>, <<"parsed", "stored">>,
     <<"stored", "answered">>}

Goes(q, p) == p.kind = q.kind /\ p.tab = q.tab /\ <<q.stage, p.stage>> \in Flow

Moves(q, p, alive, after) ==
    \/ p = NoReq
    \/ q.kind = "none" /\ p.stage = "sent" /\ p.tab \in Tab
    \/ /\ p.kind = q.kind /\ p.stage = q.stage /\ p.tab = q.tab
       /\ alive => after \/ q.stage = "answered"
    \/ p.kind = q.kind /\ p.stage = q.stage /\ alive /\ after
    \/ Goes(q, p) /\ alive /\ after
    \/ /\ q.kind = "put" /\ q.stage = "answered" /\ p.kind = "reload" /\ p.stage = "sent"
       /\ p.tab = q.tab /\ after = alive
    \/ p.kind = q.kind /\ p.tab = q.tab /\ p.stage = "lost" /\ ~after

(* A client that is down leaves no request without its tab and no handler. *)
Down ==
    ~up => \A r \in Slot : req[r].kind # "none" =>
             req[r].tab # NoTab /\ req[r].stage \in {"sent", "answered", "lost"}

LEMMA HandleGoes ==
    ASSUME Types, NEW r \in Slot, Handle(r)
    PROVE  /\ req'[r] = NoReq \/ Goes(req[r], req'[r])
           /\ up /\ up' /\ \A p \in Slot \ {r} : req'[p] = req[p]
  <1>0. /\ req \in [Slot -> Request] /\ req[r] \in Request /\ ReqOK(req[r])
        /\ file.text \in Text /\ file.token \in BOOLEAN /\ running \in Text
    BY FrpcAdminAssumption DEF Types, Requests, Plain, File
  <1>1. ASSUME NEW q \in Request, q.kind = req[r].kind, q.tab = req[r].tab,
               <<req[r].stage, "answered">> \in Flow, req' = [req EXCEPT ![r] = Answer(q)]
        PROVE  /\ req'[r] = NoReq \/ Goes(req[r], req'[r])
               /\ \A p \in Slot \ {r} : req'[p] = req[p]
    <2>1. req'[r] = Answer(q) /\ \A p \in Slot \ {r} : req'[p] = req[p]
      BY <1>0, <1>1
    <2>2. q.kind # "none"
      BY <1>0, <1>1 DEF ReqOK, Flow
    <2> QED  BY <1>1, <2>1, <2>2, AnswerOK DEF Goes
  <1>2. CASE ApiStatus(r) \/ ApiGetConfig(r)
    <2>1. PICK t \in Text : req' = [req EXCEPT ![r] = Answer([req[r] EXCEPT !.text = t])]
      BY <1>0, <1>2, FrpcAdminAssumption DEF ApiStatus, ApiGetConfig
    <2>2. <<req[r].stage, "answered">> \in Flow /\ up /\ up'
      BY <1>2 DEF ApiStatus, ApiGetConfig, Flow
    <2> QED  BY <1>0, <1>1, <2>1, <2>2, BodyOK
  <1>3. CASE PutRead(r)
    BY <1>0, <1>3 DEF PutRead, Goes, Flow, Request
  <1>4. CASE PutTruncate(r)
    BY <1>0, <1>4 DEF PutTruncate, Goes, Flow, Request
  <1>5. CASE PutWrite(r)
    BY <1>0, <1>1, <1>5 DEF PutWrite, Flow
  <1>6. CASE PutFails(r)
    <2> DEFINE q == [req[r] EXCEPT !.clean = FALSE]
    <2>1. q \in Request /\ q.kind = req[r].kind /\ q.tab = req[r].tab
      BY <1>0 DEF Request
    <2>2. req' = [req EXCEPT ![r] = Answer(q)] /\ up /\ up'
      BY <1>0, <1>6 DEF PutFails
    <2>3. <<req[r].stage, "answered">> \in Flow
      BY <1>6 DEF PutFails, Flow
    <2> HIDE DEF q
    <2> QED  BY <1>1, <2>1, <2>2, <2>3
  <1>7. CASE ReloadParse(r)
    <2>1. CASE Parses(file.text)
      <3> DEFINE q == [req[r] EXCEPT !.stage = "parsed", !.parsed = Rendered[file.text]]
      <3>1. req' = [req EXCEPT ![r] = q] /\ up /\ up' /\ req[r].stage = "sent"
        BY <1>7, <2>1 DEF ReloadParse
      <3>2. q.kind = req[r].kind /\ q.tab = req[r].tab /\ q.stage = "parsed"
        BY <1>0 DEF Request
      <3> HIDE DEF q
      <3> QED  BY <1>0, <3>1, <3>2 DEF Goes, Flow
    <2>2. CASE ~Parses(file.text)
      <3>1. req' = [req EXCEPT ![r] = Answer(req[r])] /\ up /\ up'
        BY <1>7, <2>2 DEF ReloadParse
      <3>2. <<req[r].stage, "answered">> \in Flow
        BY <1>7 DEF ReloadParse, Flow
      <3> QED  BY <1>0, <1>1, <3>1, <3>2
    <2> QED  BY <2>1, <2>2
  <1>8. CASE ReloadStore(r)
    BY <1>0, <1>8 DEF ReloadStore, Goes, Flow, Request
  <1>9. CASE ReloadApply(r)
    BY <1>0, <1>1, <1>9 DEF ReloadApply, Flow
  <1> QED
    BY <1>2, <1>3, <1>4, <1>5, <1>6, <1>7, <1>8, <1>9 DEF Handle

LEMMA ReceiveMoves ==
    ASSUME Types, NEW r \in Slot, Receive(r) \/ Reject(r)
    PROVE  /\ up' = up /\ Moves(req[r], req'[r], up, up')
           /\ \A p \in Slot \ {r} : req'[p] = req[p]
           /\ Receive(r) \/ ~up \/ req[r].stage = "lost" =>
                \/ req'[r] = NoReq
                \/ /\ req[r].kind = "put" /\ req[r].stage = "answered"
                   /\ req'[r].kind = "reload" /\ req'[r].stage = "sent"
  <1>0. req \in [Slot -> Request] /\ req[r] \in Request
    BY DEF Types, Requests
  <1>1. CASE GotStatus(r) \/ GotConfig(r) \/ GotReload(r)
    BY <1>0, <1>1 DEF GotStatus, GotConfig, GotReload, Moves
  <1>2. CASE GotPut(r)
    BY <1>0, <1>2 DEF GotPut, Moves, Request
  <1>3. CASE Reject(r)
    <2>1. CASE req' = [req EXCEPT ![r] = NoReq]
      BY <1>0, <1>3, <2>1 DEF Reject, Moves
    <2>2. CASE /\ up /\ req[r].stage \in {"sent", "read", "torn", "parsed", "stored"}
               /\ req' = [req EXCEPT ![r].tab = NoTab, ![r].clean = FALSE]
      <3>1. /\ req'[r].kind = req[r].kind /\ req'[r].stage = req[r].stage /\ up' = up
            /\ \A p \in Slot \ {r} : req'[p] = req[p]
        BY <1>0, <1>3, <2>2 DEF Reject, Request
      <3>2. ~Receive(r)
        BY <2>2 DEF Receive, GotStatus, GotConfig, GotPut, GotReload
      <3> QED  BY <2>2, <3>1, <3>2 DEF Moves
    <2> QED  BY <1>3, <2>1, <2>2 DEF Reject
  <1> QED  BY <1>1, <1>2, <1>3 DEF Receive

LEMMA UserMoves ==
    ASSUME Types, NEW tab \in Tab, User(tab), NEW p \in Slot
    PROVE  up' = up /\ Moves(req[p], req'[p], up, up')
  <1>0. req \in [Slot -> Request] /\ req[p] \in Request /\ ReqOK(req[p])
    BY DEF Types, Requests
  <1>1. ASSUME NEW q \in Page, NEW r \in Slot, Visit(tab, q, r)
        PROVE  up' = up /\ Moves(req[p], req'[p], up, up')
    <2>1. /\ up' = up /\ req[r].kind = "none"
          /\ p = r => req'[p] = Fetch(IF q = "/" THEN "status" ELSE "getconfig", tab)
          /\ p # r => req'[p] = req[p] \/ req'[p] = [req[p] EXCEPT !.mounted = FALSE]
      BY <1>1 DEF Visit, Fresh
    <2>2. CASE p = r
      <3>1. req'[p] = Fetch("status", tab) \/ req'[p] = Fetch("getconfig", tab)
        BY <2>1, <2>2
      <3>2. /\ Fetch("status", tab).stage = "sent" /\ Fetch("status", tab).tab = tab
            /\ Fetch("getconfig", tab).stage = "sent" /\ Fetch("getconfig", tab).tab = tab
        BY FetchOK
      <3> QED  BY <2>1, <2>2, <3>1, <3>2 DEF Moves
    <2>3. CASE p # r
      BY <1>0, <2>1, <2>3 DEF Moves, Request
    <2> QED  BY <2>2, <2>3
  <1>2. ASSUME NEW r \in Slot, Refresh(tab, r)
        PROVE  up' = up /\ Moves(req[p], req'[p], up, up')
    <2>1. /\ up' = up /\ req[r].kind = "none" /\ req' = [req EXCEPT ![r] = Fetch("getconfig", tab)]
      BY <1>2 DEF Refresh, Fresh
    <2>2. Fetch("getconfig", tab).stage = "sent" /\ Fetch("getconfig", tab).tab = tab
      BY FetchOK
    <2>3. CASE p = r
      BY <1>0, <2>1, <2>2, <2>3 DEF Moves
    <2>4. CASE p # r
      BY <1>0, <2>1, <2>4 DEF Moves
    <2> QED  BY <2>3, <2>4
  <1>3. ASSUME NEW r \in Slot, Confirm(tab, r)
        PROVE  up' = up /\ Moves(req[p], req'[p], up, up')
    <2> DEFINE new == Put(tab, textarea[tab], Uploads = {})
    <2>1. /\ up' = up /\ req[r].kind = "none"
          /\ p = r => req'[p] = new
          /\ p # r => req'[p] = [req[p] EXCEPT !.clean = FALSE]
      BY <1>3 DEF Confirm, Fresh, Put
    <2>2. textarea[tab] \in Text /\ (Uploads = {}) \in BOOLEAN
      BY DEF Types, Plain
    <2>3. new.stage = "sent"
      BY <2>2, PutOK, ZenonT(60)
    <2>4. new.tab = tab
      <3>1. Fetch("put", tab) \in Request /\ Fetch("put", tab).tab = tab
        BY FetchOK
      <3> QED  BY <3>1 DEF Put, Request
    <2> HIDE DEF new
    <2>5. CASE p = r
      BY <2>1, <2>3, <2>4, <2>5 DEF Moves
    <2>6. CASE p # r
      BY <1>0, <2>1, <2>6 DEF Moves, Request
    <2> QED  BY <2>5, <2>6
  <1>4. CASE UploadConfig(tab) \/ Cancel(tab) \/ ConfirmEmpty(tab) \/ \E t \in Typed : Edit(tab, t)
    BY <1>4 DEF UploadConfig, Cancel, ConfirmEmpty, Edit, Moves
  <1> QED  BY <1>1, <1>2, <1>3, <1>4 DEF User

LEMMA CrashMoves ==
    ASSUME Types, Crash, NEW p \in Slot
    PROVE  up /\ ~up' /\ Moves(req[p], req'[p], up, up')
  <1>0. req[p] \in Request /\ ReqOK(req[p])
    BY DEF Types, Requests
  <1>1. /\ up /\ ~up'
        /\ req'[p] = IF req[p].tab = NoTab THEN NoReq
                     ELSE IF req[p].stage = "answered"
                          THEN [req[p] EXCEPT !.clean = FALSE]
                          ELSE [req[p] EXCEPT !.stage = "lost", !.clean = FALSE,
                                              !.token = FALSE, !.parsed = Empty]
    BY DEF Crash
  <1>2. CASE req[p].tab = NoTab
    BY <1>1, <1>2 DEF Moves
  <1>3. CASE req[p].tab # NoTab /\ req[p].stage = "answered"
    BY <1>0, <1>1, <1>3 DEF Moves, Request
  <1>4. CASE req[p].tab # NoTab /\ req[p].stage # "answered"
    BY <1>0, <1>1, <1>4 DEF Moves, Request
  <1> QED  BY <1>1, <1>2, <1>3, <1>4

LEMMA StepMoves ==
    ASSUME Types, [Next]_vars, NEW p \in Slot
    PROVE  Moves(req[p], req'[p], up, up')
  <1>1. ASSUME NEW r \in Slot, Handle(r) PROVE Moves(req[p], req'[p], up, up')
    BY <1>1, HandleGoes DEF Moves
  <1>2. ASSUME NEW r \in Slot, Receive(r) \/ Reject(r) PROVE Moves(req[p], req'[p], up, up')
    BY <1>2, ReceiveMoves DEF Moves
  <1>3. CASE KeeperLogin \/ KeeperStore \/ Start \/ UNCHANGED vars
    BY <1>3 DEF KeeperLogin, KeeperStore, Start, vars, Moves
  <1> QED  BY <1>1, <1>2, <1>3, UserMoves, CrashMoves DEF Next

LEMMA DownAlways == Spec => []Down
  <1>1. Init => Down
    BY NoReqOK DEF Init, Down
  <1>2. Inv /\ Down /\ [Next]_vars => Down'
    <2> SUFFICES ASSUME Inv, Down, [Next]_vars, ~up', NEW p \in Slot, req'[p].kind # "none"
                 PROVE  req'[p].tab # NoTab /\ req'[p].stage \in {"sent", "answered", "lost"}
      BY DEF Down
    <2>1. ReqOK(req[p]) /\ req[p] \in Request /\ NoReq.kind = "none"
      BY NoReqOK DEF Inv, Types, Requests
    <2>2. Inv'
      BY StepInv
    <2>3. ReqOK(req'[p])
      BY <2>2 DEF Inv, Types, Requests
    <2>4. Moves(req[p], req'[p], up, up')
      BY StepMoves DEF Inv
    <2>5. up \/ (req[p].kind # "none" =>
                   req[p].tab # NoTab /\ req[p].stage \in {"sent", "answered", "lost"})
      BY DEF Down
    <2> QED
      BY <2>1, <2>3, <2>4, <2>5, FrpcAdminAssumption DEF Moves, ReqOK
  <1> QED  BY <1>1, <1>2, InvAlways, PTL DEF Spec

LEMMA UnderWayIsReady ==
    ASSUME Inv, Down, NEW r \in Slot, req[r].kind # "none" PROVE Ready(r)
  <1>1. req[r] \in Request /\ ReqOK(req[r]) /\ up \in BOOLEAN
    BY DEF Inv, Types, Requests, Plain
  <1>2. req[r].stage \in {"sent", "read", "torn", "parsed", "stored", "answered", "lost"}
    BY <1>1 DEF ReqOK, Request
  <1>3. req[r].stage \in {"answered", "lost"} => req[r].tab # NoTab
    BY <1>1, FrpcAdminAssumption DEF ReqOK
  <1> QED  BY <1>1, <1>2, <1>3 DEF Down, Ready

-----------------------------------------------------------------------------
(* The steps an upload has before it at most. *)
Left(q) ==
    IF ~Upload(q) THEN 0
    ELSE IF q.stage = "lost" THEN 1
    ELSE IF q.kind = "reload"
         THEN IF q.stage = "answered" THEN 2
              ELSE IF q.stage = "stored" THEN 3
              ELSE IF q.stage = "parsed" THEN 4
              ELSE 5
    ELSE IF q.stage = "answered" THEN 6
    ELSE IF q.stage = "torn" THEN 7
    ELSE IF q.stage = "read" THEN 8
    ELSE 9

LEMMA LeftRange ==
    ASSUME NEW q, ReqOK(q)
    PROVE  Left(q) \in 0..9 /\ (Left(q) = 0 <=> ~Upload(q))
  BY DEF Left

LEMMA GoesOn ==
    ASSUME NEW q, ReqOK(q), Upload(q), NEW p, ReqOK(p), Goes(q, p)
    PROVE  Left(p) < Left(q)
  BY DEF ReqOK, Upload, Goes, Flow, Left

(* No step of anybody takes an upload back. *)
LEMMA StepLeft ==
    ASSUME Inv, [Next]_vars, NEW r \in Slot, Upload(req[r])
    PROVE  Left(req'[r]) <= Left(req[r])
  <1>1. Inv'
    BY StepInv
  <1>2. ReqOK(req[r]) /\ ReqOK(req'[r])
    BY <1>1 DEF Inv, Types, Requests
  <1>3. Moves(req[r], req'[r], up, up')
    BY StepMoves DEF Inv
  <1>4. Left(NoReq) = 0 /\ Left(req[r]) \in 0..9
    BY <1>2, NoReqOK, LeftRange DEF Upload
  <1>5. CASE Goes(req[r], req'[r])
    <2>1. Left(req'[r]) \in 0..9 /\ Left(req'[r]) < Left(req[r])
      BY <1>2, <1>5, GoesOn, LeftRange
    <2> QED  BY <1>4, <2>1
  <1>6. CASE ~Goes(req[r], req'[r])
    BY <1>2, <1>3, <1>4, <1>6 DEF Moves, Left, Upload
  <1> QED  BY <1>5, <1>6

(* A step of the upload itself takes it on. *)
LEMMA ProgressLeft ==
    ASSUME Inv, Inv', NEW r \in Slot, Upload(req[r]), Progress(r)
    PROVE  Left(req'[r]) < Left(req[r])
  <1>1. ReqOK(req[r]) /\ ReqOK(req'[r]) /\ Types
    BY DEF Inv, Types, Requests
  <1>2. Left(NoReq) = 0 /\ Left(req[r]) \in 1..9
    BY <1>1, NoReqOK, LeftRange DEF Upload
  <1>3. CASE Handle(r)
    BY <1>1, <1>2, <1>3, HandleGoes, GoesOn
  <1>4. CASE ~Handle(r)
    <2>1. Receive(r) \/ (Reject(r) /\ (~up \/ req[r].stage = "lost"))
      BY <1>4 DEF Progress
    <2>2. \/ req'[r] = NoReq
          \/ /\ req[r].kind = "put" /\ req[r].stage = "answered"
             /\ req'[r].kind = "reload" /\ req'[r].stage = "sent"
      BY <1>1, <2>1, ReceiveMoves
    <2> QED  BY <1>2, <2>2 DEF Left, Upload
  <1> QED  BY <1>3, <1>4

(* With n steps before it an upload comes to fewer.                        *)
Fewer(r, n) == (Left(req[r]) = n) ~> (Left(req[r]) < n)

LEMMA FewerLeft ==
    ASSUME NEW r \in Slot, NEW n \in 1..9
    PROVE  Spec /\ []GuardsEnable => Fewer(r, n)
  <1> DEFINE At == Left(req[r]) = n
             Under == Left(req[r]) < n
  <1>0. Inv => (At => Upload(req[r]))
    BY LeftRange DEF Inv, Types, Requests
  <1>1. Inv /\ At /\ [Next]_vars => At' \/ Under'
    <2> SUFFICES ASSUME Inv, At, [Next]_vars PROVE At' \/ Under'
      OBVIOUS
    <2>1. Left(req'[r]) <= n
      BY <1>0, StepLeft
    <2>2. ReqOK(req'[r])
      BY StepInv DEF Inv, Types, Requests
    <2>3. Left(req'[r]) \in 0..9
      BY <2>2, LeftRange
    <2> QED  BY <2>1, <2>3
  <1>2. Inv /\ Inv' /\ At /\ <<Progress(r)>>_vars => Under'
    BY <1>0, ProgressLeft
  <1>3. Inv /\ Down /\ GuardsEnable /\ At => ENABLED <<Progress(r)>>_vars
    <2> SUFFICES ASSUME Inv, Down, GuardsEnable, At PROVE ENABLED <<Progress(r)>>_vars
      OBVIOUS
    <2>1. Ready(r)
      BY <1>0, UnderWayIsReady DEF Upload
    <2> QED  BY <2>1 DEF GuardsEnable
  <1>4. Fairness => FairProgress(r)
    BY DEF Fairness
  <1> HIDE DEF At, Under
  <1>5. Spec /\ []GuardsEnable => (At ~> Under)
    BY <1>1, <1>2, <1>3, <1>4, InvAlways, DownAlways, PTL DEF Spec, FairProgress
  <1> QED  BY <1>5 DEF At, Under, Fewer

(* A confirmed upload ends, for any number of tabs, requests and texts,    *)
(* and however often the client ends and starts again meanwhile.           *)
THEOREM UploadEndsHolds == Spec /\ []GuardsEnable => UploadEnds
  <1> SUFFICES ASSUME NEW r \in Slot
               PROVE  Spec /\ []GuardsEnable
                        => ((req[r].kind \in {"put", "reload"}) ~> (req[r].kind = "none"))
    BY DEF UploadEnds
  <1> DEFINE F == Spec /\ []GuardsEnable
             Under(n) == Left(req[r]) < n
             At(n) == Left(req[r]) = n
             Sent == req[r].kind \in {"put", "reload"}
             Over == req[r].kind = "none"
  <1>1. F => /\ Fewer(r, 1) /\ Fewer(r, 2) /\ Fewer(r, 3) /\ Fewer(r, 4)
             /\ Fewer(r, 5) /\ Fewer(r, 6) /\ Fewer(r, 7) /\ Fewer(r, 8) /\ Fewer(r, 9)
    BY FewerLeft
  <1>2. F => /\ (At(1) ~> Under(1)) /\ (At(2) ~> Under(2)) /\ (At(3) ~> Under(3))
             /\ (At(4) ~> Under(4)) /\ (At(5) ~> Under(5)) /\ (At(6) ~> Under(6))
             /\ (At(7) ~> Under(7)) /\ (At(8) ~> Under(8)) /\ (At(9) ~> Under(9))
    BY <1>1, PTL DEF Fewer
  <1>3. Inv => /\ Sent => Under(10)
               /\ Under(10) => Under(9) \/ At(9)
               /\ Under(9) => Under(8) \/ At(8)
               /\ Under(8) => Under(7) \/ At(7)
               /\ Under(7) => Under(6) \/ At(6)
               /\ Under(6) => Under(5) \/ At(5)
               /\ Under(5) => Under(4) \/ At(4)
               /\ Under(4) => Under(3) \/ At(3)
               /\ Under(3) => Under(2) \/ At(2)
               /\ Under(2) => Under(1) \/ At(1)
               /\ Under(1) => ~Sent
    <2> SUFFICES ASSUME Inv, ReqOK(req[r])
                 PROVE  (Under(1) => ~Sent) /\ Left(req[r]) \in 0..9
      BY DEF Inv, Types, Requests
    <2> QED  BY LeftRange DEF Upload
  <1>4. Inv /\ Sent /\ [Next]_vars => Sent' \/ Over'
    BY StepMoves, NoReqOK DEF Moves, Goes, Inv
  <1> HIDE DEF Under, At, Sent, Over
  <1>5. F => (Sent ~> Over)
    BY <1>2, <1>3, <1>4, InvAlways, PTL DEF Spec
  <1> QED  BY <1>5 DEF Sent, Over

=============================================================================
