------------------------------ MODULE FrpcAdmin ------------------------------
(***************************************************************************)
(* The web page of frpc (web/frpc) together with the admin API it calls    *)
(* (client/admin_api.go): browser tabs read, edit and upload the text of   *)
(* the configuration file and reload it, each over its own HTTP requests,  *)
(* which the server handles concurrently.                                  *)
(*                                                                         *)
(* A text stands for the rows of a configuration without the rows that     *)
(* start with "token" and without leading and trailing white space: both   *)
(* handlers of /api/config strip them.  Whether the file has its token row *)
(* is kept apart.  os.WriteFile truncates the file and writes it in a      *)
(* second step.  Of a rendered text that was parsed only the proxies and   *)
(* visitors are followed: its [common] section is read when the client     *)
(* starts, and no reload ever applies it.                                  *)
(***************************************************************************)
EXTENDS Naturals

CONSTANTS
    Tab,        \* browser tabs
    NoTab,      \* nobody waits for the answer of a request
    MaxReq,     \* bound on the requests that are under way at a time
    Text,       \* texts of the configuration
    Typed,      \* the texts a user may type into the text area
    Original,   \* what the file holds at the start
    Empty,      \* the empty text
    ErrText,    \* the text of an error that the API sends as a body
    Garbled,    \* what two writers leave when the longer one came first
    Broken,     \* texts whose template cannot be rendered
    Rendered,   \* what GetRenderedConfFromFile makes of the other texts
    HasCommon,  \* texts with a row that starts with [common]
    Valid,      \* rendered texts that the parser of the configuration accepts
    Row,        \* rows of the status table
    RowsOf      \* the status rows of the proxies of a running configuration

ASSUME FrpcAdminAssumption ==
    /\ MaxReq \in Nat
    /\ NoTab \notin Tab
    /\ {Original, Empty, ErrText, Garbled} \subseteq Text
    /\ Typed \subseteq Text /\ Broken \subseteq Text
    /\ Rendered \in [Text -> Text]
    /\ HasCommon \subseteq Text
    /\ Valid \subseteq HasCommon
    /\ Original \in HasCommon \ Broken /\ Rendered[Original] \in Valid
    /\ Empty \notin HasCommon
    /\ RowsOf \in [Text -> SUBSET Row]

VARIABLES
    file,      \* the configuration file: its text and whether it has a token
    pxyCfgs,   \* svr.pxyCfgs and svr.visitorCfgs: what the next control serves
    running,   \* the proxies and visitors that svr.ctl serves
    fresh,     \* those of a control that is made and not stored yet: {} or one
    overtaken, \* history: svr.ctl was made before pxyCfgs was stored
    up,        \* the client process is running
    page,      \* the route each tab shows
    textarea,  \* textarea of ClientConfigure.vue
    status,    \* status of Overview.vue
    dialog,    \* the confirmation of an upload is open
    req,       \* the requests under way
    hurt       \* history: something happened that may cost the file its token

cfgVars == <<pxyCfgs, running, fresh, overtaken>>
vars == <<file, cfgVars, up, page, textarea, status, dialog, req, hurt>>

Slot == 1..MaxReq

Page == {"closed", "/", "/configure"}

File == [text : Text, token : BOOLEAN]

(* A request.  text is the body of an upload, or the body of the answer;   *)
(* mounted says that the page that waits for it is shown; token and parsed *)
(* are local variables of the handler; clean is history: no other upload   *)
(* ran beside this one, its PUT did not fail and the client went on.       *)
Request ==
    [kind : {"none", "getconfig", "status", "put", "reload"},
     stage : {"free", "sent", "read", "torn", "parsed", "stored", "answered",
              "lost"},
     tab : Tab \cup {NoTab}, mounted : BOOLEAN, text : Text, parsed : Text,
     token : BOOLEAN, clean : BOOLEAN]

NoReq == [kind |-> "none", stage |-> "free", tab |-> NoTab, mounted |-> FALSE,
          text |-> Empty, parsed |-> Empty, token |-> FALSE, clean |-> FALSE]

-----------------------------------------------------------------------------
(* Helpers. *)

Uploads == {r \in Slot : req[r].kind \in {"put", "reload"}}

(* The slot of the next request. *)
Fresh(r) == req[r].kind = "none" /\ \A q \in Slot : q < r => req[q].kind # "none"

Fetch(kind, tab) == [NoReq EXCEPT !.kind = kind, !.stage = "sent", !.tab = tab,
                                  !.mounted = TRUE]

(* ParseClientConfig: render the file, then parse the result. *)
Parses(t) == t \notin Broken /\ Rendered[t] \in Valid

(* The handler is done.  Nobody may be waiting for its answer any more. *)
Answer(q) ==
    IF q.tab = NoTab THEN NoReq
    ELSE [q EXCEPT !.stage = "answered", !.token = FALSE, !.parsed = Empty]

NewContentWithoutToken(q) == [text |-> q.text, token |-> FALSE]

(* What a PUT writes: the body, and under [common] the token row found.    *)
NewContent(q) == [text |-> q.text, token |-> q.token /\ q.text \in HasCommon]

Torn == {r \in Slot : req[r].stage = "torn"}

-----------------------------------------------------------------------------
Init ==
    /\ file = [text |-> Original, token |-> TRUE]
    /\ pxyCfgs = Rendered[Original]
    /\ running = Rendered[Original]
    /\ fresh = {}
    /\ overtaken = FALSE
    /\ up = TRUE
    /\ page = [t \in Tab |-> "closed"]
    /\ textarea = [t \in Tab |-> Empty]
    /\ status = [t \in Tab |-> {}]
    /\ dialog = [t \in Tab |-> FALSE]
    /\ req = [r \in Slot |-> NoReq]
    /\ hurt = FALSE

-----------------------------------------------------------------------------
(* The user in front of a tab. *)

(* A menu item: the page it names is set up anew and asks for its data;    *)
(* the requests of the page that is left go on, but write to variables     *)
(* nobody shows.  The confirmation is modal.                               *)
Visit(tab, p, r) ==
    /\ p \in {"/", "/configure"} /\ page[tab] # p
    /\ ~dialog[tab]
    /\ Fresh(r)
    /\ page' = [page EXCEPT ![tab] = p]
    /\ textarea' = [textarea EXCEPT ![tab] = Empty]
    /\ status' = [status EXCEPT ![tab] = {}]
    /\ req' = [q \in Slot |->
                 IF q = r
                 THEN Fetch(IF p = "/" THEN "status" ELSE "getconfig", tab)
                 ELSE IF req[q].tab = tab THEN [req[q] EXCEPT !.mounted = FALSE]
                 ELSE req[q]]
    /\ UNCHANGED <<file, cfgVars, up, dialog, hurt>>

(* The button Refresh. *)
Refresh(tab, r) ==
    /\ page[tab] = "/configure" /\ ~dialog[tab]
    /\ Fresh(r)
    /\ req' = [req EXCEPT ![r] = Fetch("getconfig", tab)]
    /\ UNCHANGED <<file, cfgVars, up, page, textarea, status, dialog, hurt>>

(* The text area is bound to the variable with v-model. *)
Edit(tab, t) ==
    /\ page[tab] = "/configure" /\ ~dialog[tab]
    /\ textarea' = [textarea EXCEPT ![tab] = t]
    /\ UNCHANGED <<file, cfgVars, up, page, status, dialog, req, hurt>>

(* The button Upload opens the confirmation. *)
UploadConfig(tab) ==
    /\ page[tab] = "/configure" /\ ~dialog[tab]
    /\ dialog' = [dialog EXCEPT ![tab] = TRUE]
    /\ UNCHANGED <<file, cfgVars, up, page, textarea, status, req, hurt>>

Cancel(tab) ==
    /\ dialog[tab]
    /\ dialog' = [dialog EXCEPT ![tab] = FALSE]
    /\ UNCHANGED <<file, cfgVars, up, page, textarea, status, req, hurt>>

ConfirmEmpty(tab) ==
    /\ dialog[tab] /\ textarea[tab] = Empty
    /\ dialog' = [dialog EXCEPT ![tab] = FALSE]
    /\ UNCHANGED <<file, cfgVars, up, page, textarea, status, req, hurt>>

(* Yes: what is sent is the text area as it is now, not as it was when the *)
(* button was pressed.                                                     *)
Confirm(tab, r) ==
    /\ dialog[tab] /\ textarea[tab] # Empty
    /\ Fresh(r)
    /\ dialog' = [dialog EXCEPT ![tab] = FALSE]
    /\ req' = [q \in Slot |->
                 IF q = r
                 THEN [Fetch("put", tab) EXCEPT !.text = textarea[tab],
                                                !.mounted = FALSE,
                                                !.clean = Uploads = {}]
                 ELSE [req[q] EXCEPT !.clean = FALSE]]
    /\ hurt' = (hurt \/ textarea[tab] \notin HasCommon
                     \/ \E q \in Uploads : req[q].kind = "put")
    /\ UNCHANGED <<file, cfgVars, up, page, textarea, status>>

-----------------------------------------------------------------------------
(* The handlers of the admin API. *)

ApiStatus(r) ==
    /\ up /\ req[r].kind = "status" /\ req[r].stage = "sent"
    /\ req' = [req EXCEPT ![r] = Answer([@ EXCEPT !.text = running])]
    /\ UNCHANGED <<file, cfgVars, up, page, textarea, status, dialog, hurt>>

(* An error is answered with its text as the body, like a success. *)
ApiGetConfig(r) ==
    /\ up /\ req[r].kind = "getconfig" /\ req[r].stage = "sent"
    /\ req' = [req EXCEPT ![r] = Answer(
                 [@ EXCEPT !.text = IF file.text \in Broken THEN ErrText
                                    ELSE Rendered[file.text]])]
    /\ UNCHANGED <<file, cfgVars, up, page, textarea, status, dialog, hurt>>

(* apiPutConfig reads the file for its token row. *)
PutRead(r) ==
    /\ up /\ req[r].kind = "put" /\ req[r].stage = "sent"
    /\ req' = [req EXCEPT ![r].stage = "read", ![r].token = file.token]
    /\ UNCHANGED <<file, cfgVars, up, page, textarea, status, dialog, hurt>>

(* os.WriteFile: open with O_TRUNC ... *)
PutTruncate(r) ==
    /\ up /\ req[r].stage = "read"
    /\ file' = [text |-> Empty, token |-> FALSE]
    /\ req' = [req EXCEPT ![r].stage = "torn"]
    /\ UNCHANGED <<cfgVars, up, page, textarea, status, dialog, hurt>>

(* ... and write.  Over the text of a writer that came in between, the end *)
(* of the longer text stays.                                               *)
PutWrite(r) ==
    /\ up /\ req[r].stage = "torn"
    /\ \/ file' = NewContent(req[r])
       \/ /\ file.text # Empty
          /\ file' = [file EXCEPT !.text = Garbled]
    /\ req' = [req EXCEPT ![r] = Answer(@)]
    /\ UNCHANGED <<cfgVars, up, page, textarea, status, dialog, hurt>>

(* Reading, opening or writing the file fails: 400 or 500. *)
PutFails(r) ==
    /\ up /\ req[r].kind = "put" /\ req[r].stage \in {"sent", "read", "torn"}
    /\ req' = [req EXCEPT ![r] = Answer([@ EXCEPT !.clean = FALSE])]
    /\ hurt' = (hurt \/ req[r].stage = "torn")
    /\ UNCHANGED <<file, cfgVars, up, page, textarea, status, dialog>>

(* apiReload parses the file ...                                           *)
ReloadParse(r) ==
    /\ up /\ req[r].kind = "reload" /\ req[r].stage = "sent"
    /\ req' = [req EXCEPT ![r] =
                 IF Parses(file.text)
                 THEN [@ EXCEPT !.stage = "parsed", !.parsed = Rendered[file.text]]
                 ELSE Answer(@)]
    /\ UNCHANGED <<file, cfgVars, up, page, textarea, status, dialog, hurt>>

(* Mutant of ReloadStore: ReloadConf does not store what it was given.     *)
ReloadStoreForgets(r) ==
    /\ up /\ req[r].stage = "parsed"
    /\ req' = [req EXCEPT ![r].stage = "stored"]
    /\ UNCHANGED <<file, cfgVars, up, page, textarea, status, dialog, hurt>>

(* ... drops its [common] section, and ReloadConf stores the proxies and   *)
(* visitors for the controls to come ...                                   *)
ReloadStore(r) ==
    /\ up /\ req[r].stage = "parsed"
    /\ pxyCfgs' = req[r].parsed
    /\ req' = [req EXCEPT ![r].stage = "stored"]
    /\ UNCHANGED <<file, running, fresh, overtaken, up, page, textarea, status,
                   dialog, hurt>>

(* ... and hands them to svr.ctl.  No error comes back from there: 200.    *)
ReloadApply(r) ==
    /\ up /\ req[r].stage = "stored"
    /\ running' = req[r].parsed
    /\ overtaken' = FALSE
    /\ req' = [req EXCEPT ![r] = Answer(@)]
    /\ UNCHANGED <<file, pxyCfgs, fresh, up, page, textarea, status, dialog, hurt>>

-----------------------------------------------------------------------------
(* The client loses its connection at any moment.  keepControllerWorking   *)
(* logs in again and makes a control of the proxies of the moment ...      *)
KeeperLogin ==
    /\ up /\ fresh = {}
    /\ fresh' = {pxyCfgs}
    /\ UNCHANGED <<file, pxyCfgs, running, overtaken, up, page, textarea, status,
                   dialog, req, hurt>>

(* ... and stores it in svr.ctl.                                           *)
KeeperStore ==
    /\ up
    /\ \E t \in fresh : running' = t /\ overtaken' = (t # pxyCfgs)
    /\ fresh' = {}
    /\ UNCHANGED <<file, pxyCfgs, up, page, textarea, status, dialog, req, hurt>>

-----------------------------------------------------------------------------
(* Answers reach the browser.  fetch resolves for every HTTP status. *)

GotStatus(r) ==
    LET q == req[r] IN
    /\ q.kind = "status" /\ q.stage = "answered"
    /\ status' = IF q.mounted THEN [status EXCEPT ![q.tab] = RowsOf[q.text]] ELSE status
    /\ req' = [req EXCEPT ![r] = NoReq]
    /\ UNCHANGED <<file, cfgVars, up, page, textarea, dialog, hurt>>

(* The answer replaces the text area, whatever was typed meanwhile. *)
GotConfig(r) ==
    LET q == req[r] IN
    /\ q.kind = "getconfig" /\ q.stage = "answered"
    /\ textarea' = IF q.mounted THEN [textarea EXCEPT ![q.tab] = q.text] ELSE textarea
    /\ req' = [req EXCEPT ![r] = NoReq]
    /\ UNCHANGED <<file, cfgVars, up, page, status, dialog, hurt>>

(* Any answer to the PUT starts the reload. *)
GotPut(r) ==
    /\ req[r].kind = "put" /\ req[r].stage = "answered"
    /\ req' = [req EXCEPT ![r].kind = "reload", ![r].stage = "sent"]
    /\ UNCHANGED <<file, cfgVars, up, page, textarea, status, dialog, hurt>>

(* Any answer to the reload is a success. *)
GotReload(r) ==
    /\ req[r].kind = "reload" /\ req[r].stage = "answered"
    /\ req' = [req EXCEPT ![r] = NoReq]
    /\ UNCHANGED <<file, cfgVars, up, page, textarea, status, dialog, hurt>>

(* The connection fails: fetch rejects, and the catch of the request shows *)
(* its warning.  A handler that has started goes on; an upload that was    *)
(* sent may still arrive.                                                  *)
Reject(r) ==
    LET q == req[r] IN
    /\ q.tab # NoTab
    /\ \/ /\ q.stage \in {"sent", "answered", "lost"}
          /\ req' = [req EXCEPT ![r] = NoReq]
       \/ /\ up /\ q.kind \in {"put", "reload"}
          /\ q.stage \in {"sent", "read", "torn", "parsed", "stored"}
          /\ req' = [req EXCEPT ![r].tab = NoTab, ![r].clean = FALSE]
    /\ UNCHANGED <<file, cfgVars, up, page, textarea, status, dialog, hurt>>

-----------------------------------------------------------------------------
(* The client process ends at any moment and is started again; it does not *)
(* start from a file it cannot parse.                                      *)
Crash ==
    /\ up
    /\ up' = FALSE
    /\ req' = [r \in Slot |->
                 IF req[r].tab = NoTab THEN NoReq
                 ELSE IF req[r].stage = "answered"
                      THEN [req[r] EXCEPT !.clean = FALSE]
                      ELSE [req[r] EXCEPT !.stage = "lost", !.clean = FALSE,
                                          !.token = FALSE, !.parsed = Empty]]
    /\ hurt' = (hurt \/ Torn # {})
    /\ fresh' = {}
    /\ UNCHANGED <<file, pxyCfgs, running, overtaken, page, textarea, status, dialog>>

Start ==
    /\ ~up /\ Parses(file.text)
    /\ up' = TRUE
    /\ pxyCfgs' = Rendered[file.text]
    /\ running' = Rendered[file.text]
    /\ overtaken' = FALSE
    /\ UNCHANGED <<file, fresh, page, textarea, status, dialog, req, hurt>>

-----------------------------------------------------------------------------
Handle(r) ==
    \/ ApiStatus(r) \/ ApiGetConfig(r)
    \/ PutRead(r) \/ PutTruncate(r) \/ PutWrite(r) \/ PutFails(r)
    \/ ReloadParse(r) \/ ReloadStore(r) \/ ReloadApply(r)

Receive(r) == GotStatus(r) \/ GotConfig(r) \/ GotPut(r) \/ GotReload(r)

User(tab) ==
    \/ \E p \in Page, r \in Slot : Visit(tab, p, r)
    \/ \E r \in Slot : Refresh(tab, r)
    \/ \E t \in Typed : Edit(tab, t)
    \/ UploadConfig(tab)
    \/ Cancel(tab)
    \/ ConfirmEmpty(tab)
    \/ \E r \in Slot : Confirm(tab, r)

Next ==
    \/ \E tab \in Tab : User(tab)
    \/ \E r \in Slot : Handle(r) \/ Receive(r) \/ Reject(r)
    \/ KeeperLogin
    \/ KeeperStore
    \/ Crash
    \/ Start

(* A handler that started ends, an answer is delivered, and a request to a *)
(* client that is gone is rejected.  Users and faults may stop.            *)
Progress(r) ==
    \/ Handle(r)
    \/ Receive(r)
    \/ Reject(r) /\ (req[r].stage = "lost" \/ ~up)

FairProgress(r) == WF_vars(Progress(r))

Fairness == \A r \in Slot : FairProgress(r)

Spec == Init /\ [][Next]_vars /\ Fairness

-----------------------------------------------------------------------------
(* The variables have their types; a slot is free exactly when it holds no *)
(* request, and only a handler of the kind is in its stages.               *)
TypeOK ==
    /\ file \in File
    /\ pxyCfgs \in Valid /\ running \in Valid
    /\ fresh \subseteq Valid
    /\ overtaken \in BOOLEAN
    /\ up \in BOOLEAN
    /\ page \in [Tab -> Page]
    /\ textarea \in [Tab -> Text]
    /\ status \in [Tab -> SUBSET Row]
    /\ dialog \in [Tab -> BOOLEAN]
    /\ req \in [Slot -> Request]
    /\ hurt \in BOOLEAN
    /\ \A r \in Slot :
         /\ req[r].kind = "none" <=> req[r].stage = "free"
         /\ req[r].kind = "none" => req[r] = NoReq
         /\ req[r].stage \in {"read", "torn"} => req[r].kind = "put"
         /\ req[r].stage \in {"parsed", "stored"} =>
              req[r].kind = "reload" /\ req[r].parsed \in Valid
         /\ req[r].stage \in {"answered", "lost"} => req[r].tab \in Tab

(* Unless an upload had no [common] section, ran beside the PUT of another *)
(* one or was cut off between truncation and write, the file that no PUT   *)
(* is writing has its token row and a text with a [common] section         *)
(* (apiPutConfig copies the token of the old file).                        *)
FileIntact ==
    (~hurt /\ Torn = {}) => (file.token /\ file.text \in HasCommon)

(* When "Success" is shown for an upload that ran beside no other one,     *)
(* whose PUT wrote the file and whose text parses, the file holds that     *)
(* text, every control to come serves its proxies and visitors, and so     *)
(* does the present one, unless it was under construction meanwhile        *)
(* (service.go:307 against 232).  Of the [common] section it says nothing. *)
SuccessMeansApplied ==
    [][\A r \in Slot :
         (GotReload(r) /\ req[r].clean /\ Parses(req[r].text))
           => /\ file.text = req[r].text
              /\ pxyCfgs = Rendered[req[r].text]
              /\ running = Rendered[req[r].text] \/ overtaken]_vars

(* The guards of Progress(r): a handler that can go on, an answer, or a    *)
(* tab that waits for a client that is gone.                               *)
Ready(r) ==
    LET q == req[r] IN
    \/ up /\ q.stage \in {"sent", "read", "torn", "parsed", "stored"}
    \/ q.stage = "answered"
    \/ q.tab # NoTab /\ (q.stage = "lost" \/ (~up /\ q.stage = "sent"))

(* A request whose guards hold can really make a step. *)
GuardsEnable == \A r \in Slot : Ready(r) => ENABLED <<Progress(r)>>_vars

(* A confirmed upload always comes to an end: its PUT, and the reload that *)
(* follows, are answered or rejected, also when the client ends meanwhile. *)
UploadEnds ==
    \A r \in Slot : (req[r].kind \in {"put", "reload"}) ~> (req[r].kind = "none")

=============================================================================
