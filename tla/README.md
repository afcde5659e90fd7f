# TLA+ verification of frps and frpc

The repository is a fork of frp, a reverse proxy written in Go. A client (`frpc`)
opens a control connection to a server (`frps`), registers proxies, and the
server forwards user connections to it over work connections that the client
opens on demand. Both have a web page: a dashboard over the statistics of frps,
and a page on which the configuration of frpc is edited. This directory models
the concurrent core of that system and the two pages with everything they call:
it is checked with TLC on small instances and proved with TLAPS: the safety
properties, and the liveness properties from a hypothesis about ENABLED that TLC
checks (section 4).

## 1. Inventory

| component | state | operations | interacts with |
|---|---|---|---|
| server control (`server/control.go`) | control connection, `sendCh`, `readCh`, `workConnCh`, four shutdown latches, `lastPing` | `reader`, `writer`, `manager`, `stoper`, `GetWorkConn`, `RegisterWorkConn` | control manager, proxies, nat hole controller |
| control manager, login (`server/control.go`, `server/service.go`) | `ctlsByRunID`; per control `started`, `allShutdown` | `Add`, `Del`, `Close`, `WaitClosed`, `CloseUser` | server control, dashboard |
| proxy registration (`server/control.go`, `server/proxy/`) | `ctl.proxies`, `portsUsedNum`, the shared `pxys` | `RegisterProxy`, `CloseProxy`, `ForceCloseProxy`, release loop of `stoper` | port manager, groups, dashboard |
| port manager (`server/ports/`) | `freePorts`, `usedPorts`, `reservedPorts` | `Acquire`, `Release`, cleaner | proxies, tcp groups |
| tcp groups (`server/group/tcp.go`) | map of groups; members, socket, `acceptCh` of each | `Listen`, `worker`, `Accept`, `CloseListener` | port manager, proxies |
| http and tcpmux groups, vhost routers and muxers | routes by domain, location and user | register, unregister, lookup | http, https and tcpmux proxies |
| visitor manager, secret proxies | listeners by proxy name | `Listen`, `NewConn`, `CloseListener` | service |
| nat hole controller and analysis (`pkg/nathole`) | client configs, sessions, scores | `HandleVisitor`, `HandleClient`, `HandleReport` | server controls, message transporter |
| message transporter (`pkg/transport`) | lanes of waiting requests | `Send`, `Do`, `Dispatch` | client control |
| server plugins, user API, auth | none of their own | hooks before login, new proxy, ping, new work connection | server control |
| metrics (`pkg/metrics/mem`, `pkg/util/metric`) | counts by type, statistics by name, two rings of days per proxy | `NewProxy`, `CloseProxy`, `AddTrafficIn/Out`, `clearUselessInfo`, `rotate` | controls write, the dashboard reads |
| dashboard API (`server/dashboard_api.go`) | none of its own | `APIServerInfo`, `APIProxyByType`, `APIProxyTraffic` | metrics, proxy manager, browser |
| web dashboard of frps (`web/frps`) | per page: the data it asked for when it was mounted; the charts in the document | menu, fetches of the pages, drawing | dashboard API |
| client admin API (`client/admin_api.go`) | the configuration file | read, write, reload, status | client service, browser |
| web page of frpc (`web/frpc`) | text area, status table, confirmation | menu, refresh, upload, reload | admin API |
| client service and control (`client/service.go`, `client/control.go`) | run id, configs, channels, shutdown latches | login with back-off, reload, reader, writer, message handler | proxy manager, visitor manager |
| client proxy wrapper, manager, health (`client/proxy`, `client/health`) | phase, health flag, timers | `Reload`, `checkWorker`, `SetRunningStatus`, `Stop` | client control, frps |
| client visitors (`client/visitor`) | listeners, tunnel sessions | `UpdateAll`, keep-alive, accept loops | client control |

What is hard in this code is the same in most rows: goroutines joined by
bounded channels that are closed while others may send; objects looked up under
one lock and used under another; names and ports given back by several paths,
one of which may run late; a close that must not hang. In the web pages it is
the answer that arrives when the page, the file or the server has moved on, and
a server or client that ends between two requests of one operation. `PROJECT.json`
lists each such place with its line ("hazards"), the properties aimed at it and,
where no property covers it or one covers it in part, the reason: in most of these
places the code does go wrong, so a property that forbids it would be false (section 5).

For each component, what makes it right:

- server control: no unprotected send on a closed channel, a closed control
  holds nothing, a shutdown ends, a user connection is always answered;
- control manager: one serving control per run id, found under its run id, every
  accepted login answered unless the control it replaces hangs;
- registration and ports: names, ports and quota are given back on every path,
  nobody's are given back by somebody else;
- tcp groups: members agree on port and key, the port of a group stays acquired
  while it serves, the worker never blocks for good;
- client service: controls never overlap, a lost connection is replaced, the
  process gives up only after the last attempt;
- client proxies: what frps has registered is what frpc has configured, a proxy
  does not wait for ever, an unhealthy or removed one leaves frps;
- metrics: the count of a type follows its proxies but for two known drifts, a
  running proxy is listed, a day's bytes are shown over that day;
- web dashboard: a page that is loaded from a frps that does not change describes
  it, every request ends;
- admin API and web page of frpc: the file keeps its token, every upload ends, and
  what a success that is shown does and does not mean.

## 2. Modules

| module | models | checked by |
|---|---|---|
| `ServerControl` | one control from `Start` to the end of `stoper` | `MCServerControl`, `ServerControlProofs` |
| `ControlManager` | logins, replacement, `Del`, `Service.Close` | `MCControlManager`, `ControlManagerProofs` |
| `PortManager` | `Acquire`, `Release` and the cleaner, as operators on its own variables | through the two modules below |
| `NameRegistry` | abstract: a proxy name is free or has one holder | through `ProxyRegistry` |
| `ProxyRegistry` | EXTENDS `PortManager`; several controls registering and closing tcp or udp proxies; without the dashboard it implements `NameRegistry` | `MCProxyRegistry`, `ProxyRegistryProofs` |
| `TCPGroup` | EXTENDS `PortManager`; tcp groups | `MCTCPGroup`, `ProxyRegistryProofs` |
| `ClientControl` | the goroutines of the client's controls and their shutdown | through `ClientService` |
| `ClientService` | EXTENDS `ClientControl`; login, reconnection, reload, close | `MCClientService`, `ClientServiceProofs` |
| `ProxyWrapper` | one proxy name on the client: reload, wrapper, health monitor, messages to and from frps | `MCProxyWrapper`, `ProxyWrapperProofs` |
| `FrpcAdmin` | the web page of frpc, the handlers of the admin API, the file and the process | `MCFrpcAdmin`, `FrpcAdminProofs` |
| `Chart` | the data of the three charts of the dashboard (`utils/chart.ts`) | through `TrafficStats`, `FrpsDashboard` |
| `DailyTotals` | abstract: totals per day that move at midnight | through `TrafficStats` |
| `TrafficStats` | EXTENDS `Chart`; the two counters of one proxy, `/api/traffic`, `Traffic.vue`; implements `DailyTotals` | `MCTrafficStats`, `TrafficStatsProofs` |
| `ProxyMetrics` | counts and entries of the statistics, as the controls report to them | through `FrpsDashboard`, `FrpsDashboardProofs` |
| `ProxyTable` | from a configuration to the row and the expanded line of the table | through `FrpsDashboard` |
| `FrpsDashboard` | EXTENDS `ProxyMetrics`, `ProxyTable`, `Chart`; a browser over the dashboard API of a frps that changes and restarts | `MCFrpsDashboard`, `FrpsDashboardProofs` |

How state and code correspond:

**ServerControl.** One variable per goroutine holds its position (`reader`,
`manager`, `writer`, `stoper`, `user[u]`), one per channel its contents. A step
goes from one channel operation, connection operation or latch to the next.
`sendCh` is a counter because the writer treats all messages alike; `readCh` is a
sequence of what the manager distinguishes: a message it answers, one it does
not, a ping, an invalid ping, a nat hole message. `wc[w]` says where a work
connection is; `orphan` is one that `RegisterWorkConn` reported as registered
although the recovered panic dropped it. `age` counts ticks since `lastPing`.

**ControlManager.** `Ctl` is the set of login attempts. `phase` follows the
handler in `RegisterControl` through `Add`, the check and the wait in
`WaitClosed`, and `Start`; then the control runs until `StoperDone`. `Wedge` puts a
control that was told to stop into one of the two blocked sends of `ServerControl`
(`control.go:392` and `524`): its `StoperDone` never comes. `waiter` is
the goroutine that calls `Del` afterwards. A refused login is one action.

**PortManager.** The state of the three maps. `reservedClosed` is the `Closed`
mark of the `PortCtx` a name's reservation refers to; the object is shared with
`usedPorts` exactly when that name uses that port, and `Release` marks it then.
`busy` is the set of ports on which `isPortAvailable` cannot listen.

**ProxyRegistry.** `reg[c]` follows `RegisterProxy` through its lock regions:
quota, `Exist`, `Acquire`, listen, `Add`, insertion into `ctl.proxies`; `undo`
stands for the deferred functions after a failed listen or `Add`. A close is two
steps, with `ctl.mu` held between them (`closing[c]`): `pxy.Close()`, then `Del`
and the map. `ForwarderClose` is the second `Close` of a udp proxy. `Dashboard`
switches the callers that reach a control from another goroutine. The refinement
maps the holder of a name to the control of the object that the shared manager
has under it, and what a client serves to the entries of `ctl.proxies` of a
running control that are not being closed; ports do not appear in it.

**TCPGroup.** `Lookup` is the part of `Listen` under `tgc.mu`; the rest needs
`tg.mu`, which `holder` keeps across the two steps of the first member and of the
last one. A name joins, leaves and joins again, the same group or another, with any
key and port of the requests in `Ask`, so its reserved port may be one that a group
still has: `doubled` is the history of the ports that `Acquire` gave to one holder while another had them.
An object that nothing refers to any more stands for the next one that
`NewTCPGroup` makes (`Unused`), so `Obj` bounds the objects in use at a time, not
their number. A name is one proxy: it rejoins only after it left, and a name whose
Close panicked stays in the proxy manager (`stoper` recovers before it calls
`Del`) and never comes back. Two proxies of one name at once (the race at
`control.go:647`) are in `ProxyRegistry` and not here. `deaf` are the proxies whose
accept loop has ended because it read from a closed `acceptCh`.

**ClientControl, ClientService.** Every control has its own `conn`, channels and
goroutine positions; `worker` closes the channels, so its position says which are
closed. A write error ends `writer` without closing the connection, as in the
code. `LoginFailExit` is `login_fail_exit` of the configuration; the code exits after
a failed first login whatever its value. `keeper` is the position of `keepControllerWorking`; `waiting` is the control
whose `closedDoneCh` it has read, `fresh` the one it has made and not stored.
`process` becomes "crashed" when `svr.ctl` is read while it is nil. `failures` is a
history variable.

**ProxyWrapper.** `proxies` is the entry of the name in `pm.proxies`; each reload
that changes the configuration stops the wrapper there and makes the next one.
`phase`, `health`, `statusOK` and `failedTimes` are the fields of the code,
`worker` is the position of `checkWorker`: it reads the health flag in one step
and acts under `pw.mu` in another. `overdue` says that `waitResponseTimeout` has
passed. The two message queues and `registered` are the connection and frps; a
late answer reaches whatever wrapper has the name. The wrapper of a stopped
proxy may go round its loop again, since `select` chooses freely between two
closed channels.

**FrpcAdmin.** `file` is the configuration file: a text (its rows without the
token rows, which both handlers strip) and whether it has its token row.
`os.WriteFile` is two steps, truncation and write, and a second writer in between
leaves a garbled text. `page`, `textarea`, `status` and `dialog` are the state of
each tab. A request carries its stage and the local variables of its handler; the
reload that follows a PUT takes over its slot, as the `then` of the fetch does.
fetch resolves for every HTTP status, so an error is an answer like any other. A
reload is three steps: parse, store (`svr.pxyCfgs`, under `cfgMu`), and apply to
`svr.ctl`. `pxyCfgs`, `running` and `fresh` are what the next control, the present
one and one under construction serve: of a parsed text only the proxies and visitors,
because `apiReload` drops its [common] section, which is read when the process starts and
at no other time. `KeeperLogin` and `KeeperStore` are a reconnect
(`service.go:221-239`); it may come between the steps of a reload, and `overtaken` is
the history of a control that was made before the reload stored and stored after it.
The 500 of `admin_api.go:67-71` is not in the model: `Service.ReloadConf` returns what
`Control.ReloadConf` returns, which is always nil (`client/control.go:357-361`).
`Crash` ends the process and its handlers at any step; `Start` needs a file that
parses. `clean` and `hurt` are history: an upload that had the client to itself,
and an event after which the file may be without its token.

**TrafficStats.** `counts` and `last` are the two `StandardDateCounter`s of a
proxy, rotated only when they are used; the hours at which days start are a
constant, because `rotate` divides hours by 24. `GetProxyTraffic` holds the lock
over two steps, one per counter, so midnight may fall between them. `box` is the
element that `Traffic.vue` draws into. `total` is history: what was counted on
each day. The refinement maps the window of `DailyTotals` to the rings as they
would be if they were used now.

**ProxyMetrics.** Sets of registrations say how far each has come: in the proxy
manager, out of it, reported with `NewProxy`, reported with `CloseProxy`. A
control makes the entry in the manager and the report in two steps under two
locks, and `ForceCloseProxy` may fall between them. `stoper` leaves `ctl.proxies` as
it is: what it closed is in `kept`, and a `ForceCloseProxy` that found the control
before and waited for `ctl.mu` closes it again (`again`), deletes by name, so that it
may take out a newer proxy of that name (`ousted`), and reports again (`twice`).
`skipped` and `late` are history: closes that found no counter, and names about which
a report came in while another proxy of the name was running.

**ProxyTable, Chart.** Pure operators: `getConfByType`, the classes of
`utils/proxy.ts`, the columns of `ProxyView.vue` and `ProxyViewExpand.vue`, the
data of the series in `utils/chart.ts`.

**FrpsDashboard.** `req` are the requests under way. `/api/proxy/{type}` is a
snapshot of the statistics, then one look-up in the manager per name, then the
answer; the pages of http and https ask for the server info first and keep port
and host in variables. `over` is what the overview holds, and the charts that are
in the document. `quiet` is history: nothing changed in frps since the page was
mounted. `Restart` may change the configuration.

## 3. Runs

Passing runs:

| run | bounds | distinct states | shows |
|---|---|---|---|
| `ServerControl` | queues of 1, pool of 1+1, 2 messages, 1 work connection, 1 user | 236,915 | `NoSendOnClosedChannel`, `ClosedControlIsEmpty`, `WedgeIsPermanent`, `ClosesUnlessWedged`, `UserAnswered` |
| `ControlManager` | 3 logins, 2 run ids, any of them wedged | 106,220 | `OneServing`, `ServingIsIndexed`, `LoginAnswered`, `ClosedIsForgotten` |
| `ProxyRegistry` | 2 controls, 2 names, 3 proxy objects, 2 ports, quota 2, udp proxies, no dashboard | 1,608,844 | `PortsPartitioned`, `ServedIsRegistered`, `NoGhostName`, `NoPortLeak`, `QuotaExact`, `WithinQuota`, `NamesAreOwned` (the refinement of `NameRegistry`) |
| `TCPGroup` | 2 proxies that join and rejoin 2 groups, 2 keys, port 1 or any, 1 port of the system's choice, 2 group objects at a time | 665,674 | `MembersAgree`, `ServedPortIsUsed`, `WorkerNeverStuck` |
| `ClientService` | 2 controls, queues of 1, 2 reconnect delays, 1 reload | 137,914 | `OneControl`, `NoSendOnClosedChannel`, `GivesUpLast`, `ReconnectsUnlessWedged` |
| `ProxyWrapper` | 2 wrappers, 2 configurations, health check failing after 1, queues of 1 | 352,715 | `NoStaleConfig`, `WaitStartEnds`, `UnhealthyWithdrawn`, `RemovedIsGone` |
| `FrpcAdmin` | 1 tab, 2 requests under way, a template, a plain text, an edited one and one without [common]; any number of reconnects | 3,387,865 | `FileIntact`, `SuccessMeansApplied` |
| `TrafficStats` | 4 days, 3 of them kept, one of 25 hours; 2 days with traffic, 2 requests | 433,810 | `CountersAreDaily` (the refinement of `DailyTotals`), `BarsAreDated` |
| `FrpsDashboard` | two registrations of one name with two types, or one of udp, https or stcp; 1 late close, 2 configurations, 1 restart, 2 requests | 413,524 | `CountsExact`, `RunningIsListed`, `SettledTable`, `SettledOverview`, `RequestEnds` |

Why the bounds suffice: channels of capacity one fill and empty just as those of
ten do, with fewer messages; two messages fill `readCh` and the hand of the
reader. One work connection races a user, the close of the pool and the drain,
but does not fill a pool of two: the refusal by a full pool is in the model and
not reached in this run. Two controls and three proxy objects give a registration
that races another one plus a later owner of the same name or port. A udp proxy
does what a tcp proxy does and closes a second time, so the udp instance covers
both; the dashboard case, which multiplies the states, is left to the proofs,
which hold for both values of `Dashboard` where the property does. Two proxies
that come back give a last member, a joiner that looked the group up earlier, a
newer group under the same name and an object that is taken over. Two groups and
port 0 are enough for a name to get its reserved port while the other serves it:
without the exception for `doubled`, TLC refutes `ServedPortIsUsed`. `Ask` lists five
requests: each of the groups, keys and ports is in one, and a group and key with both
ports. Two wrappers give a replaced one whose worker,
messages and answers are still under way. Two controls give one that is being
shut down and its successor; two delays (three in the code) tell a count that is
reset from one that is not. Longer queues and more reloads are
covered by the proofs, of liveness too. `MaxTry` is 1 (5 in the code) so that one
busy port makes the random search fail.

For the web pages: two requests are an upload beside another one, or beside a
read, and one tab sends both (it may confirm again while the first is under way);
more tabs are covered by the proofs. Four days with three kept let a ring be
partly shifted, wholly cleared, and idle over the long day; the code keeps seven.
In `FrpsDashboard` a workload is one of the sets in `Workloads`: the pair with
one name makes late reports and entries of another type, the single ones reach
every page. `Visited` keeps the browser to the overview and the pages of types
that are registered, and `Fresh` gives the pair one request at a time; the others
have two, so that an overview that was left draws into a new one. A request of a
list page that is left is forgotten, since what it writes is shown nowhere. One
registration of the pair may be closed late (`LateClosed`); to a page this is one more
change of frps, which ends `quiet`. The page of sudp proxies, which has the columns of
stcp, late closes of any registrations, and more names under way are left to the proofs.

Deadlock is checked in the runs of `FrpcAdmin`, `FrpsDashboard` and `TrafficStats`. In the others the system may
stop (clients go away, bounds run out), so deadlock checking is off there; what
must not stop is stated as liveness.

Runs that end in a counterexample. Each checks one sentence of a comment or of
the documentation of the repository against what the code does:

| run | what happens |
|---|---|
| `ClientService_reload` | a reload between the construction of the new control and its storing reaches the old control only |
| `ProxyWrapper_health` | a check fails once, succeeds, fails once: with a limit of two the proxy is removed |
| `FrpsDashboard_overview` | the overview takes `proxy_type_count` from the answer, whose key is `proxy_type_counts`: "Proxy Counts" is 0 whatever runs |

`ClosesUnlessWedged` of the run `ServerControl` says that two blocked sends (the
reader on a full `readCh` after the manager has ended, and the manager on a full
`sendCh`) are the only ways in which a shutdown can hang, and `WedgeIsPermanent`
that nothing unblocks them.

### Fairness

Weak fairness on the steps of each goroutine: the Go scheduler runs what can
run. In `ServerControl` this includes the return of a write on a live connection
and the timer of the second `select` in `GetWorkConn`; nothing is assumed of
clients, the network, users or the passing of time. `ControlManager` assumes
that the stoper of a control that was told to stop ends if it is not wedged, which is
`ClosesUnlessWedged` of `ServerControl`; nothing forces or forbids a wedge.
`TCPGroup` assumes of each worker that its send meets a member that receives, when
there is one, and that it sees a closed socket or channel; no proxy ever has to
leave or to stay. `ClientService` assumes that a login ends (dialling and the read of
`LoginResp` have time limits) and strong fairness for `msgHandler`: `select` picks
at random among ready cases, and senders that wait for a channel are served in
turn. `ProxyWrapper` assumes that `checkWorker` keeps running, that the
connection delivers and that frps answers; nothing of reloads, of the service
that is checked or of timeouts. A connection that breaks ends the wrappers
altogether and is not part of this module. `FrpcAdmin` and `FrpsDashboard`
assume that a handler that has started ends, that its answer is delivered or its
connection fails, and that a request to a process that is gone is rejected by
the browser; nothing of users, crashes, restarts or rejections of a live
connection. `TrafficStats` checks safety only.

## 4. Proofs

All proofs are for every value of the constants under the named assumptions of
the modules (capacities positive, the "nothing" values outside their sets; users and
work connections finite in number).

**Liveness.** For the prover ENABLED is an unknown predicate, so a theorem about
what must happen reads `FairSpec /\ []GuardsEnable => P` (`Spec` where the module
keeps fairness in it). `GuardsEnable` (`GroupGuardsEnable` in `TCPGroup`), defined
beside the fairness of each module, says that the steps of a goroutine are enabled
when its guard holds, the guard being written out as a state predicate such as
`ReaderReady`. TLC evaluates ENABLED: with `INVARIANT GuardsEnable` added to the
configuration of each of the six runs that check liveness, and to that of `FrpcAdmin`
with one text that parses, it holds in every reachable state. What the proofs add to the runs is everything else, for every value
of the constants: that a guard which is needed holds, that nothing takes progress
back, and that the sum of what is left falls. The proofs rest on a measure, a natural
number, and an exhaustive lemma about what each action of each actor does to it.

Where the measure has no fixed bound the proof ends with an induction over it, and
the formula of that induction, `Reaches(c, k)`, "at some time k is left", is temporal.
TLA+ lets no set or function range over the k of which a temporal formula holds, and
the prover instantiates no induction theorem, so the one instance that is needed is a
hypothesis: `LeastNumbers` (`LeastNumber` in `ServerControlProofs`, `LeastPlaces` for
`WaitStartEndsHolds`) says that if `Reaches` holds of some natural number, it holds of
a least one. Every behaviour satisfies it, whatever the program does, because the
natural numbers are well founded; it says nothing about the code. The seven theorems
that have it are `ClosesUnlessWedgedHolds`, `UserAnsweredHolds`,
`WaitStartEndsHolds`, `UnhealthyWithdrawnHolds`,
`RemovedIsGoneHolds`, `ReconnectsUnlessWedgedHolds` and `RequestEndsHolds`.
`LoginAnsweredHolds`, `ClosedIsForgottenHolds`, `WorkerNeverStuckHolds` and
`UploadEndsHolds` need no such induction and do without.

**ServerControlProofs.** `IInv` adds `StoperOrder` to the type invariant: how far
`stoper` has come fixes which goroutines have returned and which channels are
closed. The two safety invariants say nothing of a control that is half way
through its shutdown, which is why they are not inductive alone.
`NoSendOnClosedChannelAlways`, `ClosedControlIsEmptyAlways` and
`WedgeIsPermanentAlways` follow from it. Liveness goes the other way round than
in the other modules: every step of anybody lowers `Measure`, which weighs what is
still to arrive, to be sent, to be answered and to be shut down, so a control comes to
rest (`ComesToRest`), and a control at rest, where fairness leaves no goroutine able to
move, has shut down or is wedged (`BlockedIsClosed`) and has answered its users
(`BlockedIsAnswered`). This uses that `MaxMsgs`, users and work connections are
finite.

**ControlManagerProofs.** `IndexInv` says that the index holds controls under
their own run id only, that `Del` runs only for controls that are done, and that
done implies told to stop. With it `ServingIsIndexed` is inductive; `OneServing`
follows, since two serving controls of a run id would be the same entry. For
`LoginAnsweredHolds` `WaitInv` adds that a login waits only for a control that
was started and so has a `stoper` to end it, unless it is wedged: a login that
replaces a wedged control waits for ever at `service.go:597`, and `BehindWedge` is the
exception that says so. A later login that replaces the waiting one is answered all the
same, since it does not wait for a control that was not started. For
`ClosedIsForgottenHolds` `WaitInv` adds that the waiter of a control that has
ended is still to come or has deleted it, and that no later `Add` brings it back.

**ProxyRegistryProofs.** Four named parts are carried together: `RegInv` (the
object of a registration follows its pc and is nobody else's), `HeldInv` (what
`ctl.proxies`, a running close and the loop of `stoper` refer to), `PortInv` and
`NameInv` (a stopping control still has to visit each name it owns). Each has a
lemma with one step per action. `ServedIsRegistered`
holds without the dashboard only and needs `OwnNameInv` in addition: whoever is
about to delete a name owns it.

The quota is a second induction on top of these: `QuotaInv` says that
`ctl.proxies` is finite and that `portsUsedNum` is within the limit and covers
what the control has and is registering. `QuotaMoves` and `QuotaSame` reduce each
step to one element more or less, or to none. `WithinQuotaAlways` holds with the
dashboard too; `QuotaExactAlways` assumes `~Dashboard`, because the equality is
false with it (see section 5).

`NamesAreOwnedAlways` is the refinement of `NameRegistry`, under `~Dashboard`:
`RegisterAdd` is a claim, `RegisterInsert` begins to serve, `CloseProxy` ends
it, the two Dels give the name up, `StoperLock` and `StoperUnlock` quit and
leave, every other step is a stutter. `OwnNameInv` is what makes each Del the
act of the holder.

The groups are proved in the same module, which extends `TCPGroup` as well, since
both stand on the port manager and its lemmas. Neither `MembersAgree` nor
`ServedPortIsUsed` is inductive. `GroupIInv` adds that who is in the
list of an object is who joined it (`MemberInv`), that `tg.mu` is held over the
two steps of the first and of the last member only while the group is empty
(`LockInv`), that an object stands for one group name at a time (`GroupInv`), and that
the ports of members and of first members between acquire and listen are used, and
pairwise different but for those in `doubled` (`GroupPortInv` with `ApartInv`): without
that last part the release by one group could free the port of another. That is what the
code does once the reserved-port branch of `Acquire` (`ports.go:81-90`) has made two
holders of one port, and the theorem claims nothing for such a port until one holder
alone acquires it again. TLC checked `GroupIInv` before it was proved.
`WorkerNeverStuckHolds` rests on `WorkerInv` (with an open channel somebody is a member
and takes connections): fairness of the send delivers, or the channel is closed, stays
closed while the worker lives, and wakes it.

**ClientServiceProofs.** `OneControl` needs `KeeperInv`: how far
`keepControllerWorking` has come says which control may be alive (none before a
login, the one it waits for, the one it has not stored). `ShutdownOrder` ties
`worker` to the goroutines that have returned, and `CountInv` the counter of
attempts to the logins that failed in a row. `GivesUpLastAlways` has the hypothesis
`LoginFailExit`: without it the first failed login ends the process although the
configuration says otherwise (section 5).

`ReconnectsUnlessWedgedHolds` needs `FollowInv` (the goroutines of a control start
together, and `keepControllerWorking` waits for `svr.ctl`) and the measure `Left`:
what the reader holds and `readCh`, the stages of `worker` and of `msgHandler`,
what `writer` has to write once `sendCh` is closed, and the attempts of
`keepControllerWorking`. `LostStep` shows that no step adds to it. `SomeTurn`
names who can lower it: reader, `msgHandler`, `writer`, `worker` or the keeper. The
turn of `msgHandler` is why strong fairness is assumed twice: the room that `writer`
makes in `sendCh` may be taken by proxies, and the ticker competes with the queue.

**ProxyWrapperProofs.** `NoStaleConfig` alone is not inductive: nothing in it keeps
a replaced wrapper from sending. `OnlyPresentActs` adds that a wrapper which is
not in `pm.proxies` is closed or not made yet. The rest is about the queue: a
CloseProxy at its end undoes everything before it (`CloseSent`), only the present
wrapper appends a NewProxy (`NewSent`), and what frps takes from the front was
the next to survive (`ServeStep`).

For liveness `WorkerLives` and the facts above are carried together. What is due is
named by `Due`: a wrapper that runs although its service is not healthy, or a proxy
that was removed and is still registered. `DueStep` shows that every step of a
worker, of frps or of the reader ends it or lowers `Left` (messages under way,
weighed by what they cause, and the rounds of the worker), and `DueIsHelped` that
one of the three can always move: `UnhealthyWithdrawnHolds` and
`RemovedIsGoneHolds`. `WaitStartEndsHolds` follows the NewProxy through the queue to
frps, and its answer back.

**FrpsDashboardProofs.** The theorems about the statistics are proved of
`ProxyMetrics` alone (`MetricsSpec`), whose variables no page, request or handler
changes. `MetricsInv` has the types, the uniqueness of registered names, `Entry` (the
entry of a running proxy under whose name no late report came in has not ended, so
`clearUselessInfo` keeps it) and `Balance`, which counts reports by type, skipped and
double ones apart, and makes `CountsExact` inductive.

The pages need two more invariants. `ReqInv` holds whatever happens in frps: a
request of a list page, and that of an overview which was not left, belongs to the page
that is shown, which still waits for it, and there is one such request at most.
`ShownInv` speaks of a page during whose life frps has not changed: how much of
the answer the handler has put together, what vhost port and host the first of
two requests brought, and what is shown once the page is loaded. Each action of
the browser, of the handlers and of the network has a lemma; an action of frps
ends `quiet` and leaves nothing to show. `SettledTableAlways` and
`SettledOverviewAlways` follow from `ShownInv` by what `ProxyView`,
`ProxyViewExpand` and `OverviewForm` do with the data, for any registrations,
configurations and requests. `ConfAssumption` says that a configuration has the
fields of its type and that the null of JSON is none of its values.

`RequestEndsHolds` ranks a request by its step, its stage and the names that its
handler has still to look up; a restart of frps moves it to "lost", which ranks
lower.

**TrafficStatsProofs.** The invariant is `Counters` (a ring that was last used on
day l holds the bytes of the days up to l, and none were counted later) and
`Answers` (an array that was read on day x has the bytes of the days before x and
at most those of x, and stays so while days pass and bytes of today are added).
`RotatedBytes` is the arithmetic of `rotate`; from it every step is a step of
`DailyTotals` or a stutter (`CountersAreDailyHolds`), and `BarsOf` turns an array
into dated bars (`BarsAreDatedHolds`). Both have the hypothesis `NoShortDays`: on a
calendar with a day of 23 hours, which the local time of `date_counter.go:115` has
wherever summer time begins, the division by 24 loses a day and both are false of the
code. `TypeCorrect` needs no such hypothesis.

**FrpcAdminProofs.** `Tokens` says that, as long as nothing hurt the file, there
is one PUT at most, which carries a [common] section and has read the token before
it truncates; `Cleanly` says what an upload that is alone has done to the file, to
`pxyCfgs` and to the control at each of its stages, a reconnect in between included.
`FileIntact` and `SuccessMeansApplied` speak of the ends of that chain only and are not
inductive. `Moves` says what any step may do to a request, and `Down` in which stages a
request can be while the process is gone; `UploadEndsHolds` follows because an upload
has a bounded number of steps before it, PUT and reload together.

Only model-checked: `GuardsEnable`. `LeastNumbers` is assumed and
neither checked nor proved. `UploadEnds` is proved and
is not among the runs; TLC found it true in the instance of `FrpcAdmin` with one text
that parses (122,857 states). Every property of a passing run is a theorem, some from a
hypothesis that is named in it (`~Dashboard`, `LoginFailExit`, `NoShortDays`). The type
invariants are theorems too; the run `ServerControl` checks one, where it bounds the
queues. The sentences that the other three runs refute are false of the code and need no
proof.

## 5. Deviations and what is not modelled

Behaviours that the models contain and that the properties above deliberately do
not exclude, because the code has them:

- a work connection that arrives after `close(workConnCh)` counts as registered
  and nobody closes it (`orphan` in `ServerControl`);
- a shutdown can hang in one of two blocked sends (`Wedged` in `ServerControl`), and a
  login that replaces such a control then waits for ever (`BehindWedge` in
  `ControlManager`);
- a login that replaces a control which was added but not started does not wait
  for it (`ControlManager`: `OneServing` speaks of controls not told to stop);
- a reserved port can be handed to two proxies of a name before either binds it;
  the loser of the bind releases it (`ProxyRegistry`); and to a proxy that rejoins
  a group while another group has it: the first of the two to end releases it
  under the other (`doubled` in `TCPGroup`);
- a dashboard close that comes late on a finished control removes a name that
  belongs to another control (`ServedIsRegistered` is stated without the
  dashboard); when the other control then registers that name again, the new
  proxy replaces the old one in its `ctl.proxies` and `portsUsedNum` counts both
  (`QuotaExact` is proved without the dashboard; `WithinQuota` holds with it);
- a group that asked for port 0 announces a port it does not listen on, and a
  failed `net.Listen` of a group keeps its port acquired (`TCPGroup`);
- a close during a reconnect can end in a nil dereference, or leave the control
  of the login under way running (`ClientService`);
- a failed first login ends the process at `src/client/service.go:152` whatever
  `login_fail_exit` says. This disagrees with the documentation: `src/conf/frpc_full.ini:93`
  has "decide if exit program when first login failed, otherwise continuous relogin to
  frps", the comment after the exit "otherwise sleep a while and try again to connect to
  server", and `src/pkg/config/client.go:112` "If false, the client will retry until a
  login attempt succeeds." `GivesUpLast` claims nothing for `login_fail_exit = false`;
- a late NewProxyResp can leave a wrapper running with nothing registered, or
  closed while frps serves its proxy (`ProxyWrapper`);
- the forwarder of a closed udp proxy releases its port a second time, and may
  hit the next owner of it (`ForwarderClose` in `ProxyRegistry`; `NoPortLeak` and
  `PortsPartitioned` hold all the same);
- a proxy that looked a group up before its last member left joins a group whose
  `acceptCh` is closed, and serves nobody (`deaf` in `TCPGroup`); the last member of
  such a group closes the channel again and panics before it releases the port;
- two PUTs at a time, or one that is cut off, can leave the file empty, garbled
  or without its token (`hurt` in `FrpcAdmin`); fetch resolves for
  every status and the page does not look at it, so a reload that is answered with 400
  is shown as "Success" (`src/web/frpc/src/components/ClientConfigure.vue:65`, which has
  a text for a failed reload at line 74), and so is one whose PUT failed; of two
  uploads the older may be applied last (`clean`);
- a reload that overlaps a reconnect is reported as a success and does not reach the
  new control (`overtaken` in `FrpcAdmin`, and the run `ClientService_reload`); one
  that changes [common] is reported as a success and changes nothing of it;
- an answer to a read replaces what was typed into the text area meanwhile
  (`GotConfig` in `FrpcAdmin`);
- a close that is reported before the open of the same proxy finds no counter,
  and the count stays one too high (`skipped` in `ProxyMetrics`); a close that the
  dashboard reports again after `stoper` makes it one too low (`twice`); a report about
  an earlier proxy of a name can hide the running one (`late`);
- a day of 23 hours is not rotated (`NoShortDays` in `TrafficStats`), and an answer that
  straddles midnight or arrives a day later is misdated (`BarsAreDated` leaves it out);
- an overview that was left still draws its charts into the next one
  (`FrpsDashboard`); a text of exactly 30 characters is not shown (`LongSpan`).

The gravest of these are hazards of their own in `PROJECT.json`, with no property; the
others are in the notes of the hazards beside which they stand. Four more places that
could go wrong are not modelled: the `LoginResp` of a control that is replaced before
`Start` (`src/server/control.go:260`), a panic inside `pxy.Close()` while `ctl.mu` is
held (`:726`), the match of a user name anywhere in a run id (`:93`), and the shadowed
`err` in the retry loop of `GetWorkConnFromPool` (`src/server/proxy/proxy.go:139`).

Left out of the models of the web pages: messages and notifications, colours and
layout, number and time formats, the dark mode, and the columns that go from the
answer to the table as they are (connections, traffic of the day, times, client
version). A text is a sequence of parts or, where only its length matters, a
number. `clearUselessInfo` may run at any time after the close, since its seven
days have no counterpart in `ProxyMetrics`; in `TrafficStats` it may also drop
the entry of a proxy that runs, which is harder on the properties than the code.

Not modelled: byte streams, encryption and compression, TLS, KCP, QUIC and
websockets, ini parsing, logging, the command line, the prometheus exporter, the
build files of the web pages. Auth, the user
API and the server plugins appear as "accepted" or "refused".

## 6. Plan

1. The visitors of the client, and `ProxyWrapper` over a connection that breaks.
2. Work connections: `GetWorkConnFromPool` with its retries on top of
   `ServerControl`; the udp proxy and its two channels.
3. Routing: vhost routers and muxer, http and tcpmux groups, http proxies with
   several domains and their roll-back; the visitor manager.
4. Nat hole controller and analysis, message transporter.
5. Algorithms against reference definitions: port ranges, version comparison,
   longest-prefix lookup.
6. `ProxyMetrics` on top of `ProxyRegistry`, so that reports come from its steps;
   a port in `NameRegistry` (free or held), for tcp proxies, which release it once.
7. More theorems: what the dashboard can and cannot break (which names a late
   close takes away), and the composition of `ControlManager` with
   `ServerControl`.

Each of items 1 to 4 asks questions of its own and needs a run; where room is
short it should replace the plainer questions of the runs above.
