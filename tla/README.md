# Formal models of Stavka's Commander

Stavka lets language models command one side of a battle in a game. This
directory holds TLA+ specifications of the parts whose correctness depends on
concurrency, failure and money: how a decision obtains, uses and pays for a
model, how the gateways and hosted seats that serve it keep their accounts and
limits, how the game's ticks, the commander's decisions and the sergeants'
assessments come together, and how a session is exported. TLC checks them on
small instances; TLAPS proves, for all instances, every safety property that is
checked and every refinement. The reference is the source code; line numbers
in `PROJECT.json` name what each definition stands for.

Run a check with `tlc -workers 2 -config SeatRouting.cfg MCSeatRouting`, the
proofs of a module with `tlapm SeatRegistryProofs.tla`.

## 1. The system

### How the parts interact

    game / simulator --HTTP: connect, tick, disconnect--> session object
                                                             |  ^
              Durable Object RPC: queue / list / acknowledge |  | scheduled
                                                             v  | callbacks
                                                         sergeants (facets)
    session object, sergeants --runRoutedAiDecision--> seat registry object
              (reserve, invoke, reconcile, mark unhealthy)    |
                                             WebSocket / HTTP |
                                                              v
                                       contributor seats, hosted seats, gateways
    session object --pages and a manifest--> object store
    session object --a request under a grant--> inference service --> container
    hosted seat object --a request--> container --rotated token--> back with the answer

All sessions of a deployment share one *seat registry*: the object of class
`OrchestratorAgent` named `__seat-registry__`. Every session, mission epoch and
faction has a *session object* of the same class under a name of its own, so
that the mission of an object never changes. The sergeants are its facets, one
per group of soldiers.

A Durable Object runs one handler at a time until that awaits something other
than its own storage; at such an await every other handler may run. That rule
decides the grain of the actions: the code between two awaits of calls, probes
or models is one action, and what is read before an await and used after it
is kept in a variable.

### Components

| component | state | operations | what is hard | what makes it correct |
|---|---|---|---|---|
| seat registry (`durable/orchestrator.ts` 336-365, 409-426, 949-1891) | seats with their accounts; reservations; the ledger of jobs; callers that wait, in memory; WebSockets | reserve, reconcile, invoke, mark unhealthy; register, remove, refresh; register, heartbeat and result messages; close; timers; restart | handlers interleave at probes; late results; replaced connections; stale reservations; the turn of the month | the books agree with the reservations; jobs end once; whoever waits is answered |
| seat budget (`brain/seat-budget.ts`) | an account: spent, reserved, exhausted, month | roll, reserve, reconcile | clipping at zero, the roll | see above |
| routed decision (`brain/seat-router.ts`) | a caller's place in the list of seats | reserve, invoke, reconcile, fail over, stretch, downgrade | lost calls and replies; crash and re-run under one invocation id | every reported usage is billed once; no reservation left behind; it ends |
| session object (`durable/orchestrator.ts` 383-930, `state/game-state.ts`) | last snapshot, pending commands, the pending decision and its version, sergeants, assessments taken over | connect, tick, disconnect; alarm; scheduled run | a tick yields four times, so ticks overlap with each other and with decisions; restarts | an assessment is taken over once; a stale decision is discarded; a request is served |
| sergeant (`durable/sergeant.ts`) | queue of work, finished assessments | queue, list, acknowledge; fibers; recovery | `onStart` and `onFiberRecovered` both retry; superseded attempts finish late; acknowledgements get lost | each report is assessed once, and kept until acknowledged |
| planner, rules, prompts, validation (`brain/`) | none | snapshot to prompt, reply to commands | text, geometry | not modelled |
| API router, configuration | none | routing, decoding | | not modelled |
| decision log, session archive (`logging/`) | SQL rows | save a tick, save a log; watermarks and pages of an export | a write may fail in the middle of a tick; rows appear below a watermark | an export holds every row counted, once |
| R2 session export (`logging/r2-session-export-repository.ts`, `persistSessionExport`) | reservation, pages and root in a bucket | begin, write page, complete, write; read, read a page, list | concurrent exporters, lost answers, an archive that grows | one complete export per key, readable, never replaced |
| sim-link (`packages/sim-link`) | tick counter, base of deltas, results to report, ledger of commands | connect, tick, disconnect, save and restore | lost responses, repeated requests, full or delta | a command is executed once and settled after its end; nothing reported is lost; both ends keep the same base |
| sim-core, protocol, doctrine, warbench | a simulated world; schemas; tables; statistics | sequential | floating point | not modelled |
| inference service (`services/inference`) | provider accounts, execution grants, the start lock, a container and the fingerprint of its account | forward a request; put, activate, delete an account; authorize, revoke; remap, kill switch | grants end and accounts change while a request queues, refreshes a credential or starts the container | a request runs on the account it read, under a grant that stands; the lock is never lost |
| hosted seat (`apps/maskirovka-seat`) | a queue, one encrypted account, a container that rotates the token | invoke, checkpoint, put and delete the account, kill switch | requests are interrupted anywhere; the newest token is only in the container until it is saved | the queue's books; a request runs on its own account; no rotation is lost or overwritten |
| gateway runtime (`tools/maskirovka`), in the inference service's container | the windows of two plans and their file, permits, aliases and kill switch, a cache | run a request with failover; reserve, reconcile, refund; remap, kill | failing writes, restarts, clients that leave, expiring reservations | plans are never overdrawn; reservations do not leak; what was answered and switched survives |
| provider-auth, access-auth, model providers | tokens | refresh, verify, call | concurrent refresh | a later candidate |
| stavka web application, command-line tools, mods | user interface; drivers; the game's own client | | | not modelled |

`PROJECT.json` lists them with their files and the reason for what is left out.

## 2. The modules

| module | stands for |
|---|---|
| `SeatBudget` | the three functions on an account |
| `SeatRegistry` | the registry object, with open callers: any method, any time, any number of times |
| `SeatRouting` | decisions being routed, which close the registry: EXTENDS `SeatRegistry` |
| `Sergeant` | the sergeants of one session, with the fibers of the SDK |
| `CommanderSession` | the session object, which closes the sergeants: EXTENDS `Sergeant` |
| `CommandLife` | what the tick protocol promises about a command |
| `TickLink` | the game's link, lossy HTTP, and the session's end of the tick protocol; implements `CommandLife` |
| `ExportRegister` | what the export repository promises: write-once registers |
| `SessionExport` | exporters, the archive they page through, and the bucket; implements `ExportRegister` |
| `HostedSeat` | a hosted seat's object and its container |
| `PlanGateway` | the gateway runtime with its plan tracker and files |
| `InferenceGateway` | the inference service's object and its container |
| `SeatRegistryProofs`, `SeatRoutingProofs`, `CommanderSessionProofs`, `TickLinkProofs`, `SessionExportProofs`, `HostedSeatProofs`, `PlanGatewayProofs`, `InferenceGatewayProofs` | theorems and their proofs |
| `MCSeatRegistry`, `MCSeatRouting`, `MCCommanderSession`, `MCSessionExport`, `MCPlanGateway`, `MCInferenceGateway` | constants, symmetry and state constraints for TLC |

Definitions called "Mutant" are plausible mistakes in one definition; no
specification uses them. They serve to see that each property notices one.

### SeatBudget and SeatRegistry

Money is counted in whole units of an estimate; `Monus` is the code's
`Math.max(0, ...)`. An account is rolled (`Roll`) whenever it is touched in a
later month. `Estimate` is what a decision reserves (the code's conservative
upper bound); `Costs` is what a provider may report, which may exceed it.

| variable | code |
|---|---|
| `seats` | `state.seats` (`SeatRegistration`), a record per seat |
| `leases` | `state.seatBudgetReservations`, by `invocation:seat` |
| `jobs` | `state.contributorJobLedger`, by job id, one per invocation and seat |
| `live` | `contributorJobs`, the map of callers waiting, gone on restart |
| `answers` | what a caller last heard: a history variable |
| `bound` | every WebSocket: open, closing or closed, and its `connection.state.seatId` |
| `probe` | what `refreshSeats` or `registerSeat` holds while it awaits a probe |
| `period`, `stale`, `due` | the clock: month, reservations older than five minutes, jobs past their deadline |

The wall clock is abstracted to the comparisons the code makes. A reservation
becomes stale, a deadline passes, a seat's health lapses and the month turns in
actions of their own at any moment, so every order of timers is covered; that
is more than a real clock allows, never less.

`refreshSeats` is one action (`RefreshSeats`) if no seat needs a probe, and
otherwise `RefreshStart` and `RefreshFinish`, between which everything else may
happen. `registerSeat` splits in the same way. `Result` is the handler of a
result message for a job that is pending, `LateResult` for any other.

`connection.close` only begins to close a WebSocket: what its contributor had sent
before may still be delivered, and the close event comes later. So a registration
and a removal leave the other connections of the seat "closing" (`Closing`), whose
messages are handled like any, and `Close` is the event, which fails the seat's jobs
if the connection is still the seat's (`Abandoned`).

### SeatRouting

One decision per invocation id; the state of a caller is `pc`, the seats still
to try (`todo`) and the seat it is at (`at`). Every call of the registry has a
variant whose call or reply is lost ("rpc"); a reply lost after the call took
effect is the interesting one. `Crash` is the restart of the session object,
after which `onStart` schedules the decision again *under the same invocation
id*. The policies: *stretch* skips a decision if no seat can pay, *downgrade*
uses the metered API.

### Sergeant and CommanderSession

A tick (`handleTick`) is split where it awaits a call:

    Tick -> Drain -> Merge -> Queue -> Decide -> Acknowledge

`Tick` applies what the game sent; `Drain` lists the sergeants' finished
assessments, any of which calls may fail; `Merge` takes over those not yet
processed; `Queue` hands new reports to sergeants; `Decide` requests a decision
and answers; `Acknowledge` lets sergeants forget. `SaveFails` ends a tick where
a log or an archive cannot be written. Several ticks may be under way
(`Handlers`): the link gives up on a request after its timeout and sends the
next tick while the object is still at work on the first.

A decision is requested at a priority (scheduled < report < event), has a
version that grows when it is superseded, and is made by a scheduled callback
(`RunStart`, `RunFinish`), whose result is discarded if it is stale by then.
`sent` and `settled` are the game's side: commands it received and commands it
reported the end of.

`startFiber` and `onFiberRecovered` belong to the agents SDK and are modelled
from how `sergeant.ts` uses them: a fiber starts once per key and its status
outlives a restart; a fiber that was running is *interrupted* by a restart and
later reported to `onFiberRecovered`, before or after `onStart`.

### TickLink and CommandLife

`RestCommanderLink` has one tick under way (`request`), retries its HTTP request
with the same body (`Retry`), and otherwise gives the tick up (`GiveUp`): what it
carried waits for the next one, which is full. Messages are on the `wire` from
`TickStart` or `Retry` until `Receive`, which may be long after the link stopped
waiting for them. `Receive` is `handleTick` up to its first await, and `Answer`
its end; between them a later tick may be applied, so that the answer names that
one. `handlers` are those under way, `cached` is `lastTickResponse`.

A snapshot is the id of the tick that took it. A delta carries the id of its
base (`base`, the code's `#lastSnapshot`), which the code does *not* send: the
session checks ids of ticks only, and `NeverMixed` says that this is enough.
`ledger`, `acceptedSent` and `results` are `#commandLedger` and
`#pendingResults`; `times` and `over` are the world's side of a command; "ended"
is completed or failed.

`CommandLife` is the abstract specification: unknown, issued, executed (once),
ended, settled. `Life` maps the two sides' states to it: a command is *settled*
when the session no longer has it among its orders, and otherwise as far as the
link's ledger says.

### SessionExport and ExportRegister

A call of `persistSessionExport` ("stream") takes the time, the header and the
watermarks of the tables in one step (`Start`), reserves a plan of pages
(`Check`, `Reserve`, `Recheck`), and then for each page reads the archive,
asserts its lease and puts the page (`AssertLease`, `PutPage`), until it
verifies all pages and puts the manifest (`Verify`, `Complete`). `write`, which
gets an assembled export, stores a small one as one object ("inline") and cuts
a larger one into pages ("chunks"). Ticks and logs are saved at any moment, a
tick older than the newest included, since handlers overlap.

| variable | code |
|---|---|
| `rowid` | the rows of `tick_history` and `decision_logs` |
| `reservations`, `pages`, `roots` | the bucket's objects, by key |
| `writer` | what a call's fiber holds: lease, watermarks, cursors, descriptors |

Objects are never overwritten nor deleted, so a read of one known to exist is
part of the step before. A digest is replaced by what it is computed from.
`ExportRegister` says that a key holds at most one value for ever and that a
call is told what its key holds, or nothing; `RegisterSpec` is the refinement,
with `roots` for the register.

### HostedSeat

A credential is an account and the number of its rotation; the provider accepts
the newest (`newest`). A request passes the governor (`Arrive`, `Begin`), makes
sure of the container under the start lock (`EnsureReady`, `StartContainer`,
`PortsReady`), is handled in it (`ContainerFetch`, `ContainerAnswer`), and saves
the checkpoint that came with the answer (`ReadStored` to `RecordInjected`, a
step between any two awaits). `Rotate` and `Offered` are the container's side.
`PutAccount` and `DeleteAccount` are the operator's, each followed by
`RestartForAccount`. `Abort` is the client's signal, which interrupts a request
anywhere and runs its releases (`Left`); the container's handler goes on.
`stop` is taken to end the container at once.

| variable | code |
|---|---|
| `stored`, `fingerprint`, `lifecycle`, `killed` | the object's tables |
| `governor` | `SeatInvocationGovernor`: active, admitted, and the semaphore's queue |
| `container` | the container's environment and its `acknowledgedFingerprint` |
| `handlers` | requests being handled in the container |

### PlanGateway

"codex" has a plan of calls in a sliding window, "claude" one of credit in a
calendar month, "api" none; a call costs one unit. `tracker` is
`WindowTracker`'s memory, `file` what it wrote last, `writer` the permit under
which a change is made and written (`Change`, `Written`), with the state to
which a failed write restores (`before`) and the snapshot that is being written
(`to`): others may prune the tracker meanwhile, the snapshot they do not touch.
`fenced` is the set of seats that were exhausted when last looked at, which a seat
with a monthly budget of its own (`Budgeted`) may be at any look. An attempt is `Reserve`, `Invoke`, and `Reconcile` or
`Refund`; `Onward` resolves the next seat. `registry` and `saved` are aliases and
kill switch in memory and on file, `updates` the writes under way. `answered`,
`stranded` and `switched` are history: usage whose attempt ended with it,
reservations whose refund was lost, and the kill switch as last confirmed.

The runtime runs in the container of the inference service (`container/main.ts`).
`Restart` is that of its process with its state directory kept, which is what its
files are written for. The service puts that directory under `/tmp` of the container
(`gateway-container.ts` 655), so a container that is started anew begins with an
empty tracker: a hazard no property covers.

### InferenceGateway

A request queues for the start lock (`Arrive`, `Begin`), under which it consumes
one of its grant's requests, refreshes a credential that is about to expire
(`Refresh`), starts the container or finds it running with the same fingerprint
(`EnsureReady`, `StartContainer`, `PortsReady`), checks the grant again
(`Verify`) and is answered (`ContainerFetch`, `Answer`). The owner's calls are
not under the lock. A container key is a name and a revision of the account;
`fingerprint` is the row of `gateway_container_runtime`.

## 3. What TLC checks

| run | question | properties |
|---|---|---|
| `seat_registry` | two connections that replace each other at one contributor seat, their late messages and close events, two invocations in any order, stale reservations | `LeasesAreHeld`, `HealthyIsConnected`, `SettledOnce`, `SuccessorUndisturbed` |
| `seat_refresh` | three invocations at an HTTP seat that may be removed, over the turn of a month, with stale reservations, restarts, and refreshes suspended in a probe | `HeldByLeases` |
| `seat_routing` | one decision over a contributor seat and an HTTP seat with the stretch policy; disconnections, timeouts, late results | `NoUnresolvedLease`, `DeliveredIsBilled`, `BilledOnce`, `DecisionsEnd` |
| `routing_live` | lost calls, restarts and a crash at one seat that may be removed, over the turn of a month | `RoutingTypeOK`, `WaitersWillHear`, `AnswersMatchLedger`, `TerminalJobsStay`, `DecisionsEnd`, and the refinement `Spec` |
| `session` | two ticks under way, two reports, lost calls, refused and failing fibers, failing writes, a restart | `SessionInv`, `NeverReissued`, `AssessedOnce` |
| `session_live` | disconnections, superseded decisions, a restart | `DecisionsAreMade`, `ReportsAreHeard` |
| `tick_link` | one command and one piece of news over a connection that loses and delays messages | `LinkInv`, `NewsNotLost`, the refinement `CommandsLive`, `CommandsProgress` |
| `session_export` | two exports of a growing session, under one key or two, with failing calls of the store | `ExportInv`, `PublishedIsReadable`, `ExportIsComplete`, the refinement `RegisterSpec` |
| `hosted_seat` | three requests, two accounts, rotations, and one interruption, stop or restart at any moment | `SeatInv`, `ServedByOwnAccount`, `RotationIsOffered`, `CheckpointsAreNewer`, `RequestsEnd` |
| `plan_gateway` | two requests over three seats and an operator, with failing writes, restarts, clients that leave; in two modes | `PlanInv`, `NothingLeaks`, `UsageSurvives`, `SwitchSurvives` |
| `inference` | two requests, two accounts, a grant renewed and revoked, and one interruption, stop or restart | `GatewayInv`, `RunsOwnAccount`, `RevokedNeverBegins` |

An invariant whose name ends in `Inv` is a module's types with the facts every
later proof will start from: `SessionInv` adds `AcknowledgedIsIssued`, `LinkInv`
`NeverMixed`, `ExportInv` `OnePlan`, `SeatInv` `AdmittedAreCounted`, `PlanInv`
`PlanHolds` and `CreditHolds`, `GatewayInv` `WithinLimit` and `LockIsLeft`.
`BilledOnce` is `NeverBilledTwice` and `NeverLost`, and `CommandsProgress` is
`EndsAreHeard` and `OrdersArrive`.

Every run finishes: the state spaces are finite and searched whole. Deadlock is
checked in the runs of the registry, of routing and of the session. The others
stop when every request, export or message there is has been dealt with.

### Findings

One run ends in a violation of a statement the repository makes:

* `refresh_race` (`ReservationsStay`): `refreshSeats` computes seats,
  reservations and jobs, awaits the health probes of HTTP seats, and then writes
  all three over the present state (`orchestrator.ts` 1003-1045). A reservation
  accepted meanwhile vanishes, although `seat-budget.ts` 25-28 says that the
  registry serializes this transition. The same write can undo a reconciliation.

More disagreements between the code and what its comments or documents say were
found in the same way. Each is reproduced by a change of a configuration, given
here, and is kept out of the passing runs by the fault that it needs:

| property | where | how |
|---|---|---|
| `NeverBilledTwice` | `orchestrator.ts` 1386; the comment at 1285-1289 says "exactly once" | `SeatRouting.cfg` with this property alone, `Seats = {s1}`, `Faults = {"crash"}`, `Stretch = FALSE`: a caller that crashed runs again under its id and reconciles the cost of a late result the registry has billed |
| `SergeantsStayKnown` | `orchestrator.ts` 538-543, 626; the comment at 532-535 says that every later mutation starts from `this.state` | `CommanderSession.cfg` with two groups, one work each: of two overlapping ticks the later write drops a group the other added |
| `RetryNotRefused` | `orchestrator.ts` 1921; `r2-session-export-repository.ts` 191 says that the caller's time keeps retries deterministic | `SessionExport.cfg` with this property: after an export that reserved its key and died, every retry under the same id has another time in its header and is refused |
| `CheckpointsAreNewer` | `seat-state-repository.ts` 293-311; the seat's `README.md` 15-17 says that stale responses cannot overwrite newer auth | `HostedSeat.cfg` with two requests and `Faults = {"overlap"}`: an account put while a checkpoint is encrypted is overwritten, one deleted comes back |
| `RotationIsOffered` | `container/auth-state.ts` 105 | `Faults = {"short"}`: a token rotated twice before the first rotation is acknowledged is not offered any more. The window is an answer's, tokens last longer |
| `UsageSurvives` | `window-tracker.ts` 268-273 | `PlanGateway.cfg` in mode "live" with the faults `{"leave", "overtake"}`, at most two (as below): a client that leaves while its usage is written gives up the permit, and the write left behind lands on a later one |
| `ReportsAreCounted` | `window-tracker.ts` 250, 483; `docs/OPERATOR_GUIDE.md` 167-169 says that reported usage is still counted | `{"slow"}`: the usage of a call that outlives its reservation is refused |
| `SwitchSurvives` | `services/seat-registry.ts` 113-147 | `{"race", "change"}`: the older of two changes lands last, and the kill switch is off after a restart |
| `RunsOwnAccount` | `gateway-container.ts` 609, 692 | `InferenceGateway.cfg` with three requests, `MaxGrants = 0`, `Faults = {"abort", "midstart"}`: a start is given up before its fingerprint is recorded, and the one recorded is of an account that is active again |

`HeldByLeases` is checked without re-registrations of HTTP seats ("reregister"),
since `registerSeat` has the same pattern as `refreshSeats`. `seat_routing` is
checked without refreshes that are suspended in a probe ("refresh"): the write
after the probe would undo what was billed meanwhile, as `refresh_race` shows.
`LeasesAreHeld` is checked within a month and without removals, which forget
what is held.

### Bounds, and why they are enough

* *Seats and invocations.* The registry never relates two seats except when it
  maps over all of them, so one seat with two invocations shows interference on
  an account, and two seats with one invocation show failover.
* *Connections.* The code compares a connection with the active one; two show
  replacement and the messages of a replaced one (`seat_registry`). A
  removed seat's connections close likewise: `routing_live` has the removal with
  one connection, the theorems any number. A restart loses callers and suspended
  handlers, and no connection or money; it is in `routing_live` and `seat_refresh`.
* *Money.* `Estimate` = 1 and `Costs` = {1} with 0 for none: an account holds
  0, 1 or 2 estimates, and so is below, at, or one above its budget. In
  `seat_routing` a cost is an estimate or three times that, more than the budget.
  `SpendingBounded` cuts behaviours whose spending exceeds the budget by more
  than one late result; it only limits how often late results are repeated.
* *Months.* Two (`LastPeriod` = 1): accounts of this month and of an earlier one.
* *Crashes, restarts.* One of each is enough to lose memory with each kind of
  thing pending; the registry may restart any number of times.
* *Ticks.* Two under way show every pair of interleaved awaits. `Interval` is
  the number of ticks between scheduled decisions; 1 and 2 are "due" and "not
  yet due".
* *Work.* Two reports of one group share a queue; four attempts allow for
  every retry one restart can cause for two recoveries.
* *KeepProcessed* is 500 in the code and at least the number of reports here.
  With fewer, `NeverReissued` fails once acknowledgements are lost often
  enough.
* *KeepGroups* is 50 in the code and at least the number of groups here: what
  happens to the fifty-first is in the theorems (which hold for any number) but in
  no run.
* *Messages.* `MaxFaults` = 2 lost or late messages, restarts or full snapshots
  asked for, with `MaxTries` = 2 attempts at a request: a tick fails for good, and
  the next one meets what is left of it. Instances with two pieces
  of news, and with three faults for the safety properties, were checked as well;
  they take longer. `Worthwhile` bounds
  the ids: the link ticks when it has something to send or to fetch, where the
  code ticks for ever.
* *Exports.* Two calls are a first attempt and a retry, or two exporters of one
  session; an export id or the time names the key, and `MaxClock` = 1 makes two
  times. `PageRows` = 1 with three ticks and one log gives plans of no, one and
  two pages, and one page too many for `MaxPages` = 2.
* *Hosted seat.* `Concurrency` = 1 is the code's `SEAT_CONCURRENCY`
  (`seat-container.ts` 33); `MaxQueue` = 1 and three requests give one served,
  one waiting and one refused. Two accounts of up to two rotations are an old
  and a new one of each kind; one fault at a time (`MaxFaults`), at any moment.
* *Gateway runtime.* Two requests, plans of one unit, permits as in the code where
  they matter: two requests are one too many for every plan. `MaxTime` = 2 with
  a window of 1 and a month of 2 lets entries leave the window and the month
  turn. In mode "record", where
  answers are also put in the cache, any one fault or change; in mode "replay",
  where requests only write what was saved, any four, overtaken writes included.
  `Budgeted` = {"claude"}: a seat with a plan may also be out of budget.
* *Inference.* A grant of one request, renewed once; two accounts of two
  revisions, so that an account is written again after it was deleted.

### Fairness

`routing_live` and `seat_routing`: a caller that can take a step does, the
clock passes deadlines, and timers fire. These are properties of the runtime.
No fault is ever bound to occur or to cease, and no contributor is ever bound
to answer: `DecisionsEnd` rests on deadlines alone.

`session_live`: ticks keep coming, handlers and callbacks run, a model's call
ends, and a recovered fiber is restarted. A callback scheduled with `schedule`
is kept in the object's storage until it has run. Nothing makes the game
report, end commands, or reconnect, which is why `DecisionsAreMade` allows for a
disconnection. `ReportsAreHeard` is checked without failing fibers, because
work whose fiber failed does wait for the next restart.

`hosted_seat`: a fiber of the object and a handler in the container take their
next step if they can (`RequestStep`), which is the runtime's promise; requests
do not have to arrive, nor the operator or a fault to act. The queue is first
come, first served, as the semaphore's is.

`tick_link`: the link ticks, requests that are not lost arrive, handlers end or
die, and an attempt that nothing can answer times out. `MaxFaults` stands for
"the connection works again after a while", without which nothing arrives.

## 4. What is proved

Every invariant and every action property of a passing run, and the three
refinements, for every value of the constants that satisfies the named
assumptions (`SeatsAssumption`, `LinkAssumption` and so on: sets are finite,
limits are numbers, placeholders are not members). Where a theorem assumes more,
the list says what and why; a fault that is excluded is one whose counterexample
is among the findings, unless another reason is given.

Most of the properties are not inductive. Each module has an invariant that is
(`...Inv`), a conjunction of named parts; a proof has one lemma for each action,
and in it one step for each part the action touches. Each inductive invariant was
checked with TLC before it was proved.

### The registry: `SeatRegistryProofs`

* `TypeCorrect`, `SuccessorsAreUndisturbed` (`SuccessorUndisturbed`): no assumption.
* `HealthySeatsAreConnected` (`HealthyIsConnected`): if no refresh is suspended in a
  probe, whose write would undo a disconnection, and a connection's credential is
  valid for one seat (with the bootstrap token, a connection may register a second
  seat and leave the first without one). `ConnInv` adds
  that a connection is only bound to a seat its credential is valid for.
* `MoneyHeldIsBacked` (`HeldByLeases`), if seats are not re-registered by an
  operator. A suspended refresh will write the seats it has computed along with
  the reservations it has read, so `HeldInv` says the same of both pairs, the
  present one (`Backed`) and the one in `probe` (`ProbeBacked`). The arithmetic
  is in lemmas on the `Cardinality` of the open reservations.
* `OpenLeasesAreHeld` (`LeasesAreHeld`), the other direction: besides, no seat is
  removed and the month does not turn, since both forget what is held.
* `NobodyWaitsInVain`, `AnswersAreFinal`, `TerminalJobsAreFences`,
  `LeasesSettleOnce`, `LeasesStay`: if no refresh is suspended in a probe
  (`RefreshesRun`: there are no HTTP seats, or none of them lapses). `JobsInv`
  (types, no such probe, `WaitersWillHear`, `AnswersMatchLedger`) is inductive
  then, and the three action properties follow. `LeasesStay` proves
  `ReservationsStay`, which `refresh_race` violates without the assumption.

### Routing and billing: `SeatRoutingProofs`

* `CallersImplementRegistry`: `RoutingSpec => Spec`. Callers, with all their
  losses and crashes, are one of the callers `SeatRegistry` allows, so every
  theorem about the registry holds of the composition. The refinement mapping
  is the identity on the registry's variables.
* `RoutingTypeCorrect`: no assumption.
* `NoReservationIsLeft` (`NoUnresolvedLease`): without crashes of a caller and
  suspended refreshes. A crashed caller starts anew with another list of seats
  and does leave its reservation, until it goes stale.
* `DeliveriesAreBilled` (`DeliveredIsBilled`): besides, without reservations that
  go stale, for `reclaimStaleReservations` takes them from a caller still at work
  and its cost is dropped. Calls may be lost and the registry may restart.
* `UsageIsBilledOnce` (`BilledOnce`), in the circumstances of `seat_routing`: no
  lost call, no restart, within a month, without removals. `BillsInv` says that
  a seat's account is the sum, over the jobs of the seat, of the `Bill` of each:
  its recorded cost, or nothing while its caller has yet to reconcile it. A
  step changes one bill and the account by the same amount, or neither.
* `UsageIsNeverBilledTwice`: the half of it that remains under lost calls and
  replies, restarts of the registry, stale reservations, removals and the turn
  of months. `TwiceInv` says that an account is at most the sum of its bills. It
  needs that a caller that may still ask for a job finds none on the ledger,
  which is what a crash breaks: the finding on line 1386. No run lists it.

The sums are over sets of any size. The standard way, induction on the set, takes
an operator as parameter, which the provers cannot instantiate; here
the least counterexample is taken instead (`LeastSet`, from the well-founded order
of strict subsets), and a sum is characterised by its equation before it is
shown to exist and to be unique (`IsSum`, `SumExists`, `SumUnique`). Facts such as
`TotalChanged` and `TotalMore` then need no recursion.

### The session and its sergeants: `CommanderSessionProofs`

* `SessionSound` (`SessionInv`), `ReportsAssessedOnce` (`AssessedOnce`): any number of
  groups, reports, ticks under way and restarts. `SInv` bounds the number of
  decisions by what asks for them (`Bounded`), and says of each tick that what it
  drained was issued or is still to be merged (`Taken`).
* `CommandsStayEnded` (`NeverReissued`): if the list of processed assessments
  holds the ids of all the works there are (`KeepProcessed`, 500 in the code), and
  no group of sergeants has the commander's name.

### The tick protocol: `TickLinkProofs`

* `LinkSound` (`LinkInv`), `NewsStay` (`NewsNotLost`), and `LinkImplementsLife`: the
  two ends implement `CommandLife`. No assumption on faults; any number of
  attempts and messages. The part of `IInv` that carries the others is `Sound`,
  which holds of every request wherever it is: with the link, on the wire, in a
  handler or remembered with its answer.

### The export: `SessionExportProofs`

* `ExportSound` (`ExportInv`), `ListedIsReadable`, `PublishedIsComplete`, and
  `ExportsAreRegisters`, the refinement of `ExportRegister`: any number of
  exporters, ids, rows and pages, and any faults. `Knows` says of each call what
  its cursors have reached and what its pages hold; a row it counted is on one
  page that was sent, on the present one, or beyond the cursor (`Streams`), and
  at the end on a page (`Covers`). The proof needed that no two cases of `Loaded` overlap, which
  the code's order of tests gives.

### The hosted seat: `HostedSeatProofs`

* `SeatSound` (`SeatInv`): no assumption; any number of permits. The queue of the
  governor is shown to be a list of the waiting requests without repetition.
* `OwnAccountServes` (`ServedByOwnAccount`): with one permit, the code's
  `SEAT_CONCURRENCY`. With two, one request restarts the container for its account
  between another's readiness and its fetch.
* `RotationsAreOffered`, `NewerCheckpoints` (`RotationIsOffered`,
  `CheckpointsAreNewer`): besides, without "short" and "overlap". `Offers` ties
  what the container has and the object has stored to what is on its way between
  them, for every interruption and restart.

### The gateway runtime: `PlanGatewayProofs`

* `PlanTypeCorrect`; `ReservationsAreOwned` (`NothingLeaks`): no assumption on faults.
* `SwitchIsKept` (`SwitchSurvives`): without "race".
* `UsageIsKept` (`UsageSurvives`), `PlanIsSound` (`PlanInv`): writes are not left
  behind by their request ("overtake"), and for `PlanInv` calls do not outlast
  their reservation ("slow"), except in mode "replay", where nothing is called.
  `Snapshot` says of a write under way that it differs from the tracker by what
  was pruned since; `Books` relates the entries and reservations of every copy of the tracker (in
  memory, written, in the file) to where the requests are.

### The inference service: `InferenceGatewayProofs`

* `GatewaySound` (`GatewayInv`), `RevokedGrantsStayUnused` (`RevokedNeverBegins`): no
  assumption. `WithinLimit` needs that a grant began at most what it has used, and
  less as long as one of its requests is between `Begin` and `Verify` (`Books`).
* `OwnAccountRuns` (`RunsOwnAccount`): without "midstart". `Vouched` says when the
  recorded fingerprint is that of the running container.

### What is only model-checked

Liveness: `DecisionsEnd`, `DecisionsAreMade`, `ReportsAreHeard`, `CommandsProgress`
and `RequestsEnd`. They rest on fairness and `ENABLED`, which TLAPS does not
handle. The mutants, and the violations among the findings, are TLC's as well.

### What is not modelled

Text and geometry (prompts, planning, validation, maps), vendors' interfaces,
authentication, HTTP routers, the user interface, the simulation and its
statistics: a single writer or a pure function each, where a model would repeat
the code. The saving of a link together with its world, and a link that starts
again for a session that has seen later ticks (`sim-world.ts` 326, 566): a tick
id would then name two ticks, which breaks what `TickLink` relies on. Of the
session object: its mirror of the registry's seats (refreshed from the registry,
it decides no payment), cost aggregates, memory summaries, and the
budget of manpower. Fractions of a cent: the code rounds to millionths after
every operation. Of the gateway runtime: the budget of live sergeant calls, limits
in tokens, what is left of a seat's own monthly budget (left open), the totals of
money saved, the order and bound of the governor's queue, and the loss of the
container's file system. Of the inference service: signing up and roles,
the replay cache, the metadata of requests, the contents of aliases, a second
provider. Of the hosted seat: aliases, the request log, and the time a container
takes to stop.

## 5. Plan

Done: all modules above, and the proofs of all their safety properties. Next:

1. Weaker assumptions for the theorems that need them: which of the properties
   of jobs survive a suspended refresh (no outcome is lost where the probe read
   it), and what `NeverLost` keeps where calls are lost (a seat has paid
   what its callers reconciled and what came late).
2. An abstract account, to which every reservation, reconciliation and late
   bill is a step, as the specification `SeatRegistry` and `SeatRouting` implement.
3. For the safety part of `DecisionsEnd`: that a caller which waits has a measure
   that each of its steps lowers, so that only the fairness is left to TLC.
4. Concurrent refreshes of one account in `packages/provider-auth`, and the
   validation of commands against a budget (`brain/command-validator.ts`).
