---------------------------- MODULE PlanGateway ----------------------------
(***************************************************************************)
(* The gateway runtime (tools/maskirovka): requests take a permit of their *)
(* seat's governor, reserve of the subscription plan's window, call the    *)
(* seat, and exchange the reservation for the usage reported or give it    *)
(* back; a failed attempt goes on to another seat.  The tracker of the     *)
(* plan writes its whole state to a file at every change, one change at a  *)
(* time; aliases and the kill switch are written to another, in any order. *)
(*                                                                         *)
(* Seats are of two kinds: "codex" has a plan of WindowCalls calls in any  *)
(* Window of time, "claude" one of MonthlyCredit in a month; "api" has no  *)
(* plan.  A call costs one unit.  Steps are the code between two awaits.   *)
(***************************************************************************)
EXTENDS Integers, FiniteSets

CONSTANTS
    Requests,       \* requests of one tier, each sent once, of equal content
    Seats,          \* healthy seats with an adapter, of SeatKinds
    Aliases,        \* those the tier may be mapped to
    Modes,          \* modes the gateway may be started in
    Policy,         \* budgetPolicy: "fallback" or "stretch"
    Concurrency,    \* permits of each seat's governor
    WindowCalls, Window, MonthlyCredit,
    Month,          \* the length of a month
    Ttl,            \* how long a reservation lasts
    Budgeted,       \* seats with a monthly budget of their own
    MaxTime,        \* bound on the clock
    Faults,         \* the faults considered, of FaultKinds, in each mode
    MaxFaults,      \* bound on their number, in each mode
    Nobody          \* no holder of the tracker's permit

SeatKinds == {"codex", "claude", "api"}
\* save: a write fails.  leave: a client gives up.  overtake: it does so while
\* its usage is being written.  slow: a call outlasts its reservation.
\* restart: the process restarts.  race: the operator does not wait for one
\* change to be written before the next.  change: the operator makes one (no
\* fault, but bounded with them).
FaultKinds == {"save", "leave", "overtake", "slow", "restart", "race", "change"}

ASSUME PlanAssumption ==
    /\ IsFiniteSet(Requests) /\ Nobody \notin Requests
    /\ Seats \subseteq SeatKinds /\ "api" \in Seats /\ Aliases \subseteq Seats
    /\ Budgeted \subseteq Seats
    /\ Modes \subseteq {"live", "record", "replay"}
    /\ Policy \in {"fallback", "stretch"}
    /\ Concurrency \in [Seats -> Nat \ {0}]
    /\ WindowCalls \in Nat \ {0} /\ MonthlyCredit \in Nat \ {0}
    /\ Window \in Nat /\ Month \in Nat \ {0} /\ Ttl \in Nat \ {0}
    /\ MaxTime \in Nat /\ MaxFaults \in [Modes -> Nat] /\ Faults \in [Modes -> SUBSET FaultKinds]

VARIABLES
    mode,       \* config.mode
    tracker,    \* WindowTracker: entries, reservations, monthly usage
    file,       \* usage-tracker.json
    writer,     \* who holds the permit, the state before, what is being written
    stray,      \* writes whose request was interrupted
    fenced,     \* SeatRegistry.budgetExhausted
    registry,   \* SeatRegistry: killed, and the seat of the tier's alias
    saved,      \* gateway.json
    updates,    \* changes of the registry being written
    cached,     \* whether the cache holds the answer
    req,        \* the requests
    now, faults,
    answered,   \* usage whose request went on with it
    stranded,   \* reservations that nobody will give back
    switched    \* the kill switch as the operator was last told, if it was

books == <<tracker, file, writer, stray>>
control == <<registry, saved, updates, switched>>
planvars == <<mode, books, fenced, control, cached, req, now, faults, answered,
              stranded>>

MonthOf(t) == t \div Month
Free == [by |-> Nobody, before |-> Nobody, to |-> Nobody]
Unborn == [pc |-> "new", seat |-> "api", excluded |-> {}, at |-> 0, result |-> "none"]
\* A reservation, and the usage it becomes, is named by request and seat: no
\* request tries a seat twice.
Id(r) == <<r, req[r].seat>>

-----------------------------------------------------------------------------
(* The tracker.                                                            *)

\* prune, by whoever looks at the tracker.
Pruned(t) ==
    [t EXCEPT !.entries = {e \in @ : e.at >= now - Window},
              !.reservations = {x \in @ : x.at + Ttl > now}]

Calls(t) == {e \in t.entries : e.seat = "codex"}
Open(t, seat) == {x \in t.reservations : x.seat = seat}
\* Claude's reservations count in the month they were made in.
OpenCredit(t) == Cardinality({x \in Open(t, "claude") : MonthOf(x.at) = MonthOf(now)})
UsedCredit(t) == IF t.credit.month = MonthOf(now) THEN t.credit.used ELSE 0

\* Mutant: one call too many.
AdmitsOneMore(t, seat) ==
    seat = "codex" => Cardinality(Calls(t)) + Cardinality(Open(t, seat)) <= WindowCalls
\* The checks of reserve, and of headroom.
Admits(t, seat) ==
    /\ seat = "codex" => Cardinality(Calls(t)) + Cardinality(Open(t, seat)) < WindowCalls
    /\ seat = "claude" => UsedCredit(t) + OpenCredit(t) < MonthlyCredit

Reserved(t, r, seat) ==
    [t EXCEPT !.reservations = @ \cup {[id |-> <<r, seat>>, seat |-> seat, at |-> now]}]
Without(t, id) == [t EXCEPT !.reservations = {x \in @ : x.id # id}]
\* applyRecord.  The entries of a seat without a plan, which only reports
\* read, are left out.
Recorded(t, id, seat) ==
    LET p == Pruned(t)
    IN  [p EXCEPT
            !.entries = IF seat = "api" THEN @
                        ELSE @ \cup {[id |-> id, seat |-> seat, at |-> now]},
            !.credit = IF seat = "claude"
                       THEN [month |-> MonthOf(now), used |-> UsedCredit(p) + 1]
                       ELSE @]
Has(t, id) == \E x \in t.reservations : x.id = id

\* A change of the tracker: made at once, and written under the permit as it
\* is now; those who look at the tracker meanwhile may prune it.
Change(r, t) ==
    /\ writer.by = Nobody
    /\ tracker' = t
    /\ writer' = [by |-> r, before |-> tracker, to |-> t]
    /\ UNCHANGED <<file, stray>>

\* A failed write takes the change back.
Restored(t) == t
\* The write ends, well or not.
Written(ok) ==
    /\ writer' = Free
    /\ file' = IF ok THEN writer.to ELSE file
    /\ tracker' = IF ok THEN tracker ELSE Restored(writer.before)
    /\ UNCHANGED stray

-----------------------------------------------------------------------------
(* Routing.                                                                *)

\* refreshBudgetExhaustion, with the pruning it entails.  What a month has cost
\* at a seat with a budget is left open.
Exhausted(t) == {s \in Seats : ~Admits(t, s)}
Refresh ==
    /\ tracker' = Pruned(tracker)
    /\ \E over \in SUBSET Budgeted : fenced' = Exhausted(Pruned(tracker)) \cup over

\* SeatRegistry.resolve: the alias's seat, else the API; or none, and under
\* the policy of stretching no other seat for one that is exhausted.
Routable(fences, excluded) == Seats \ (fences \cup excluded)
Resolve(fences, excluded, policy) ==
    LET alias == registry.alias
    IN  IF alias \in Routable(fences, excluded) THEN {alias}
        ELSE IF alias \in fences /\ policy = "stretch" THEN {}
        ELSE {"api"} \cap Routable(fences, excluded)

Go(r, record) == req' = [req EXCEPT ![r] = record]
Over == [Unborn EXCEPT !.pc = "ended"]
\* A resolved request queues at the governor of its seat, another fails.
Routed(me, seats) ==
    IF seats = {} THEN Over
    ELSE [me EXCEPT !.pc = "queued", !.seat = CHOOSE s \in seats : TRUE, !.result = "none",
                    !.at = 0]

\* run, up to the governor.
Arrive(r) ==
    /\ req[r].pc = "new"
    /\ \/ /\ cached /\ mode # "live"
          /\ Go(r, [req[r] EXCEPT !.pc = "hit"])
          /\ UNCHANGED <<tracker, fenced>>
       \/ /\ ~(cached /\ mode # "live")
          /\ mode = "replay" \/ registry.killed
          /\ Go(r, Over)
          /\ UNCHANGED <<tracker, fenced>>
       \/ /\ ~(cached /\ mode # "live")
          /\ mode # "replay" /\ ~registry.killed
          /\ Refresh
          /\ Go(r, Routed(req[r], Resolve(fenced', {}, Policy)))
    /\ UNCHANGED <<mode, file, writer, stray, control, cached, now, faults, answered,
                   stranded>>

\* What follows an attempt that failed: another seat, if the failure may be
\* retried and one is left.
Onward(r, retryable) ==
    LET me == req[r]
        excluded == me.excluded \cup {me.seat}
    IN  IF ~retryable THEN Over
        ELSE Routed([me EXCEPT !.excluded = excluded],
                    Resolve(fenced, excluded, "fallback"))

-----------------------------------------------------------------------------
(* An attempt, under the governor's permit.                                *)

Busy == {"reserving", "calling", "billing", "recording", "refund", "releasing"}
\* (A cached answer is recorded without one.)
Holds(r) == req[r].pc \in Busy /\ req[r].result # "hit"
Holders(seat) == {r \in Requests : Holds(r) /\ req[r].seat = seat}
Permitted(seat) == Cardinality(Holders(seat)) < Concurrency[seat]
Same == UNCHANGED <<mode, control, cached, now, answered, stranded>>

\* A cached answer is recorded as saved money, not as a call.
Hit(r) ==
    /\ req[r].pc = "hit"
    /\ Change(r, Pruned(tracker))
    /\ Go(r, [req[r] EXCEPT !.pc = "recording", !.result = "hit"])
    /\ Same /\ UNCHANGED <<fenced, faults>>

Reserve(r) ==
    LET me == req[r]
        t == Pruned(tracker)
    IN  /\ me.pc = "queued" /\ Permitted(me.seat)
        /\ writer.by = Nobody
        /\ IF Admits(t, me.seat)
           THEN /\ Change(r, Reserved(t, r, me.seat))
                /\ Go(r, [me EXCEPT !.pc = "reserving", !.at = now])
           ELSE /\ tracker' = t
                /\ UNCHANGED <<file, writer, stray>>
                /\ Go(r, Onward(r, TRUE))
        /\ Same /\ UNCHANGED <<fenced, faults>>

\* adapter.invoke: an answer or a failure, with usage or without; some
\* failures may be retried at another seat.
Reported == {"ok", "failed", "invalid"}
Retryable == {"failed", "lost"}
Invoke(r) ==
    /\ req[r].pc = "calling"
    /\ \E result \in Reported \cup {"lost", "refused"} :
        Go(r, [req[r] EXCEPT !.result = result,
                             !.pc = IF result \in Reported THEN "billing" ELSE "refund"])
    /\ Same /\ UNCHANGED <<books, fenced, faults>>

Reconciled(t, r) == Recorded(Without(t, Id(r)), Id(r), req[r].seat)
\* reconcile: the reservation becomes usage, unless it expired and somebody
\* pruned it.
Reconcile(r) ==
    /\ req[r].pc = "billing"
    /\ writer.by = Nobody
    /\ IF Has(tracker, Id(r))
       THEN /\ Change(r, Reconciled(tracker, r))
            /\ Go(r, [req[r] EXCEPT !.pc = "recording"])
       ELSE /\ Go(r, Over)
            /\ UNCHANGED books
    /\ Same /\ UNCHANGED <<fenced, faults>>

\* The release of acquireUseRelease: refund of what is still reserved.
Refund(r) ==
    /\ req[r].pc = "refund"
    /\ writer.by = Nobody
    /\ IF Has(tracker, Id(r))
       THEN /\ Change(r, Without(tracker, Id(r)))
            /\ Go(r, [req[r] EXCEPT !.pc = "releasing"])
       ELSE /\ Go(r, Onward(r, req[r].result \in Retryable))
            /\ UNCHANGED books
    /\ Same /\ UNCHANGED <<fenced, faults>>

\* A write ended well.
Saved(r) ==
    LET me == req[r]
    IN  /\ writer.by = r
        /\ Written(TRUE)
        /\ CASE me.pc = "reserving" ->
                  /\ Go(r, [me EXCEPT !.pc = "calling"])
                  /\ UNCHANGED answered
             [] me.pc = "recording" /\ me.result = "hit" ->
                  /\ Go(r, Over)
                  /\ UNCHANGED answered
             [] me.pc = "recording" /\ me.result # "hit" ->
                  /\ Go(r, IF me.result = "ok" THEN [Unborn EXCEPT !.pc = "answer"]
                           ELSE Onward(r, me.result \in Retryable))
                  /\ answered' = answered \cup {[usage |-> e, since |-> MonthOf(me.at)] : e \in {e \in writer.to.entries : e.id = Id(r)}}
             [] me.pc = "releasing" ->
                  /\ Go(r, Onward(r, me.result \in Retryable))
                  /\ UNCHANGED answered
        /\ UNCHANGED <<mode, fenced, control, cached, now, faults, stranded>>

\* The answer, and the record of it.
Answer(r) ==
    /\ req[r].pc = "answer"
    /\ Go(r, Over)
    /\ Refresh
    /\ cached' = (cached \/ mode = "record")
    /\ UNCHANGED <<mode, file, writer, stray, control, now, faults, answered, stranded>>

\* status and health prune what they look at.
Health ==
    /\ Refresh
    /\ UNCHANGED <<mode, file, writer, stray, control, cached, req, now, faults,
                   answered, stranded>>

Fault(kind) ==
    /\ kind \in Faults[mode] /\ faults < MaxFaults[mode]
    /\ faults' = faults + 1

-----------------------------------------------------------------------------
(* The operator: each change is made in memory and then written whole.     *)

Update(change) ==
    /\ updates = {} \/ "race" \in Faults[mode]
    /\ Fault("change")
    /\ registry' = change
    /\ updates' = updates \cup {[to |-> change, tells |-> registry.killed # change.killed]}
    /\ UNCHANGED <<mode, books, fenced, saved, cached, req, now, answered, stranded>>
SetKilled(killed) ==
    /\ registry.killed # killed
    /\ Update([registry EXCEPT !.killed = killed])
    /\ switched' = {}
Remap(seat) ==
    /\ registry.alias # seat
    /\ Update([registry EXCEPT !.alias = seat])
    /\ UNCHANGED switched

\* Mutant: the aliases are written without the switch.
PersistedAliases(u) == [u.to EXCEPT !.killed = u.tells /\ @]
Persisted(u) == u.to
Persist(u) ==
    /\ saved' = Persisted(u)
    /\ updates' = updates \ {u}
    /\ switched' = IF u.tells /\ u.to.killed = registry.killed THEN {u.to.killed}
                   ELSE switched
    /\ UNCHANGED <<mode, books, fenced, registry, cached, req, now, faults,
                   answered, stranded>>

-----------------------------------------------------------------------------
(* Faults and time.                                                        *)

\* A write fails: the change is taken back and the request with it.  What it
\* had reserved is then refunded; what a refund could not give back stays, and
\* whether the failure before it is still retried is left open.
SaveFails(r) ==
    LET me == req[r]
    IN  /\ Fault("save")
        /\ writer.by = r
        /\ Written(FALSE)
        /\ \/ /\ me.pc = "recording" /\ me.result # "hit"
              /\ Go(r, [me EXCEPT !.pc = "refund", !.result = "refused"])
           \/ ~(me.pc = "recording" /\ me.result # "hit") /\ Go(r, Over)
           \/ me.pc = "releasing" /\ Go(r, Onward(r, me.result \in Retryable))
        /\ stranded' = IF me.pc = "releasing" THEN stranded \cup {Id(r)} ELSE stranded
        /\ UNCHANGED <<mode, fenced, control, cached, now, answered>>

\* A change of the registry that is not written stays in memory.
PersistFails(u) ==
    /\ Fault("save")
    /\ updates' = updates \ {u}
    /\ UNCHANGED <<mode, books, fenced, registry, saved, switched, cached, req,
                   now, answered, stranded>>

\* Mutant: nothing is released.
LeftAnyway(r) == Over
\* Where an interrupted request goes: reserve and refund are not interrupted.
Left(r) ==
    IF req[r].pc \in {"calling", "billing"}
    THEN [req[r] EXCEPT !.pc = "refund", !.result = "refused"] ELSE Over
Leave(r) ==
    /\ Fault("leave")
    /\ req[r].pc \in {"hit", "queued", "calling", "billing", "answer"}
    /\ Go(r, Left(r))
    /\ UNCHANGED <<mode, books, fenced, control, cached, now, answered, stranded>>

\* Interrupted while its usage is written, a request drops the permit and
\* leaves the write behind.
Overtake(r) ==
    /\ "overtake" \in Faults[mode] /\ Fault("leave")
    /\ writer.by = r /\ req[r].pc = "recording"
    /\ stray' = stray \cup {writer.to}
    /\ writer' = Free
    /\ Go(r, Over)
    /\ UNCHANGED <<mode, tracker, file, fenced, control, cached, now, answered, stranded>>
StrayLands(t) ==
    /\ file' = t
    /\ stray' = stray \ {t}
    /\ UNCHANGED <<mode, tracker, writer, fenced, control, cached, req, now, faults,
                   answered, stranded>>

InitialTracker == [entries |-> {}, reservations |-> {}, credit |-> [month |-> 0, used |-> 0]]
\* Mutant: the plan starts anew.
LoadedNothing(t) == InitialTracker
Loaded(t) == Pruned(t)
\* The process restarts from its files; reservations of requests that died
\* with it stay until they expire.
Restart ==
    /\ Fault("restart")
    /\ tracker' = Loaded(file)
    /\ file' = IF Pruned(file).reservations = file.reservations THEN file ELSE Loaded(file)
    /\ writer' = Free /\ stray' = {}
    /\ fenced' = {}
    /\ registry' = saved /\ updates' = {}
    /\ req' = [r \in Requests |-> IF req[r].pc = "new" THEN req[r] ELSE Over]
    /\ stranded' = stranded \cup {x.id : x \in file.reservations}
    /\ UNCHANGED <<mode, saved, switched, cached, now, answered>>

\* Only with the fault "slow" does a call outlast its reservation.
Tick ==
    /\ now < MaxTime
    /\ \/ "slow" \in Faults[mode]
       \/ \A r \in Requests : Holds(r) => now + 1 < req[r].at + Ttl
    /\ now' = now + 1
    /\ UNCHANGED <<mode, books, fenced, control, cached, req, faults, answered, stranded>>

-----------------------------------------------------------------------------
Init ==
    /\ mode \in Modes
    /\ tracker = InitialTracker /\ file = InitialTracker
    /\ writer = Free /\ stray = {}
    /\ fenced = {}
    /\ \E seat \in Aliases : registry = [killed |-> FALSE, alias |-> seat]
    /\ saved = registry /\ updates = {}
    /\ cached \in IF mode = "replay" THEN BOOLEAN ELSE {FALSE}
    /\ req = [r \in Requests |-> Unborn]
    /\ now = 0 /\ faults = 0
    /\ answered = {} /\ stranded = {} /\ switched = {}

RequestStep(r) ==
    \/ Hit(r) \/ Reserve(r) \/ Invoke(r)
    \/ Reconcile(r) \/ Refund(r) \/ Saved(r) \/ Answer(r)

Next ==
    \/ \E r \in Requests : Arrive(r) \/ RequestStep(r)
    \/ Health
    \/ \E killed \in BOOLEAN : SetKilled(killed)
    \/ \E seat \in Aliases : Remap(seat)
    \/ \E u \in updates : Persist(u) \/ PersistFails(u)
    \/ \E r \in Requests : SaveFails(r) \/ Leave(r) \/ Overtake(r)
    \/ \E t \in stray : StrayLands(t)
    \/ Restart \/ Tick

PlanSpec == Init /\ [][Next]_planvars

-----------------------------------------------------------------------------
(* Properties.                                                             *)

Usage == [id : Requests \X Seats, seat : Seats, at : 0 .. MaxTime]
TrackerOK(t) ==
    /\ t.entries \cup t.reservations \subseteq Usage
    /\ t.credit \in [month : 0 .. MonthOf(MaxTime), used : 0 .. Cardinality(Requests)]
Control == [killed : BOOLEAN, alias : Seats]
Recent(e) == e.at >= now - Window
InPlan(seat) == {r \in Requests : req[r].pc \in {"calling", "billing"} /\ req[r].seat = seat}

\* Every variable has its type, no governor has more permits out than it has,
\* and no request tries a seat twice.
PlanTypeOK ==
    /\ mode \in Modes /\ \A t \in {tracker, file} \cup stray : TrackerOK(t)
    /\ writer.by \in Requests \cup {Nobody}
    /\ fenced \subseteq Seats /\ {registry, saved} \cup {u.to : u \in updates} \subseteq Control
    /\ cached \in BOOLEAN /\ now \in 0 .. MaxTime
    /\ \A r \in Requests : req[r].seat \in Seats \ req[r].excluded
    /\ \A s \in Seats : Cardinality(Holders(s)) <= Concurrency[s]
    /\ \A a \in answered : a.usage \in Usage

\* The plan's window is never overdrawn: calls under way and calls that were
\* accounted for in the window are together no more than its limit, whatever
\* was refunded, failed to be written, or was lost in a restart.
PlanHolds ==
    Cardinality(InPlan("codex"))
        + Cardinality({a \in answered : a.usage.seat = "codex" /\ Recent(a.usage)}) <= WindowCalls

\* Nor is Claude's month, by calls that were reserved in it.  (A call reserved
\* at the end of a month and accounted for in the next comes on top.)
CreditHolds ==
    Cardinality({r \in InPlan("claude") : MonthOf(req[r].at) = MonthOf(now)})
        + Cardinality({a \in answered : a.usage.seat = "claude"
                                        /\ {a.since, MonthOf(a.usage.at)} = {MonthOf(now)}})
        <= MonthlyCredit

\* Types and both limits, which every reachable state has.
PlanInv == PlanTypeOK /\ PlanHolds /\ CreditHolds

\* A reservation belongs to a request that will give it back, unless its
\* refund could not be written or the process died.
NothingLeaks ==
    \A x \in tracker.reservations : x.id \notin stranded =>
        \E r \in Requests : x.id = Id(r) /\ Holds(r)

\* What a client was answered with is in the file, whoever writes it next.
UsageSurvives == \A a \in answered : Recent(a.usage) => a.usage \in file.entries

\* The kill switch, once the operator was told it is set, is set after a
\* restart too.
SwitchSurvives == switched \subseteq {saved.killed}

\* What a provider reports is counted.  A call that outlives its reservation
\* breaks it (README).
ReportsAreCounted == [][\A r \in Requests :
    req[r].pc = "billing" /\ req'[r].pc # "billing" =>
        \E e \in tracker'.entries : e.id = Id(r)]_planvars
=============================================================================
