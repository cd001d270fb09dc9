---------------------------- MODULE SeatRouting -----------------------------
(***************************************************************************)
(* runRoutedAiDecision (services/commander/src/brain/seat-router.ts): how  *)
(* a decision is routed over the seats.  Every session object runs it for  *)
(* the commander's and its sergeants' decisions, calling the registry over *)
(* RPC; here the registry is SeatRegistry and each invocation is a caller, *)
(* a process of its own.                                                   *)
(*                                                                         *)
(* A caller tries its candidates one after another: reserve, invoke,       *)
(* reconcile, and go on to the next only after a retryable failure.        *)
(* Between two of its calls anything may happen in the registry.           *)
(***************************************************************************)
EXTENDS SeatRegistry, FiniteSetsExt

CONSTANTS
    Stretch,        \* seatExhaustionPolicy = "stretch"
    MaxCrashes      \* bound: crashes of callers in a behaviour

ASSUME CallersAssumption == Stretch \in BOOLEAN /\ MaxCrashes \in Nat

VARIABLES
    pc,         \* where each caller is
    todo,       \* candidates it has not tried
    at,         \* the seat it is trying, or tried last
    outcome,    \* what the attempt gave
    fallback,   \* availabilityFailure \/ registryUnavailable
    crashes     \* how many callers crashed

callers == <<pc, todo, at, outcome, fallback, crashes>>
allvars == <<vars, callers>>

Ended == {"seat", "api", "stretched", "failed"}
Places == {"idle", "next", "invoke", "waiting", "settle", "downgrade", "fallback"}
          \cup Ended

\* The lease, and the job, of caller i on the seat it is trying.
TicketOf(i) == <<i, at[i]>>

RoutingTypeOK ==
    /\ TypeOK
    /\ pc \in [Invocations -> Places]
    /\ todo \in [Invocations -> SUBSET Seats]
    /\ at \in [Invocations -> Seats \cup {NoSeat}]
    /\ outcome \in [Invocations -> Answer]
    /\ fallback \in [Invocations -> BOOLEAN]
    /\ crashes \in Nat

RoutingInit ==
    /\ Init
    /\ pc = [i \in Invocations |-> "idle"]
    /\ todo = [i \in Invocations |-> {}]
    /\ at = [i \in Invocations |-> NoSeat]
    /\ outcome = [i \in Invocations |-> NoAnswer]
    /\ fallback = [i \in Invocations |-> FALSE]
    /\ crashes = 0
-----------------------------------------------------------------------------
\* The caller moves from one place to another.
Goes(i, from, to) == pc[i] = from /\ pc' = [pc EXCEPT ![i] = to]

\* A call with this effect, or the reply to it, is lost.
Drops(Effect) == "rpc" \in Faults /\ (Effect \/ UNCHANGED vars)

\* The candidates come from the caller's mirror of the seats, as old as its
\* last refresh: any set.
Start(i) ==
    /\ Goes(i, "idle", "next")
    /\ todo' \in {[todo EXCEPT ![i] = C] : C \in SUBSET Seats}
    /\ at' = [at EXCEPT ![i] = NoSeat]
    /\ fallback' = [fallback EXCEPT ![i] = FALSE]
    /\ UNCHANGED <<vars, outcome, crashes>>

\* The registry cannot be reached at all, and the decision fails.
StartDropped(i) ==
    /\ Drops(FALSE)
    /\ Goes(i, "idle", "failed")
    /\ UNCHANGED <<todo, at, outcome, fallback, crashes>>

\* Mutant: a seat that refused stays a candidate.
ReserveForever(i, s) ==
    /\ s \in todo[i]
    /\ ReserveSeatBudget(<<i, s>>)
    /\ Goes(i, "next",
            IF leases'[<<i, s>>].status = "reserved" THEN "invoke" ELSE "next")
    /\ UNCHANGED <<todo, outcome, fallback, crashes>>
    /\ at' = [at EXCEPT ![i] = s]

\* Candidates are tried by priority, which is any order here.
Reserve(i, s) ==
    /\ s \in todo[i]
    /\ ReserveSeatBudget(<<i, s>>)
    /\ Goes(i, "next",
            IF leases'[<<i, s>>].status = "reserved" THEN "invoke" ELSE "next")
    /\ todo' = [todo EXCEPT ![i] = @ \ {s}]
    /\ at' = [at EXCEPT ![i] = s]
    /\ UNCHANGED <<outcome, fallback, crashes>>

ReserveDropped(i, s) ==
    /\ s \in todo[i]
    /\ Drops(ReserveSeatBudget(<<i, s>>))
    /\ Goes(i, "next", "fallback")
    /\ UNCHANGED <<todo, at, outcome, fallback, crashes>>

\* The prompt of a caller that runs again may differ from the first run's.
Invoke(i) ==
    /\ pc[i] = "invoke" /\ at[i] \in Contributors
    /\ \E same \in BOOLEAN : InvokeContributor(TicketOf(i), same)
    /\ Goes(i, "invoke", "waiting")
    /\ UNCHANGED <<todo, at, outcome, fallback, crashes>>

Learns(i, from, answer) ==
    /\ Goes(i, from, "settle")
    /\ outcome' = [outcome EXCEPT ![i] = answer]
    /\ UNCHANGED <<vars, todo, at, fallback, crashes>>

\* The registry answered the call.
Hear(i) ==
    /\ pc[i] = "waiting" /\ answers[TicketOf(i)].status # "none"
    /\ Learns(i, "waiting", answers[TicketOf(i)])

\* The registry restarted: it knows of no caller, and the call fails.
InvokeAborted(i) ==
    /\ pc[i] = "waiting"
    /\ answers[TicketOf(i)].status = "none" /\ TicketOf(i) \notin live
    /\ \E retryable \in BOOLEAN :
            Learns(i, "waiting", Failure(Unreported, retryable))

\* The call did not reach the registry, or its reply the caller.
InvokeDropped(i) ==
    /\ "rpc" \in Faults /\ at[i] \in Contributors
    /\ \E from \in {"invoke", "waiting"}, retryable \in BOOLEAN :
            Learns(i, from, Failure(Unreported, retryable))

\* An HTTP seat is called directly, not through the registry.
CallProvider(i) ==
    /\ at[i] \in Seats \ Contributors
    /\ \E answer \in
            [status : {"ok"}, cost : Costs, retryable : {FALSE}]
            \cup [status : {"failure"}, cost : Costs \cup {Unreported},
                  retryable : BOOLEAN] :
            Learns(i, "invoke", answer)

\* Mutants: a usage report is dropped, or counted twice.
CostOfNothing(answer) == 0
CostOfDoubled(answer) == IF answer.cost = Unreported THEN 0 ELSE 2 * answer.cost

CostOf(answer) == IF answer.cost = Unreported THEN 0 ELSE answer.cost

\* Mutant: an attempt without usage is not reconciled.
SettleUsed(i) ==
    /\ pc[i] = "settle"
    /\ IF CostOf(outcome[i]) = 0
       THEN UNCHANGED vars
       ELSE ReconcileSeatBudget(TicketOf(i), CostOf(outcome[i]))
    /\ Goes(i, "settle", IF outcome[i].status = "ok" THEN "seat"
                         ELSE IF outcome[i].retryable THEN "downgrade"
                         ELSE "failed")
    /\ UNCHANGED <<todo, at, outcome, fallback, crashes>>

Settle(i) ==
    /\ pc[i] = "settle"
    /\ ReconcileSeatBudget(TicketOf(i), CostOf(outcome[i]))
    /\ Goes(i, "settle", CASE outcome[i].status = "ok" -> "seat"
                           [] outcome[i].status # "ok" /\ outcome[i].retryable
                                -> "downgrade"
                           [] OTHER -> "failed")
    /\ UNCHANGED <<todo, at, outcome, fallback, crashes>>

\* An attempt whose reconciliation fails fails the whole decision.
SettleDropped(i) ==
    /\ pc[i] = "settle"
    /\ Drops(ReconcileSeatBudget(TicketOf(i), CostOf(outcome[i])))
    /\ Goes(i, "settle", "failed")
    /\ UNCHANGED <<todo, at, outcome, fallback, crashes>>

Downgrade(i) ==
    /\ pc[i] = "downgrade"
    /\ MarkSeatUnhealthy(at[i])
    /\ Goes(i, "downgrade", "next")
    /\ fallback' = [fallback EXCEPT ![i] = TRUE]
    /\ UNCHANGED <<todo, at, outcome, crashes>>

\* The failure of this call is ignored.
DowngradeDropped(i) ==
    /\ Drops(FALSE)
    /\ Goes(i, "downgrade", "next")
    /\ fallback' = [fallback EXCEPT ![i] = TRUE]
    /\ UNCHANGED <<todo, at, outcome, crashes>>

\* A caller that had no candidate may know of no seat at all, and then it
\* has nothing to stretch.
NoSeatLeft(i) ==
    /\ todo[i] = {}
    /\ \/ Stretch /\ ~fallback[i] /\ Goes(i, "next", "stretched")
       \/ /\ ~Stretch \/ fallback[i] \/ at[i] = NoSeat
          /\ Goes(i, "next", "fallback")
    /\ UNCHANGED <<vars, todo, at, outcome, fallback, crashes>>

\* The metered API answers, or fails.
CallFallback(i) ==
    /\ \E end \in {"api", "failed"} : Goes(i, "fallback", end)
    /\ UNCHANGED <<vars, todo, at, outcome, fallback, crashes>>

\* The session object restarts before it has committed the decision, and
\* onStart runs the decision again under the same invocation id.
Crash(i) ==
    /\ "crash" \in Faults /\ crashes < MaxCrashes
    /\ pc[i] # "idle"
    /\ pc' = [pc EXCEPT ![i] = "idle"]
    /\ crashes' = crashes + 1
    /\ UNCHANGED <<vars, todo, at, outcome, fallback>>

\* What a caller does, and what faults do to it.
Work(i) ==
    \/ Start(i) \/ Invoke(i) \/ Hear(i) \/ InvokeAborted(i) \/ CallProvider(i)
    \/ Settle(i) \/ Downgrade(i) \/ NoSeatLeft(i) \/ CallFallback(i)
    \/ \E s \in Seats : Reserve(i, s)
Faulty(i) ==
    \/ StartDropped(i) \/ InvokeDropped(i) \/ SettleDropped(i)
    \/ DowngradeDropped(i) \/ Crash(i)
    \/ \E s \in Seats : ReserveDropped(i, s)

RoutingNext ==
    \/ \E i \in Invocations : Work(i) \/ Faulty(i)
    \/ Environment /\ UNCHANGED callers

RoutingSpec == RoutingInit /\ [][RoutingNext]_allvars

\* A caller that can go on does, and timers fire.  No fault is ever bound to
\* happen, and no contributor to answer.
RoutingFairness ==
    /\ \A i \in Invocations : WF_allvars(Work(i))
    /\ \A t \in Tickets :
        /\ WF_allvars(DeadlinePasses(t) /\ UNCHANGED callers)
        /\ WF_allvars(JobTimeout(t) /\ UNCHANGED callers)
FairRoutingSpec == RoutingSpec /\ RoutingFairness
-----------------------------------------------------------------------------
(* Properties. *)

\* A caller never goes on to another seat while it has an unresolved
\* reservation: it holds at most the lease of the seat it is trying.
NoUnresolvedLease ==
    \A i \in Invocations, s \in Seats :
        leases[<<i, s>>].status = "reserved" =>
            \/ pc[i] \in {"fallback", "api", "failed"}
            \/ pc[i] \in {"invoke", "waiting", "settle"} /\ at[i] = s

\* A decision that a seat delivered is on the books at its reported cost, and
\* one is skipped for want of budget only if no seat worked on it.
DeliveredIsBilled ==
    \A i \in Invocations :
        /\ pc[i] = "seat" =>
               leases[TicketOf(i)] =
                   [status |-> "settled", cost |-> outcome[i].cost]
        /\ pc[i] = "stretched" =>
               \A s \in Seats : leases[<<i, s>>].status = "none"

\* What contributors reported for their work on seat s.
JobCost(t) == CostOf(jobs[t])
Reported(s) == MapThenSumSet(JobCost, {t \in Tickets : SeatOf(t) = s})
Quiet == \A i \in Invocations : pc[i] \in Ended

\* Once all decisions are made, what the seat paid is what its contributor
\* reported: no usage was billed twice, by a caller's reconciliation and by
\* a late report, ...
NeverBilledTwice ==
    Quiet => \A s \in Contributors : seats[s].spent <= Reported(s)

\* ... and none was lost between the two.
NeverLost ==
    Quiet => \A s \in Contributors : Reported(s) <= seats[s].spent

\* Usage is billed exactly once, however results, timeouts and callers meet.
BilledOnce == NeverBilledTwice /\ NeverLost

\* Every decision under way ends: no caller waits forever for a job whose
\* contributor went silent, disconnected, or whose registry restarted.
DecisionsEnd ==
    \A i \in Invocations : pc[i] # "idle" ~> pc[i] \in Ended
=============================================================================
