------------------------- MODULE SeatRoutingProofs --------------------------
(***************************************************************************)
(* Theorems about the callers of the seat registry: they use it only as    *)
(* SeatRegistry allows, so all that is proved of the registry holds of the *)
(* system, and they leave no reservation behind when they go on to another *)
(* seat.                                                                   *)
(***************************************************************************)
EXTENDS SeatRouting, SeatRegistryProofs

Reportable == Costs \cup {Unreported}

\* No cost is on record but those providers report.
CostsOK ==
    /\ \A t \in Tickets : /\ jobs[t].cost \in Reportable
                          /\ answers[t].cost \in Reportable
    /\ \A t \in Tickets : probe.jobs[t].cost \in Reportable

CallersOK ==
    /\ pc \in [Invocations -> Places]
    /\ todo \in [Invocations -> SUBSET Seats]
    /\ at \in [Invocations -> Seats \cup {NoSeat}]
    /\ outcome \in [Invocations -> Answer]
    /\ fallback \in [Invocations -> BOOLEAN]
    /\ crashes \in Nat
    /\ \A i \in Invocations :
        /\ outcome[i].cost \in Reportable
        /\ pc[i] \in {"invoke", "waiting", "settle", "downgrade"} => at[i] \in Seats

RoutingInv == TypeOK /\ CostsOK /\ CallersOK
-----------------------------------------------------------------------------
LEMMA TimedOutCost ==
    ASSUME NEW job, job.cost \in Reportable
    PROVE  TimedOut(job).cost \in Reportable
BY DEF TimedOut, Reportable

LEMMA LostCost ==
    /\ Lost.cost \in Reportable /\ NoAnswer.cost \in Reportable
    /\ \A r : Failure(Unreported, r).cost \in Reportable
    /\ \A job : job.cost \in Reportable => Persisted(job).cost \in Reportable
BY DEF Lost, NoAnswer, Failure, Persisted, Reportable

LEMMA ResumeCost ==
    ASSUME TypeOK, CostsOK, NEW T, NEW a, Resume(T, a),
           (T \cap live # {}) => a.cost \in Reportable
    PROVE  \A t \in Tickets : answers'[t].cost \in Reportable
BY DEF Resume, CostsOK, TypeOK

LEMMA CostsMessages ==
    ASSUME TypeOK, CostsOK, Messages
    PROVE  CostsOK'
<1> SUFFICES ASSUME NEW c \in Conns,
                    \/ Connect(c) \/ Close(c)
                    \/ \E s \in Seats :
                        \/ SeatRegister(c, s)
                        \/ \E status \in {"healthy", "unavailable", "exhausted"} :
                                Heartbeat(c, s, status)
                    \/ \E t \in Tickets, report \in Reports :
                        LateResult(c, t, report) \/ Result(c, t, report)
             PROVE  CostsOK'
  BY DEF Messages
<1>1. CASE Connect(c)
  BY <1>1 DEF Connect, CostsOK
<1>2. CASE Close(c)
  <2>1. \A t \in Tickets : answers'[t].cost \in Reportable
    BY <1>2, LostCost, ResumeCost DEF Close
  <2>2. \A t \in Tickets : jobs'[t].cost \in Reportable
    BY <1>2, TimedOutCost DEF Close, CostsOK
  <2> QED
    BY <1>2, <2>1, <2>2 DEF Close, CostsOK
<1>3. ASSUME NEW s \in Seats, NEW status, SeatRegister(c, s) \/ Heartbeat(c, s, status)
      PROVE  CostsOK'
  BY <1>3 DEF SeatRegister, Heartbeat, CostsOK
<1>4. ASSUME NEW t \in Tickets, NEW report \in Reports, LateResult(c, t, report)
      PROVE  CostsOK'
  <2> DEFINE job == TimedOut(jobs[t])
  <2>1. job.cost \in Reportable /\ jobs[t].cost \in Reportable
        /\ job \in JobRecord
    BY TimedOutCost, TimedOutType DEF CostsOK, TypeOK
  <2>2. report.cost \in Reportable
    BY DEF Reports, Reportable
  <2>3. BillLate(t, job, report.cost)
    BY <1>4 DEF LateResult
  <2> HIDE DEF job
  <2>4. \A u \in Tickets : jobs'[u].cost \in Reportable
    BY <2>1, <2>2, <2>3 DEF BillLate, CostsOK, TypeOK, JobRecord
  <2>5. \A u \in Tickets : answers'[u].cost \in Reportable
    BY <1>4, <2>1, LostCost, ResumeCost DEF LateResult
  <2> QED
    BY <1>4, <2>4, <2>5 DEF LateResult, CostsOK
<1>5. ASSUME NEW t \in Tickets, NEW report \in Reports, Result(c, t, report)
      PROVE  CostsOK'
  <2> DEFINE job == [status |-> IF report.kind = "decision" THEN "succeeded"
                                                            ELSE "failed",
                     cost |-> report.cost, retryable |-> report.retryable]
  <2>1. job.cost \in Reportable
    BY DEF Reports, Reportable
  <2>2. jobs' = [jobs EXCEPT ![t] = job] /\ Resume({t}, Persisted(job))
        /\ UNCHANGED probe
    BY <1>5 DEF Result
  <2> HIDE DEF job
  <2>3. \A u \in Tickets : jobs'[u].cost \in Reportable
    BY <2>1, <2>2 DEF CostsOK, TypeOK
  <2>4. \A u \in Tickets : answers'[u].cost \in Reportable
    BY <2>1, <2>2, LostCost, ResumeCost
  <2> QED
    BY <2>2, <2>3, <2>4 DEF CostsOK
<1> QED
  BY <1>1, <1>2, <1>3, <1>4, <1>5

LEMMA CostsStep ==
    ASSUME TypeOK, CostsOK, [Next]_vars
    PROVE  CostsOK'
<1>1. CASE UNCHANGED <<jobs, answers, probe>>
  BY <1>1 DEF CostsOK
<1>2. ASSUME NEW t \in Tickets, NEW same \in BOOLEAN, InvokeContributor(t, same)
      PROVE  CostsOK'
  <2>1. /\ jobs[t].cost \in Reportable
        /\ TimedOut(jobs[t]).cost \in Reportable
        /\ Unavailable(SeatOf(t)).cost \in Reportable
    BY TimedOutCost, LostCost DEF CostsOK, Unavailable
  <2>2. [jobs[t] EXCEPT !.status = "pending"].cost \in Reportable
    BY <2>1 DEF TypeOK, JobRecord
  <2>3. \A u \in Tickets : answers'[u].cost \in Reportable
    BY <1>2, <2>1, LostCost DEF InvokeContributor, CostsOK, TypeOK
  <2>4. \A u \in Tickets : jobs'[u].cost \in Reportable
    BY <1>2, <2>1, <2>2 DEF InvokeContributor, CostsOK, TypeOK
  <2> QED
    BY <1>2, <2>3, <2>4 DEF InvokeContributor, CostsOK
<1>3. ASSUME NEW t \in Tickets, JobTimeout(t)
      PROVE  CostsOK'
  <2>1. \A u \in Tickets : answers'[u].cost \in Reportable
    BY <1>3, LostCost, ResumeCost DEF JobTimeout
  <2>2. \A u \in Tickets : jobs'[u].cost \in Reportable
    BY <1>3, TimedOutCost DEF JobTimeout, CostsOK, TypeOK
  <2> QED
    BY <1>3, <2>1, <2>2 DEF JobTimeout, CostsOK
<1>4. \A u \in Tickets : ExpiredJobs[u].cost \in Reportable
  BY TimedOutCost DEF ExpiredJobs, CostsOK
<1>5. /\ \A u \in Tickets : NoProbe.jobs[u].cost \in Reportable
  BY DEF NoProbe, NoJobs, NoJob, Reportable
<1>6. CASE RefreshSeats
  <2>1. \A u \in Tickets : answers'[u].cost \in Reportable
    BY <1>6, LostCost, ResumeCost DEF RefreshSeats
  <2> QED
    BY <1>4, <1>6, <2>1 DEF RefreshSeats, CostsOK
<1>7. CASE RefreshStart
  BY <1>4, <1>7 DEF RefreshStart, ProbeStart, CostsOK
<1>8. ASSUME NEW up, RefreshFinish(up)
      PROVE  CostsOK'
  <2>1. \A u \in Tickets : answers'[u].cost \in Reportable
    BY <1>8, LostCost, ResumeCost DEF RefreshFinish
  <2> QED
    BY <1>5, <1>8, <2>1 DEF RefreshFinish, CostsOK
<1>9. ASSUME NEW s \in Seats, RegisterStart(s)
      PROVE  CostsOK'
  <2>1. probe'.jobs = NoProbe.jobs
    BY <1>9 DEF RegisterStart, ProbeStart, NoProbe
  <2> QED
    BY <1>5, <1>9, <2>1 DEF RegisterStart, ProbeStart, CostsOK
<1>10. ASSUME NEW s \in Seats, NEW up, RegisterFinish(s, up)
       PROVE  CostsOK'
  BY <1>5, <1>10 DEF RegisterFinish, CostsOK
<1>11. ASSUME NEW s \in Seats, RemoveSeat(s) \/ RegisterSeat(s)
       PROVE  CostsOK'
  BY <1>1, <1>11 DEF RemoveSeat, RegisterSeat
<1>12. CASE Admin
  BY <1>6, <1>7, <1>8, <1>9, <1>10, <1>11, <1>12 DEF Admin
<1>13. CASE Restart
  BY <1>5, <1>13 DEF Restart, CostsOK
<1>14. CASE Timers
  BY <1>1, <1>3, <1>14
     DEF Timers, LeaseGoesStale, DeadlinePasses, HealthLapses, MonthTurns
<1>15. CASE Calls
  BY <1>1, <1>2, <1>15
     DEF Calls, ReserveSeatBudget, ReconcileSeatBudget, MarkSeatUnhealthy
<1>16. CASE UNCHANGED vars
  BY <1>1, <1>16 DEF vars
<1> QED
  BY <1>12, <1>13, <1>14, <1>15, <1>16, CostsMessages DEF Next, Environment
-----------------------------------------------------------------------------
(* Every step of a caller is a call the registry allows, or none. *)

LEMMA TicketType ==
    ASSUME CallersOK, NEW i \in Invocations,
           pc[i] \in {"invoke", "waiting", "settle", "downgrade"}
    PROVE  /\ at[i] \in Seats /\ TicketOf(i) \in Tickets
           /\ SeatOf(TicketOf(i)) = at[i]
BY DEF CallersOK, TicketOf, Tickets, SeatOf

LEMMA CostOfType ==
    ASSUME CallersOK, NEW i \in Invocations
    PROVE  CostOf(outcome[i]) \in Costs \cup {0}
BY DEF CallersOK, CostOf, Reportable

LEMMA CallsAllowed ==
    ASSUME RoutingInv, [RoutingNext]_allvars
    PROVE  [Next]_vars
<1> USE DEF RoutingInv
<1>1. ASSUME NEW i \in Invocations, NEW s \in Seats,
             ReserveSeatBudget(<<i, s>>) \/ MarkSeatUnhealthy(s)
      PROVE  Next
  BY <1>1 DEF Next, Calls, Tickets
<1>2. ASSUME NEW i \in Invocations, pc[i] = "settle",
             ReconcileSeatBudget(TicketOf(i), CostOf(outcome[i]))
      PROVE  Next
  BY <1>2, TicketType, CostOfType DEF Next, Calls
<1>3. ASSUME NEW i \in Invocations, NEW same \in BOOLEAN, pc[i] = "invoke",
             InvokeContributor(TicketOf(i), same)
      PROVE  Next
  BY <1>3, TicketType DEF Next, Calls
<1>4. ASSUME NEW i \in Invocations, Work(i)
      PROVE  [Next]_vars
  <2>1. ASSUME NEW s \in Seats, Reserve(i, s)
        PROVE  [Next]_vars
    BY <1>1, <2>1 DEF Reserve
  <2>2. CASE Invoke(i)
    BY <1>3, <2>2 DEF Invoke
  <2>3. CASE Settle(i)
    BY <1>2, <2>3 DEF Settle
  <2>4. CASE Downgrade(i)
    <3>1. pc[i] = "downgrade"
      BY <2>4 DEF Downgrade, Goes
    <3> QED
      BY <1>1, <2>4, <3>1, TicketType DEF Downgrade
  <2>5. CASE \/ Start(i) \/ Hear(i) \/ InvokeAborted(i) \/ CallProvider(i)
             \/ NoSeatLeft(i) \/ CallFallback(i)
    BY <2>5 DEF Start, Hear, InvokeAborted, CallProvider, NoSeatLeft,
                CallFallback, Learns
  <2> QED
    BY <1>4, <2>1, <2>2, <2>3, <2>4, <2>5 DEF Work
<1>5. ASSUME NEW i \in Invocations, Faulty(i)
      PROVE  [Next]_vars
  <2>1. ASSUME NEW s \in Seats, ReserveDropped(i, s)
        PROVE  [Next]_vars
    BY <1>1, <2>1 DEF ReserveDropped, Drops
  <2>2. CASE SettleDropped(i)
    BY <1>2, <2>2 DEF SettleDropped, Drops
  <2>3. CASE \/ StartDropped(i) \/ InvokeDropped(i) \/ DowngradeDropped(i)
             \/ Crash(i)
    BY <2>3 DEF StartDropped, InvokeDropped, Learns, DowngradeDropped, Drops,
                Crash
  <2> QED
    BY <1>5, <2>1, <2>2, <2>3 DEF Faulty
<1>6. CASE Environment
  BY <1>6 DEF Next
<1>7. CASE UNCHANGED allvars
  BY <1>7 DEF allvars
<1> QED
  BY <1>4, <1>5, <1>6, <1>7 DEF RoutingNext

LEMMA CallersStep ==
    ASSUME RoutingInv, [RoutingNext]_allvars
    PROVE  CallersOK'
<1> USE DEF RoutingInv, CallersOK
<1>1. CASE UNCHANGED callers
  BY <1>1 DEF callers
<1>2. ASSUME NEW i \in Invocations, NEW from \in Places, NEW answer,
             Learns(i, from, answer), answer \in Answer,
             answer.cost \in Reportable, from \in {"invoke", "waiting"}
      PROVE  CallersOK'
  BY <1>2 DEF Learns, Goes, Places
<1>3. \A r \in BOOLEAN : /\ Failure(Unreported, r) \in Answer
                         /\ Failure(Unreported, r).cost \in Reportable
  BY DEF Failure, Answer, Reportable
<1>4. ASSUME NEW i \in Invocations, Work(i)
      PROVE  CallersOK'
  <2>1. CASE Start(i)
    BY <2>1 DEF Start, Goes, Places
  <2>2. CASE Invoke(i)
    BY <2>2 DEF Invoke, Goes, Places
  <2>3. CASE Hear(i)
    <3>1. /\ pc[i] = "waiting" /\ Learns(i, "waiting", answers[TicketOf(i)])
          /\ answers[TicketOf(i)] \in Answer
          /\ answers[TicketOf(i)].cost \in Reportable
      BY <2>3, TicketType DEF Hear, TypeOK, CostsOK
    <3> QED
      BY <1>2, <3>1 DEF Places
  <2>4. CASE InvokeAborted(i)
    BY <1>2, <1>3, <2>4 DEF InvokeAborted, Places
  <2>5. CASE CallProvider(i)
    <3>1. PICK answer \in
                [status : {"ok"}, cost : Costs, retryable : {FALSE}]
                \cup [status : {"failure"}, cost : Costs \cup {Unreported},
                      retryable : BOOLEAN] :
              Learns(i, "invoke", answer)
      BY <2>5 DEF CallProvider
    <3>2. answer \in Answer /\ answer.cost \in Reportable
      BY SeatsAssumption DEF Answer, Reportable
    <3> QED
      BY <1>2, <3>1, <3>2 DEF Places
  <2>6. CASE Settle(i)
    BY <2>6 DEF Settle, Goes, Places, Ended
  <2>7. CASE Downgrade(i)
    BY <2>7 DEF Downgrade, Goes, Places
  <2>8. CASE NoSeatLeft(i)
    BY <2>8 DEF NoSeatLeft, Goes, Places, Ended
  <2>9. CASE CallFallback(i)
    BY <2>9 DEF CallFallback, Goes, Places, Ended
  <2>10. ASSUME NEW s \in Seats, Reserve(i, s)
         PROVE  CallersOK'
    BY <2>10 DEF Reserve, Goes, Places
  <2> QED
    BY <1>4, <2>1, <2>2, <2>3, <2>4, <2>5, <2>6, <2>7, <2>8, <2>9, <2>10
       DEF Work
<1>5. ASSUME NEW i \in Invocations, Faulty(i)
      PROVE  CallersOK'
  <2>1. CASE InvokeDropped(i)
    BY <1>2, <1>3, <2>1 DEF InvokeDropped, Places
  <2>2. CASE SettleDropped(i)
    BY <2>2 DEF SettleDropped, Goes, Places, Ended
  <2>3. CASE DowngradeDropped(i)
    BY <2>3 DEF DowngradeDropped, Goes, Places
  <2>4. CASE Crash(i)
    BY <2>4 DEF Crash, Places
  <2>5. ASSUME NEW s \in Seats, ReserveDropped(i, s)
        PROVE  CallersOK'
    BY <2>5 DEF ReserveDropped, Goes, Places
  <2>6. CASE StartDropped(i)
    BY <2>6 DEF StartDropped, Goes, Places, Ended
  <2> QED
    BY <1>5, <2>1, <2>2, <2>3, <2>4, <2>5, <2>6 DEF Faulty
<1> QED
  BY <1>1, <1>4, <1>5 DEF RoutingNext, allvars

LEMMA RoutingInvStep ==
    ASSUME RoutingInv, [RoutingNext]_allvars
    PROVE  RoutingInv'
BY CallsAllowed, CallersStep, CostsStep, TypeStep DEF RoutingInv

LEMMA RoutingInvInit == RoutingInit => RoutingInv
<1> SUFFICES ASSUME RoutingInit PROVE RoutingInv
  OBVIOUS
<1>1. TypeOK
  BY TypeInit DEF RoutingInit
<1>2. CostsOK
  BY DEF RoutingInit, Init, CostsOK, NoJobs, NoJob, NoAnswer, NoProbe, Reportable
<1>3. CallersOK
  BY DEF RoutingInit, CallersOK, NoAnswer, Answer, Places, Reportable
<1> QED
  BY <1>1, <1>2, <1>3 DEF RoutingInv

\* The callers implement what SeatRegistry allows any caller: whatever
\* runRoutedAiDecision does, crashing and losing calls included, is a
\* behaviour of the registry's specification.
THEOREM CallersImplementRegistry == RoutingSpec => Spec
<1>1. RoutingInit => Init
  BY DEF RoutingInit
<1> QED
  BY <1>1, RoutingInvInit, RoutingInvStep, CallsAllowed, PTL
     DEF RoutingSpec, Spec

\* Type correctness of the composition.
THEOREM RoutingTypeCorrect == RoutingSpec => []RoutingTypeOK
<1>1. RoutingInv => RoutingTypeOK
  BY DEF RoutingInv, CallersOK, RoutingTypeOK
<1> QED
  BY <1>1, RoutingInvInit, RoutingInvStep, PTL DEF RoutingSpec
-----------------------------------------------------------------------------
(***************************************************************************)
(* A caller that goes on to another seat has no reservation left on the    *)
(* one it leaves.  Only its own calls make it one, and the environment     *)
(* never restores a lease where no refresh is suspended.                   *)
(***************************************************************************)

LeasesInv ==
    RoutingInv /\ probe.kind # "refresh" /\ NoUnresolvedLease

\* Leases that are reserved after the step were before.
NoneReserved(t) == leases'[t].status = "reserved" => leases[t].status = "reserved"

LEMMA ReclaimReserves ==
    ASSUME NEW t \in Tickets
    PROVE  /\ ReclaimedLeases[t].status = "reserved" =>
                    leases[t].status = "reserved"
BY DEF ReclaimedLeases, NoLease

LEMMA OthersReserve ==
    ASSUME TypeOK, probe.kind # "refresh", RefreshesRun, Environment
    PROVE  (\A t \in Tickets : NoneReserved(t)) /\ probe'.kind # "refresh"
<1>1. CASE \E s \in Seats : RegisterStart(s)
  BY <1>1, NoneSuspended DEF RegisterStart, ProbeStart, NoneReserved
<1>2. CASE Admin
  BY <1>1, <1>2, ReclaimReserves, NoneSuspended
     DEF Admin, RemoveSeat, RegisterSeat, RegisterFinish,
         RefreshSeats, RefreshFinish, NoneReserved
<1>3. CASE Messages
  BY <1>3, ZenonT(40)
     DEF Messages, Connect, Close, SeatRegister, Heartbeat, LateResult, Result,
         NoneReserved
<1>4. CASE Timers \/ Restart
  BY <1>4, NoneSuspended
     DEF Timers, Restart, JobTimeout, LeaseGoesStale, DeadlinePasses,
         HealthLapses, MonthTurns, NoneReserved
<1> QED
  BY <1>2, <1>3, <1>4 DEF Environment

LEMMA LeasesInvStep ==
    ASSUME "crash" \notin Faults, RefreshesRun,
           LeasesInv, [RoutingNext]_allvars
    PROVE  LeasesInv'
<1> USE DEF LeasesInv, RoutingInv
<1>1. RoutingInv'
  BY RoutingInvStep
\* A step that reserves nothing, of a caller whose place still allows what it
\* holds.
<1>2. ASSUME NEW i \in Invocations, probe'.kind # "refresh",
             \A t \in Tickets : NoneReserved(t),
             \A j \in Invocations \ {i} : pc'[j] = pc[j] /\ at'[j] = at[j],
             \A s \in Seats : leases'[<<i, s>>].status = "reserved" =>
                \/ pc'[i] \in {"fallback", "api", "failed"}
                \/ pc'[i] \in {"invoke", "waiting", "settle"} /\ at'[i] = s
      PROVE  LeasesInv'
  BY <1>1, <1>2 DEF NoUnresolvedLease, NoneReserved, Tickets
<1>3. ASSUME NEW i \in Invocations, Work(i)
      PROVE  LeasesInv'
  <2>1. ASSUME NEW s \in Seats, Reserve(i, s)
        PROVE  LeasesInv'
    <3>1. /\ ReserveSeatBudget(<<i, s>>) /\ probe' = probe
          /\ pc[i] = "next" /\ at' = [at EXCEPT ![i] = s]
          /\ pc' = [pc EXCEPT ![i] =
                       IF leases'[<<i, s>>].status = "reserved" THEN "invoke"
                                                                ELSE "next"]
      BY <2>1 DEF Reserve, Goes, ReserveSeatBudget
    <3>2. \A t \in Tickets : t # <<i, s>> => NoneReserved(t)
      BY <3>1, ReclaimedType, ReclaimReserves DEF ReserveSeatBudget, NoneReserved
    <3>3. \A u \in Seats : leases[<<i, u>>].status # "reserved"
      BY <3>1 DEF NoUnresolvedLease
    <3>4. NoUnresolvedLease'
      BY <3>1, <3>2, <3>3 DEF NoUnresolvedLease, NoneReserved, Tickets, CallersOK
    <3> QED
      BY <1>1, <3>1, <3>4
  <2>2. CASE Settle(i)
    <3>1. /\ ReconcileSeatBudget(TicketOf(i), CostOf(outcome[i]))
          /\ pc[i] = "settle" /\ probe' = probe /\ at' = at
          /\ \A j \in Invocations \ {i} : pc'[j] = pc[j]
      BY <2>2 DEF Settle, Goes, ReconcileSeatBudget, CallersOK
    <3>2. TicketOf(i) \in Tickets /\ at[i] \in Seats
      BY <3>1, TicketType
    <3>3. /\ \A t \in Tickets : NoneReserved(t)
          /\ leases'[TicketOf(i)].status # "reserved"
      BY <3>1, <3>2, ReclaimedType, ReclaimReserves
         DEF ReconcileSeatBudget, NoneReserved
    <3>4. \A u \in Seats : leases'[<<i, u>>].status # "reserved"
      BY <3>1, <3>3 DEF NoUnresolvedLease, NoneReserved, TicketOf, Tickets
    <3> QED
      BY <1>2, <3>1, <3>3, <3>4
  <2>3. CASE Downgrade(i)
    <3>1. UNCHANGED <<leases, probe, at>> /\ pc[i] = "downgrade"
          /\ \A j \in Invocations \ {i} : pc'[j] = pc[j]
      BY <2>3 DEF Downgrade, MarkSeatUnhealthy, Goes, CallersOK
    <3> QED
      BY <1>2, <3>1 DEF NoneReserved, NoUnresolvedLease
  <2>4. CASE Invoke(i)
    <3>1. UNCHANGED <<leases, probe, at>> /\ pc[i] = "invoke"
          /\ pc' = [pc EXCEPT ![i] = "waiting"]
      BY <2>4 DEF Invoke, InvokeContributor, Goes
    <3> QED
      BY <1>2, <3>1 DEF NoneReserved, NoUnresolvedLease, CallersOK
  <2>5. CASE Hear(i) \/ InvokeAborted(i) \/ CallProvider(i)
    <3>1. UNCHANGED <<leases, probe, at>> /\ pc[i] \in {"invoke", "waiting"}
          /\ pc' = [pc EXCEPT ![i] = "settle"]
      BY <2>5 DEF Hear, InvokeAborted, CallProvider, Learns, Goes, vars
    <3> QED
      BY <1>2, <3>1 DEF NoneReserved, NoUnresolvedLease, CallersOK
  <2>6. CASE Start(i) \/ NoSeatLeft(i) \/ CallFallback(i)
    <3>1. /\ UNCHANGED <<leases, probe>>
          /\ \/ pc[i] \in {"idle", "next"}
             \/ pc[i] = "fallback" /\ pc'[i] \in {"api", "failed"}
          /\ \A j \in Invocations \ {i} : pc'[j] = pc[j] /\ at'[j] = at[j]
      BY <2>6 DEF Start, NoSeatLeft, CallFallback, Goes, vars, CallersOK
    <3> QED
      BY <1>2, <3>1 DEF NoneReserved, NoUnresolvedLease
  <2> QED
    BY <1>3, <2>1, <2>2, <2>3, <2>4, <2>5, <2>6 DEF Work
<1>4. ASSUME NEW i \in Invocations, Faulty(i)
      PROVE  LeasesInv'
  <2>1. CASE InvokeDropped(i)
    <3>1. UNCHANGED <<leases, probe, at>> /\ pc[i] \in {"invoke", "waiting"}
          /\ pc' = [pc EXCEPT ![i] = "settle"]
      BY <2>1 DEF InvokeDropped, Learns, Goes, vars
    <3> QED
      BY <1>2, <3>1 DEF NoneReserved, NoUnresolvedLease, CallersOK
  <2>2. CASE SettleDropped(i)
    <3>1. /\ probe' = probe /\ at' = at /\ pc' = [pc EXCEPT ![i] = "failed"]
          /\ pc[i] = "settle"
          /\ \/ UNCHANGED leases
             \/ ReconcileSeatBudget(TicketOf(i), CostOf(outcome[i]))
      BY <2>2 DEF SettleDropped, Drops, Goes, ReconcileSeatBudget, vars
    <3>2. \A t \in Tickets : NoneReserved(t)
      BY <3>1, TicketType, ReclaimedType, ReclaimReserves
         DEF ReconcileSeatBudget, NoneReserved
    <3> QED
      BY <1>2, <3>1, <3>2 DEF CallersOK
  <2>3. CASE DowngradeDropped(i)
    <3>1. UNCHANGED <<leases, probe, at>> /\ pc[i] = "downgrade"
          /\ \A j \in Invocations \ {i} : pc'[j] = pc[j]
      BY <2>3 DEF DowngradeDropped, Drops, Goes, vars, CallersOK
    <3> QED
      BY <1>2, <3>1 DEF NoneReserved, NoUnresolvedLease
  <2>4. ASSUME NEW s \in Seats, ReserveDropped(i, s)
        PROVE  LeasesInv'
    <3>1. /\ probe' = probe /\ at' = at /\ pc' = [pc EXCEPT ![i] = "fallback"]
          /\ \/ UNCHANGED leases
             \/ ReserveSeatBudget(<<i, s>>)
      BY <2>4 DEF ReserveDropped, Drops, Goes, ReserveSeatBudget, vars
    <3>2. \A t \in Tickets : t # <<i, s>> => NoneReserved(t)
      BY <3>1, ReclaimedType, ReclaimReserves DEF ReserveSeatBudget, NoneReserved
    <3>3. NoUnresolvedLease'
      BY <3>1, <3>2 DEF NoUnresolvedLease, NoneReserved, Tickets, CallersOK
    <3> QED
      BY <1>1, <3>1, <3>3
  <2>5. CASE StartDropped(i)
    <3>1. /\ UNCHANGED <<leases, probe, at>> /\ pc[i] = "idle"
          /\ \A j \in Invocations \ {i} : pc'[j] = pc[j]
      BY <2>5 DEF StartDropped, Drops, Goes, vars, CallersOK
    <3> QED
      BY <1>2, <3>1 DEF NoneReserved, NoUnresolvedLease
  <2> QED
    BY <1>4, <2>1, <2>2, <2>3, <2>4, <2>5 DEF Faulty, Crash
<1>5. CASE Environment /\ UNCHANGED callers
  <2>1. (\A t \in Tickets : NoneReserved(t)) /\ probe'.kind # "refresh"
    BY <1>5, OthersReserve
  <2> QED
    BY <1>1, <1>5, <2>1 DEF callers, NoUnresolvedLease, NoneReserved, Tickets
<1>6. CASE UNCHANGED allvars
  BY <1>1, <1>6 DEF allvars, callers, vars, NoUnresolvedLease
<1> QED
  BY <1>3, <1>4, <1>5, <1>6 DEF RoutingNext

\* Where no refresh is suspended and no session crashes, a caller holds
\* at most the reservation of the seat it is trying, until its decision
\* fails or falls back to the metered API: runRoutedAiDecision settles
\* before it goes on, whatever calls are lost and whenever the registry
\* restarts.
THEOREM NoReservationIsLeft ==
    ASSUME "crash" \notin Faults, RefreshesRun
    PROVE  RoutingSpec => []NoUnresolvedLease
<1>1. RoutingInit => LeasesInv
  BY RoutingInvInit
     DEF LeasesInv, RoutingInit, Init, NoUnresolvedLease, NoLeases, NoLease,
         Tickets, NoProbe
<1>2. LeasesInv => NoUnresolvedLease
  BY DEF LeasesInv
<1> QED
  BY <1>1, <1>2, LeasesInvStep, PTL DEF RoutingSpec
-----------------------------------------------------------------------------
(***************************************************************************)
(* What a seat delivered is on the books.  A caller has its reservation    *)
(* until it settles it, and a decision is skipped only where it never had  *)
(* one.                                                                    *)
(***************************************************************************)

\* Whoever succeeds reports a cost.
Priced ==
    \A t \in Tickets : /\ jobs[t].status = "succeeded" => jobs[t].cost # Unreported
                       /\ answers[t].status = "ok" => answers[t].cost # Unreported

\* What caller i has on the books at each place of its program.
Placed(i) ==
    /\ outcome[i].status = "ok" => outcome[i].cost # Unreported
    /\ pc[i] \in {"invoke", "waiting", "settle"} => leases[TicketOf(i)].status = "reserved"
    /\ pc[i] \in {"idle", "stretched"} \/ (pc[i] = "next" /\ ~fallback[i]) =>
          \A s \in Seats : leases[<<i, s>>].status = "none"
    /\ pc[i] = "seat" =>
          /\ at[i] \in Seats
          /\ leases[TicketOf(i)] = [status |-> "settled", cost |-> outcome[i].cost]

PlacesInv ==
    /\ RoutingInv /\ Priced /\ stale = {} /\ probe.kind # "refresh"
    /\ \A i \in Invocations : Placed(i)

\* Nothing is reclaimed where nothing is stale.
LEMMA NothingReclaimed ==
    ASSUME TypeOK, stale = {}
    PROVE  ReclaimedLeases = leases /\ ReclaimedSeats = seats
BY DEF TypeOK, ReclaimedLeases, ReclaimedSeats, StaleOf

LEMMA PricedResume ==
    ASSUME TypeOK, Priced, NEW T, NEW a, Resume(T, a),
           (T \cap live # {}) /\ a.status = "ok" => a.cost # Unreported
    PROVE  \A t \in Tickets : answers'[t].status = "ok" => answers'[t].cost # Unreported
BY DEF Resume, Priced, TypeOK

LEMMA PricedIs ==
    /\ Lost.status # "ok" /\ NoAnswer.status # "ok" /\ NoJob.status # "succeeded"
    /\ \A c, r : Failure(c, r).status # "ok"
    /\ \A job : job.status = "succeeded" /\ job.cost # Unreported => Persisted(job).cost # Unreported
    /\ \A job : job.status # "succeeded" => Persisted(job).status # "ok"
    /\ \A job : TimedOut(job).status = "succeeded" => TimedOut(job) = job
BY DEF Lost, NoAnswer, NoJob, Failure, Persisted, TimedOut

LEMMA PricedMessages ==
    ASSUME TypeOK, Priced, Messages
    PROVE  Priced'
<1> SUFFICES ASSUME NEW c \in Conns,
                    \/ Connect(c) \/ Close(c)
                    \/ \E s \in Seats :
                        \/ SeatRegister(c, s)
                        \/ \E status \in {"healthy", "unavailable", "exhausted"} :
                                Heartbeat(c, s, status)
                    \/ \E t \in Tickets, report \in Reports :
                        LateResult(c, t, report) \/ Result(c, t, report)
             PROVE  Priced'
  BY DEF Messages
<1>1. CASE UNCHANGED <<jobs, answers>>
  BY <1>1 DEF Priced
<1>2. CASE Close(c)
  <2>1. \A t \in Tickets : answers'[t].status = "ok" => answers'[t].cost # Unreported
    BY <1>2, PricedIs, PricedResume DEF Close
  <2>2. \A t \in Tickets : jobs'[t].status = "succeeded" => jobs'[t].cost # Unreported
    BY <1>2, PricedIs DEF Close, Priced
  <2> QED
    BY <2>1, <2>2 DEF Priced
<1>3. CASE \/ Connect(c)
           \/ \E s \in Seats :
                \/ SeatRegister(c, s)
                \/ \E status \in {"healthy", "unavailable", "exhausted"} :
                        Heartbeat(c, s, status)
  BY <1>1, <1>3 DEF Connect, SeatRegister, Heartbeat
<1>4. ASSUME NEW t \in Tickets, NEW report \in Reports, LateResult(c, t, report)
      PROVE  Priced'
  <2> DEFINE job == TimedOut(jobs[t])
  <2>1. /\ job \in JobRecord
        /\ job.status = "succeeded" => job.cost # Unreported
    BY TimedOutType, PricedIs DEF Priced, TypeOK
  <2>2. BillLate(t, job, report.cost)
    BY <1>4 DEF LateResult
  <2> HIDE DEF job
  <2>3. \A u \in Tickets : jobs'[u].status = "succeeded" => jobs'[u].cost # Unreported
    BY <2>1, <2>2 DEF BillLate, Priced, TypeOK, JobRecord
  <2>4. \A u \in Tickets : answers'[u].status = "ok" => answers'[u].cost # Unreported
    BY <1>4, PricedIs, PricedResume DEF LateResult, Priced
  <2> QED
    BY <2>3, <2>4 DEF Priced
<1>5. ASSUME NEW t \in Tickets, NEW report \in Reports, Result(c, t, report)
      PROVE  Priced'
  <2> DEFINE job == [status |-> IF report.kind = "decision" THEN "succeeded"
                                                            ELSE "failed",
                     cost |-> report.cost, retryable |-> report.retryable]
  <2>1. job.status = "succeeded" => job.cost # Unreported
    BY SeatsAssumption DEF Reports
  <2>2. jobs' = [jobs EXCEPT ![t] = job] /\ Resume({t}, Persisted(job))
    BY <1>5 DEF Result
  <2> HIDE DEF job
  <2>3. \A u \in Tickets : jobs'[u].status = "succeeded" => jobs'[u].cost # Unreported
    BY <2>1, <2>2 DEF Priced, TypeOK
  <2>4. \A u \in Tickets : answers'[u].status = "ok" => answers'[u].cost # Unreported
    BY <2>1, <2>2, PricedIs, PricedResume
  <2> QED
    BY <2>3, <2>4 DEF Priced
<1> QED
  BY <1>2, <1>3, <1>4, <1>5

LEMMA PricedStep ==
    ASSUME TypeOK, Priced, probe.kind # "refresh", [Next]_vars
    PROVE  Priced'
<1>1. CASE UNCHANGED <<jobs, answers>>
  BY <1>1 DEF Priced
<1>2. ASSUME NEW t \in Tickets, NEW same \in BOOLEAN, InvokeContributor(t, same)
      PROVE  Priced'
  <2>1. /\ jobs[t].status = "succeeded" => jobs[t].cost # Unreported
        /\ TimedOut(jobs[t]).status = "succeeded" => TimedOut(jobs[t]).cost # Unreported
        /\ Unavailable(SeatOf(t)).status # "ok"
    BY PricedIs DEF Priced, Unavailable
  <2>2. [jobs[t] EXCEPT !.status = "pending"].status # "succeeded"
    BY DEF TypeOK, JobRecord
  <2>3. \A u \in Tickets : answers'[u].status = "ok" => answers'[u].cost # Unreported
    <3>1. PICK a : /\ answers' = [answers EXCEPT ![t] = a]
                   /\ \/ a \in {Failure(Unreported, FALSE), Lost, NoAnswer, Unavailable(SeatOf(t))}
                      \/ jobs[t].status \in {"succeeded", "failed"} /\ a = Persisted(jobs[t])
      BY <1>2 DEF InvokeContributor
    <3>2. a.status = "ok" => a.cost # Unreported
      BY <2>1, <3>1, PricedIs
    <3> QED
      BY <3>1, <3>2 DEF Priced, TypeOK
  <2>4. \A u \in Tickets : jobs'[u].status = "succeeded" => jobs'[u].cost # Unreported
    BY <1>2, <2>1, <2>2 DEF InvokeContributor, Priced, TypeOK
  <2> QED
    BY <2>3, <2>4 DEF Priced
<1>3. ASSUME NEW t \in Tickets, JobTimeout(t)
      PROVE  Priced'
  <2>1. \A u \in Tickets : answers'[u].status = "ok" => answers'[u].cost # Unreported
    BY <1>3, PricedIs, PricedResume DEF JobTimeout
  <2>2. \A u \in Tickets : jobs'[u].status = "succeeded" => jobs'[u].cost # Unreported
    BY <1>3, PricedIs DEF JobTimeout, Priced, TypeOK
  <2> QED
    BY <2>1, <2>2 DEF Priced
<1>4. CASE RefreshSeats
  <2>1. \A u \in Tickets : answers'[u].status = "ok" => answers'[u].cost # Unreported
    BY <1>4, PricedIs, PricedResume DEF RefreshSeats
  <2>2. \A u \in Tickets : jobs'[u].status = "succeeded" => jobs'[u].cost # Unreported
    BY <1>4, PricedIs DEF RefreshSeats, ExpiredJobs, Priced
  <2> QED
    BY <2>1, <2>2 DEF Priced
<1>5. CASE Admin
  BY <1>1, <1>4, <1>5
     DEF Admin, RemoveSeat, RegisterSeat, RegisterStart, RegisterFinish, RefreshStart,
         RefreshFinish, ProbeStart
<1>6. CASE Timers
  BY <1>1, <1>3, <1>6
     DEF Timers, LeaseGoesStale, DeadlinePasses, HealthLapses, MonthTurns
<1>7. CASE Calls
  BY <1>1, <1>2, <1>7
     DEF Calls, ReserveSeatBudget, ReconcileSeatBudget, MarkSeatUnhealthy
<1>8. CASE Restart \/ UNCHANGED vars
  BY <1>1, <1>8 DEF Restart, vars
<1> QED
  BY <1>5, <1>6, <1>7, <1>8, PricedMessages DEF Next, Environment

\* Only callers change their leases.
LEMMA OthersLeave ==
    ASSUME "stale" \notin Faults, RefreshesRun,
           TypeOK, stale = {}, probe.kind # "refresh", Environment
    PROVE  leases' = leases /\ stale' = {} /\ probe'.kind # "refresh"
<1>1. NoProbe.kind # "refresh"
  BY DEF NoProbe
<1>2. CASE Admin
  <2>1. ASSUME NEW s \in Seats, RegisterStart(s)
        PROVE  probe'.kind # "refresh" /\ UNCHANGED <<leases, stale>>
    BY <2>1 DEF RegisterStart, ProbeStart, clock, NoProbe
  <2> QED
    BY <1>1, <1>2, <2>1, NothingReclaimed, NoneSuspended
       DEF Admin, RemoveSeat, RegisterSeat, RegisterFinish,
           RefreshSeats, RefreshFinish, clock
<1>3. CASE Messages
  BY <1>3, ZenonT(40)
     DEF Messages, Connect, Close, SeatRegister, Heartbeat, LateResult, Result, clock
<1>4. CASE Timers \/ Restart
  BY <1>1, <1>4
     DEF Timers, Restart, JobTimeout, LeaseGoesStale, DeadlinePasses,
         HealthLapses, MonthTurns, clock
<1> QED
  BY <1>2, <1>3, <1>4 DEF Environment

\* What a call of caller i does to the leases.
LEMMA ReserveLeases ==
    ASSUME TypeOK, stale = {}, NEW t \in Tickets, ReserveSeatBudget(t)
    PROVE  /\ leases' = leases \/ leases' = [leases EXCEPT ![t].status = "reserved"]
           /\ stale' = {} /\ probe' = probe
           /\ leases[t].status = "none" => leases'[t].status \in {"none", "reserved"}
BY NothingReclaimed DEF ReserveSeatBudget, TypeOK, LeaseRecord

LEMMA ReconcileLeases ==
    ASSUME TypeOK, stale = {}, NEW t \in Tickets, NEW cost, ReconcileSeatBudget(t, cost)
    PROVE  /\ \A u \in Tickets \ {t} : leases'[u] = leases[u]
           /\ leases[t].status = "reserved" =>
                 leases'[t] = [status |-> "settled", cost |-> cost]
           /\ stale' = {} /\ probe' = probe
BY NothingReclaimed DEF ReconcileSeatBudget, TypeOK, LeaseRecord

LEMMA PlacedOthers ==
    ASSUME NEW j \in Invocations, Placed(j),
           pc'[j] = pc[j], at'[j] = at[j], outcome'[j] = outcome[j], fallback'[j] = fallback[j],
           \A s \in Seats : leases'[<<j, s>>] = leases[<<j, s>>],
           pc[j] \in {"invoke", "waiting", "settle", "seat"} => at[j] \in Seats
    PROVE  Placed(j)'
BY DEF Placed, TicketOf

LEMMA PlacesStep ==
    ASSUME "crash" \notin Faults, "stale" \notin Faults, RefreshesRun,
           PlacesInv, [RoutingNext]_allvars
    PROVE  PlacesInv'
<1> USE DEF PlacesInv
<1>1. RoutingInv' /\ Priced' /\ TypeOK /\ CallersOK
  BY RoutingInvStep, CallsAllowed, PricedStep DEF RoutingInv
<1>2. \A j \in Invocations : /\ Placed(j)
                             /\ pc[j] \in {"invoke", "waiting", "settle", "seat"} => at[j] \in Seats
  BY <1>1 DEF Placed, CallersOK
<1>3. ASSUME NEW i \in Invocations, stale' = {}, probe'.kind # "refresh",
             \A j \in Invocations \ {i} :
                /\ pc'[j] = pc[j] /\ at'[j] = at[j] /\ outcome'[j] = outcome[j]
                /\ fallback'[j] = fallback[j]
                /\ \A s \in Seats : leases'[<<j, s>>] = leases[<<j, s>>],
             Placed(i)'
      PROVE  PlacesInv'
  <2>1. \A j \in Invocations \ {i} : Placed(j)'
    BY <1>2, <1>3, PlacedOthers
  <2> QED
    BY <1>1, <1>3, <2>1
\* A step of caller i that leaves the leases alone.
<1>4. ASSUME NEW i \in Invocations, NEW p, pc' = [pc EXCEPT ![i] = p],
             UNCHANGED <<leases, stale, probe>>,
             \A j \in Invocations \ {i} : at'[j] = at[j] /\ outcome'[j] = outcome[j]
                                          /\ fallback'[j] = fallback[j],
             outcome'[i].status = "ok" => outcome'[i].cost # Unreported,
             p \in {"invoke", "waiting", "settle"} =>
                /\ at'[i] = at[i] /\ pc[i] \in {"invoke", "waiting", "settle"},
             p \in {"idle", "stretched"} \/ (p = "next" /\ ~fallback'[i]) =>
                pc[i] = "idle" \/ (pc[i] = "next" /\ ~fallback[i]),
             p # "seat"
      PROVE  PlacesInv'
  <2>1. pc'[i] = p /\ \A j \in Invocations \ {i} : pc'[j] = pc[j]
    BY <1>1, <1>4 DEF CallersOK
  <2>2. p \in {"invoke", "waiting", "settle"} => leases'[<<i, at'[i]>>].status = "reserved"
    <3>1. SUFFICES ASSUME p \in {"invoke", "waiting", "settle"}
                   PROVE  leases'[<<i, at'[i]>>].status = "reserved"
      OBVIOUS
    <3>2. /\ at'[i] = at[i] /\ pc[i] \in {"invoke", "waiting", "settle"}
          /\ leases' = leases
      BY <1>4, <3>1
    <3>3. leases[<<i, at[i]>>].status = "reserved"
      BY <1>2, <3>2 DEF Placed, TicketOf
    <3> QED
      BY <3>2, <3>3
  <2>3. p \in {"idle", "stretched"} \/ (p = "next" /\ ~fallback'[i]) =>
          \A s \in Seats : leases'[<<i, s>>].status = "none"
    BY <1>2, <1>4 DEF Placed
  <2>4. Placed(i)'
    BY <1>4, <2>1, <2>2, <2>3 DEF Placed, TicketOf
  <2>5. \A j \in Invocations \ {i} : \A s \in Seats : leases'[<<j, s>>] = leases[<<j, s>>]
    BY <1>4
  <2> QED
    BY <1>3, <1>4, <2>1, <2>4, <2>5
<1>5. ASSUME NEW i \in Invocations, NEW from, NEW answer, Learns(i, from, answer),
             from \in {"invoke", "waiting"}, answer.status = "ok" => answer.cost # Unreported
      PROVE  PlacesInv'
  <2>1. /\ pc[i] = from /\ pc' = [pc EXCEPT ![i] = "settle"]
        /\ outcome' = [outcome EXCEPT ![i] = answer]
        /\ UNCHANGED <<leases, stale, probe, at, fallback>>
    BY <1>5 DEF Learns, Goes, vars, clock
  <2> QED
    BY <1>1, <1>4, <1>5, <2>1 DEF CallersOK
<1>6. \A r : Failure(Unreported, r).status # "ok"
  BY DEF Failure
<1>7. ASSUME NEW i \in Invocations, Work(i)
      PROVE  PlacesInv'
  <2>1. CASE Start(i)
    <3>1. /\ pc[i] = "idle" /\ pc' = [pc EXCEPT ![i] = "next"]
          /\ UNCHANGED <<leases, stale, probe, outcome>>
          /\ at' = [at EXCEPT ![i] = NoSeat] /\ fallback' = [fallback EXCEPT ![i] = FALSE]
      BY <2>1 DEF Start, Goes, vars, clock
    <3> QED
      BY <1>1, <1>2, <1>4, <3>1 DEF CallersOK, Placed
  <2>2. CASE Invoke(i)
    <3>1. /\ pc[i] = "invoke" /\ pc' = [pc EXCEPT ![i] = "waiting"]
          /\ UNCHANGED <<leases, stale, probe, outcome, at, fallback>>
      BY <2>2 DEF Invoke, InvokeContributor, Goes, clock
    <3> QED
      BY <1>2, <1>4, <3>1 DEF Placed
  <2>3. CASE Hear(i)
    <3>1. /\ pc[i] = "waiting" /\ Learns(i, "waiting", answers[TicketOf(i)])
          /\ TicketOf(i) \in Tickets
      BY <1>1, <2>3, TicketType DEF Hear
    <3> QED
      BY <1>5, <3>1 DEF Priced
  <2>4. CASE InvokeAborted(i)
    BY <1>5, <1>6, <2>4 DEF InvokeAborted
  <2>5. CASE CallProvider(i)
    <3>1. PICK answer \in
                [status : {"ok"}, cost : Costs, retryable : {FALSE}]
                \cup [status : {"failure"}, cost : Costs \cup {Unreported},
                      retryable : BOOLEAN] :
              Learns(i, "invoke", answer)
      BY <2>5 DEF CallProvider
    <3>2. answer.status = "ok" => answer.cost # Unreported
      BY SeatsAssumption
    <3> QED
      BY <1>5, <3>1, <3>2
  <2>6. CASE Settle(i)
    <3> DEFINE t == TicketOf(i)
    <3>1. /\ pc[i] = "settle" /\ t \in Tickets /\ at[i] \in Seats
          /\ ReconcileSeatBudget(t, CostOf(outcome[i]))
          /\ UNCHANGED <<at, outcome, fallback>>
      BY <1>1, <2>6, TicketType DEF Settle
    <3>2. /\ \A u \in Tickets \ {t} : leases'[u] = leases[u]
          /\ leases[t].status = "reserved" =>
                leases'[t] = [status |-> "settled", cost |-> CostOf(outcome[i])]
          /\ stale' = {} /\ probe' = probe
      BY <1>1, <3>1, ReconcileLeases
    <3>3. leases'[t] = [status |-> "settled", cost |-> CostOf(outcome[i])]
      BY <1>2, <3>1, <3>2 DEF Placed
    <3>4. \A j \in Invocations \ {i} : \A s \in Seats : leases'[<<j, s>>] = leases[<<j, s>>]
      BY <3>2 DEF Tickets, TicketOf
    <3>5. /\ pc'[i] \in {"seat", "downgrade", "failed"}
          /\ pc'[i] = "seat" => outcome[i].status = "ok"
          /\ \A j \in Invocations \ {i} : pc'[j] = pc[j]
      BY <1>1, <2>6 DEF Settle, Goes, CallersOK
    <3>6. Placed(i)'
      BY <1>2, <3>1, <3>3, <3>5 DEF Placed, TicketOf, CostOf
    <3> QED
      BY <1>3, <3>1, <3>2, <3>4, <3>5, <3>6
  <2>7. CASE Downgrade(i)
    <3>1. /\ pc' = [pc EXCEPT ![i] = "next"]
          /\ UNCHANGED <<leases, stale, probe, outcome, at>>
          /\ fallback' = [fallback EXCEPT ![i] = TRUE]
      BY <2>7 DEF Downgrade, MarkSeatUnhealthy, Goes, clock
    <3> QED
      BY <1>1, <1>2, <1>4, <3>1 DEF CallersOK, Placed
  <2>8. CASE NoSeatLeft(i) \/ CallFallback(i)
    <3>1. PICK p \in {"stretched", "fallback", "api", "failed"} :
             /\ pc' = [pc EXCEPT ![i] = p]
             /\ p = "stretched" => pc[i] = "next" /\ ~fallback[i]
             /\ UNCHANGED <<leases, stale, probe, outcome, at, fallback>>
      BY <2>8 DEF NoSeatLeft, CallFallback, Goes, vars, clock
    <3> QED
      BY <1>2, <1>4, <3>1 DEF Placed
  <2>9. ASSUME NEW s \in Seats, Reserve(i, s)
        PROVE  PlacesInv'
    <3> DEFINE t == <<i, s>>
               p == IF leases'[t].status = "reserved" THEN "invoke" ELSE "next"
    <3>1. /\ pc[i] = "next" /\ t \in Tickets /\ ReserveSeatBudget(t)
          /\ pc' = [pc EXCEPT ![i] = p] /\ at' = [at EXCEPT ![i] = s]
          /\ UNCHANGED <<outcome, fallback>>
      BY <2>9 DEF Reserve, Goes, Tickets
    <3>2. /\ leases' = leases \/ leases' = [leases EXCEPT ![t].status = "reserved"]
          /\ stale' = {} /\ probe' = probe
          /\ leases[t].status = "none" => leases'[t].status \in {"none", "reserved"}
      BY <1>1, <3>1, ReserveLeases
    <3>3. /\ pc'[i] = p /\ at'[i] = s
          /\ \A j \in Invocations \ {i} : pc'[j] = pc[j] /\ at'[j] = at[j]
      BY <1>1, <3>1 DEF CallersOK
    <3>4. \A u \in Tickets \ {t} : leases'[u] = leases[u]
      BY <1>1, <3>1, <3>2 DEF TypeOK
    <3>5. \A j \in Invocations \ {i} : \A v \in Seats : leases'[<<j, v>>] = leases[<<j, v>>]
      BY <3>4 DEF Tickets
    <3>6. ASSUME pc'[i] = "next", ~fallback[i], NEW v \in Seats
          PROVE  leases'[<<i, v>>].status = "none"
      <4>1. \A w \in Seats : leases[<<i, w>>].status = "none"
        BY <1>2, <3>1, <3>6 DEF Placed
      <4>2. leases'[t].status = "none"
        BY <3>2, <3>3, <3>6, <4>1
      <4> QED
        BY <3>4, <4>1, <4>2 DEF Tickets
    <3>7. pc'[i] = "invoke" => leases'[t].status = "reserved"
      BY <3>3
    <3> HIDE DEF p
    <3>8. pc'[i] \in {"invoke", "next"}
      BY <3>3 DEF p
    <3>9. Placed(i)'
      BY <1>2, <3>1, <3>3, <3>6, <3>7, <3>8 DEF Placed, TicketOf
    <3> QED
      BY <1>3, <3>1, <3>2, <3>3, <3>5, <3>9
  <2> QED
    BY <1>7, <2>1, <2>2, <2>3, <2>4, <2>5, <2>6, <2>7, <2>8, <2>9 DEF Work
<1>8. ASSUME NEW i \in Invocations, Faulty(i)
      PROVE  PlacesInv'
  <2>1. CASE InvokeDropped(i)
    BY <1>5, <1>6, <2>1 DEF InvokeDropped
  <2>2. CASE SettleDropped(i)
    <3> DEFINE t == TicketOf(i)
    <3>1. /\ pc[i] = "settle" /\ t \in Tickets /\ pc' = [pc EXCEPT ![i] = "failed"]
          /\ ReconcileSeatBudget(t, CostOf(outcome[i])) \/ UNCHANGED <<leases, stale, probe>>
          /\ UNCHANGED <<at, outcome, fallback>>
      BY <1>1, <2>2, TicketType DEF SettleDropped, Drops, Goes, vars, clock
    <3>2. (\A u \in Tickets \ {t} : leases'[u] = leases[u]) /\ stale' = {} /\ probe' = probe
      BY <1>1, <3>1, ReconcileLeases
    <3>3. \A j \in Invocations \ {i} : \A s \in Seats : leases'[<<j, s>>] = leases[<<j, s>>]
      BY <3>2 DEF Tickets, TicketOf
    <3>4. pc'[i] = "failed" /\ \A j \in Invocations \ {i} : pc'[j] = pc[j]
      BY <1>1, <3>1 DEF CallersOK
    <3>5. Placed(i)'
      BY <1>2, <3>1, <3>4 DEF Placed
    <3> QED
      BY <1>3, <3>1, <3>2, <3>3, <3>4, <3>5
  <2>3. CASE DowngradeDropped(i)
    <3>1. /\ pc' = [pc EXCEPT ![i] = "next"]
          /\ UNCHANGED <<leases, stale, probe, outcome, at>>
          /\ fallback' = [fallback EXCEPT ![i] = TRUE]
      BY <2>3 DEF DowngradeDropped, Drops, Goes, vars, clock
    <3> QED
      BY <1>1, <1>2, <1>4, <3>1 DEF CallersOK, Placed
  <2>4. ASSUME NEW s \in Seats, ReserveDropped(i, s)
        PROVE  PlacesInv'
    <3> DEFINE t == <<i, s>>
    <3>1. /\ t \in Tickets /\ pc' = [pc EXCEPT ![i] = "fallback"]
          /\ ReserveSeatBudget(t) \/ UNCHANGED <<leases, stale, probe>>
          /\ UNCHANGED <<at, outcome, fallback>>
      BY <2>4 DEF ReserveDropped, Drops, Goes, vars, clock, Tickets
    <3>2. /\ leases' = leases \/ leases' = [leases EXCEPT ![t].status = "reserved"]
          /\ stale' = {} /\ probe' = probe
      BY <1>1, <3>1, ReserveLeases
    <3>3. \A j \in Invocations \ {i} : \A v \in Seats : leases'[<<j, v>>] = leases[<<j, v>>]
      BY <1>1, <3>1, <3>2 DEF TypeOK, Tickets
    <3>4. pc'[i] = "fallback" /\ \A j \in Invocations \ {i} : pc'[j] = pc[j]
      BY <1>1, <3>1 DEF CallersOK
    <3>5. Placed(i)'
      BY <1>2, <3>1, <3>4 DEF Placed
    <3> QED
      BY <1>3, <3>1, <3>2, <3>3, <3>4, <3>5
  <2>5. CASE StartDropped(i)
    <3>1. /\ pc' = [pc EXCEPT ![i] = "failed"]
          /\ UNCHANGED <<leases, stale, probe, outcome, at, fallback>>
      BY <2>5 DEF StartDropped, Drops, Goes, vars, clock
    <3> QED
      BY <1>2, <1>4, <3>1 DEF Placed
  <2> QED
    BY <1>8, <2>1, <2>2, <2>3, <2>4, <2>5 DEF Faulty, Crash
<1>9. CASE Environment /\ UNCHANGED callers
  <2>1. leases' = leases /\ stale' = {} /\ probe'.kind # "refresh"
    BY <1>1, <1>9, OthersLeave
  <2>2. \A j \in Invocations : Placed(j)'
    BY <1>2, <1>9, <2>1, PlacedOthers DEF callers
  <2> QED
    BY <1>1, <2>1, <2>2
<1>10. CASE UNCHANGED allvars
  <2>1. leases' = leases /\ stale' = {} /\ probe'.kind # "refresh" /\ UNCHANGED callers
    BY <1>10 DEF allvars, vars, clock
  <2>2. \A j \in Invocations : Placed(j)'
    BY <1>2, <2>1, PlacedOthers DEF callers
  <2> QED
    BY <1>1, <2>1, <2>2
<1> QED
  BY <1>7, <1>8, <1>9, <1>10 DEF RoutingNext

LEMMA PlacesInit == RoutingInit => PlacesInv
<1> SUFFICES ASSUME RoutingInit PROVE PlacesInv
  OBVIOUS
<1>1. RoutingInv
  BY RoutingInvInit
<1>2. Priced
  BY DEF RoutingInit, Init, Priced, NoJobs, NoJob, NoAnswer
<1>3. \A i \in Invocations : Placed(i)
  BY DEF RoutingInit, Init, Placed, NoLeases, NoLease, NoAnswer, Tickets
<1>4. stale = {} /\ probe.kind # "refresh"
  BY DEF RoutingInit, Init, NoProbe
<1> QED
  BY <1>1, <1>2, <1>3, <1>4 DEF PlacesInv

\* A decision that a seat delivered is on the books at the cost it reported,
\* and one is skipped for want of budget only if no seat worked on it, whatever
\* calls runRoutedAiDecision loses and whenever the registry restarts, as long
\* as no session crashes, no reservation is reclaimed as stale and no refresh
\* is suspended in a probe.
THEOREM DeliveriesAreBilled ==
    ASSUME "crash" \notin Faults, "stale" \notin Faults, RefreshesRun
    PROVE  RoutingSpec => []DeliveredIsBilled
<1>1. PlacesInv => DeliveredIsBilled
  BY DEF PlacesInv, Placed, DeliveredIsBilled
<1> QED
  BY <1>1, PlacesInit, PlacesStep, PTL DEF RoutingSpec
-----------------------------------------------------------------------------
(***************************************************************************)
(* Sums.  That the recursion of MapThenSumSet defines a function, and what *)
(* follows of its values, is proved by looking at a least set of which it  *)
(* would not hold.                                                         *)
(***************************************************************************)

\* Among sets some of which are in the way, there is a least.
LEMMA LeastSet ==
    ASSUME NEW S, IsFiniteSet(S), NEW B, B \subseteq SUBSET S, B # {}
    PROVE  \E m \in B : \A y \in B : y \subseteq m => y = m
<1>1. B \subseteq FiniteSubsetsOf(S)
  BY FS_Subset DEF FiniteSubsetsOf
<1>2. IsWellFoundedOn(StrictSubsetOrdering(S), FiniteSubsetsOf(S))
  BY FS_StrictSubsetOrderingWellFounded
<1>3. PICK m \in B : \A y \in B : ~(<<y, m>> \in StrictSubsetOrdering(S))
  BY <1>1, <1>2, WFMin
<1> QED
  BY <1>3 DEF StrictSubsetOrdering

Some(s) == CHOOSE x \in s : TRUE
IsSum(g, T, W) ==
    g = [s \in SUBSET T |-> IF s = {} THEN 0 ELSE W[Some(s)] + g[s \ {Some(s)}]]
Total(W, T) == (CHOOSE g : IsSum(g, T, W))[T]

LEMMA SomeIs ==
    ASSUME NEW s, s # {} PROVE Some(s) \in s /\ s \ {Some(s)} \subseteq s /\ s \ {Some(s)} # s
BY DEF Some

LEMMA SumAt ==
    ASSUME NEW g, NEW T, NEW W, IsSum(g, T, W), NEW s, s \subseteq T
    PROVE  g[s] = IF s = {} THEN 0 ELSE W[Some(s)] + g[s \ {Some(s)}]
BY DEF IsSum

LEMMA SumUnique ==
    ASSUME NEW T, IsFiniteSet(T), NEW U, NEW W, NEW g, NEW h,
           IsSum(g, T, W), IsSum(h, U, W)
    PROVE  \A s : s \subseteq T /\ s \subseteq U => g[s] = h[s]
<1> DEFINE B == {s \in SUBSET T : s \subseteq U /\ g[s] # h[s]}
<1> SUFFICES ASSUME B # {} PROVE FALSE
  OBVIOUS
<1>1. PICK m \in B : \A y \in B : y \subseteq m => y = m
  <2>1. B \subseteq SUBSET T
    OBVIOUS
  <2> HIDE DEF B
  <2> QED
    BY <2>1, LeastSet
<1>2. CASE m = {}
  BY <1>1, <1>2, SumAt
<1>3. CASE m # {}
  <2> DEFINE r == m \ {Some(m)}
  <2>1. r \subseteq m /\ r # m /\ r \notin B
    BY <1>1, <1>3, SomeIs
  <2>2. g[r] = h[r]
    BY <1>1, <2>1
  <2>3. g[m] = W[Some(m)] + g[r] /\ h[m] = W[Some(m)] + h[r]
    BY <1>1, <1>3, SumAt
  <2> QED
    BY <1>1, <2>2, <2>3
<1> QED
  BY <1>2, <1>3

LEMMA SumExists ==
    ASSUME NEW T, IsFiniteSet(T), NEW W
    PROVE  \E g : IsSum(g, T, W)
<1> DEFINE B == {s \in SUBSET T : ~\E g : IsSum(g, s, W)}
<1> SUFFICES ASSUME B # {} PROVE FALSE
  OBVIOUS
<1>1. PICK m \in B : \A y \in B : y \subseteq m => y = m
  <2>1. B \subseteq SUBSET T
    OBVIOUS
  <2> HIDE DEF B
  <2> QED
    BY <2>1, LeastSet
<1> DEFINE Sub(s) == CHOOSE g : IsSum(g, s, W)
           r == m \ {Some(m)}
           g == [s \in SUBSET m |-> IF s # m THEN Sub(s)[s]
                                    ELSE IF m = {} THEN 0 ELSE W[Some(m)] + Sub(r)[r]]
<1>2. \A s : s \subseteq m /\ s # m => IsSum(Sub(s), s, W)
  BY <1>1
<1> HIDE DEF Sub
<1>3. ASSUME NEW s, s \subseteq m, s # {}, s # m
      PROVE  g[s] = W[Some(s)] + g[s \ {Some(s)}]
  <2> DEFINE q == s \ {Some(s)}
  <2>1. q \subseteq s /\ q # s /\ q # m
    BY <1>3, SomeIs
  <2>2. Sub(s)[s] = W[Some(s)] + Sub(s)[q]
    BY <1>2, <1>3, SumAt
  <2>3. IsFiniteSet(s)
    BY <1>3, FS_Subset
  <2>4. Sub(s)[q] = Sub(q)[q]
    BY <1>2, <1>3, <2>1, <2>3, SumUnique
  <2> QED
    BY <1>3, <2>1, <2>2, <2>4
<1>4. m # {} => g[m] = W[Some(m)] + g[r]
  BY SomeIs
<1>5. g[{}] = 0
  <2>1. CASE m = {}
    BY <2>1
  <2>2. CASE m # {}
    BY <1>2, <2>2, SumAt
  <2> QED
    BY <2>1, <2>2
<1>6. g = [s \in SUBSET m |-> IF s = {} THEN 0 ELSE W[Some(s)] + g[s \ {Some(s)}]]
  <2> HIDE DEF g
  <2>1. \A s \in SUBSET m : g[s] = IF s = {} THEN 0 ELSE W[Some(s)] + g[s \ {Some(s)}]
    BY <1>3, <1>4, <1>5
  <2>2. g = [s \in SUBSET m |-> g[s]]
    BY DEF g
  <2> QED
    BY <2>1, <2>2
<1>7. IsSum(g, m, W)
  <2> HIDE DEF g
  <2> QED
    BY <1>6 DEF IsSum
<1> QED
  BY <1>1, <1>7

LEMMA TotalIs ==
    ASSUME NEW T, IsFiniteSet(T), NEW W, NEW g, IsSum(g, T, W)
    PROVE  Total(W, T) = g[T]
<1> DEFINE h == CHOOSE h : IsSum(h, T, W)
<1>1. IsSum(h, T, W)
  OBVIOUS
<1> HIDE DEF h
<1>2. h[T] = g[T]
  BY <1>1, SumUnique
<1> QED
  BY <1>2 DEF Total, h

LEMMA TotalAt ==
    ASSUME NEW T, IsFiniteSet(T), NEW W
    PROVE  Total(W, T) = IF T = {} THEN 0 ELSE W[Some(T)] + Total(W, T \ {Some(T)})
<1>1. PICK g : IsSum(g, T, W)
  BY SumExists
<1>2. CASE T = {}
  BY <1>1, <1>2, TotalIs, SumAt
<1>3. CASE T # {}
  <2> DEFINE r == T \ {Some(T)}
  <2>1. IsFiniteSet(r) /\ r \subseteq T
    BY FS_Subset
  <2>2. PICK h : IsSum(h, r, W)
    BY <2>1, SumExists
  <2>3. Total(W, T) = g[T] /\ Total(W, r) = h[r]
    BY <1>1, <2>1, <2>2, TotalIs
  <2>4. g[T] = W[Some(T)] + g[r]
    BY <1>1, <1>3, SumAt
  <2>5. g[r] = h[r]
    BY <1>1, <2>1, <2>2, SumUnique
  <2> QED
    BY <1>3, <2>3, <2>4, <2>5
<1> QED
  BY <1>2, <1>3

LEMMA TotalNone ==
    ASSUME NEW W PROVE Total(W, {}) = 0
BY FS_EmptySet, TotalAt

LEMMA TotalZero ==
    ASSUME NEW T, IsFiniteSet(T), NEW W, \A x \in T : W[x] = 0
    PROVE  Total(W, T) = 0
<1> DEFINE B == {s \in SUBSET T : Total(W, s) # 0}
<1> SUFFICES ASSUME B # {} PROVE FALSE
  OBVIOUS
<1>1. PICK m \in B : \A y \in B : y \subseteq m => y = m
  <2>1. B \subseteq SUBSET T
    OBVIOUS
  <2> HIDE DEF B
  <2> QED
    BY <2>1, LeastSet
<1>2. m \subseteq T /\ IsFiniteSet(m) /\ Total(W, m) # 0
  BY <1>1, FS_Subset
<1>3. m # {}
  BY <1>2, TotalNone
<1> DEFINE r == m \ {Some(m)}
<1>4. Total(W, m) = W[Some(m)] + Total(W, r)
  BY <1>2, <1>3, TotalAt
<1>5. Some(m) \in T /\ r \subseteq m /\ r # m
  BY <1>2, <1>3, SomeIs
<1>6. Total(W, r) = 0
  BY <1>1, <1>2, <1>5
<1> QED
  BY <1>2, <1>4, <1>5, <1>6

LEMMA TotalType ==
    ASSUME NEW T, IsFiniteSet(T), NEW W, \A x \in T : W[x] \in Nat
    PROVE  Total(W, T) \in Nat
<1> DEFINE B == {s \in SUBSET T : Total(W, s) \notin Nat}
<1> SUFFICES ASSUME B # {} PROVE FALSE
  OBVIOUS
<1>1. PICK m \in B : \A y \in B : y \subseteq m => y = m
  <2>1. B \subseteq SUBSET T
    OBVIOUS
  <2> HIDE DEF B
  <2> QED
    BY <2>1, LeastSet
<1>2. m \subseteq T /\ IsFiniteSet(m) /\ Total(W, m) \notin Nat
  BY <1>1, FS_Subset
<1>3. m # {}
  BY <1>2, TotalNone
<1> DEFINE r == m \ {Some(m)}
<1>4. Total(W, m) = W[Some(m)] + Total(W, r)
  BY <1>2, <1>3, TotalAt
<1>5. Some(m) \in T /\ r \subseteq m /\ r # m
  BY <1>2, <1>3, SomeIs
<1>6. Total(W, r) \in Nat
  BY <1>1, <1>2, <1>5
<1> QED
  BY <1>2, <1>4, <1>5, <1>6

\* A sum is that of its parts, and parts may change one at a time.
LEMMA TotalSame ==
    ASSUME NEW T, IsFiniteSet(T), NEW V, NEW W, \A x \in T : V[x] = W[x]
    PROVE  Total(V, T) = Total(W, T)
<1> DEFINE B == {s \in SUBSET T : Total(V, s) # Total(W, s)}
<1> SUFFICES ASSUME B # {} PROVE FALSE
  OBVIOUS
<1>1. PICK m \in B : \A y \in B : y \subseteq m => y = m
  <2>1. B \subseteq SUBSET T
    OBVIOUS
  <2> HIDE DEF B
  <2> QED
    BY <2>1, LeastSet
<1>2. m \subseteq T /\ IsFiniteSet(m) /\ Total(V, m) # Total(W, m)
  BY <1>1, FS_Subset
<1>3. m # {}
  BY <1>2, TotalNone
<1> DEFINE r == m \ {Some(m)}
<1>4. /\ Total(V, m) = V[Some(m)] + Total(V, r)
      /\ Total(W, m) = W[Some(m)] + Total(W, r)
  BY <1>2, <1>3, TotalAt
<1>5. Some(m) \in T /\ r \subseteq m /\ r # m
  BY <1>2, <1>3, SomeIs
<1>6. Total(V, r) = Total(W, r)
  BY <1>1, <1>2, <1>5
<1> QED
  BY <1>2, <1>4, <1>5, <1>6

LEMMA TotalChanged ==
    ASSUME NEW T, IsFiniteSet(T), NEW V, NEW W, NEW u \in T,
           \A x \in T : V[x] \in Nat /\ W[x] \in Nat,
           \A x \in T : x # u => V[x] = W[x]
    PROVE  Total(V, T) + W[u] = Total(W, T) + V[u]
<1> DEFINE B == {s \in SUBSET T : u \in s /\ Total(V, s) + W[u] # Total(W, s) + V[u]}
<1> SUFFICES ASSUME B # {} PROVE FALSE
  OBVIOUS
<1>1. PICK m \in B : \A y \in B : y \subseteq m => y = m
  <2>1. B \subseteq SUBSET T
    OBVIOUS
  <2> HIDE DEF B
  <2> QED
    BY <2>1, LeastSet
<1>2. m \subseteq T /\ IsFiniteSet(m) /\ u \in m /\ Total(V, m) + W[u] # Total(W, m) + V[u]
  BY <1>1, FS_Subset
<1>3. m # {}
  BY <1>2
<1> DEFINE c == Some(m)
           r == m \ {Some(m)}
<1>4. Total(V, m) = V[c] + Total(V, r) /\ Total(W, m) = W[c] + Total(W, r)
  BY <1>2, <1>3, TotalAt
<1>5. c \in T /\ r \subseteq m /\ r # m /\ r \subseteq T /\ c \notin r
  BY <1>2, <1>3, SomeIs
<1>6. Total(V, r) \in Nat /\ Total(W, r) \in Nat /\ IsFiniteSet(r)
  <2>1. IsFiniteSet(r)
    BY <1>2, FS_Subset
  <2> QED
    BY <1>5, <2>1, TotalType
<1>7. /\ V[c] \in Nat /\ W[c] \in Nat /\ V[u] \in Nat /\ W[u] \in Nat
  BY <1>5
<1>8. CASE c = u
  <2>1. \A x \in r : V[x] = W[x]
    BY <1>5, <1>8
  <2>2. Total(V, r) = Total(W, r)
    BY <1>6, <2>1, TotalSame
  <2> QED
    BY <1>2, <1>4, <1>6, <1>7, <1>8, <2>2
<1>9. CASE c # u
  <2>1. u \in r
    BY <1>2, <1>9
  <2>2. Total(V, r) + W[u] = Total(W, r) + V[u]
    BY <1>1, <1>2, <1>5, <2>1
  <2>3. V[c] = W[c]
    BY <1>5, <1>9
  <2> HIDE DEF c, r
  <2> QED
    BY <1>2, <1>4, <1>6, <1>7, <2>2, <2>3
<1> QED
  BY <1>8, <1>9

\* The sum of SeatRouting.
LEMMA CostsAreTotal ==
    ASSUME NEW T, IsFiniteSet(T), NEW W, \A t \in T : W[t] = JobCost(t)
    PROVE  MapThenSumSet(JobCost, T) = Total(W, T)
<1>1. PICK g : IsSum(g, T, W)
  BY SumExists
<1> DEFINE P(h) == h = [s \in SUBSET T |-> IF s = {} THEN 0
                            ELSE JobCost(CHOOSE x \in s : TRUE) + h[s \ {CHOOSE x \in s : TRUE}]]
           h == CHOOSE f : P(f)
<1>2. \A s \in SUBSET T : s # {} => JobCost(Some(s)) = W[Some(s)]
  BY SomeIs
<1>3. ASSUME NEW f PROVE P(f) <=> IsSum(f, T, W)
  <2> DEFINE a == [s \in SUBSET T |-> IF s = {} THEN 0
                            ELSE JobCost(Some(s)) + f[s \ {Some(s)}]]
             b == [s \in SUBSET T |-> IF s = {} THEN 0
                            ELSE W[Some(s)] + f[s \ {Some(s)}]]
  <2>1. a = b
    BY <1>2
  <2>2. P(f) <=> f = a
    BY DEF Some
  <2>3. IsSum(f, T, W) <=> f = b
    BY DEF IsSum
  <2> QED
    BY <2>1, <2>2, <2>3
<1>4. P(h)
  <2>1. P(g)
    BY <1>1, <1>3
  <2> HIDE DEF P
  <2> QED
    BY <2>1
<1>5. h[T] = Total(W, T)
  <2> HIDE DEF P, h
  <2> QED
    BY <1>3, <1>4, TotalIs
<1> QED
  BY <1>5 DEF MapThenSumSet, MapThenFoldSet
-----------------------------------------------------------------------------
(***************************************************************************)
(* Usage is billed once.  What a seat has spent is what its jobs report,   *)
(* except what a caller knows of and has yet to reconcile.                 *)
(***************************************************************************)

At(t, places) == pc[t[1]] \in places /\ at[t[1]] = t[2]
\* The caller has been told of a cost, or is reconciling it.
Told(t) == At(t, {"waiting"}) /\ answers[t].status # "none" /\ answers[t].cost # Unreported
Settling(t) == At(t, {"settle"}) /\ outcome[t[1]].cost # Unreported
Outstanding(t) == Told(t) \/ Settling(t)
Bill(t) == IF Outstanding(t) THEN 0 ELSE CostOf(jobs[t])
TicketsOf(s) == {t \in Tickets : SeatOf(t) = s}
Billed(s) == Total([t \in TicketsOf(s) |-> Bill(t)], TicketsOf(s))

\* A job, its lease, and what its caller has heard.
JobFits(t) ==
    /\ jobs[t].status \in {"none", "pending"} => jobs[t].cost = Unreported
    /\ jobs[t].status # "none" => SeatOf(t) \in Contributors
    /\ t \in live <=> jobs[t].status = "pending"
LeaseFits(t) ==
    /\ leases[t].status # "none" /\ SeatOf(t) \in Contributors => seats[SeatOf(t)].registered
    /\ leases[t].status = "none" => jobs[t].status = "none"
    /\ leases[t].status = "reserved" => At(t, {"invoke", "waiting", "settle"})
CallerFits(t) ==
    /\ At(t, {"invoke"}) => jobs[t].status = "none"
    /\ jobs[t].status = "pending" => At(t, {"waiting"})
    /\ At(t, {"waiting"}) =>
          /\ SeatOf(t) \in Contributors
          /\ answers[t].status = "none" <=> t \in live
          /\ answers[t].status # "none" /\ answers[t].cost # Unreported =>
                jobs[t].cost = answers[t].cost
    /\ SeatOf(t) \in Contributors /\ Settling(t) => jobs[t].cost = outcome[t[1]].cost
TicketFits(t) == JobFits(t) /\ LeaseFits(t) /\ CallerFits(t)

SeatFits(s) ==
    /\ seats[s].period = 0
    /\ ~seats[s].registered => seats[s].spent = 0
    /\ seats[s].spent = Billed(s)

BillsInv ==
    /\ PlacesInv /\ period = 0
    /\ probe.kind = "register" => probe.asked \cap Contributors = {}
    /\ \A t \in Tickets : TicketFits(t)
    /\ \A s \in Contributors : SeatFits(s)

\* Only operators may fail, and the month does not turn: the callers reach the
\* registry, nothing restarts, and no seat is removed.
Undisturbed ==
    /\ Faults \subseteq {"reregister"}
    /\ Removable = {} /\ LastPeriod = 0

LEMMA TicketsAre ==
    /\ IsFiniteSet(Tickets)
    /\ \A s : IsFiniteSet(TicketsOf(s)) /\ TicketsOf(s) \subseteq Tickets
    /\ \A t \in Tickets : /\ t = <<t[1], t[2]>> /\ SeatOf(t) = t[2]
                          /\ t[1] \in Invocations /\ t[2] \in Seats /\ t \in TicketsOf(t[2])
<1>1. IsFiniteSet(Tickets)
  BY FS_Product, SeatsAssumption DEF Tickets
<1>2. \A s : TicketsOf(s) \subseteq Tickets
  BY DEF TicketsOf
<1>3. \A s : IsFiniteSet(TicketsOf(s))
  BY <1>1, <1>2, FS_Subset
<1>4. ASSUME NEW t \in Tickets
      PROVE  /\ t = <<t[1], t[2]>> /\ SeatOf(t) = t[2]
             /\ t[1] \in Invocations /\ t[2] \in Seats /\ t \in TicketsOf(t[2])
  BY DEF TicketsOf, Tickets, SeatOf
<1> QED
  BY <1>1, <1>2, <1>3, <1>4

LEMMA BillIs ==
    ASSUME RoutingInv, NEW t \in Tickets
    PROVE  Bill(t) \in Nat /\ CostOf(jobs[t]) \in Nat
BY SeatsAssumption DEF RoutingInv, CostsOK, Reportable, Bill, CostOf

LEMMA BillIsNext ==
    ASSUME RoutingInv', NEW t \in Tickets
    PROVE  Bill(t)' \in Nat
BY SeatsAssumption DEF RoutingInv, CostsOK, Reportable, Bill, CostOf

LEMMA BilledStays ==
    ASSUME NEW s, \A t \in TicketsOf(s) : Bill(t)' = Bill(t)
    PROVE  Billed(s)' = Billed(s)
BY DEF Billed, TicketsOf

LEMMA BilledRises ==
    ASSUME RoutingInv, RoutingInv', NEW s, NEW u \in TicketsOf(s), NEW c \in Nat,
           Bill(u)' = Bill(u) + c,
           \A t \in TicketsOf(s) : t # u => Bill(t)' = Bill(t)
    PROVE  Billed(s)' = Billed(s) + c /\ Billed(s) \in Nat
<1> DEFINE T == TicketsOf(s)
           old == [t \in T |-> Bill(t)]
           new == [t \in T |-> Bill(t)']
<1>1. IsFiniteSet(T) /\ T \subseteq Tickets
  BY TicketsAre
<1>2. \A t \in T : Bill(t) \in Nat /\ Bill(t)' \in Nat
  BY <1>1, BillIs
<1>3. \A t \in T : old[t] = Bill(t) /\ new[t] = Bill(t)'
  OBVIOUS
<1>4. Billed(s) = Total(old, T) /\ Billed(s)' = Total(new, T)
  BY DEF Billed, TicketsOf
<1> HIDE DEF T, old, new
<1>5. /\ \A t \in T : new[t] \in Nat /\ old[t] \in Nat
      /\ \A t \in T : t # u => new[t] = old[t]
      /\ u \in T
  BY <1>2, <1>3 DEF T
<1>6. Total(new, T) + old[u] = Total(old, T) + new[u]
  BY <1>1, <1>5, TotalChanged
<1>7. Total(old, T) \in Nat /\ Total(new, T) \in Nat
  BY <1>1, <1>5, TotalType
<1>8. new[u] = old[u] + c
  BY <1>3, <1>5
<1> QED
  BY <1>4, <1>5, <1>6, <1>7, <1>8

(* What a step leaves of a ticket, and of the account of a seat. *)
Busy == {"invoke", "waiting", "settle"}

Keeps(s) ==
    /\ seats'[s].spent = seats[s].spent /\ seats'[s].period = seats[s].period
    /\ seats[s].registered => seats'[s].registered
Pays(s, c) ==
    /\ seats'[s].spent = seats[s].spent + c /\ seats'[s].period = seats[s].period
    /\ seats'[s].registered

SameJob(t) ==
    /\ jobs'[t] = jobs[t] /\ answers'[t] = answers[t]
    /\ t \in live' <=> t \in live
\* The job ends, and its caller is told what the ledger says.
Finished(t) ==
    /\ jobs[t].status = "pending" /\ jobs'[t].status \in {"succeeded", "failed"}
    /\ t \notin live'
    /\ answers'[t].status # "none" /\ answers'[t].cost = jobs'[t].cost
\* The job is over, or overdue, when its cost arrives.
CameLate(t, c) ==
    /\ jobs[t].cost = Unreported /\ jobs'[t].status = "failed" /\ jobs'[t].cost = c
    /\ t \notin live'
    /\ \/ jobs[t].status = "failed" /\ answers'[t] = answers[t]
       \/ jobs[t].status = "pending" /\ answers'[t] = Lost

\* A caller that does not move, or is not at this seat.
SamePlace(t) ==
    /\ \A place \in Busy : At(t, {place})' <=> At(t, {place})
    /\ At(t, {"settle"}) => outcome'[t[1]] = outcome[t[1]]

LEMMA TicketKept ==
    ASSUME NEW t \in Tickets, TicketFits(t), SameJob(t), SamePlace(t), leases'[t] = leases[t],
           SeatOf(t) \in Contributors /\ seats[SeatOf(t)].registered =>
                seats'[SeatOf(t)].registered
    PROVE  TicketFits(t)' /\ Bill(t)' = Bill(t)
<1>1. /\ At(t, {"invoke"})' <=> At(t, {"invoke"})
      /\ At(t, {"waiting"})' <=> At(t, {"waiting"})
      /\ At(t, {"settle"})' <=> At(t, {"settle"})
      /\ At(t, Busy)' <=> At(t, Busy)
  BY DEF SamePlace, Busy, At
<1>2. Told(t)' <=> Told(t)
  BY <1>1 DEF Told, SameJob
<1>3. (Settling(t)' <=> Settling(t)) /\ (Settling(t) => outcome'[t[1]] = outcome[t[1]])
  BY <1>1 DEF Settling, SamePlace
<1>4. Bill(t)' = Bill(t)
  BY <1>2, <1>3 DEF Bill, Outstanding, SameJob
<1>5. JobFits(t)'
  BY DEF JobFits, TicketFits, SameJob, SeatOf
<1>6. LeaseFits(t)'
  BY <1>1 DEF LeaseFits, TicketFits, SameJob, SeatOf, Busy
<1>7. CallerFits(t)'
  BY <1>1, <1>3 DEF CallerFits, TicketFits, SameJob, SeatOf
<1> QED
  BY <1>4, <1>5, <1>6, <1>7 DEF TicketFits

LEMMA TicketFinished ==
    ASSUME NEW t \in Tickets, TicketFits(t), Finished(t), UNCHANGED callers, leases'[t] = leases[t],
           SeatOf(t) \in Contributors => Keeps(SeatOf(t))
    PROVE  TicketFits(t)' /\ Bill(t)' = Bill(t)
<1>1. \A P : At(t, P)' <=> At(t, P)
  BY DEF At, callers
<1>2. /\ jobs[t].status = "pending" /\ jobs[t].cost = Unreported
      /\ At(t, {"waiting"}) /\ SeatOf(t) \in Contributors
  BY DEF Finished, TicketFits, JobFits, CallerFits
<1>3. ~At(t, {"invoke"}) /\ ~At(t, {"settle"})
  BY <1>2 DEF At
<1>4. At(t, {"waiting"})' /\ ~At(t, {"invoke"})' /\ ~At(t, {"settle"})'
  BY <1>2, <1>3, callers' = callers DEF At, callers
<1>5. Bill(t) = 0
  BY <1>2 DEF Bill, CostOf
<1>6. Bill(t)' = 0
  <2>1. CASE jobs'[t].cost = Unreported
    BY <2>1 DEF Bill, CostOf
  <2>2. CASE jobs'[t].cost # Unreported
    BY <2>2, <1>4 DEF Bill, Outstanding, Told, Finished
  <2> QED
    BY <2>1, <2>2
<1>7. JobFits(t)'
  BY <1>2 DEF JobFits, Finished, SeatOf
<1>8. LeaseFits(t)'
  <2>1. At(t, Busy)'
    BY <1>4 DEF At, Busy
  <2> QED
    BY <1>2, <2>1 DEF LeaseFits, TicketFits, Keeps, SeatOf, Busy
<1>9. CallerFits(t)'
  BY <1>2, <1>4 DEF CallerFits, Finished, SeatOf, Settling
<1> QED
  BY <1>5, <1>6, <1>7, <1>8, <1>9 DEF TicketFits

LEMMA TicketLate ==
    ASSUME NEW t \in Tickets, TicketFits(t), NEW c \in Nat, CameLate(t, c), UNCHANGED callers,
           leases'[t] = leases[t],
           SeatOf(t) \in Contributors => seats'[SeatOf(t)].registered
    PROVE  TicketFits(t)' /\ Bill(t) = 0 /\ Bill(t)' = c
<1>1. /\ At(t, {"waiting"})' <=> At(t, {"waiting"})
      /\ At(t, {"invoke"})' <=> At(t, {"invoke"})
      /\ At(t, {"settle"})' <=> At(t, {"settle"})
      /\ At(t, Busy)' <=> At(t, Busy)
      /\ Settling(t)' <=> Settling(t)
  BY DEF At, callers, Settling
<1>2. /\ jobs[t].cost = Unreported /\ c # Unreported
      /\ SeatOf(t) \in Contributors /\ jobs[t].status # "none"
  BY SeatsAssumption DEF CameLate, TicketFits, JobFits
<1>3. Bill(t) = 0
  BY <1>2 DEF Bill, CostOf
<1>4. ~Settling(t)
  BY <1>2 DEF TicketFits, CallerFits, Settling
<1>5. ~Told(t)'
  <2>1. CASE jobs[t].status = "failed" /\ answers'[t] = answers[t]
    <3>1. Told(t)' <=> Told(t)
      BY <1>1, <2>1 DEF Told
    <3>2. ~Told(t)
      BY <1>2 DEF Told, TicketFits, CallerFits
    <3> QED
      BY <3>1, <3>2
  <2>2. CASE jobs[t].status = "pending" /\ answers'[t] = Lost
    BY <2>2 DEF Told, Lost, Failure
  <2> QED
    BY <2>1, <2>2 DEF CameLate
<1>6. Bill(t)' = c
  BY <1>1, <1>2, <1>4, <1>5 DEF Bill, Outstanding, CostOf, CameLate
<1>7. JobFits(t)'
  BY <1>2 DEF JobFits, CameLate, SeatOf
<1>8. LeaseFits(t)'
  BY <1>1, <1>2 DEF LeaseFits, TicketFits, SeatOf, Busy
<1>9. CallerFits(t)'
  <2>1. ~At(t, {"invoke"})
    <3>1. jobs[t].status # "none"
      BY <1>2
    <3> QED
      BY <3>1 DEF TicketFits, CallerFits
  <2>2. At(t, {"waiting"}) => answers'[t].status # "none"
    <3>1. CASE jobs[t].status = "failed" /\ answers'[t] = answers[t]
      BY <3>1 DEF TicketFits, JobFits, CallerFits
    <3>2. CASE jobs[t].status = "pending" /\ answers'[t] = Lost
      BY <3>2 DEF Lost, Failure
    <3> QED
      BY <3>1, <3>2 DEF CameLate
  <2>3. jobs'[t].status = "failed" /\ t \notin live'
    BY DEF CameLate
  <2> QED
    BY <1>1, <1>2, <1>4, <1>5, <2>1, <2>2, <2>3 DEF CallerFits, Told, SeatOf
<1> QED
  BY <1>3, <1>6, <1>7, <1>8, <1>9 DEF TicketFits
-----------------------------------------------------------------------------
(* The steps of the registry's own. *)

\* Nothing is billed, or a late report is.
Calm ==
    /\ \A t \in Tickets : SameJob(t) \/ Finished(t)
    /\ \A s \in Contributors : Keeps(s)
LateFor(u, c) ==
    /\ CameLate(u, c) /\ Pays(SeatOf(u), c)
    /\ \A t \in Tickets \ {u} : SameJob(t)
    /\ \A s \in Contributors \ {SeatOf(u)} : Keeps(s)

LEMMA BillsAre ==
    ASSUME BillsInv
    PROVE  /\ TypeOK /\ PlacesInv /\ stale = {} /\ period = 0
           /\ \A t \in Tickets : TicketFits(t)
           /\ \A t \in Tickets : t \in live <=> jobs[t].status = "pending"
           /\ \A t \in Tickets : jobs[t].status = "pending" => jobs[t].cost = Unreported
           /\ \A t \in Tickets : jobs[t].status # "none" => SeatOf(t) \in Contributors
           /\ \A s \in Contributors : /\ s \in Seats /\ seats[s].period = 0 /\ seats[s] \in SeatRecord
                                      /\ ~seats[s].registered => seats[s].spent = 0
BY SeatsAssumption DEF BillsInv, PlacesInv, RoutingInv, TicketFits, JobFits, SeatFits, TypeOK

\* The month does not turn.
LEMMA SeatKept ==
    ASSUME BillsInv, NEW s \in Contributors
    PROVE  Roll(seats[s], period) = seats[s]
BY BillsAre DEF Roll

LEMMA JobEnds ==
    ASSUME BillsInv, NEW T, NEW a, Resume(T, a), a.status # "none",
           \A t \in T \cap Tickets : jobs'[t] = jobs[t] \/
                (jobs[t].status = "pending" /\ jobs'[t].status \in {"succeeded", "failed"}
                                            /\ jobs'[t].cost = a.cost),
           \A t \in T \cap Tickets : jobs'[t].status # "pending",
           \A t \in Tickets \ T : jobs'[t] = jobs[t]
    PROVE  \A t \in Tickets : SameJob(t) \/ Finished(t)
<1> SUFFICES ASSUME NEW t \in Tickets
             PROVE  SameJob(t) \/ Finished(t)
  OBVIOUS
<1>1. t \in live <=> jobs[t].status = "pending"
  BY BillsAre
<1>2. CASE t \in T /\ t \in live
  BY <1>1, <1>2 DEF Resume, Finished
<1>3. CASE t \notin T \/ t \notin live
  <2>1. answers'[t] = answers[t] /\ (t \in live' <=> t \in live)
    BY <1>3 DEF Resume
  <2>2. jobs'[t] = jobs[t]
    BY <1>1, <1>3
  <2> QED
    BY <2>1, <2>2 DEF SameJob
<1> QED
  BY <1>2, <1>3

LEMMA NoJobMoves ==
    ASSUME UNCHANGED <<jobs, live, answers>>, \A s \in Contributors : Keeps(s)
    PROVE  Calm
BY DEF Calm, SameJob

LEMMA SeatMessages ==
    ASSUME BillsInv, NEW c \in Conns, NEW s \in Seats,
           \/ SeatRegister(c, s)
           \/ \E status \in {"healthy", "unavailable", "exhausted"} : Heartbeat(c, s, status)
    PROVE  Calm
<1> USE BillsAre
<1>1. CASE SeatRegister(c, s)
  <2>1. s \in Contributors
    BY <1>1, SeatsAssumption DEF SeatRegister
  <2> DEFINE kept == IF seats[s].registered THEN seats[s]
                     ELSE [Unregistered EXCEPT !.period = period]
             made == [kept EXCEPT !.registered = TRUE, !.healthy = TRUE,
                                  !.fresh = TRUE, !.exhausted = FALSE, !.conn = c]
  <2>2. made.period = 0 /\ made.spent = seats[s].spent /\ made.registered
    BY <2>1 DEF SeatRecord, Unregistered
  <2>3. seats' = [seats EXCEPT ![s] = Roll(made, period)]
    BY <1>1 DEF SeatRegister
  <2> HIDE DEF made
  <2>4. seats' = [seats EXCEPT ![s] = made]
    BY <2>2, <2>3 DEF Roll
  <2>5. \A r \in Contributors : Keeps(r)
    BY <2>1, <2>2, <2>4 DEF Keeps, TypeOK
  <2> QED
    BY <1>1, <2>5, NoJobMoves DEF SeatRegister
<1>2. ASSUME NEW status \in {"healthy", "unavailable", "exhausted"}, Heartbeat(c, s, status)
      PROVE  Calm
  <2>1. \A r \in Contributors : Keeps(r)
    BY <1>2 DEF Heartbeat, Keeps, TypeOK, SeatRecord
  <2> QED
    BY <1>2, <2>1, NoJobMoves DEF Heartbeat
<1> QED
  BY <1>1, <1>2

LEMMA CloseCalm ==
    ASSUME BillsInv, NEW c \in Conns, Close(c)
    PROVE  Calm
<1> USE BillsAre
<1> DEFINE orphans == {t \in Tickets : SeatOf(t) \in Abandoned(c)}
<1>1. Resume(orphans, Lost) /\ Lost.status # "none" /\ Lost.cost = Unreported
  BY DEF Close, Lost, Failure
<1>2. \A t \in Tickets : jobs'[t] = IF t \in orphans THEN TimedOut(jobs[t]) ELSE jobs[t]
  BY DEF Close
<1> HIDE DEF orphans
<1>3. \A t \in Tickets : SameJob(t) \/ Finished(t)
  <2>1. \A t \in orphans \cap Tickets : jobs'[t] = jobs[t] \/
                (jobs[t].status = "pending" /\ jobs'[t].status \in {"succeeded", "failed"}
                                            /\ jobs'[t].cost = Lost.cost)
    BY <1>1, <1>2 DEF TimedOut
  <2>2. \A t \in orphans \cap Tickets : jobs'[t].status # "pending"
    BY <1>2 DEF TimedOut
  <2>3. \A t \in Tickets \ orphans : jobs'[t] = jobs[t]
    BY <1>2
  <2> QED
    BY <1>1, <2>1, <2>2, <2>3, JobEnds
<1>4. \A s \in Contributors : Keeps(s)
  BY DEF Close, Keeps, TypeOK, SeatRecord
<1> QED
  BY <1>3, <1>4 DEF Calm

LEMMA ResultCalm ==
    ASSUME BillsInv, NEW c \in Conns, NEW t \in Tickets, NEW report \in Reports,
           Result(c, t, report)
    PROVE  Calm
<1> USE BillsAre
<1> DEFINE job == [status |-> IF report.kind = "decision" THEN "succeeded" ELSE "failed",
                   cost |-> report.cost, retryable |-> report.retryable]
           a == Persisted(job)
<1>1. job.status \in {"succeeded", "failed"}
  OBVIOUS
<1>2. Resume({t}, a) /\ jobs' = [jobs EXCEPT ![t] = job] /\ jobs[t].status = "pending"
  BY DEF Result
<1>3. a.status # "none" /\ a.cost = job.cost
  BY DEF Persisted, Failure
<1>4. \A s \in Contributors : Keeps(s)
  BY DEF Result, Keeps, TypeOK, SeatRecord
<1> HIDE DEF job, a
<1>5. jobs'[t] = job /\ \A u \in Tickets \ {t} : jobs'[u] = jobs[u]
  BY <1>2 DEF TypeOK
<1>6. \A u \in Tickets : SameJob(u) \/ Finished(u)
  BY <1>1, <1>2, <1>3, <1>5, JobEnds
<1> QED
  BY <1>4, <1>6 DEF Calm

LEMMA LateSteps ==
    ASSUME BillsInv, NEW c \in Conns, NEW t \in Tickets, NEW report \in Reports,
           LateResult(c, t, report)
    PROVE  Calm \/ \E cost \in Nat : LateFor(t, cost)
<1> USE BillsAre
<1> DEFINE job == TimedOut(jobs[t])
           overdue == jobs[t].status = "pending" /\ t \in due
           cost == report.cost
           a == IF overdue THEN Lost ELSE Persisted(jobs[t])
           s == SeatOf(t)
<1>1. /\ jobs[t].status # "none" /\ (overdue \/ jobs[t].status # "pending")
      /\ Resume({t}, a) /\ BillLate(t, job, cost)
  BY DEF LateResult
<1>2. /\ s \in Contributors /\ jobs[t].status \in {"pending", "succeeded", "failed"}
      /\ cost \in Nat \cup {Unreported}
  BY <1>1, SeatsAssumption DEF Reports, TypeOK, JobRecord
<1>3. /\ job.status \in {"succeeded", "failed"}
      /\ jobs[t].status # "pending" => job = jobs[t]
      /\ jobs[t].status = "pending" => job.status = "failed" /\ job.cost = Unreported
  BY <1>2 DEF TimedOut
<1>4. /\ t \notin live'
      /\ overdue => answers'[t] = Lost
      /\ ~overdue => answers'[t] = answers[t]
      /\ \A u \in Tickets \ {t} : answers'[u] = answers[u] /\ (u \in live' <=> u \in live)
  <2>1. overdue <=> t \in live
    BY <1>1
  <2> QED
    BY <1>1, <2>1 DEF Resume
<1>5. Lost.status # "none" /\ Lost.cost = Unreported
  BY DEF Lost, Failure
<1>6. CASE job.status = "failed" /\ job.cost = Unreported /\ cost # Unreported
  <2>1. /\ jobs' = [jobs EXCEPT ![t] = [job EXCEPT !.cost = cost]]
        /\ seats' = [seats EXCEPT ![s] = IF @.registered THEN Reconciled(@, 0, cost, period) ELSE @]
    BY <1>1, <1>6 DEF BillLate
  <2>2. seats[s].registered
    <3>1. leases[t].status # "none"
      BY <1>1, BillsAre DEF TicketFits, LeaseFits
    <3> QED
      BY <1>2, <3>1, BillsAre DEF TicketFits, LeaseFits
  <2>3. Pays(s, cost) /\ \A r \in Contributors \ {s} : Keeps(r)
    <3>1. seats'[s] = Reconciled(seats[s], 0, cost, period) /\ \A r \in Seats \ {s} : seats'[r] = seats[r]
      BY <1>2, <2>1, <2>2 DEF TypeOK
    <3>2. Roll(seats[s], period) = seats[s]
      BY <1>2, SeatKept
    <3> QED
      BY <1>2, <2>2, <3>1, <3>2 DEF Pays, Keeps, Reconciled, SeatRecord
  <2>4. job \in JobRecord
    BY TimedOutType DEF TypeOK
  <2>5. CameLate(t, cost)
    <3>1. jobs'[t] = [job EXCEPT !.cost = cost]
      BY <2>1 DEF TypeOK
    <3>2. jobs'[t].cost = cost /\ jobs'[t].status = "failed"
      <4> HIDE DEF job, cost
      <4> QED
        BY <1>6, <2>4, <3>1 DEF JobRecord
    <3>3. jobs[t].cost = Unreported
      BY <1>3, <1>6
    <3> QED
      BY <1>1, <1>2, <1>3, <1>4, <1>6, <3>2, <3>3 DEF CameLate
  <2>6. \A u \in Tickets \ {t} : SameJob(u)
    BY <1>4, <2>1 DEF SameJob, TypeOK
  <2>7. LateFor(t, cost) /\ cost \in Nat
    BY <1>2, <1>6, <2>3, <2>5, <2>6 DEF LateFor
  <2> QED
    BY <2>7
<1>7. CASE ~(job.status = "failed" /\ job.cost = Unreported /\ cost # Unreported)
  <2>1. jobs' = [jobs EXCEPT ![t] = job] /\ seats' = seats
    BY <1>1, <1>7 DEF BillLate
  <2>2. jobs'[t] = job /\ \A u \in Tickets \ {t} : jobs'[u] = jobs[u]
    BY <2>1 DEF TypeOK
  <2>3. SameJob(t) \/ Finished(t)
    <3>1. CASE jobs[t].status = "pending"
      BY <1>1, <1>3, <1>4, <1>5, <2>2, <3>1 DEF Finished
    <3>2. CASE jobs[t].status # "pending"
      BY <1>1, <1>3, <1>4, <2>2, <3>2 DEF SameJob
    <3> QED
      BY <3>1, <3>2
  <2>4. \A u \in Tickets \ {t} : SameJob(u)
    BY <1>4, <2>2 DEF SameJob
  <2>5. \A r \in Contributors : Keeps(r)
    BY <2>1 DEF Keeps
  <2> QED
    BY <2>3, <2>4, <2>5 DEF Calm
<1> QED
  BY <1>6, <1>7

LEMMA TimeoutsCalm ==
    ASSUME BillsInv, NEW t \in Tickets, JobTimeout(t)
    PROVE  Calm
<1> USE BillsAre
<1>1. Lost.status # "none" /\ Lost.cost = Unreported
  BY DEF Lost, Failure
<1>2. jobs'[t] = TimedOut(jobs[t]) /\ \A u \in Tickets \ {t} : jobs'[u] = jobs[u]
  BY DEF JobTimeout, TypeOK
<1>3. \A u \in Tickets : SameJob(u) \/ Finished(u)
  <2>1. Resume({t}, Lost)
    BY DEF JobTimeout
  <2>2. jobs'[t] = jobs[t] \/
            (jobs[t].status = "pending" /\ jobs'[t].status \in {"succeeded", "failed"}
                                        /\ jobs'[t].cost = Lost.cost)
    BY <1>1, <1>2 DEF TimedOut
  <2>3. jobs'[t].status # "pending"
    BY <1>2 DEF TimedOut
  <2> QED
    BY <1>1, <1>2, <2>1, <2>2, <2>3, JobEnds
<1>4. \A s \in Contributors : Keeps(s)
  BY DEF JobTimeout, Keeps
<1> QED
  BY <1>3, <1>4 DEF Calm

LEMMA RefreshCalm ==
    ASSUME BillsInv, RefreshSeats
    PROVE  Calm
<1> USE BillsAre
<1>1. Lost.status # "none" /\ Lost.cost = Unreported
  BY DEF Lost, Failure
<1>2. \A t \in Tickets : jobs'[t] = IF t \in Overdue THEN TimedOut(jobs[t]) ELSE jobs[t]
  BY DEF RefreshSeats, ExpiredJobs
<1>3. \A t \in Tickets : SameJob(t) \/ Finished(t)
  <2>1. Resume(Overdue, Lost)
    BY DEF RefreshSeats
  <2>2. \A t \in Overdue \cap Tickets : jobs'[t] = jobs[t] \/
            (jobs[t].status = "pending" /\ jobs'[t].status \in {"succeeded", "failed"}
                                        /\ jobs'[t].cost = Lost.cost)
    BY <1>1, <1>2 DEF TimedOut
  <2>3. \A t \in Overdue \cap Tickets : jobs'[t].status # "pending"
    BY <1>2 DEF TimedOut
  <2>4. \A t \in Tickets \ Overdue : jobs'[t] = jobs[t]
    BY <1>2
  <2> QED
    BY <1>1, <2>1, <2>2, <2>3, <2>4, JobEnds
<1>4. ASSUME NEW s \in Contributors
      PROVE  Keeps(s)
  <2>1. ReclaimedSeats = seats
    BY NothingReclaimed
  <2>2. seats'[s] = IF ~seats[s].registered THEN seats[s]
                    ELSE LET seat == Roll(seats[s], period)
                         IN  [seat EXCEPT !.healthy = seat.healthy /\ seat.fresh]
    BY <2>1 DEF RefreshSeats, RefreshedSeats
  <2> QED
    BY <2>2, SeatKept DEF Keeps, SeatRecord
<1> QED
  BY <1>3, <1>4 DEF Calm

LEMMA RegistrationsCalm ==
    ASSUME BillsInv, NEW s \in Seats,
           RegisterSeat(s) \/ RegisterStart(s) \/ \E up \in SUBSET {s} : RegisterFinish(s, up)
    PROVE  Calm
<1> USE BillsAre
<1>1. CASE RegisterSeat(s)
  <2> DEFINE kept == IF seats[s].registered THEN seats[s]
                     ELSE [Unregistered EXCEPT !.period = period]
             made == [kept EXCEPT !.registered = TRUE, !.healthy = FALSE,
                                  !.fresh = FALSE, !.conn = NoConn]
  <2>1. s \in Contributors
    BY <1>1 DEF RegisterSeat
  <2>2. made.period = 0 /\ made.spent = seats[s].spent /\ made.registered
    BY <2>1 DEF SeatRecord, Unregistered
  <2>3. seats' = [seats EXCEPT ![s] = Roll(made, period)]
    BY <1>1 DEF RegisterSeat, Unchecked
  <2> HIDE DEF made
  <2>4. seats' = [seats EXCEPT ![s] = made]
    BY <2>2, <2>3 DEF Roll
  <2>5. \A r \in Contributors : Keeps(r)
    BY <2>1, <2>2, <2>4 DEF Keeps, TypeOK
  <2> QED
    BY <1>1, <2>5, NoJobMoves DEF RegisterSeat
<1>2. CASE RegisterStart(s)
  <2>1. \A r \in Contributors : Keeps(r)
    BY <1>2 DEF RegisterStart, ProbeStart, Keeps
  <2> QED
    BY <1>2, <2>1, NoJobMoves DEF RegisterStart, ProbeStart
<1>3. ASSUME NEW up \in SUBSET {s}, RegisterFinish(s, up)
      PROVE  Calm
  <2>1. s \notin Contributors
    BY <1>3 DEF RegisterFinish, BillsInv
  <2>2. \A r \in Contributors : Keeps(r)
    BY <1>3, <2>1 DEF RegisterFinish, Keeps, TypeOK
  <2> QED
    BY <1>3, <2>2, NoJobMoves DEF RegisterFinish
<1> QED
  BY <1>1, <1>2, <1>3

LEMMA EnvironmentBills ==
    ASSUME Undisturbed, BillsInv, Environment
    PROVE  /\ Calm \/ \E t \in Tickets, cost \in Nat : LateFor(t, cost)
           /\ leases' = leases /\ period' = 0
           /\ probe'.kind = "register" => probe'.asked \cap Contributors = {}
<1> USE BillsAre
<1>1. CASE Messages
  <2>1. SUFFICES ASSUME NEW c \in Conns,
                    \/ Connect(c) \/ Close(c)
                    \/ \E s \in Seats :
                        \/ SeatRegister(c, s)
                        \/ \E status \in {"healthy", "unavailable", "exhausted"} :
                                Heartbeat(c, s, status)
                    \/ \E t \in Tickets, report \in Reports :
                        LateResult(c, t, report) \/ Result(c, t, report)
                 PROVE  Calm \/ \E t \in Tickets, cost \in Nat : LateFor(t, cost)
    <3>1. UNCHANGED <<leases, probe, period>>
      BY <1>1, ZenonT(40) DEF Messages, Connect, Close, SeatRegister, Heartbeat, LateResult, Result, clock
    <3> QED
      BY <1>1, <3>1 DEF Messages, BillsInv
  <2>2. CASE Connect(c)
    BY <2>2, NoJobMoves DEF Connect, Keeps
  <2> QED
    BY <2>1, <2>2, CloseCalm, SeatMessages, LateSteps, ResultCalm
<1>2. CASE Timers
  <2>1. CASE \E t \in Tickets : JobTimeout(t)
    BY <2>1, TimeoutsCalm DEF JobTimeout, clock, BillsInv
  <2>2. CASE \E t \in Tickets : DeadlinePasses(t)
    BY <2>2, NoJobMoves DEF DeadlinePasses, Keeps, BillsInv
  <2>3. CASE \E s \in Seats : HealthLapses(s)
    <3>1. \A r \in Contributors : Keeps(r)
      BY <2>3 DEF HealthLapses, Keeps, TypeOK, SeatRecord
    <3> QED
      BY <2>3, <3>1, NoJobMoves DEF HealthLapses, clock, BillsInv
  <2>4. ~MonthTurns /\ \A t : ~LeaseGoesStale(t)
    BY DEF Undisturbed, MonthTurns, LeaseGoesStale
  <2> QED
    BY <1>2, <2>1, <2>2, <2>3, <2>4 DEF Timers
<1>3. CASE Restart
  BY <1>3 DEF Restart, Undisturbed
<1>4. CASE Admin
  <2>1. CASE \E s \in Seats : RegisterSeat(s) \/ RegisterStart(s)
                              \/ \E up \in SUBSET {s} : RegisterFinish(s, up)
    <3>1. PICK s \in Seats : RegisterSeat(s) \/ RegisterStart(s)
                             \/ \E up \in SUBSET {s} : RegisterFinish(s, up)
      BY <2>1
    <3>2. Calm
      BY <3>1, RegistrationsCalm
    <3>3. leases' = leases /\ period' = 0
      BY <3>1 DEF RegisterSeat, RegisterStart, ProbeStart, RegisterFinish, clock
    <3>4. probe'.kind = "register" => probe'.asked \cap Contributors = {}
      <4>1. CASE RegisterStart(s)
        <5>1. probe'.asked = {s} /\ s \notin Contributors
          BY <4>1 DEF RegisterStart, ProbeStart, NoProbe
        <5> QED
          BY <5>1
      <4>2. CASE RegisterSeat(s)
        BY <4>2 DEF RegisterSeat, BillsInv
      <4>3. CASE \E up \in SUBSET {s} : RegisterFinish(s, up)
        BY <4>3 DEF RegisterFinish, NoProbe
      <4> QED
        BY <3>1, <4>1, <4>2, <4>3
    <3> QED
      BY <3>2, <3>3, <3>4
  <2>2. CASE RefreshSeats
    BY <2>2, RefreshCalm, NothingReclaimed DEF RefreshSeats, BillsInv
  <2>3. ~RefreshStart /\ \A up : ~RefreshFinish(up)
    BY DEF Undisturbed, RefreshStart, RefreshFinish, PlacesInv
  <2>4. \A s : ~RemoveSeat(s)
    BY DEF Undisturbed, RemoveSeat
  <2> QED
    BY <1>4, <2>1, <2>2, <2>3, <2>4 DEF Admin
<1> QED
  BY <1>1, <1>2, <1>3, <1>4 DEF Environment
-----------------------------------------------------------------------------
(* The steps of the callers. *)

\* Nothing is billed to a contributor, or ticket u is.
Neutral ==
    /\ \A t \in Tickets : /\ TicketFits(t)'
                          /\ SeatOf(t) \in Contributors => Bill(t)' = Bill(t)
    /\ \A s \in Contributors : Keeps(s)
Billing(u, c) ==
    /\ \A t \in Tickets : /\ TicketFits(t)'
                          /\ t # u /\ SeatOf(t) \in Contributors => Bill(t)' = Bill(t)
    /\ SeatOf(u) \in Contributors /\ Bill(u)' = Bill(u) + c /\ Pays(SeatOf(u), c)
    /\ \A s \in Contributors \ {SeatOf(u)} : Keeps(s)

\* Caller i moves to p, and is at seat s.
Moves(i, s, p) ==
    /\ pc' = [pc EXCEPT ![i] = p]
    /\ \A j \in Invocations \ {i} : at'[j] = at[j] /\ outcome'[j] = outcome[j]
    /\ pc[i] \in Busy => at[i] = s
    /\ p \in Busy => at'[i] = s

LEMMA OthersFit ==
    ASSUME BillsInv, NEW i \in Invocations, NEW s, NEW p, Moves(i, s, p), NEW t \in Tickets,
           t # <<i, s>> \/ (pc[i] \notin Busy /\ p \notin Busy),
           SameJob(t), leases'[t] = leases[t],
           SeatOf(t) \in Contributors /\ seats[SeatOf(t)].registered =>
                seats'[SeatOf(t)].registered
    PROVE  TicketFits(t)' /\ Bill(t)' = Bill(t)
<1>1. /\ t = <<t[1], t[2]>> /\ t[1] \in Invocations
      /\ pc'[i] = p /\ \A j \in Invocations \ {i} : pc'[j] = pc[j]
  BY TicketsAre DEF Moves, BillsInv, PlacesInv, RoutingInv, CallersOK
<1>2. SamePlace(t)
  <2>1. CASE t[1] # i
    BY <1>1, <2>1 DEF SamePlace, At, Moves
  <2>2. CASE t[1] = i
    <3>1. \A place \in Busy : ~At(t, {place}) /\ ~At(t, {place})'
      BY <1>1, <2>2 DEF At, Moves
    <3> QED
      BY <3>1 DEF SamePlace, Busy
  <2> QED
    BY <2>1, <2>2
<1>3. TicketFits(t)
  BY DEF BillsInv
<1> QED
  BY <1>2, <1>3, TicketKept

LEMMA IdleSteps ==
    ASSUME BillsInv, NEW i \in Invocations, NEW p, Moves(i, NoSeat, p),
           pc[i] \notin Busy, p \notin Busy,
           UNCHANGED <<leases, jobs, live, answers>>, \A s \in Contributors : Keeps(s)
    PROVE  Neutral
<1>1. \A t \in Tickets : SameJob(t)
  BY DEF SameJob
<1>2. \A t \in Tickets : SeatOf(t) \in Contributors /\ seats[SeatOf(t)].registered =>
                              seats'[SeatOf(t)].registered
  BY DEF Keeps
<1> QED
  BY <1>1, <1>2, OthersFit DEF Neutral

\* What an accepted, or refused, reservation does.
LEMMA ReserveIs ==
    ASSUME BillsInv, NEW t \in Tickets, ReserveSeatBudget(t)
    PROVE  /\ UNCHANGED <<jobs, live, answers, probe, period>>
           /\ \A s \in Contributors : Keeps(s)
           /\ \A u \in Tickets \ {t} : leases'[u] = leases[u]
           /\ \/ leases'[t] = leases[t]
              \/ /\ leases[t].status = "none" /\ leases'[t].status = "reserved"
                 /\ SeatOf(t) \in Contributors => seats'[SeatOf(t)].registered
<1> USE BillsAre
<1> DEFINE s == SeatOf(t)
<1>1. /\ ReclaimedSeats = seats /\ ReclaimedLeases = leases
      /\ s \in Seats /\ seats[s] \in SeatRecord
  BY NothingReclaimed, TicketsAre DEF TypeOK
<1>2. CASE leases[t].status # "none"
  BY <1>1, <1>2 DEF ReserveSeatBudget, Keeps
<1>3. CASE leases[t].status = "none" /\ seats[s].registered /\ Admits(seats[s], period)
  <2>1. /\ seats' = [seats EXCEPT ![s] = Reserved(@, period)]
        /\ leases' = [leases EXCEPT ![t].status = "reserved"]
        /\ UNCHANGED <<jobs, live, answers, probe, period>>
    BY <1>1, <1>3 DEF ReserveSeatBudget
  <2>2. s \in Contributors =>
            /\ Reserved(seats[s], period).spent = seats[s].spent
            /\ Reserved(seats[s], period).period = seats[s].period
            /\ Reserved(seats[s], period).registered = seats[s].registered
    BY <1>1, SeatKept DEF Reserved, SeatRecord
  <2>3. \A r \in Contributors : Keeps(r)
    BY <1>1, <2>1, <2>2 DEF Keeps, TypeOK
  <2>4. s \in Contributors => seats'[s].registered
    BY <1>3, <2>3 DEF Keeps
  <2> QED
    BY <1>3, <2>1, <2>3, <2>4 DEF TypeOK, LeaseRecord
<1>4. CASE leases[t].status = "none" /\ ~(seats[s].registered /\ Admits(seats[s], period))
  <2>1. /\ seats' = [seats EXCEPT ![s] = IF @.registered THEN Roll(@, period) ELSE @]
        /\ leases' = leases
        /\ UNCHANGED <<jobs, live, answers, probe, period>>
    BY <1>1, <1>4 DEF ReserveSeatBudget
  <2>2. \A r \in Contributors : Keeps(r)
    BY <1>1, <2>1, SeatKept DEF Keeps, TypeOK
  <2> QED
    BY <2>1, <2>2
<1> QED
  BY <1>2, <1>3, <1>4

LEMMA ReserveNeutral ==
    ASSUME BillsInv, NEW i \in Invocations, NEW s \in Seats, Reserve(i, s)
    PROVE  Neutral
<1> DEFINE u == <<i, s>>
           p == IF leases'[u].status = "reserved" THEN "invoke" ELSE "next"
<1>1. /\ pc[i] = "next" /\ pc' = [pc EXCEPT ![i] = p]
      /\ at' = [at EXCEPT ![i] = s] /\ outcome' = outcome
      /\ u \in Tickets /\ ReserveSeatBudget(u) /\ SeatOf(u) = s
  BY DEF Reserve, Goes, Tickets, SeatOf
<1>2. /\ \A j \in Invocations \ {i} : at'[j] = at[j]
      /\ at'[i] = s /\ pc'[i] = p
  BY <1>1 DEF BillsInv, PlacesInv, RoutingInv, CallersOK
<1>3. p \in {"invoke", "next"}
  OBVIOUS
<1>4. Moves(i, s, p)
  <2> HIDE DEF p
  <2> QED
    BY <1>1, <1>2, <1>3 DEF Moves, Busy
<1>5. /\ UNCHANGED <<jobs, live, answers>>
      /\ \A r \in Contributors : Keeps(r)
      /\ \A t \in Tickets \ {u} : leases'[t] = leases[t]
      /\ \/ leases'[u] = leases[u]
         \/ /\ leases[u].status = "none" /\ leases'[u].status = "reserved"
            /\ s \in Contributors => seats'[s].registered
  BY <1>1, ReserveIs
<1>6. \A t \in Tickets : /\ SameJob(t)
                         /\ SeatOf(t) \in Contributors /\ seats[SeatOf(t)].registered =>
                              seats'[SeatOf(t)].registered
  BY <1>5 DEF SameJob, Keeps
<1>7. \A t \in Tickets \ {u} : TicketFits(t)' /\ Bill(t)' = Bill(t)
  <2> HIDE DEF p
  <2> QED
    BY <1>4, <1>5, <1>6, OthersFit
<1>8. TicketFits(u)' /\ Bill(u)' = Bill(u)
  <2>1. TicketFits(u) /\ u[1] = i /\ u[2] = s
    BY <1>1 DEF BillsInv
  <2>2. leases[u].status # "reserved"
    BY <1>1, <2>1 DEF TicketFits, LeaseFits, At
  <2>3. CASE leases'[u] = leases[u]
    <3>1. p = "next"
      BY <2>2, <2>3
    <3> HIDE DEF p
    <3> QED
      BY <1>1, <1>4, <1>6, <2>3, <3>1, OthersFit DEF Busy
  <2>4. CASE leases[u].status = "none" /\ leases'[u].status = "reserved"
             /\ (s \in Contributors => seats'[s].registered)
    <3>1. p = "invoke" /\ jobs[u].status = "none"
      BY <2>1, <2>4 DEF TicketFits, LeaseFits
    <3> HIDE DEF p
    <3>2. /\ ~Outstanding(u) /\ ~Outstanding(u)'
          /\ At(u, {"invoke", "waiting", "settle"})' /\ ~At(u, {"waiting"})' /\ ~Settling(u)'
      BY <1>1, <1>2, <2>1, <3>1 DEF Outstanding, Told, Settling, At
    <3>3. Bill(u)' = Bill(u)
      BY <1>5, <3>2 DEF Bill
    <3>4. JobFits(u)'
      BY <1>5, <2>1 DEF TicketFits, JobFits, SeatOf
    <3>5. LeaseFits(u)'
      BY <1>1, <2>4, <3>2 DEF LeaseFits, SeatOf
    <3>6. CallerFits(u)'
      BY <1>5, <3>1, <3>2 DEF CallerFits
    <3> QED
      BY <3>3, <3>4, <3>5, <3>6 DEF TicketFits
  <2> QED
    BY <1>5, <2>3, <2>4
<1> QED
  BY <1>5, <1>7, <1>8 DEF Neutral

\* The job of a caller that works, and its ticket.
LEMMA WorkingIs ==
    ASSUME BillsInv, NEW i \in Invocations, pc[i] \in Busy
    PROVE  \E s \in Seats, u \in Tickets :
               /\ s = at[i] /\ u = TicketOf(i) /\ u = <<i, s>> /\ u[1] = i /\ SeatOf(u) = s
               /\ TicketFits(u) /\ leases[u].status = "reserved"
               /\ \A P : At(u, P) <=> pc[i] \in P
               /\ \A P : At(u, P)' <=> pc'[i] \in P /\ at'[i] = at[i]
<1>1. at[i] \in Seats
  BY DEF BillsInv, PlacesInv, RoutingInv, CallersOK, Busy
<1>2. leases[<<i, at[i]>>].status = "reserved"
  BY DEF BillsInv, PlacesInv, Placed, TicketOf, Busy
<1>3. PICK s \in Seats, u \in Tickets : s = at[i] /\ u = <<i, s>>
  BY <1>1 DEF Tickets
<1>4. u = TicketOf(i) /\ u[1] = i /\ u[2] = s /\ SeatOf(u) = s
  BY <1>3 DEF TicketOf, SeatOf
<1>5. /\ \A P : At(u, P) <=> pc[i] \in P
      /\ \A P : At(u, P)' <=> pc'[i] \in P /\ at'[i] = at[i]
  BY <1>3, <1>4 DEF At
<1>6. TicketFits(u) /\ leases[u].status = "reserved"
  BY <1>2, <1>3 DEF BillsInv
<1> QED
  BY <1>3, <1>4, <1>5, <1>6

LEMMA InvokeNeutral ==
    ASSUME BillsInv, NEW i \in Invocations, Invoke(i)
    PROVE  Neutral
<1>1. /\ pc[i] = "invoke" /\ pc' = [pc EXCEPT ![i] = "waiting"] /\ at[i] \in Contributors
      /\ at' = at /\ outcome' = outcome
      /\ \E same \in BOOLEAN : InvokeContributor(TicketOf(i), same)
  BY DEF Invoke, Goes
<1>2. PICK s \in Seats, u \in Tickets :
         /\ s = at[i] /\ u = TicketOf(i) /\ u = <<i, s>> /\ SeatOf(u) = s
         /\ TicketFits(u) /\ leases[u].status = "reserved"
         /\ \A P : At(u, P) <=> "invoke" \in P
         /\ \A P : At(u, P)' <=> pc'[i] \in P
  BY <1>1, WorkingIs DEF Busy
<1>3. pc'[i] = "waiting"
  BY <1>1 DEF BillsInv, PlacesInv, RoutingInv, CallersOK
<1>4. jobs[u].status = "none" /\ jobs[u].cost = Unreported /\ u \notin live
  BY <1>2 DEF TicketFits, CallerFits, JobFits
<1>5. /\ UNCHANGED <<seats, leases>>
      /\ \/ answers' = [answers EXCEPT ![u] = Unavailable(SeatOf(u))] /\ UNCHANGED <<jobs, live>>
         \/ /\ jobs' = [jobs EXCEPT ![u].status = "pending"]
            /\ live' = live \cup {u} /\ answers' = [answers EXCEPT ![u] = NoAnswer]
  BY <1>1, <1>2, <1>4 DEF InvokeContributor
<1>6. \/ /\ jobs'[u] = jobs[u] /\ u \notin live'
         /\ answers'[u].status = "failure" /\ answers'[u].cost = Unreported
      \/ /\ jobs'[u].status = "pending" /\ jobs'[u].cost = Unreported /\ u \in live'
         /\ answers'[u].status = "none" /\ answers'[u].cost = Unreported
  <2>1. /\ Unavailable(SeatOf(u)).status = "failure" /\ Unavailable(SeatOf(u)).cost = Unreported
        /\ NoAnswer.status = "none" /\ NoAnswer.cost = Unreported
    BY DEF Unavailable, Lost, Failure, NoAnswer
  <2>2. TypeOK
    BY BillsAre
  <2>3. CASE answers' = [answers EXCEPT ![u] = Unavailable(SeatOf(u))] /\ UNCHANGED <<jobs, live>>
    BY <1>4, <2>1, <2>2, <2>3 DEF TypeOK
  <2>4. CASE /\ jobs' = [jobs EXCEPT ![u].status = "pending"]
             /\ live' = live \cup {u} /\ answers' = [answers EXCEPT ![u] = NoAnswer]
    <3>1. jobs'[u] = [jobs[u] EXCEPT !.status = "pending"] /\ jobs[u] \in JobRecord
      BY <2>2, <2>4 DEF TypeOK
    <3>2. jobs'[u].status = "pending" /\ jobs'[u].cost = Unreported
      BY <1>4, <3>1 DEF JobRecord
    <3> QED
      BY <2>1, <2>2, <2>4, <3>2 DEF TypeOK
  <2> QED
    BY <1>5, <2>3, <2>4
<1>7. \A t \in Tickets \ {u} : SameJob(t)
  BY <1>5, BillsAre DEF SameJob, TypeOK
<1>8. \A r \in Contributors : Keeps(r)
  BY <1>5 DEF Keeps
<1>9. \A t \in Tickets \ {u} : TicketFits(t)' /\ Bill(t)' = Bill(t)
  <2>1. Moves(i, s, "waiting")
    BY <1>1, <1>2 DEF Moves
  <2> QED
    BY <1>2, <1>5, <1>7, <1>8, <2>1, OthersFit DEF Keeps
<1>10. TicketFits(u)' /\ Bill(u)' = Bill(u)
  <2>1. /\ At(u, {"waiting"})' /\ At(u, {"invoke", "waiting", "settle"})'
        /\ ~At(u, {"invoke"})' /\ ~At(u, {"settle"})'
    BY <1>2, <1>3
  <2>2. Bill(u) = 0 /\ Bill(u)' = 0
    BY <1>4, <1>6 DEF Bill, CostOf
  <2>3. JobFits(u)'
    BY <1>1, <1>2, <1>4, <1>6 DEF JobFits, SeatOf
  <2>4. LeaseFits(u)'
    BY <1>2, <1>5, <2>1 DEF LeaseFits, TicketFits, SeatOf
  <2>5. CallerFits(u)'
    BY <1>1, <1>2, <1>6, <2>1 DEF CallerFits, Settling, SeatOf
  <2> QED
    BY <2>2, <2>3, <2>4, <2>5 DEF TicketFits
<1> QED
  BY <1>8, <1>9, <1>10 DEF Neutral

\* What a caller learns is what it was told, and an HTTP seat has no job.
LEMMA LearnNeutral ==
    ASSUME BillsInv, NEW i \in Invocations, NEW from \in Busy \ {"settle"}, NEW answer,
           Learns(i, from, answer),
           at[i] \in Contributors => from = "waiting" /\ answer = answers[TicketOf(i)]
                                     /\ answer.status # "none"
    PROVE  Neutral
<1>1. /\ pc[i] = from /\ pc' = [pc EXCEPT ![i] = "settle"]
      /\ at' = at /\ outcome' = [outcome EXCEPT ![i] = answer]
      /\ UNCHANGED <<seats, leases, jobs, live, answers>>
  BY DEF Learns, Goes, vars
<1>2. PICK s \in Seats, u \in Tickets :
         /\ s = at[i] /\ u = TicketOf(i) /\ u = <<i, s>> /\ u[1] = i /\ SeatOf(u) = s
         /\ TicketFits(u) /\ leases[u].status = "reserved"
         /\ \A P : At(u, P) <=> pc[i] \in P
         /\ \A P : At(u, P)' <=> pc'[i] \in P
  BY <1>1, WorkingIs DEF Busy
<1>3. pc'[i] = "settle" /\ outcome'[i] = answer /\ \A j \in Invocations \ {i} : outcome'[j] = outcome[j]
  BY <1>1 DEF BillsInv, PlacesInv, RoutingInv, CallersOK
<1>4. u[1] = i
  BY <1>2
<1>5. \A r \in Contributors : Keeps(r)
  BY <1>1 DEF Keeps
<1>6. \A t \in Tickets \ {u} : TicketFits(t)' /\ Bill(t)' = Bill(t)
  <2>1. Moves(i, s, "settle")
    BY <1>1, <1>2, <1>3 DEF Moves
  <2>2. \A t \in Tickets : SameJob(t)
    BY <1>1 DEF SameJob
  <2> QED
    BY <1>1, <1>2, <1>5, <2>1, <2>2, OthersFit DEF Keeps
<1>7. /\ At(u, {"settle"})' /\ At(u, {"invoke", "waiting", "settle"})'
      /\ ~At(u, {"invoke"})' /\ ~At(u, {"waiting"})'
      /\ ~At(u, {"settle"})
  BY <1>1, <1>2, <1>3
<1>8. JobFits(u)' /\ LeaseFits(u)'
  BY <1>1, <1>2, <1>7 DEF TicketFits, JobFits, LeaseFits, SeatOf
<1>9. CASE s \in Contributors
  <2>1. from = "waiting" /\ answer = answers[u] /\ answer.status # "none"
    BY <1>2, <1>9
  <2>2. At(u, {"waiting"})
    BY <1>1, <1>2, <2>1
  <2>3. /\ u \notin live /\ jobs[u].status # "pending"
        /\ answer.cost # Unreported => jobs[u].cost = answer.cost
    BY <1>2, <2>1, <2>2 DEF TicketFits, CallerFits, JobFits
  <2>4. Settling(u)' <=> Told(u)
    BY <1>1, <1>3, <1>4, <1>7, <2>1, <2>2 DEF Settling, Told
  <2>5. ~Settling(u) /\ ~Told(u)'
    BY <1>7 DEF Settling, Told
  <2>6. Bill(u)' = Bill(u)
    BY <1>1, <2>4, <2>5 DEF Bill, Outstanding
  <2>7. CallerFits(u)'
    BY <1>1, <1>3, <1>4, <1>7, <2>3 DEF CallerFits, Settling
  <2> QED
    BY <1>2, <1>5, <1>6, <1>8, <2>6, <2>7 DEF Neutral, TicketFits
<1>10. CASE s \notin Contributors
  <2>1. jobs[u].status = "none" /\ SeatOf(u) \notin Contributors
    BY <1>2, <1>10 DEF TicketFits, JobFits
  <2>2. CallerFits(u)'
    BY <1>1, <1>7, <2>1 DEF CallerFits, SeatOf
  <2> QED
    BY <1>2, <1>5, <1>6, <1>8, <2>1, <2>2 DEF Neutral, TicketFits
<1> QED
  BY <1>9, <1>10

\* A caller cannot find that the registry has restarted.
LEMMA NeverAborted ==
    ASSUME BillsInv, NEW i \in Invocations, InvokeAborted(i)
    PROVE  FALSE
<1> DEFINE u == <<i, at[i]>>
<1>1. pc[i] = "waiting" /\ answers[TicketOf(i)].status = "none" /\ TicketOf(i) \notin live
  BY DEF InvokeAborted
<1>2. u = TicketOf(i) /\ TicketFits(u) /\ At(u, {"waiting"})
  BY <1>1, WorkingIs DEF Busy
<1> QED
  BY <1>1, <1>2 DEF TicketFits, CallerFits

\* A reconciliation bills what the caller learned.
LEMMA SettleBills ==
    ASSUME BillsInv, NEW i \in Invocations, Settle(i)
    PROVE  Neutral \/ \E t \in Tickets, c \in Nat : Billing(t, c)
<1> PICK c : c = CostOf(outcome[i])
  OBVIOUS
<1>1. /\ pc[i] = "settle" /\ ReconcileSeatBudget(TicketOf(i), c)
      /\ at' = at /\ outcome' = outcome
      /\ \E p \in {"seat", "downgrade", "failed"} : pc' = [pc EXCEPT ![i] = p]
  BY DEF Settle, Goes
<1>2. PICK s \in Seats, u \in Tickets :
         /\ s = at[i] /\ u = TicketOf(i) /\ u = <<i, s>> /\ u[1] = i /\ SeatOf(u) = s
         /\ TicketFits(u) /\ leases[u].status = "reserved"
         /\ \A P : At(u, P) <=> pc[i] \in P
         /\ \A P : At(u, P)' <=> pc'[i] \in P
  BY <1>1, WorkingIs DEF Busy
<1>3. PICK p \in {"seat", "downgrade", "failed"} : pc' = [pc EXCEPT ![i] = p] /\ pc'[i] = p
  BY <1>1 DEF BillsInv, PlacesInv, RoutingInv, CallersOK
<1>4. /\ c \in Nat /\ u[1] = i
      /\ outcome[i].cost # Unreported => c = outcome[i].cost
      /\ outcome[i].cost = Unreported => c = 0
  <2>1. outcome[i].cost \in Reportable
    BY DEF BillsInv, PlacesInv, RoutingInv, CallersOK
  <2> QED
    BY <1>2, <2>1, SeatsAssumption DEF CostOf, Reportable
<1>5. /\ seats' = [seats EXCEPT ![s] = IF @.registered THEN Reconciled(@, Estimate, c, period)
                                       ELSE @]
      /\ leases' = [leases EXCEPT ![u] = [status |-> "settled", cost |-> c]]
      /\ UNCHANGED <<jobs, live, answers>>
  BY <1>1, <1>2, NothingReclaimed, BillsAre DEF ReconcileSeatBudget
<1>6. leases'[u].status = "settled" /\ \A t \in Tickets \ {u} : leases'[t] = leases[t]
  BY <1>2, <1>5, BillsAre DEF TypeOK
<1>7. /\ \A r \in Contributors \ {s} : Keeps(r)
      /\ s \in Contributors => Pays(s, c)
  <2>1. \A r \in Contributors \ {s} : Keeps(r)
    BY <1>5 DEF Keeps
  <2>2. ASSUME s \in Contributors PROVE Pays(s, c)
    <3>1. seats[s].registered
      BY <1>2, <2>2 DEF TicketFits, LeaseFits
    <3>2. seats'[s] = Reconciled(seats[s], Estimate, c, period) /\ seats[s] \in SeatRecord
      BY <1>2, <1>5, <3>1, BillsAre DEF TypeOK
    <3>3. Roll(seats[s], period) = seats[s]
      BY <2>2, SeatKept
    <3> QED
      BY <3>1, <3>2, <3>3 DEF Pays, Reconciled, SeatRecord
  <2> QED
    BY <2>1, <2>2
<1>8. \A t \in Tickets : SeatOf(t) \in Contributors /\ seats[SeatOf(t)].registered =>
                              seats'[SeatOf(t)].registered
  BY <1>2, <1>7 DEF Keeps, Pays
<1>9. \A t \in Tickets \ {u} : TicketFits(t)' /\ Bill(t)' = Bill(t)
  <2>1. Moves(i, s, p)
    BY <1>1, <1>2, <1>3 DEF Moves, Busy
  <2>2. \A t \in Tickets : SameJob(t)
    BY <1>5 DEF SameJob
  <2> QED
    BY <1>2, <1>6, <1>8, <2>1, <2>2, OthersFit
<1>10. /\ ~At(u, {"invoke"})' /\ ~At(u, {"waiting"})' /\ ~At(u, {"settle"})'
       /\ ~At(u, {"waiting"}) /\ At(u, {"settle"})
  BY <1>1, <1>2, <1>3
<1>11. TicketFits(u)'
  <2>1. jobs[u].status # "pending"
    BY <1>2, <1>10 DEF TicketFits, CallerFits
  <2>2. CallerFits(u)'
    BY <1>5, <1>10, <2>1 DEF CallerFits, Settling
  <2>3. JobFits(u)'
    BY <1>2, <1>5 DEF TicketFits, JobFits, SeatOf
  <2>4. LeaseFits(u)'
    <3>1. s \in Contributors => seats'[s].registered
      BY <1>7 DEF Pays
    <3>2. jobs'[u] = jobs[u]
      BY <1>5
    <3> QED
      BY <1>2, <1>6, <3>1 DEF LeaseFits, SeatOf
  <2> QED
    BY <2>2, <2>3, <2>4 DEF TicketFits
<1>12. CASE s \notin Contributors
  BY <1>2, <1>7, <1>9, <1>11, <1>12 DEF Neutral
<1>13. CASE s \in Contributors
  <2>1. Bill(u)' = CostOf(jobs[u])
    BY <1>5, <1>10 DEF Bill, Outstanding, Told, Settling
  <2>2. Bill(u)' = Bill(u) + c
    <3>1. CASE outcome[i].cost # Unreported
      <4>1. Settling(u) /\ jobs[u].cost = outcome[i].cost
        BY <1>2, <1>4, <1>10, <1>13, <3>1 DEF Settling, TicketFits, CallerFits
      <4>2. Bill(u) = 0 /\ CostOf(jobs[u]) = c
        BY <1>4, <3>1, <4>1 DEF Bill, Outstanding, CostOf
      <4> QED
        BY <1>4, <2>1, <4>2
    <3>2. CASE outcome[i].cost = Unreported
      <4>1. ~Outstanding(u) /\ c = 0
        BY <1>4, <1>10, <3>2 DEF Outstanding, Told, Settling
      <4>2. Bill(u) = CostOf(jobs[u]) /\ CostOf(jobs[u]) \in Nat
        BY <1>2, <4>1, BillIs DEF Bill, BillsInv, PlacesInv
      <4> QED
        BY <2>1, <4>1, <4>2
    <3> QED
      BY <3>1, <3>2
  <2>3. Billing(u, c)
    BY <1>2, <1>7, <1>9, <1>11, <1>13, <2>2 DEF Billing
  <2> QED
    BY <1>2, <1>4, <2>3
<1> QED
  BY <1>12, <1>13
-----------------------------------------------------------------------------
LEMMA RegistrySteps ==
    ASSUME Undisturbed, BillsInv, Environment, UNCHANGED callers
    PROVE  Neutral \/ \E t \in Tickets, c \in Nat : Billing(t, c)
<1> USE BillsAre
<1>1. leases' = leases /\ (Calm \/ \E t \in Tickets, cost \in Nat : LateFor(t, cost))
  BY EnvironmentBills
<1>2. \A t \in Tickets : SamePlace(t)
  BY DEF SamePlace, At, callers
<1>3. CASE Calm
  <2>1. \A t \in Tickets : SeatOf(t) \in Contributors => Keeps(SeatOf(t))
    BY <1>3 DEF Calm
  <2>2. \A t \in Tickets : TicketFits(t)' /\ Bill(t)' = Bill(t)
    <3>1. SUFFICES ASSUME NEW t \in Tickets
                   PROVE  TicketFits(t)' /\ Bill(t)' = Bill(t)
      OBVIOUS
    <3>2. CASE SameJob(t)
      BY <1>1, <1>2, <2>1, <3>2, TicketKept DEF Keeps
    <3>3. CASE Finished(t)
      BY <1>1, <2>1, <3>3, TicketFinished
    <3> QED
      BY <1>3, <3>2, <3>3 DEF Calm
  <2> QED
    BY <1>3, <2>2 DEF Neutral, Calm
<1>4. ASSUME NEW u \in Tickets, NEW c \in Nat, LateFor(u, c)
      PROVE  Billing(u, c)
  <2>1. \A t \in Tickets \ {u} : SameJob(t)
    BY <1>4 DEF LateFor
  <2>2. SeatOf(u) \in Contributors
    BY <1>4 DEF LateFor, CameLate, TicketFits, JobFits
  <2>3. \A t \in Tickets : SeatOf(t) \in Contributors /\ seats[SeatOf(t)].registered =>
                                seats'[SeatOf(t)].registered
    BY <1>4 DEF LateFor, Keeps, Pays
  <2>4. \A t \in Tickets \ {u} : TicketFits(t)' /\ Bill(t)' = Bill(t)
    BY <1>1, <1>2, <2>1, <2>3, TicketKept
  <2>5. TicketFits(u)' /\ Bill(u) = 0 /\ Bill(u)' = c
    BY <1>1, <1>4, TicketLate DEF LateFor, Pays
  <2>6. Bill(u)' = Bill(u) + c
    BY <2>5
  <2> QED
    BY <1>4, <2>2, <2>4, <2>5, <2>6 DEF Billing, LateFor
<1> QED
  BY <1>1, <1>3, <1>4

LEMMA CallerSteps ==
    ASSUME Undisturbed, BillsInv, NEW i \in Invocations, Work(i) \/ Faulty(i)
    PROVE  /\ Neutral \/ \E t \in Tickets, c \in Nat : Billing(t, c)
           /\ period' = 0 /\ probe' = probe
<1> USE BillsAre
<1>1. CASE \/ Start(i) \/ NoSeatLeft(i) \/ CallFallback(i)
  <2>1. /\ UNCHANGED <<leases, jobs, live, answers, probe, period, seats, outcome>>
        /\ \A j \in Invocations \ {i} : at'[j] = at[j]
    BY <1>1 DEF Start, NoSeatLeft, CallFallback, vars, clock, BillsInv, PlacesInv, RoutingInv, CallersOK
  <2>2. PICK p \in {"next", "stretched", "fallback", "api", "failed"} :
            pc' = [pc EXCEPT ![i] = p] /\ pc[i] \in {"idle", "next", "fallback"}
    BY <1>1 DEF Start, NoSeatLeft, CallFallback, Goes
  <2>3. Moves(i, NoSeat, p) /\ pc[i] \notin Busy /\ p \notin Busy
    BY <2>1, <2>2 DEF Moves, Busy
  <2>4. \A s \in Contributors : Keeps(s)
    BY <2>1 DEF Keeps
  <2> QED
    BY <2>1, <2>3, <2>4, IdleSteps
<1>2. CASE Downgrade(i)
  <2>1. /\ UNCHANGED <<leases, jobs, live, answers, probe, period, at, outcome>>
        /\ pc[i] = "downgrade" /\ pc' = [pc EXCEPT ![i] = "next"]
        /\ seats' = [seats EXCEPT ![at[i]].healthy = FALSE, ![at[i]].fresh = FALSE]
    BY <1>2 DEF Downgrade, MarkSeatUnhealthy, Goes, clock
  <2>2. Moves(i, NoSeat, "next") /\ pc[i] \notin Busy /\ "next" \notin Busy
    BY <2>1 DEF Moves, Busy
  <2>3. \A s \in Contributors : Keeps(s)
    BY <2>1 DEF Keeps, TypeOK, SeatRecord
  <2> QED
    BY <2>1, <2>2, <2>3, IdleSteps
<1>3. CASE Invoke(i)
  BY <1>3, InvokeNeutral DEF Invoke, InvokeContributor, clock
<1>4. CASE Hear(i)
  <2>1. /\ Learns(i, "waiting", answers[TicketOf(i)])
        /\ answers[TicketOf(i)].status # "none" /\ "waiting" \in Busy \ {"settle"}
    BY <1>4 DEF Hear, Busy
  <2>2. Neutral
    BY <2>1, LearnNeutral
  <2> QED
    BY <2>1, <2>2 DEF Learns, vars, clock
<1>5. CASE CallProvider(i)
  <2>1. PICK answer : Learns(i, "invoke", answer) /\ at[i] \notin Contributors
    BY <1>5 DEF CallProvider
  <2>2. "invoke" \in Busy \ {"settle"}
    BY DEF Busy
  <2>3. Neutral
    BY <2>1, <2>2, LearnNeutral
  <2> QED
    BY <2>1, <2>3 DEF Learns, vars, clock
<1>6. CASE InvokeAborted(i)
  BY <1>6, NeverAborted
<1>7. CASE Settle(i)
  BY <1>7, SettleBills DEF Settle, ReconcileSeatBudget
<1>8. ASSUME NEW s \in Seats, Reserve(i, s)
      PROVE  Neutral /\ period' = 0 /\ probe' = probe
  BY <1>8, ReserveNeutral DEF Reserve, ReserveSeatBudget
<1>9. ~Faulty(i)
  BY DEF Undisturbed, Faulty, StartDropped, InvokeDropped, SettleDropped, DowngradeDropped,
         Crash, ReserveDropped, Drops
<1> QED
  BY <1>1, <1>2, <1>3, <1>4, <1>5, <1>6, <1>7, <1>8, <1>9 DEF Work

\* A step that bills a seat, or none, leaves every account with the sum of its
\* bills.
LEMMA AccountsStay ==
    ASSUME BillsInv, RoutingInv', Neutral, NEW s \in Contributors
    PROVE  SeatFits(s)'
<1>1. \A t \in TicketsOf(s) : Bill(t)' = Bill(t)
  BY DEF Neutral, TicketsOf
<1>2. Billed(s)' = Billed(s)
  BY <1>1, BilledStays
<1>3. SeatFits(s) /\ Keeps(s)
  BY DEF BillsInv, Neutral
<1> QED
  BY <1>2, <1>3 DEF SeatFits, Keeps, BillsInv, PlacesInv, RoutingInv, TypeOK, SeatRecord

LEMMA AccountsRise ==
    ASSUME BillsInv, RoutingInv', NEW u \in Tickets, NEW c \in Nat, Billing(u, c),
           NEW s \in Contributors
    PROVE  SeatFits(s)'
<1>1. SeatFits(s) /\ \A t \in TicketsOf(s) : t \in Tickets /\ SeatOf(t) = s
  BY DEF BillsInv, TicketsOf
<1>2. CASE s = SeatOf(u)
  <2>1. u \in TicketsOf(s)
    BY <1>2 DEF TicketsOf
  <2>2. \A t \in TicketsOf(s) : t # u => Bill(t)' = Bill(t)
    BY <1>1 DEF Billing
  <2>3. Bill(u)' = Bill(u) + c
    BY DEF Billing
  <2>4. Billed(s)' = Billed(s) + c
    BY <2>1, <2>2, <2>3, BilledRises DEF BillsInv, PlacesInv
  <2>5. Pays(s, c)
    BY <1>2 DEF Billing
  <2> QED
    BY <1>1, <2>4, <2>5 DEF SeatFits, Pays
<1>3. CASE s # SeatOf(u)
  <2>1. \A t \in TicketsOf(s) : Bill(t)' = Bill(t)
    BY <1>1, <1>3 DEF Billing
  <2>2. Billed(s)' = Billed(s)
    BY <2>1, BilledStays
  <2>3. Keeps(s)
    BY <1>3 DEF Billing
  <2> QED
    BY <1>1, <2>2, <2>3 DEF SeatFits, Keeps
<1> QED
  BY <1>2, <1>3

LEMMA BillsStep ==
    ASSUME Undisturbed, BillsInv, [RoutingNext]_allvars
    PROVE  BillsInv'
<1>1. PlacesInv'
  BY PlacesStep DEF Undisturbed, BillsInv, RefreshesRun
<1>2. RoutingInv'
  BY <1>1 DEF PlacesInv
<1>3. CASE UNCHANGED allvars
  <2>1. \A t \in Tickets : SameJob(t) /\ SamePlace(t)
    BY <1>3 DEF SameJob, SamePlace, At, allvars, vars, callers
  <2>2. \A s \in Contributors : Keeps(s)
    BY <1>3 DEF Keeps, allvars, vars
  <2>3. \A t \in Tickets : TicketFits(t)' /\ Bill(t)' = Bill(t)
    <3>1. leases' = leases /\ seats' = seats
      BY <1>3 DEF allvars, vars
    <3> QED
      BY <2>1, <3>1, TicketKept DEF BillsInv
  <2>4. \A s \in Contributors : SeatFits(s)'
    BY <1>2, <2>2, <2>3, AccountsStay DEF Neutral
  <2> QED
    BY <1>1, <1>3, <2>3, <2>4 DEF BillsInv, allvars, vars, clock
<1>4. ASSUME Neutral \/ \E t \in Tickets, c \in Nat : Billing(t, c),
             period' = 0, probe'.kind = "register" => probe'.asked \cap Contributors = {}
      PROVE  BillsInv'
  <2>1. \A t \in Tickets : TicketFits(t)'
    BY <1>4 DEF Neutral, Billing
  <2>2. \A s \in Contributors : SeatFits(s)'
    BY <1>2, <1>4, AccountsStay, AccountsRise
  <2> QED
    BY <1>1, <1>4, <2>1, <2>2 DEF BillsInv
<1>5. CASE Environment /\ UNCHANGED callers
  BY <1>4, <1>5, RegistrySteps, EnvironmentBills
<1>6. ASSUME NEW i \in Invocations, Work(i) \/ Faulty(i)
      PROVE  BillsInv'
  BY <1>4, <1>6, CallerSteps DEF BillsInv
<1> QED
  BY <1>3, <1>5, <1>6 DEF RoutingNext

LEMMA BillsInit == RoutingInit => BillsInv
<1> SUFFICES ASSUME RoutingInit PROVE BillsInv
  OBVIOUS
<1>1. PlacesInv
  BY PlacesInit
<1>2. /\ seats = NoSeats /\ leases = NoLeases /\ jobs = NoJobs /\ live = {} /\ period = 0
      /\ probe = NoProbe /\ pc = [i \in Invocations |-> "idle"]
  BY DEF RoutingInit, Init
<1>3. \A t \in Tickets : /\ \A P : At(t, P) => "idle" \in P
                         /\ jobs[t] = NoJob /\ leases[t] = NoLease
  BY <1>2, TicketsAre DEF At, NoJobs, NoLeases
<1>4. \A t \in Tickets : TicketFits(t)
  BY <1>2, <1>3 DEF TicketFits, JobFits, LeaseFits, CallerFits, Settling, NoJob, NoLease
<1>5. \A t \in Tickets : Bill(t) = 0
  BY <1>3 DEF Bill, CostOf, NoJob
<1>6. ASSUME NEW s \in Contributors PROVE SeatFits(s)
  <2>1. Billed(s) = 0
    <3>1. \A t \in TicketsOf(s) : [u \in TicketsOf(s) |-> Bill(u)][t] = 0
      BY <1>5 DEF TicketsOf
    <3> QED
      BY <3>1, TicketsAre, TotalZero DEF Billed
  <2>2. seats[s] = Unregistered
    BY <1>2, SeatsAssumption DEF NoSeats
  <2> QED
    BY <2>1, <2>2 DEF SeatFits, Unregistered
<1> QED
  BY <1>1, <1>2, <1>4, <1>6 DEF BillsInv, NoProbe

\* Once all decisions are made, no bill is outstanding.
LEMMA QuietReports ==
    ASSUME Quiet, NEW s
    PROVE  Reported(s) = Billed(s)
<1>1. \A t \in TicketsOf(s) : t \in Tickets /\ Bill(t) = JobCost(t)
  <2>1. SUFFICES ASSUME NEW t \in Tickets PROVE Bill(t) = JobCost(t)
    BY DEF TicketsOf
  <2>2. pc[t[1]] \in Ended
    BY TicketsAre DEF Quiet
  <2>3. ~At(t, {"waiting"}) /\ ~At(t, {"settle"})
    BY <2>2 DEF At, Ended
  <2> QED
    BY <2>3 DEF Bill, Outstanding, Told, Settling, JobCost
<1> DEFINE W == [t \in TicketsOf(s) |-> Bill(t)]
<1>2. \A t \in TicketsOf(s) : W[t] = JobCost(t)
  BY <1>1
<1>3. Billed(s) = Total(W, TicketsOf(s))
  BY DEF Billed
<1> HIDE DEF W
<1>4. MapThenSumSet(JobCost, TicketsOf(s)) = Total(W, TicketsOf(s))
  BY <1>2, TicketsAre, CostsAreTotal
<1> QED
  BY <1>3, <1>4 DEF Reported, TicketsOf

\* Once all decisions are made, what a seat has spent is what its contributor
\* reported, no more and no less: whether a usage comes with a result or after
\* a timeout, either reconcileSeatBudget or billLateContributorUsage bills it,
\* and not both.  No call is lost and nothing restarts here, no refresh is
\* suspended and the month does not turn.
THEOREM UsageIsBilledOnce ==
    ASSUME Undisturbed
    PROVE  RoutingSpec => []BilledOnce
<1>1. ASSUME BillsInv PROVE BilledOnce
  <2>1. SUFFICES ASSUME Quiet, NEW s \in Contributors
                 PROVE  seats[s].spent = Reported(s) /\ seats[s].spent \in Nat
    BY DEF BilledOnce, NeverBilledTwice, NeverLost
  <2> QED
    BY <1>1, <2>1, QuietReports, BillsAre DEF BillsInv, SeatFits, SeatRecord
<1> QED
  BY <1>1, BillsInit, BillsStep, PTL DEF RoutingSpec
-----------------------------------------------------------------------------
(***************************************************************************)
(* Nothing is billed twice, even where calls are lost, the registry        *)
(* restarts, reservations are reclaimed, seats are removed and months      *)
(* turn.  Then usage may go unbilled, so that a seat has spent at most     *)
(* what its jobs report without what a caller has yet to reconcile.        *)
(***************************************************************************)

\* A job nobody has asked for, and what a caller learned of another.
Fresh(t) ==
    /\ t \in live => jobs[t].status = "pending"
    /\ jobs[t].status \in {"none", "pending"} => jobs[t].cost = Unreported
    /\ jobs[t].status # "none" => SeatOf(t) \in Contributors
    /\ pc[t[1]] = "idle" \/ t[2] \in todo[t[1]] \/ At(t, {"invoke"}) =>
          jobs[t].status = "none"
    /\ At(t, {"invoke"}) => t[2] \notin todo[t[1]]
    /\ At(t, {"waiting"}) => SeatOf(t) \in Contributors
    /\ SeatOf(t) \in Contributors /\ Settling(t) => jobs[t].cost = outcome[t[1]].cost

TwiceInv ==
    /\ RoutingInv /\ JobsInv
    /\ probe.kind = "register" => probe.asked \cap Contributors = {}
    /\ \A t \in Tickets : Fresh(t)
    /\ \A s \in Contributors : seats[s].spent <= Billed(s)

Spends(s, c) == seats'[s].spent <= seats[s].spent + c
Keeping == \A s \in Contributors : Spends(s, 0)

\* Sums are monotone.
LEMMA TotalMore ==
    ASSUME NEW T, IsFiniteSet(T), NEW V, NEW W,
           \A x \in T : V[x] \in Nat /\ W[x] \in Nat /\ V[x] <= W[x]
    PROVE  Total(V, T) <= Total(W, T)
<1> DEFINE B == {s \in SUBSET T : ~(Total(V, s) <= Total(W, s))}
<1> SUFFICES ASSUME B # {} PROVE FALSE
  OBVIOUS
<1>1. PICK m \in B : \A y \in B : y \subseteq m => y = m
  <2>1. B \subseteq SUBSET T
    OBVIOUS
  <2> HIDE DEF B
  <2> QED
    BY <2>1, LeastSet
<1>2. m \subseteq T /\ IsFiniteSet(m) /\ ~(Total(V, m) <= Total(W, m))
  BY <1>1, FS_Subset
<1>3. m # {}
  <2>1. Total(V, {}) = 0 /\ Total(W, {}) = 0
    BY TotalNone
  <2> QED
    BY <1>2, <2>1
<1> DEFINE c == Some(m)
           r == m \ {Some(m)}
<1>4. Total(V, m) = V[c] + Total(V, r) /\ Total(W, m) = W[c] + Total(W, r)
  BY <1>2, <1>3, TotalAt
<1>5. c \in T /\ r \subseteq m /\ r # m /\ r \subseteq T
  BY <1>2, <1>3, SomeIs
<1>6. Total(V, r) <= Total(W, r)
  BY <1>1, <1>2, <1>5
<1>7. Total(V, r) \in Nat /\ Total(W, r) \in Nat
  <2>1. IsFiniteSet(r)
    BY <1>2, FS_Subset
  <2> QED
    BY <1>5, <2>1, TotalType
<1>8. V[c] \in Nat /\ W[c] \in Nat /\ V[c] <= W[c]
  BY <1>5
<1> HIDE DEF c, r
<1> QED
  BY <1>2, <1>4, <1>6, <1>7, <1>8

LEMMA BilledGrows ==
    ASSUME RoutingInv, RoutingInv', NEW s, \A t \in TicketsOf(s) : Bill(t) <= Bill(t)'
    PROVE  Billed(s) \in Nat /\ Billed(s)' \in Nat /\ Billed(s) <= Billed(s)'
<1> DEFINE T == TicketsOf(s)
           old == [t \in T |-> Bill(t)]
           new == [t \in T |-> Bill(t)']
<1>1. IsFiniteSet(T) /\ T \subseteq Tickets
  BY TicketsAre
<1>2. \A t \in T : Bill(t) \in Nat /\ Bill(t)' \in Nat
  BY <1>1, BillIs, BillIsNext
<1>3. \A t \in T : old[t] = Bill(t) /\ new[t] = Bill(t)'
  OBVIOUS
<1>4. Billed(s) = Total(old, T) /\ Billed(s)' = Total(new, T)
  BY DEF Billed, TicketsOf
<1>5. \A t \in T : old[t] \in Nat /\ new[t] \in Nat /\ old[t] <= new[t]
  BY <1>2, <1>3
<1> HIDE DEF T, old, new
<1>6. Total(old, T) <= Total(new, T)
  BY <1>1, <1>5, TotalMore
<1>7. Total(old, T) \in Nat /\ Total(new, T) \in Nat
  BY <1>1, <1>5, TotalType
<1> QED
  BY <1>4, <1>6, <1>7

LEMMA BilledGrowsBy ==
    ASSUME RoutingInv, RoutingInv', NEW s, NEW u \in TicketsOf(s), NEW c \in Nat,
           \A t \in TicketsOf(s) : Bill(t) <= Bill(t)', Bill(u) + c <= Bill(u)'
    PROVE  Billed(s) \in Nat /\ Billed(s)' \in Nat /\ Billed(s) + c <= Billed(s)'
<1> DEFINE T == TicketsOf(s)
           old == [t \in T |-> Bill(t)]
           mid == [t \in T |-> IF t = u THEN Bill(t) + c ELSE Bill(t)]
           new == [t \in T |-> Bill(t)']
<1>1. IsFiniteSet(T) /\ T \subseteq Tickets
  BY TicketsAre
<1>2. \A t \in T : Bill(t) \in Nat /\ Bill(t)' \in Nat
  BY <1>1, BillIs, BillIsNext
<1>3. \A t \in T : old[t] = Bill(t) /\ new[t] = Bill(t)'
  OBVIOUS
<1>4. Billed(s) = Total(old, T) /\ Billed(s)' = Total(new, T)
  BY DEF Billed, TicketsOf
<1>5. \A t \in T : old[t] \in Nat /\ new[t] \in Nat /\ mid[t] \in Nat /\ mid[t] <= new[t]
  BY <1>2, <1>3
<1>6. u \in T /\ mid[u] = old[u] + c /\ \A t \in T : t # u => mid[t] = old[t]
  OBVIOUS
<1> HIDE DEF T, old, mid, new
<1>7. Total(mid, T) + old[u] = Total(old, T) + mid[u]
  BY <1>1, <1>5, <1>6, TotalChanged
<1>8. Total(mid, T) <= Total(new, T)
  BY <1>1, <1>5, TotalMore
<1>9. Total(old, T) \in Nat /\ Total(mid, T) \in Nat /\ Total(new, T) \in Nat
  BY <1>1, <1>5, TotalType
<1>10. old[u] \in Nat
  BY <1>5, <1>6
<1> QED
  BY <1>4, <1>6, <1>7, <1>8, <1>9, <1>10

\* Accounts do not rise by themselves.
LEMMA RollSpends ==
    ASSUME NEW r \in SeatRecord, NEW p \in Nat
    PROVE  Roll(r, p).spent \in Nat /\ Roll(r, p).spent <= r.spent
BY DEF Roll, SeatRecord

LEMMA ReconciledSpends ==
    ASSUME NEW r \in SeatRecord, NEW held \in Nat, NEW c \in Nat, NEW p \in Nat
    PROVE  Reconciled(r, held, c, p).spent <= r.spent + c
<1> DEFINE q == Roll(r, p)
           left == Monus(q.reserved, held)
           full == Budget <= q.spent + c + left
<1>1. q \in SeatRecord /\ q.spent <= r.spent /\ q.spent \in Nat /\ r.spent \in Nat
  BY RollType, RollSpends DEF SeatRecord
<1>2. Reconciled(r, held, c, p) =
        [q EXCEPT !.reserved = left, !.spent = q.spent + c, !.exhausted = full]
  BY DEF Reconciled
<1> HIDE DEF q, left, full
<1>3. Reconciled(r, held, c, p).spent = q.spent + c
  BY <1>1, <1>2 DEF SeatRecord
<1> QED
  BY <1>1, <1>3

LEMMA ReservedSpends ==
    ASSUME NEW r \in SeatRecord, NEW p \in Nat
    PROVE  Reserved(r, p).spent <= r.spent
<1> DEFINE q == Roll(r, p)
           more == q.reserved + Estimate
           full == Budget <= q.spent + q.reserved + Estimate
<1>1. q \in SeatRecord /\ q.spent <= r.spent
  BY RollType, RollSpends
<1>2. Reserved(r, p) = [q EXCEPT !.reserved = more, !.exhausted = full]
  BY DEF Reserved
<1> HIDE DEF q, more, full
<1> QED
  BY <1>1, <1>2 DEF SeatRecord

LEMMA ReclaimedSpends ==
    ASSUME TypeOK, NEW s \in Seats
    PROVE  /\ ReclaimedSeats[s] \in SeatRecord
           /\ ReclaimedSeats[s].spent \in Nat /\ seats[s].spent \in Nat
           /\ ReclaimedSeats[s].spent <= seats[s].spent
<1> DEFINE held == Estimate * Cardinality(StaleOf(s))
<1>1. held \in Nat
  BY StaleFinite, EstimateAssumption
<1>2. seats[s] \in SeatRecord /\ period \in Nat /\ seats[s].spent \in Nat
  BY DEF TypeOK, SeatRecord
<1>3. ReclaimedSeats[s] = seats[s] \/ ReclaimedSeats[s] = Reconciled(seats[s], held, 0, period)
  BY DEF ReclaimedSeats
<1>4. ReclaimedSeats[s] \in SeatRecord
  BY ReclaimedType
<1> HIDE DEF held
<1>5. Reconciled(seats[s], held, 0, period).spent <= seats[s].spent + 0
  BY <1>1, <1>2, ReconciledSpends, Zenon
<1> QED
  BY <1>2, <1>3, <1>4, <1>5 DEF SeatRecord

LEMMA TwiceIs ==
    ASSUME TwiceInv
    PROVE  /\ TypeOK /\ AnswersMatchLedger /\ probe.kind # "refresh" /\ period \in Nat
           /\ \A t \in Tickets : Fresh(t)
           /\ \A t \in Tickets : t \in live => jobs[t].status = "pending"
           /\ \A t \in Tickets : jobs[t].status # "none" => SeatOf(t) \in Contributors
           /\ \A s \in Contributors : s \in Seats /\ seats[s] \in SeatRecord /\ seats[s].spent \in Nat
BY SeatsAssumption DEF TwiceInv, RoutingInv, JobsInv, Fresh, TypeOK, SeatRecord

\* What a step of the registry's own leaves of a job: all, or its end, or a
\* cost that comes late.
Left(t) ==
    /\ jobs'[t] = jobs[t] /\ answers'[t] = answers[t]
    /\ t \in live' => t \in live
Over(t) ==
    /\ jobs[t].status = "pending" /\ jobs'[t].status \in {"succeeded", "failed"}
    /\ t \notin live'
LateBill(t, c) ==
    /\ jobs[t].status \in {"pending", "failed"} /\ jobs[t].cost = Unreported
    /\ jobs'[t].status = "failed" /\ jobs'[t].cost = c
    /\ t \notin live'
    /\ answers'[t] = answers[t] \/ answers'[t] = Lost

\* A caller that is not at this seat, or does not move.
SameTry(t) ==
    /\ SamePlace(t)
    /\ pc'[t[1]] = "idle" => pc[t[1]] = "idle"
    /\ t[2] \in todo'[t[1]] => t[2] \in todo[t[1]] \/ pc[t[1]] = "idle"

LEMMA FreshLeft ==
    ASSUME TwiceInv, NEW t \in Tickets, Left(t), SameTry(t)
    PROVE  Fresh(t)' /\ Bill(t)' = Bill(t)
<1>1. /\ At(t, {"invoke"})' <=> At(t, {"invoke"})
      /\ At(t, {"waiting"})' <=> At(t, {"waiting"})
      /\ At(t, {"settle"})' <=> At(t, {"settle"})
  BY DEF SameTry, SamePlace, Busy, At
<1>2. /\ Told(t)' <=> Told(t)
      /\ Settling(t)' <=> Settling(t)
      /\ Settling(t) => outcome'[t[1]] = outcome[t[1]]
  BY <1>1 DEF Told, Settling, Left, SameTry, SamePlace
<1>3. Bill(t)' = Bill(t)
  BY <1>2 DEF Bill, Outstanding, Left
<1>4. Fresh(t) /\ jobs'[t] = jobs[t] /\ (t \in live' => t \in live)
  BY TwiceIs DEF Left
<1>5. At(t, {"invoke"})' => t[2] \notin todo'[t[1]]
  <2>1. At(t, {"invoke"}) => pc[t[1]] # "idle"
    BY DEF At
  <2> QED
    BY <1>1, <1>4, <2>1 DEF Fresh, SameTry
<1>6. Fresh(t)'
  BY <1>1, <1>2, <1>4, <1>5 DEF Fresh, SameTry, SeatOf
<1> QED
  BY <1>3, <1>6

LEMMA FreshOver ==
    ASSUME TwiceInv, RoutingInv', NEW t \in Tickets, Over(t), UNCHANGED callers
    PROVE  Fresh(t)' /\ Bill(t) <= Bill(t)'
<1>1. /\ \A P : At(t, P)' <=> At(t, P)
      /\ pc' = pc /\ todo' = todo /\ outcome' = outcome
  BY DEF At, callers
<1>2. /\ Fresh(t) /\ jobs[t].status = "pending" /\ jobs[t].cost = Unreported
      /\ SeatOf(t) \in Contributors
  BY TwiceIs DEF Over, Fresh
<1>3. ~Settling(t) /\ (Settling(t)' <=> Settling(t))
  BY <1>1, <1>2 DEF Fresh, Settling
<1>4. Bill(t) = 0 /\ Bill(t)' \in Nat
  BY <1>2, BillIsNext DEF Bill, CostOf
<1>5. Fresh(t)'
  BY <1>1, <1>2, <1>3 DEF Fresh, Over, SeatOf
<1> QED
  BY <1>4, <1>5

LEMMA FreshLate ==
    ASSUME TwiceInv, NEW t \in Tickets, NEW c \in Nat, LateBill(t, c), UNCHANGED callers
    PROVE  Fresh(t)' /\ Bill(t) = 0 /\ Bill(t)' = c /\ SeatOf(t) \in Contributors
<1>1. /\ \A P : At(t, P)' <=> At(t, P)
      /\ pc' = pc /\ todo' = todo /\ outcome' = outcome
  BY DEF At, callers
<1>2. /\ Fresh(t) /\ jobs[t].status \in {"pending", "failed"} /\ jobs[t].cost = Unreported
      /\ SeatOf(t) \in Contributors /\ c # Unreported
  BY TwiceIs, SeatsAssumption DEF LateBill
<1>3. ~Settling(t) /\ (Settling(t)' <=> Settling(t))
  BY <1>1, <1>2 DEF Fresh, Settling
<1>4. ~Told(t)'
  <2>1. CASE answers'[t] = Lost
    BY <2>1 DEF Told, Lost, Failure
  <2>2. CASE answers'[t] = answers[t]
    <3>1. answers[t].status \in {"none", "ok", "failure"}
      BY TwiceIs DEF TypeOK, Answer
    <3>2. answers[t].status = "none" \/ answers[t].cost = Unreported
      BY <1>2, <3>1, TwiceIs DEF AnswersMatchLedger
    <3> QED
      BY <2>2, <3>2 DEF Told
  <2> QED
    BY <2>1, <2>2 DEF LateBill
<1>5. Bill(t) = 0 /\ Bill(t)' = c
  BY <1>2, <1>3, <1>4 DEF Bill, Outstanding, CostOf, LateBill
<1>6. Fresh(t)'
  BY <1>1, <1>2, <1>3 DEF Fresh, LateBill, SeatOf
<1> QED
  BY <1>2, <1>5, <1>6

\* The jobs that end at once.
LEMMA JobsOver ==
    ASSUME TwiceInv, NEW T, NEW a, Resume(T, a),
           \A t \in Tickets : jobs'[t] = IF t \in T THEN TimedOut(jobs[t]) ELSE jobs[t]
    PROVE  \A t \in Tickets : Left(t) \/ Over(t)
<1> SUFFICES ASSUME NEW t \in Tickets
             PROVE  Left(t) \/ Over(t)
  OBVIOUS
<1>1. t \in live => jobs[t].status = "pending"
  BY TwiceIs
<1>2. CASE t \in T /\ jobs[t].status = "pending"
  BY <1>2 DEF Resume, Over, TimedOut
<1>3. CASE t \in T /\ jobs[t].status # "pending"
  BY <1>1, <1>3 DEF Resume, Left, TimedOut
<1>4. CASE t \notin T
  BY <1>4 DEF Resume, Left
<1> QED
  BY <1>2, <1>3, <1>4

LEMMA NothingMoves ==
    ASSUME UNCHANGED <<jobs, answers>>, live' \subseteq live
    PROVE  \A t \in Tickets : Left(t) \/ Over(t)
BY DEF Left

\* What a handler does that bills nothing.
Unbilled ==
    /\ \A t \in Tickets : Left(t) \/ Over(t)
    /\ Keeping

BilledLate(t, c) ==
    /\ LateBill(t, c) /\ \A u \in Tickets \ {t} : Left(u)
    /\ Spends(SeatOf(t), c) /\ \A s \in Contributors \ {SeatOf(t)} : Spends(s, 0)

LEMMA SameSpent ==
    ASSUME TwiceInv, \A s \in Contributors : seats'[s].spent = seats[s].spent
    PROVE  Keeping
BY TwiceIs DEF Keeping, Spends

LEMMA LateUnbilled ==
    ASSUME TwiceInv, NEW c \in Conns, NEW t \in Tickets, NEW report \in Reports,
           LateResult(c, t, report)
    PROVE  Unbilled \/ \E cost \in Nat : BilledLate(t, cost)
<1> DEFINE job == TimedOut(jobs[t])
           overdue == jobs[t].status = "pending" /\ t \in due
           cost == report.cost
           a == IF overdue THEN Lost ELSE Persisted(jobs[t])
           s == SeatOf(t)
<1>1. /\ jobs[t].status # "none" /\ (overdue \/ jobs[t].status # "pending")
      /\ Resume({t}, a) /\ BillLate(t, job, cost)
  BY DEF LateResult
<1>2. /\ s \in Contributors /\ s \in Seats /\ jobs[t].status \in {"pending", "succeeded", "failed"}
      /\ cost \in Nat \cup {Unreported}
      /\ (t \in live => jobs[t].status = "pending")
  BY <1>1, SeatsAssumption, TwiceIs DEF Reports, TypeOK, JobRecord
<1>3. /\ job \in JobRecord
      /\ jobs[t].status # "pending" => job = jobs[t]
      /\ jobs[t].status = "pending" => job.status = "failed" /\ job.cost = Unreported
  BY <1>2, TimedOutType, TwiceIs DEF TimedOut, TypeOK
<1>4. /\ t \notin live'
      /\ answers'[t] = answers[t] \/ (overdue /\ answers'[t] = Lost)
      /\ \A u \in Tickets \ {t} : answers'[u] = answers[u] /\ (u \in live' => u \in live)
  BY <1>1, <1>2 DEF Resume
<1>5. CASE job.status = "failed" /\ job.cost = Unreported /\ cost # Unreported
  <2>1. /\ jobs' = [jobs EXCEPT ![t] = [job EXCEPT !.cost = cost]]
        /\ seats' = [seats EXCEPT ![s] = IF @.registered THEN Reconciled(@, 0, cost, period) ELSE @]
    BY <1>1, <1>5 DEF BillLate
  <2>2. Reconciled(seats[s], 0, cost, period).spent <= seats[s].spent + cost
    <3>1. seats[s] \in SeatRecord /\ 0 \in Nat /\ cost \in Nat /\ period \in Nat
      BY <1>2, <1>5, TwiceIs
    <3> HIDE DEF s, cost
    <3> QED
      BY <3>1, ReconciledSpends
  <2>3. Spends(s, cost) /\ \A r \in Contributors \ {s} : Spends(r, 0)
    <3>1. \A r \in Contributors \ {s} : seats'[r] = seats[r] /\ seats[r].spent \in Nat
      BY <2>1, TwiceIs
    <3>2. /\ seats'[s] = seats[s] \/ seats'[s] = Reconciled(seats[s], 0, cost, period)
          /\ seats[s].spent \in Nat /\ cost \in Nat
      BY <1>2, <1>5, <2>1, TwiceIs DEF TypeOK
    <3> HIDE DEF s, cost
    <3> QED
      BY <2>2, <3>1, <3>2 DEF Spends
  <2>4. LateBill(t, cost)
    <3>1. jobs'[t] = [job EXCEPT !.cost = cost]
      BY <2>1, TwiceIs DEF TypeOK
    <3>2. jobs'[t].cost = cost /\ jobs'[t].status = "failed"
      <4> HIDE DEF job, cost
      <4> QED
        BY <1>3, <1>5, <3>1 DEF JobRecord
    <3>3. jobs[t].cost = Unreported
      <4>1. Fresh(t)
        BY TwiceIs
      <4> QED
        BY <1>3, <1>5, <4>1 DEF Fresh
    <3>4. jobs[t].status \in {"pending", "failed"}
      BY <1>3, <1>5
    <3> QED
      BY <1>4, <3>2, <3>3, <3>4 DEF LateBill
  <2>5. \A u \in Tickets \ {t} : Left(u)
    BY <1>4, <2>1, TwiceIs DEF Left, TypeOK
  <2> QED
    BY <1>2, <1>5, <2>3, <2>4, <2>5 DEF BilledLate
<1>6. CASE ~(job.status = "failed" /\ job.cost = Unreported /\ cost # Unreported)
  <2>1. jobs' = [jobs EXCEPT ![t] = job] /\ seats' = seats
    BY <1>1, <1>6 DEF BillLate
  <2>2. \A u \in Tickets : jobs'[u] = IF u \in {t} THEN TimedOut(jobs[u]) ELSE jobs[u]
    BY <2>1, TwiceIs DEF TypeOK
  <2>3. \A u \in Tickets : Left(u) \/ Over(u)
    <3> HIDE DEF a
    <3> QED
      BY <1>1, <2>2, JobsOver
  <2> QED
    BY <2>1, <2>3, SameSpent DEF Unbilled
<1> QED
  BY <1>5, <1>6

LEMMA MessagesUnbilled ==
    ASSUME TwiceInv, NEW c \in Conns,
           \/ Connect(c) \/ Close(c)
           \/ \E s \in Seats :
               \/ SeatRegister(c, s)
               \/ \E status \in {"healthy", "unavailable", "exhausted"} : Heartbeat(c, s, status)
           \/ \E t \in Tickets, report \in Reports : Result(c, t, report)
    PROVE  Unbilled
<1> USE TwiceIs
<1>1. CASE Connect(c)
  <2>1. \A s \in Contributors : seats'[s].spent = seats[s].spent
    BY <1>1 DEF Connect
  <2> QED
    BY <1>1, <2>1, NothingMoves, SameSpent DEF Connect, Unbilled
<1>2. CASE Close(c)
  <2> DEFINE orphans == {t \in Tickets : SeatOf(t) \in Abandoned(c)}
  <2>1. \A s \in Contributors : seats'[s].spent = seats[s].spent
    BY <1>2 DEF Close, SeatRecord
  <2>2. /\ \A t \in Tickets : jobs'[t] = IF t \in orphans THEN TimedOut(jobs[t]) ELSE jobs[t]
        /\ Resume(orphans, Lost)
    BY <1>2 DEF Close
  <2> HIDE DEF orphans
  <2>3. \A t \in Tickets : Left(t) \/ Over(t)
    BY <2>2, JobsOver
  <2> QED
    BY <2>1, <2>3, SameSpent DEF Unbilled
<1>3. ASSUME NEW s \in Seats, SeatRegister(c, s)
      PROVE  Unbilled
  <2> DEFINE kept == IF seats[s].registered THEN seats[s]
                     ELSE [Unregistered EXCEPT !.period = period]
             made == [kept EXCEPT !.registered = TRUE, !.healthy = TRUE,
                                  !.fresh = TRUE, !.exhausted = FALSE, !.conn = c]
  <2>1. s \in Contributors
    BY <1>3, SeatsAssumption DEF SeatRegister
  <2>2. seats[s] \in SeatRecord /\ seats[s].spent \in Nat
    BY <2>1
  <2>3. Unregistered \in SeatRecord /\ Unregistered.spent = 0
    BY DEF Unregistered, SeatRecord
  <2>4. kept \in SeatRecord /\ kept.spent <= seats[s].spent
    BY <2>2, <2>3 DEF SeatRecord
  <2> HIDE DEF kept
  <2>5. made \in SeatRecord /\ made.spent <= seats[s].spent
    BY <2>4 DEF SeatRecord
  <2>6. seats' = [seats EXCEPT ![s] = Roll(made, period)] /\ UNCHANGED <<jobs, answers, live>>
    BY <1>3 DEF SeatRegister, kept
  <2> HIDE DEF made
  <2>7. Roll(made, period).spent <= made.spent /\ Roll(made, period).spent \in Nat
    BY <2>5, RollSpends
  <2>8. made.spent \in Nat
    BY <2>5 DEF SeatRecord
  <2>9. \A r \in Contributors : Spends(r, 0)
    <3>1. seats'[s] = Roll(made, period) /\ \A r \in Contributors \ {s} : seats'[r] = seats[r]
      BY <2>6 DEF TypeOK
    <3> QED
      BY <2>2, <2>5, <2>7, <2>8, <3>1 DEF Spends
  <2> QED
    BY <2>6, <2>9, NothingMoves DEF Unbilled, Keeping
<1>4. ASSUME NEW s \in Seats, NEW status, Heartbeat(c, s, status)
      PROVE  Unbilled
  <2>1. \A r \in Contributors : seats'[r].spent = seats[r].spent
    BY <1>4 DEF Heartbeat, TypeOK, SeatRecord
  <2> QED
    BY <1>4, <2>1, NothingMoves, SameSpent DEF Heartbeat, Unbilled
<1>5. ASSUME NEW t \in Tickets, NEW report \in Reports, Result(c, t, report)
      PROVE  Unbilled
  <2> DEFINE s == SeatOf(t)
             job == [status |-> IF report.kind = "decision" THEN "succeeded" ELSE "failed",
                     cost |-> report.cost, retryable |-> report.retryable]
  <2>1. /\ jobs[t].status = "pending" /\ jobs' = [jobs EXCEPT ![t] = job]
        /\ Resume({t}, Persisted(job))
        /\ \/ seats' = seats
           \/ seats' = [seats EXCEPT ![s].healthy = FALSE, ![s].exhausted = TRUE]
    BY <1>5 DEF Result
  <2>2. job.status \in {"succeeded", "failed"}
    OBVIOUS
  <2>3. \A r \in Contributors : seats'[r].spent = seats[r].spent
    <3> HIDE DEF s, job
    <3> QED
      BY <2>1 DEF TypeOK, SeatRecord
  <2>4. Over(t)
    BY <2>1, <2>2 DEF Over, Resume, TypeOK
  <2>5. \A u \in Tickets \ {t} : Left(u)
    BY <2>1 DEF Left, Resume, TypeOK
  <2> QED
    BY <2>3, <2>4, <2>5, SameSpent DEF Unbilled
<1> QED
  BY <1>1, <1>2, <1>3, <1>4, <1>5

LEMMA TimersUnbilled ==
    ASSUME TwiceInv, Timers \/ Restart
    PROVE  Unbilled
<1> USE TwiceIs
<1>1. ASSUME NEW t \in Tickets, JobTimeout(t)
      PROVE  Unbilled
  <2>1. /\ \A u \in Tickets : jobs'[u] = IF u \in {t} THEN TimedOut(jobs[u]) ELSE jobs[u]
        /\ Resume({t}, Lost)
    BY <1>1 DEF JobTimeout, TypeOK
  <2>2. \A u \in Tickets : Left(u) \/ Over(u)
    BY <2>1, JobsOver
  <2>3. \A s \in Contributors : seats'[s].spent = seats[s].spent
    BY <1>1 DEF JobTimeout
  <2> QED
    BY <2>2, <2>3, SameSpent DEF Unbilled
<1>2. CASE MonthTurns \/ Restart \/ \E t \in Tickets : LeaseGoesStale(t) \/ DeadlinePasses(t)
  <2>1. UNCHANGED <<jobs, answers, seats>> /\ live' \subseteq live
    BY <1>2 DEF MonthTurns, Restart, LeaseGoesStale, DeadlinePasses
  <2> QED
    BY <2>1, NothingMoves, SameSpent DEF Unbilled
<1>3. ASSUME NEW s \in Seats, HealthLapses(s)
      PROVE  Unbilled
  <2>1. \A r \in Contributors : seats'[r].spent = seats[r].spent
    BY <1>3 DEF HealthLapses, TypeOK, SeatRecord
  <2> QED
    BY <1>3, <2>1, NothingMoves, SameSpent DEF HealthLapses, Unbilled
<1> QED
  BY <1>1, <1>2, <1>3 DEF Timers

\* What the admin API and a refresh write, as long as none is suspended.
LEMMA RefreshUnbilled ==
    ASSUME TwiceInv, RefreshSeats
    PROVE  Unbilled
<1> USE TwiceIs
<1>1. /\ \A t \in Tickets : jobs'[t] = IF t \in Overdue THEN TimedOut(jobs[t]) ELSE jobs[t]
      /\ Resume(Overdue, Lost)
  BY DEF RefreshSeats, ExpiredJobs
<1>2. \A t \in Tickets : Left(t) \/ Over(t)
  BY <1>1, JobsOver
<1>3. ASSUME NEW s \in Contributors
      PROVE  Spends(s, 0)
  <2>1. /\ ReclaimedSeats[s] \in SeatRecord /\ ReclaimedSeats[s].spent \in Nat
        /\ seats[s].spent \in Nat /\ ReclaimedSeats[s].spent <= seats[s].spent
    BY ReclaimedSpends
  <2>2. /\ Roll(ReclaimedSeats[s], period) \in SeatRecord
        /\ Roll(ReclaimedSeats[s], period).spent \in Nat
        /\ Roll(ReclaimedSeats[s], period).spent <= ReclaimedSeats[s].spent
    BY <2>1, RollType, RollSpends
  <2>3. seats'[s] = IF ~ReclaimedSeats[s].registered THEN ReclaimedSeats[s]
                    ELSE LET seat == Roll(ReclaimedSeats[s], period)
                         IN  [seat EXCEPT !.healthy = seat.healthy /\ seat.fresh]
    BY DEF RefreshSeats, RefreshedSeats
  <2>4. seats'[s].spent = ReclaimedSeats[s].spent
          \/ seats'[s].spent = Roll(ReclaimedSeats[s], period).spent
    BY <2>2, <2>3 DEF SeatRecord
  <2> QED
    BY <2>1, <2>2, <2>4 DEF Spends
<1> QED
  BY <1>2, <1>3 DEF Unbilled, Keeping

LEMMA RegistrationsUnbilled ==
    ASSUME TwiceInv, NEW s \in Seats,
           \/ RemoveSeat(s) \/ RegisterSeat(s) \/ RegisterStart(s)
           \/ \E up \in SUBSET {s} : RegisterFinish(s, up)
    PROVE  Unbilled
<1> USE TwiceIs
<1>1. CASE RemoveSeat(s)
  <2>1. seats' = [seats EXCEPT ![s] = Unregistered] /\ Unregistered.spent = 0
    BY <1>1 DEF RemoveSeat, Unregistered
  <2>2. \A r \in Contributors : Spends(r, 0)
    BY <2>1 DEF Spends, TypeOK
  <2> QED
    BY <1>1, <2>2, NothingMoves DEF RemoveSeat, Unbilled, Keeping
<1>2. CASE RegisterSeat(s)
  <2> DEFINE kept == IF seats[s].registered THEN seats[s]
                     ELSE [Unregistered EXCEPT !.period = period]
             made == [kept EXCEPT !.registered = TRUE, !.healthy = FALSE,
                                  !.fresh = FALSE, !.conn = NoConn]
  <2>1. seats[s] \in SeatRecord /\ seats[s].spent \in Nat
    BY DEF TypeOK, SeatRecord
  <2>2. Unregistered \in SeatRecord /\ Unregistered.spent = 0
    BY DEF Unregistered, SeatRecord
  <2>3. kept \in SeatRecord /\ kept.spent <= seats[s].spent
    BY <2>1, <2>2 DEF SeatRecord
  <2> HIDE DEF kept
  <2>4. made \in SeatRecord /\ made.spent <= seats[s].spent /\ made.spent \in Nat
    BY <2>3 DEF SeatRecord
  <2>5. seats' = [seats EXCEPT ![s] = Roll(made, period)] /\ UNCHANGED <<jobs, answers, live>>
    BY <1>2 DEF RegisterSeat, Unchecked, kept
  <2> HIDE DEF made
  <2>6. Roll(made, period).spent <= made.spent /\ Roll(made, period).spent \in Nat
    BY <2>4, RollSpends
  <2>7. \A r \in Contributors : Spends(r, 0)
    <3>1. seats'[s] = Roll(made, period) /\ \A r \in Contributors \ {s} : seats'[r] = seats[r]
      BY <2>5 DEF TypeOK
    <3> QED
      BY <2>1, <2>4, <2>6, <3>1 DEF Spends
  <2> QED
    BY <2>5, <2>7, NothingMoves DEF Unbilled, Keeping
<1>3. CASE RegisterStart(s)
  <2>1. UNCHANGED <<jobs, answers, seats, live>>
    BY <1>3 DEF RegisterStart, ProbeStart
  <2> QED
    BY <2>1, NothingMoves, SameSpent DEF Unbilled
<1>4. ASSUME NEW up \in SUBSET {s}, RegisterFinish(s, up)
      PROVE  Unbilled
  <2>1. s \notin Contributors
    BY <1>4 DEF RegisterFinish, TwiceInv
  <2>2. \A r \in Contributors : seats'[r] = seats[r]
    BY <1>4, <2>1 DEF RegisterFinish, TypeOK
  <2>3. UNCHANGED <<jobs, answers, live>>
    BY <1>4 DEF RegisterFinish
  <2> QED
    BY <2>2, <2>3, NothingMoves, SameSpent DEF Unbilled
<1> QED
  BY <1>1, <1>2, <1>3, <1>4

LEMMA EnvironmentUnbilled ==
    ASSUME RefreshesRun, TwiceInv, Environment
    PROVE  Unbilled \/ \E t \in Tickets, cost \in Nat : BilledLate(t, cost)
<1>1. CASE Messages
  BY <1>1, MessagesUnbilled, LateUnbilled DEF Messages
<1>2. CASE Timers \/ Restart
  BY <1>2, TimersUnbilled
<1>3. CASE Admin
  <2>1. ~RefreshStart /\ \A up : ~RefreshFinish(up)
    BY NoneSuspended, TwiceIs DEF RefreshFinish
  <2> QED
    BY <1>3, <2>1, RefreshUnbilled, RegistrationsUnbilled DEF Admin
<1> QED
  BY <1>1, <1>2, <1>3 DEF Environment

LEMMA EnvironmentProbes ==
    ASSUME TwiceInv, RefreshesRun, Environment
    PROVE  probe'.kind = "register" => probe'.asked \cap Contributors = {}
<1> USE NoneSuspended, TwiceIs DEF TwiceInv
<1>1. ASSUME NEW s \in Seats, RegisterStart(s)
      PROVE  probe'.asked \cap Contributors = {}
  <2>1. probe'.asked = {s} /\ s \notin Contributors
    BY <1>1 DEF RegisterStart, ProbeStart, NoProbe
  <2> QED
    BY <2>1
<1>2. CASE \E s \in Seats : \E up \in SUBSET {s} : RegisterFinish(s, up)
  BY <1>2 DEF RegisterFinish, NoProbe
<1>3. CASE Restart
  BY <1>3 DEF Restart, NoProbe
<1>4. CASE Messages \/ Timers
  <2>1. CASE Messages
    BY <2>1, ZenonT(40) DEF Messages, Connect, Close, SeatRegister, Heartbeat, LateResult, Result
  <2>2. CASE Timers
    BY <2>2 DEF Timers, JobTimeout, LeaseGoesStale, DeadlinePasses, HealthLapses, MonthTurns
  <2> QED
    BY <1>4, <2>1, <2>2
<1>5. CASE RefreshSeats \/ \E s \in Seats : RemoveSeat(s) \/ RegisterSeat(s)
  BY <1>5 DEF RefreshSeats, RemoveSeat, RegisterSeat
<1>6. ~RefreshStart /\ \A up : ~RefreshFinish(up)
  BY DEF RefreshFinish
<1> QED
  BY <1>1, <1>2, <1>3, <1>4, <1>5, <1>6 DEF Environment, Admin
-----------------------------------------------------------------------------
(* What a step leaves of the tickets, and what it spends. *)

Steady == \A t \in Tickets : Fresh(t)' /\ Bill(t) <= Bill(t)'
Spending ==
    \/ Keeping
    \/ \E u \in Tickets, c \in Nat :
        /\ SeatOf(u) \in Contributors /\ Bill(u) + c <= Bill(u)'
        /\ Spends(SeatOf(u), c) /\ \A s \in Contributors \ {SeatOf(u)} : Spends(s, 0)

LEMMA RegistrySpends ==
    ASSUME RefreshesRun, TwiceInv, RoutingInv', Environment, UNCHANGED callers
    PROVE  Steady /\ Spending
<1>1. \A t \in Tickets : SameTry(t)
  BY DEF SameTry, SamePlace, At, callers
<1>2. \A t \in Tickets : Bill(t) \in Nat
  BY BillIs DEF TwiceInv
<1>3. \A t \in Tickets : Left(t) => Fresh(t)' /\ Bill(t) <= Bill(t)'
  BY <1>1, <1>2, FreshLeft
<1>4. CASE Unbilled
  BY <1>3, <1>4, FreshOver DEF Unbilled, Steady, Spending
<1>5. ASSUME NEW u \in Tickets, NEW c \in Nat, BilledLate(u, c)
      PROVE  Steady /\ Spending
  <2>1. Fresh(u)' /\ Bill(u) = 0 /\ Bill(u)' = c /\ SeatOf(u) \in Contributors
    BY <1>5, FreshLate DEF BilledLate
  <2>2. Bill(u) <= Bill(u)' /\ Bill(u) + c <= Bill(u)'
    BY <2>1
  <2>3. \A t \in Tickets \ {u} : Left(t)
    BY <1>5 DEF BilledLate
  <2>4. Steady
    BY <1>3, <2>1, <2>2, <2>3 DEF Steady
  <2>5. Spending
    BY <1>5, <2>1, <2>2 DEF Spending, BilledLate
  <2> QED
    BY <2>4, <2>5
<1> QED
  BY <1>4, <1>5, EnvironmentUnbilled

\* Caller i moves to p, and is at seat s.
Tries(i, s, p) ==
    /\ Moves(i, s, p) /\ p # "idle"
    /\ \A j \in Invocations \ {i} : todo'[j] = todo[j]
    /\ pc[i] # "idle" => todo'[i] \subseteq todo[i]

LEMMA OthersTry ==
    ASSUME TwiceInv, NEW i \in Invocations, NEW s, NEW p, Tries(i, s, p), NEW t \in Tickets,
           t # <<i, s>> \/ (pc[i] \notin Busy /\ p \notin Busy)
    PROVE  SameTry(t)
<1>1. /\ t = <<t[1], t[2]>> /\ t[1] \in Invocations
      /\ pc'[i] = p /\ \A j \in Invocations \ {i} : pc'[j] = pc[j]
  BY TicketsAre DEF Tries, Moves, TwiceInv, RoutingInv, CallersOK
<1>2. CASE t[1] # i
  BY <1>1, <1>2 DEF SameTry, SamePlace, At, Tries, Moves
<1>3. CASE t[1] = i
  <2>1. \A place \in Busy : ~At(t, {place}) /\ ~At(t, {place})'
    BY <1>1, <1>3 DEF At, Tries, Moves
  <2>2. SamePlace(t)
    BY <2>1 DEF SamePlace, Busy
  <2>3. /\ pc'[i] # "idle"
        /\ t[2] \in todo'[i] => t[2] \in todo[i] \/ pc[i] = "idle"
    BY <1>1 DEF Tries
  <2> QED
    BY <1>3, <2>2, <2>3 DEF SameTry
<1> QED
  BY <1>2, <1>3

\* A caller between two seats, and one that has a seat.
LEMMA OthersSteady ==
    ASSUME TwiceInv, NEW i \in Invocations, NEW s, NEW p, Tries(i, s, p),
           NEW t \in Tickets, t # <<i, s>> \/ (pc[i] \notin Busy /\ p \notin Busy), Left(t)
    PROVE  Fresh(t)' /\ Bill(t) <= Bill(t)'
<1>1. Fresh(t)' /\ Bill(t)' = Bill(t)
  BY OthersTry, FreshLeft
<1>2. Bill(t) \in Nat
  BY BillIs DEF TwiceInv
<1> QED
  BY <1>1, <1>2

LEMMA IdleSteady ==
    ASSUME TwiceInv, NEW i \in Invocations, NEW p, Tries(i, NoSeat, p),
           pc[i] \notin Busy, p \notin Busy, UNCHANGED <<jobs, answers, live>>
    PROVE  Steady
BY OthersSteady DEF Left, Steady

\* The registry's side of a caller's step.
LEMMA ReserveSpends ==
    ASSUME TwiceInv, NEW t \in Tickets, ReserveSeatBudget(t)
    PROVE  UNCHANGED <<jobs, answers, live, probe>> /\ Keeping
<1> USE TwiceIs
<1> DEFINE s == SeatOf(t)
<1>1. s \in Seats
  BY TicketsAre
<1>2. /\ ReclaimedSeats \in [Seats -> SeatRecord]
      /\ \A r \in Seats : /\ ReclaimedSeats[r].spent \in Nat
                          /\ ReclaimedSeats[r].spent <= seats[r].spent
  BY ReclaimedType, ReclaimedSpends
<1>3. /\ Reserved(ReclaimedSeats[s], period).spent <= ReclaimedSeats[s].spent
      /\ Roll(ReclaimedSeats[s], period).spent <= ReclaimedSeats[s].spent
      /\ Reserved(ReclaimedSeats[s], period).spent \in Nat
      /\ Roll(ReclaimedSeats[s], period).spent \in Nat
  BY <1>1, <1>2, ReservedSpends, ReservedType, RollSpends DEF SeatRecord
<1>4. /\ UNCHANGED <<jobs, answers, live, probe>>
      /\ \E r : /\ seats' = [ReclaimedSeats EXCEPT ![s] = r]
                /\ \/ r = ReclaimedSeats[s] \/ r = Reserved(ReclaimedSeats[s], period)
                   \/ r = Roll(ReclaimedSeats[s], period)
  BY <1>1, <1>2 DEF ReserveSeatBudget
<1> HIDE DEF s
<1>5. \A r \in Contributors : Spends(r, 0)
  <2>1. PICK r : /\ seats' = [ReclaimedSeats EXCEPT ![s] = r]
                 /\ \/ r = ReclaimedSeats[s] \/ r = Reserved(ReclaimedSeats[s], period)
                    \/ r = Roll(ReclaimedSeats[s], period)
    BY <1>4
  <2>2. r.spent \in Nat /\ r.spent <= ReclaimedSeats[s].spent
    BY <1>1, <1>2, <1>3, <2>1
  <2>3. seats'[s] = r /\ \A q \in Seats \ {s} : seats'[q] = ReclaimedSeats[q]
    BY <1>1, <1>2, <2>1
  <2> QED
    BY <1>2, <2>2, <2>3 DEF Spends
<1> QED
  BY <1>4, <1>5 DEF Keeping

LEMMA ReconcileSpends ==
    ASSUME TwiceInv, NEW t \in Tickets, NEW c \in Nat, ReconcileSeatBudget(t, c)
    PROVE  /\ UNCHANGED <<jobs, answers, live, probe>>
           /\ \A s \in Contributors \ {SeatOf(t)} : Spends(s, 0)
           /\ SeatOf(t) \in Contributors => Spends(SeatOf(t), c)
<1> USE TwiceIs
<1> DEFINE s == SeatOf(t)
<1>1. s \in Seats
  BY TicketsAre
<1>2. /\ ReclaimedSeats \in [Seats -> SeatRecord]
      /\ \A r \in Seats : /\ ReclaimedSeats[r].spent \in Nat
                          /\ ReclaimedSeats[r].spent <= seats[r].spent
  BY ReclaimedType, ReclaimedSpends
<1>3. /\ Reconciled(ReclaimedSeats[s], Estimate, c, period).spent <= ReclaimedSeats[s].spent + c
      /\ Reconciled(ReclaimedSeats[s], Estimate, c, period).spent \in Nat
  BY <1>1, <1>2, ReconciledSpends, ReconciledType, EstimateAssumption DEF SeatRecord
<1>4. /\ UNCHANGED <<jobs, answers, live, probe>>
      /\ \E r : /\ seats' = [ReclaimedSeats EXCEPT ![s] = r]
                /\ \/ r = ReclaimedSeats[s]
                   \/ r = Reconciled(ReclaimedSeats[s], Estimate, c, period)
  BY <1>1, <1>2 DEF ReconcileSeatBudget
<1> HIDE DEF s
<1>5. PICK r : /\ seats' = [ReclaimedSeats EXCEPT ![s] = r]
               /\ \/ r = ReclaimedSeats[s]
                  \/ r = Reconciled(ReclaimedSeats[s], Estimate, c, period)
  BY <1>4
<1>6. r.spent \in Nat /\ r.spent <= ReclaimedSeats[s].spent + c
  BY <1>1, <1>2, <1>3, <1>5
<1>7. seats'[s] = r /\ \A q \in Seats \ {s} : seats'[q] = ReclaimedSeats[q]
  BY <1>1, <1>2, <1>5
<1>8. \A q \in Contributors \ {s} : Spends(q, 0)
  BY <1>2, <1>7 DEF Spends
<1>9. s \in Contributors => Spends(s, c)
  BY <1>2, <1>6, <1>7 DEF Spends
<1> QED
  BY <1>4, <1>8, <1>9 DEF s

\* The ticket of a caller that has a seat.
LEMMA TryingIs ==
    ASSUME TwiceInv, NEW i \in Invocations, at[i] \in Seats
    PROVE  \E s \in Seats, u \in Tickets :
               /\ s = at[i] /\ u = TicketOf(i) /\ u = <<i, s>>
               /\ u[1] = i /\ u[2] = s /\ SeatOf(u) = s
               /\ Fresh(u) /\ Bill(u) \in Nat
               /\ \A P : At(u, P) <=> pc[i] \in P
               /\ \A P : At(u, P)' <=> pc'[i] \in P /\ at'[i] = at[i]
<1>1. PICK s \in Seats, u \in Tickets : s = at[i] /\ u = <<i, s>>
  BY DEF Tickets
<1>2. u = TicketOf(i) /\ u[1] = i /\ u[2] = s /\ SeatOf(u) = s
  BY <1>1 DEF TicketOf, SeatOf
<1>3. /\ \A P : At(u, P) <=> pc[i] \in P
      /\ \A P : At(u, P)' <=> pc'[i] \in P /\ at'[i] = at[i]
  BY <1>1, <1>2 DEF At
<1>4. Fresh(u) /\ Bill(u) \in Nat
  BY <1>1, BillIs DEF TwiceInv
<1> QED
  BY <1>1, <1>2, <1>3, <1>4

LEMMA ReserveSteady ==
    ASSUME TwiceInv, NEW i \in Invocations, NEW s \in Seats, Reserve(i, s)
    PROVE  Steady /\ Keeping
<1> DEFINE u == <<i, s>>
           p == IF leases'[u].status = "reserved" THEN "invoke" ELSE "next"
<1>1. /\ pc[i] = "next" /\ pc' = [pc EXCEPT ![i] = p] /\ s \in todo[i]
      /\ at' = [at EXCEPT ![i] = s] /\ todo' = [todo EXCEPT ![i] = @ \ {s}]
      /\ outcome' = outcome /\ u \in Tickets /\ SeatOf(u) = s /\ ReserveSeatBudget(u)
  BY DEF Reserve, Goes, Tickets, SeatOf
<1>2. /\ p \in {"invoke", "next"} /\ u[1] = i /\ u[2] = s
      /\ pc'[i] = p /\ at'[i] = s /\ todo'[i] = todo[i] \ {s}
      /\ \A j \in Invocations \ {i} : at'[j] = at[j] /\ todo'[j] = todo[j]
  BY <1>1 DEF TwiceInv, RoutingInv, CallersOK
<1>3. UNCHANGED <<jobs, answers, live>> /\ Keeping
  BY <1>1, ReserveSpends
<1> HIDE DEF p
<1>4. Tries(i, s, p)
  BY <1>1, <1>2 DEF Tries, Moves, Busy
<1>5. \A t \in Tickets \ {u} : Fresh(t)' /\ Bill(t) <= Bill(t)'
  BY <1>3, <1>4, OthersSteady DEF Left
<1>6. Fresh(u) /\ jobs[u].status = "none" /\ jobs[u].cost = Unreported /\ u \notin live
  BY <1>1, <1>2 DEF TwiceInv, Fresh
<1>7. /\ ~At(u, {"waiting"}) /\ ~At(u, {"settle"})
      /\ ~At(u, {"waiting"})' /\ ~At(u, {"settle"})'
  BY <1>1, <1>2 DEF At
<1>8. Bill(u) = 0 /\ Bill(u)' = 0
  BY <1>3, <1>6 DEF Bill, CostOf
<1>9. Fresh(u)'
  BY <1>2, <1>3, <1>6, <1>7 DEF Fresh, Settling, SeatOf
<1>10. Bill(u) <= Bill(u)'
  BY <1>8
<1> QED
  BY <1>3, <1>5, <1>9, <1>10 DEF Steady

LEMMA InvokeSteady ==
    ASSUME TwiceInv, NEW i \in Invocations, Invoke(i)
    PROVE  Steady /\ Keeping
<1> USE TwiceIs
<1>1. /\ pc[i] = "invoke" /\ pc' = [pc EXCEPT ![i] = "waiting"] /\ at[i] \in Contributors
      /\ at' = at /\ outcome' = outcome /\ todo' = todo
      /\ \E same \in BOOLEAN : InvokeContributor(TicketOf(i), same)
  BY DEF Invoke, Goes
<1>2. PICK s \in Seats, u \in Tickets :
         /\ s = at[i] /\ u = TicketOf(i) /\ u = <<i, s>>
         /\ u[1] = i /\ u[2] = s /\ SeatOf(u) = s
         /\ Fresh(u) /\ Bill(u) \in Nat
         /\ \A P : At(u, P) <=> pc[i] \in P
         /\ \A P : At(u, P)' <=> pc'[i] \in P /\ at'[i] = at[i]
  BY <1>1, TryingIs
<1>3. pc'[i] = "waiting" /\ s \in Contributors
  BY <1>1, <1>2 DEF TwiceInv, RoutingInv, CallersOK
<1>4. /\ jobs[u].status = "none" /\ jobs[u].cost = Unreported /\ u \notin live
      /\ s \notin todo[i]
  BY <1>1, <1>2 DEF Fresh
<1>5. /\ UNCHANGED seats
      /\ \/ UNCHANGED <<jobs, live>>
         \/ jobs' = [jobs EXCEPT ![u].status = "pending"] /\ live' = live \cup {u}
      /\ \A t \in Tickets \ {u} : answers'[t] = answers[t]
  BY <1>1, <1>2, <1>4 DEF InvokeContributor, TypeOK
<1>6. /\ jobs'[u].cost = Unreported
      /\ jobs'[u].status = "pending" \/ (jobs'[u].status = "none" /\ u \notin live')
      /\ \A t \in Tickets \ {u} : jobs'[t] = jobs[t] /\ (t \in live' => t \in live)
  <2>1. CASE UNCHANGED <<jobs, live>>
    BY <1>4, <2>1
  <2>2. CASE jobs' = [jobs EXCEPT ![u].status = "pending"] /\ live' = live \cup {u}
    <3>1. jobs'[u] = [jobs[u] EXCEPT !.status = "pending"] /\ jobs[u] \in JobRecord
      BY <2>2 DEF TypeOK
    <3>2. jobs'[u].status = "pending" /\ jobs'[u].cost = Unreported
      BY <1>4, <3>1 DEF JobRecord
    <3> QED
      BY <2>2, <3>2 DEF TypeOK
  <2> QED
    BY <1>5, <2>1, <2>2
<1>7. Tries(i, s, "waiting")
  BY <1>1, <1>2, <1>3 DEF Tries, Moves
<1>8. \A t \in Tickets \ {u} : Fresh(t)' /\ Bill(t) <= Bill(t)'
  BY <1>2, <1>5, <1>6, <1>7, OthersSteady DEF Left
<1>9. ~At(u, {"invoke"})' /\ ~At(u, {"settle"})' /\ pc'[i] # "idle"
  BY <1>2, <1>3
<1>10. Fresh(u)'
  BY <1>1, <1>2, <1>3, <1>4, <1>6, <1>9 DEF Fresh, Settling, SeatOf
<1>11. Bill(u) = 0 /\ Bill(u)' = 0
  BY <1>4, <1>6 DEF Bill, CostOf
<1>12. Bill(u) <= Bill(u)'
  BY <1>11
<1>13. Keeping
  BY <1>5, SameSpent
<1> QED
  BY <1>8, <1>10, <1>12, <1>13 DEF Steady

\* A cost a caller learns of a contributor is the ledger's.
LEMMA LearnSteady ==
    ASSUME TwiceInv, RoutingInv', NEW i \in Invocations, NEW from \in Busy \ {"settle"},
           NEW answer, Learns(i, from, answer), at[i] \in Seats,
           at[i] \in Contributors /\ answer.cost # Unreported =>
                from = "waiting" /\ answer = answers[TicketOf(i)] /\ answer.status # "none"
    PROVE  Steady /\ Keeping
<1> USE TwiceIs
<1>1. /\ pc[i] = from /\ pc' = [pc EXCEPT ![i] = "settle"]
      /\ at' = at /\ todo' = todo /\ outcome' = [outcome EXCEPT ![i] = answer]
      /\ UNCHANGED <<seats, jobs, live, answers>>
  BY DEF Learns, Goes, vars
<1>2. PICK s \in Seats, u \in Tickets :
         /\ s = at[i] /\ u = TicketOf(i) /\ u = <<i, s>>
         /\ u[1] = i /\ u[2] = s /\ SeatOf(u) = s
         /\ Fresh(u) /\ Bill(u) \in Nat
         /\ \A P : At(u, P) <=> pc[i] \in P
         /\ \A P : At(u, P)' <=> pc'[i] \in P /\ at'[i] = at[i]
  BY TryingIs
<1>3. /\ pc'[i] = "settle" /\ outcome'[i] = answer
      /\ \A j \in Invocations \ {i} : outcome'[j] = outcome[j]
  BY <1>1 DEF TwiceInv, RoutingInv, CallersOK
<1>4. Tries(i, s, "settle")
  BY <1>1, <1>2, <1>3 DEF Tries, Moves
<1>5. \A t \in Tickets \ {u} : Fresh(t)' /\ Bill(t) <= Bill(t)'
  BY <1>1, <1>2, <1>4, OthersSteady DEF Left
<1>6. /\ At(u, {"settle"})' /\ ~At(u, {"settle"})
      /\ ~At(u, {"invoke"})' /\ ~At(u, {"waiting"})' /\ pc[i] # "idle" /\ pc'[i] # "idle"
  BY <1>1, <1>2, <1>3 DEF Busy
<1>7. (Settling(u)' <=> answer.cost # Unreported) /\ ~Told(u)' /\ ~Settling(u)
  BY <1>2, <1>3, <1>6 DEF Settling, Told
<1>8. s \in Contributors /\ answer.cost # Unreported => Told(u) /\ jobs[u].cost = answer.cost
  <2>1. SUFFICES ASSUME s \in Contributors, answer.cost # Unreported
                 PROVE  Told(u) /\ jobs[u].cost = answer.cost
    OBVIOUS
  <2>2. from = "waiting" /\ answer = answers[u] /\ answer.status # "none"
    BY <1>2, <2>1
  <2>3. Told(u)
    BY <1>1, <1>2, <2>1, <2>2 DEF Told
  <2>4. answers[u].status \in {"ok", "failure"}
    BY <2>2 DEF TypeOK, Answer
  <2> QED
    BY <2>1, <2>2, <2>3, <2>4 DEF AnswersMatchLedger
<1>9. Fresh(u)'
  BY <1>1, <1>2, <1>3, <1>6, <1>7, <1>8 DEF Fresh, SeatOf
<1>10. Bill(u) <= Bill(u)'
  <2>1. Bill(u)' \in Nat
    BY BillIsNext
  <2>2. CASE Told(u)
    <3>1. Bill(u) = 0
      BY <2>2 DEF Bill, Outstanding
    <3> QED
      BY <2>1, <3>1
  <2>3. CASE s \notin Contributors
    <3>1. jobs[u].cost = Unreported
      BY <1>2, <2>3 DEF Fresh, TypeOK, JobRecord
    <3>2. Bill(u) = 0
      BY <3>1 DEF Bill, CostOf
    <3> QED
      BY <2>1, <3>2
  <2>4. CASE answer.cost = Unreported /\ ~Told(u)
    <3>1. Bill(u)' = CostOf(jobs[u]) /\ Bill(u) = CostOf(jobs[u])
      BY <1>1, <1>7, <2>4 DEF Bill, Outstanding
    <3> QED
      BY <1>2, <3>1
  <2> QED
    BY <1>8, <2>2, <2>3, <2>4
<1>11. Keeping
  BY <1>1, SameSpent
<1> QED
  BY <1>5, <1>9, <1>10, <1>11 DEF Steady

\* A reconciliation, or one whose call is lost, bills what the caller learned.
LEMMA SettleSpends ==
    ASSUME TwiceInv, RoutingInv', NEW i \in Invocations, Settle(i) \/ SettleDropped(i)
    PROVE  Steady /\ Spending
<1> USE TwiceIs
<1> PICK c : c = CostOf(outcome[i])
  OBVIOUS
<1>1. /\ pc[i] = "settle" /\ at' = at /\ todo' = todo /\ outcome' = outcome
      /\ \E p \in {"seat", "downgrade", "failed"} : pc' = [pc EXCEPT ![i] = p]
      /\ ReconcileSeatBudget(TicketOf(i), c) \/ UNCHANGED vars
  BY DEF Settle, SettleDropped, Goes, Drops
<1>2. at[i] \in Seats /\ outcome[i].cost \in Reportable
  BY <1>1 DEF TwiceInv, RoutingInv, CallersOK
<1>3. PICK s \in Seats, u \in Tickets :
         /\ s = at[i] /\ u = TicketOf(i) /\ u = <<i, s>>
         /\ u[1] = i /\ u[2] = s /\ SeatOf(u) = s
         /\ Fresh(u) /\ Bill(u) \in Nat
         /\ \A P : At(u, P) <=> pc[i] \in P
         /\ \A P : At(u, P)' <=> pc'[i] \in P /\ at'[i] = at[i]
  BY <1>2, TryingIs
<1>4. PICK p \in {"seat", "downgrade", "failed"} : pc' = [pc EXCEPT ![i] = p] /\ pc'[i] = p
  BY <1>1 DEF TwiceInv, RoutingInv, CallersOK
<1>5. /\ c \in Nat
      /\ outcome[i].cost # Unreported => c = outcome[i].cost
      /\ outcome[i].cost = Unreported => c = 0
  BY <1>2, SeatsAssumption DEF CostOf, Reportable
<1>6. /\ UNCHANGED <<jobs, answers, live>>
      /\ \A r \in Contributors \ {s} : Spends(r, 0)
      /\ s \in Contributors => Spends(s, c)
  <2>1. CASE ReconcileSeatBudget(TicketOf(i), c)
    BY <1>3, <1>5, <2>1, ReconcileSpends
  <2>2. CASE UNCHANGED vars
    <3>1. seats' = seats /\ UNCHANGED <<jobs, answers, live>>
      BY <2>2 DEF vars
    <3>2. \A r \in Contributors : seats[r].spent <= seats[r].spent + 0
      OBVIOUS
    <3>3. s \in Contributors => seats[s].spent <= seats[s].spent + c
      BY <1>5
    <3> QED
      BY <3>1, <3>2, <3>3 DEF Spends
  <2> QED
    BY <1>1, <2>1, <2>2
<1>7. Tries(i, s, p)
  BY <1>1, <1>3, <1>4 DEF Tries, Moves, Busy
<1>8. \A t \in Tickets \ {u} : Fresh(t)' /\ Bill(t) <= Bill(t)'
  BY <1>3, <1>6, <1>7, OthersSteady DEF Left
<1>9. /\ At(u, {"settle"}) /\ ~At(u, {"waiting"})
      /\ ~At(u, {"invoke"})' /\ ~At(u, {"waiting"})' /\ ~At(u, {"settle"})'
      /\ pc[i] # "idle" /\ pc'[i] # "idle"
  BY <1>1, <1>3, <1>4
<1>10. Fresh(u)'
  BY <1>1, <1>3, <1>6, <1>9 DEF Fresh, Settling, SeatOf
<1>11. Bill(u)' = CostOf(jobs[u]) /\ Bill(u)' \in Nat
  BY <1>6, <1>9, BillIsNext DEF Bill, Outstanding, Told, Settling
<1>12. Bill(u) <= Bill(u)' /\ (s \in Contributors => Bill(u) + c <= Bill(u)')
  <2>1. CASE outcome[i].cost # Unreported
    <3>1. Settling(u)
      BY <1>3, <1>9, <2>1 DEF Settling
    <3>2. Bill(u) = 0
      BY <3>1 DEF Bill, Outstanding
    <3>3. s \in Contributors => jobs[u].cost = c
      BY <1>3, <1>5, <2>1, <3>1 DEF Fresh
    <3>4. c # Unreported
      BY <1>5, <2>1
    <3>5. s \in Contributors => Bill(u)' = c
      BY <1>11, <3>3, <3>4 DEF CostOf
    <3> QED
      BY <1>5, <1>11, <3>2, <3>5
  <2>2. CASE outcome[i].cost = Unreported
    <3>1. ~Settling(u) /\ ~Told(u)
      BY <1>3, <1>9, <2>2 DEF Settling, Told
    <3>2. Bill(u) = CostOf(jobs[u])
      BY <3>1 DEF Bill, Outstanding
    <3>3. Bill(u) = Bill(u)'
      BY <1>11, <3>2
    <3> QED
      BY <1>3, <1>5, <2>2, <3>3
  <2> QED
    BY <2>1, <2>2
<1>13. Spending
  <2>1. CASE s \in Contributors
    BY <1>3, <1>5, <1>6, <1>12, <2>1 DEF Spending
  <2>2. CASE s \notin Contributors
    BY <1>6, <2>2 DEF Spending, Keeping
  <2> QED
    BY <2>1, <2>2
<1> QED
  BY <1>8, <1>10, <1>12, <1>13 DEF Steady

LEMMA IdleSpends ==
    ASSUME TwiceInv, NEW i \in Invocations,
           \/ Start(i) \/ StartDropped(i) \/ NoSeatLeft(i) \/ CallFallback(i)
           \/ Downgrade(i) \/ DowngradeDropped(i)
           \/ \E s \in Seats : ReserveDropped(i, s)
    PROVE  Steady /\ Keeping /\ probe' = probe
<1> USE TwiceIs
<1>1. PICK p \in {"next", "stretched", "fallback", "api", "failed"} :
          pc' = [pc EXCEPT ![i] = p] /\ pc[i] \in {"idle", "next", "downgrade", "fallback"}
  BY DEF Start, StartDropped, NoSeatLeft, CallFallback, Downgrade, DowngradeDropped,
         ReserveDropped, Goes
<1>2. /\ outcome' = outcome
      /\ \A j \in Invocations \ {i} : at'[j] = at[j] /\ todo'[j] = todo[j]
      /\ pc[i] # "idle" => todo'[i] \subseteq todo[i]
  <2>1. CASE Start(i)
    <3>1. /\ outcome' = outcome /\ at' = [at EXCEPT ![i] = NoSeat] /\ pc[i] = "idle"
          /\ \E C \in SUBSET Seats : todo' = [todo EXCEPT ![i] = C]
      BY <2>1 DEF Start, Goes
    <3> QED
      BY <3>1 DEF TwiceInv, RoutingInv, CallersOK
  <2>2. CASE ~Start(i)
    BY <2>2 DEF StartDropped, NoSeatLeft, CallFallback, Downgrade, DowngradeDropped, ReserveDropped
  <2> QED
    BY <2>1, <2>2
<1>3. Tries(i, NoSeat, p) /\ pc[i] \notin Busy /\ p \notin Busy
  BY <1>1, <1>2 DEF Tries, Moves, Busy
<1>4. UNCHANGED <<jobs, answers, live, probe>> /\ Keeping
  <2>1. CASE UNCHANGED vars
    <3>1. seats' = seats /\ UNCHANGED <<jobs, answers, live, probe>>
      BY <2>1 DEF vars
    <3> QED
      BY <3>1, SameSpent
  <2>2. CASE \E s \in Seats : ReserveSeatBudget(<<i, s>>)
    BY <2>2, ReserveSpends DEF Tickets
  <2>3. CASE MarkSeatUnhealthy(at[i])
    <3>1. \A r \in Contributors : seats'[r].spent = seats[r].spent
      BY <2>3 DEF MarkSeatUnhealthy, TypeOK, SeatRecord
    <3> QED
      BY <2>3, <3>1, SameSpent DEF MarkSeatUnhealthy
  <2> QED
    BY <2>1, <2>2, <2>3 DEF Start, StartDropped, NoSeatLeft, CallFallback, Downgrade,
                            DowngradeDropped, ReserveDropped, Drops
<1> QED
  BY <1>1, <1>3, <1>4, IdleSteady

LEMMA LearnSpends ==
    ASSUME TwiceInv, RoutingInv', NEW i \in Invocations,
           Hear(i) \/ InvokeAborted(i) \/ InvokeDropped(i) \/ CallProvider(i)
    PROVE  Steady /\ Keeping
<1>1. \A retryable : Failure(Unreported, retryable).cost = Unreported
  BY DEF Failure
<1>2. pc[i] \in Busy => at[i] \in Seats
  BY DEF TwiceInv, RoutingInv, CallersOK, Busy
<1>3. "waiting" \in Busy \ {"settle"} /\ "invoke" \in Busy \ {"settle"}
  BY DEF Busy
<1>4. CASE Hear(i)
  BY <1>2, <1>3, <1>4, LearnSteady DEF Hear
<1>5. CASE InvokeAborted(i)
  BY <1>1, <1>2, <1>3, <1>5, LearnSteady DEF InvokeAborted
<1>6. CASE InvokeDropped(i)
  <2>1. PICK from \in {"invoke", "waiting"}, retryable \in BOOLEAN :
            Learns(i, from, Failure(Unreported, retryable)) /\ at[i] \in Contributors
    BY <1>6 DEF InvokeDropped
  <2>2. from \in Busy \ {"settle"} /\ at[i] \in Seats
    BY <1>3, <2>1, SeatsAssumption
  <2> QED
    BY <1>1, <2>1, <2>2, LearnSteady
<1>7. CASE CallProvider(i)
  <2>1. PICK answer : Learns(i, "invoke", answer) /\ at[i] \in Seats \ Contributors
    BY <1>7 DEF CallProvider
  <2> QED
    BY <1>3, <2>1, LearnSteady
<1> QED
  BY <1>4, <1>5, <1>6, <1>7

LEMMA CallerSpends ==
    ASSUME "crash" \notin Faults, TwiceInv, RoutingInv', NEW i \in Invocations,
           Work(i) \/ Faulty(i)
    PROVE  Steady /\ Spending /\ probe' = probe
<1>1. Keeping => Spending
  BY DEF Spending
<1>2. CASE Start(i) \/ NoSeatLeft(i) \/ CallFallback(i) \/ Downgrade(i)
           \/ StartDropped(i) \/ DowngradeDropped(i) \/ \E s \in Seats : ReserveDropped(i, s)
  BY <1>1, <1>2, IdleSpends
<1>3. CASE Hear(i) \/ InvokeAborted(i) \/ InvokeDropped(i) \/ CallProvider(i)
  <2>1. UNCHANGED vars
    BY <1>3 DEF Hear, InvokeAborted, InvokeDropped, CallProvider, Learns
  <2> QED
    BY <1>1, <1>3, <2>1, LearnSpends DEF vars
<1>4. CASE Settle(i) \/ SettleDropped(i)
  BY <1>4, SettleSpends DEF Settle, SettleDropped, Drops, ReconcileSeatBudget, vars
<1>5. CASE Invoke(i)
  BY <1>1, <1>5, InvokeSteady DEF Invoke, InvokeContributor
<1>6. CASE \E s \in Seats : Reserve(i, s)
  BY <1>1, <1>6, ReserveSteady DEF Reserve, ReserveSeatBudget
<1>7. ~Crash(i)
  BY DEF Crash
<1> QED
  BY <1>2, <1>3, <1>4, <1>5, <1>6, <1>7 DEF Work, Faulty

\* No account outgrows its bills.
LEMMA AccountsFollow ==
    ASSUME TwiceInv, RoutingInv', Steady, Spending, NEW s \in Contributors
    PROVE  seats'[s].spent <= Billed(s)'
<1>1. /\ seats[s].spent \in Nat /\ seats[s].spent <= Billed(s) /\ RoutingInv
  BY TwiceIs DEF TwiceInv
<1>2. seats'[s].spent \in Nat
  BY SeatsAssumption DEF RoutingInv, TypeOK, SeatRecord
<1>3. \A t \in TicketsOf(s) : Bill(t) <= Bill(t)'
  BY DEF Steady, TicketsOf
<1>4. Billed(s) \in Nat /\ Billed(s)' \in Nat /\ Billed(s) <= Billed(s)'
  BY <1>1, <1>3, BilledGrows
<1>5. CASE Spends(s, 0)
  BY <1>1, <1>2, <1>4, <1>5 DEF Spends
<1>6. ASSUME NEW u \in Tickets, NEW c \in Nat, SeatOf(u) = s, Bill(u) + c <= Bill(u)',
             Spends(s, c)
      PROVE  seats'[s].spent <= Billed(s)'
  <2>1. u \in TicketsOf(s)
    BY <1>6 DEF TicketsOf
  <2>2. Billed(s) + c <= Billed(s)'
    BY <1>1, <1>3, <1>6, <2>1, BilledGrowsBy
  <2> QED
    BY <1>1, <1>2, <1>4, <1>6, <2>2 DEF Spends
<1> QED
  BY <1>5, <1>6 DEF Spending, Keeping

LEMMA TwiceStep ==
    ASSUME "crash" \notin Faults, RefreshesRun, TwiceInv, [RoutingNext]_allvars
    PROVE  TwiceInv'
<1>1. RoutingInv' /\ JobsInv'
  BY RoutingInvStep, CallsAllowed, LedgersStep DEF TwiceInv
<1>2. ASSUME Steady, Spending, probe'.kind = "register" => probe'.asked \cap Contributors = {}
      PROVE  TwiceInv'
  BY <1>1, <1>2, AccountsFollow DEF TwiceInv, Steady
<1>3. CASE UNCHANGED allvars
  <2>1. UNCHANGED <<vars, callers>>
    BY <1>3 DEF allvars
  <2>2. \A t \in Tickets : Left(t) /\ SameTry(t)
    BY <2>1 DEF Left, SameTry, SamePlace, At, vars, callers
  <2>3. \A t \in Tickets : Fresh(t)' /\ Bill(t)' = Bill(t) /\ Bill(t) \in Nat
    BY <2>2, FreshLeft, BillIs DEF TwiceInv
  <2>4. Steady
    BY <2>3 DEF Steady
  <2>5. Spending
    BY <2>1, SameSpent DEF Spending, vars
  <2> QED
    BY <1>2, <2>1, <2>4, <2>5 DEF TwiceInv, vars
<1>4. CASE Environment /\ UNCHANGED callers
  BY <1>1, <1>2, <1>4, RegistrySpends, EnvironmentProbes
<1>5. ASSUME NEW i \in Invocations, Work(i) \/ Faulty(i)
      PROVE  TwiceInv'
  <2>1. Steady /\ Spending /\ probe' = probe
    BY <1>1, <1>5, CallerSpends
  <2> QED
    BY <1>2, <2>1 DEF TwiceInv
<1> QED
  BY <1>3, <1>4, <1>5 DEF RoutingNext

LEMMA TwiceInit == RoutingInit => TwiceInv
<1> SUFFICES ASSUME RoutingInit PROVE TwiceInv
  OBVIOUS
<1>1. RoutingInv /\ JobsInv
  BY RoutingInvInit, JobsInit DEF RoutingInit
<1>2. /\ seats = NoSeats /\ jobs = NoJobs /\ live = {} /\ probe = NoProbe
      /\ pc = [i \in Invocations |-> "idle"] /\ todo = [i \in Invocations |-> {}]
  BY DEF RoutingInit, Init
<1>3. \A t \in Tickets : /\ \A P : At(t, P) => "idle" \in P
                         /\ jobs[t] = NoJob
  BY <1>2, TicketsAre DEF At, NoJobs
<1>4. \A t \in Tickets : Fresh(t)
  BY <1>2, <1>3 DEF Fresh, Settling, NoJob
<1>5. \A t \in Tickets : Bill(t) = 0
  BY <1>3 DEF Bill, CostOf, NoJob
<1>6. ASSUME NEW s \in Contributors PROVE seats[s].spent <= Billed(s)
  <2>1. Billed(s) = 0
    <3>1. \A t \in TicketsOf(s) : [u \in TicketsOf(s) |-> Bill(u)][t] = 0
      BY <1>5 DEF TicketsOf
    <3> QED
      BY <3>1, TicketsAre, TotalZero DEF Billed
  <2>2. seats[s] = Unregistered
    BY <1>2, SeatsAssumption DEF NoSeats
  <2> QED
    BY <2>1, <2>2 DEF Unregistered
<1> QED
  BY <1>1, <1>2, <1>4, <1>6 DEF TwiceInv, NoProbe

\* Once all decisions are made, no seat has spent more than its contributor
\* reported: even where calls and replies are lost, the registry restarts,
\* reservations go stale, seats are removed and months turn,
\* reconcileSeatBudget and billLateContributorUsage never bill the same usage.
\* A session that crashes is excluded, for its second run reconciles what a
\* late report has billed.
THEOREM UsageIsNeverBilledTwice ==
    ASSUME "crash" \notin Faults, RefreshesRun
    PROVE  RoutingSpec => []NeverBilledTwice
<1>1. ASSUME TwiceInv PROVE NeverBilledTwice
  BY <1>1, QuietReports DEF NeverBilledTwice, TwiceInv
<1> QED
  BY <1>1, TwiceInit, TwiceStep, PTL DEF RoutingSpec
=============================================================================
