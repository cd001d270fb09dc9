------------------------- MODULE SeatRegistryProofs -------------------------
(***************************************************************************)
(* Theorems about the seat registry, for any number of seats, invocations  *)
(* and connections, any budget and any costs.                              *)
(***************************************************************************)
EXTENDS SeatRegistry, FiniteSetTheorems, TLAPS

(* The arithmetic of the accounts stays within the seat records. *)

LEMMA MonusType ==
    ASSUME NEW a \in Nat, NEW b \in Nat
    PROVE  Monus(a, b) \in Nat /\ Monus(a, b) <= a
BY DEF Monus

LEMMA RollType ==
    ASSUME NEW r \in SeatRecord, NEW p \in Nat
    PROVE  /\ Roll(r, p) \in SeatRecord
           /\ Roll(r, p).registered = r.registered
           /\ Roll(r, p).reserved \in {0, r.reserved}
<1>1. CASE r.period = p
  BY <1>1 DEF Roll
<1>2. CASE r.period # p
  <2> DEFINE q == [r EXCEPT !.period = p, !.spent = 0, !.reserved = 0,
                            !.exhausted = FALSE]
  <2>1. Roll(r, p) = q
    BY <1>2 DEF Roll
  <2>2. q \in SeatRecord
    BY DEF SeatRecord
  <2>3. q.registered = r.registered /\ q.reserved = 0
    BY DEF SeatRecord
  <2> QED
    BY <2>1, <2>2, <2>3
<1> QED
  BY <1>1, <1>2

LEMMA ReservedType ==
    ASSUME NEW r \in SeatRecord, NEW p \in Nat
    PROVE  /\ Reserved(r, p) \in SeatRecord
           /\ Reserved(r, p).registered = r.registered
           /\ Reserved(r, p).reserved <= r.reserved + Estimate
<1> DEFINE q == Roll(r, p)
           full == Budget <= q.spent + q.reserved + Estimate
           f == [q EXCEPT !.reserved = q.reserved + Estimate,
                          !.exhausted = full]
<1>1. /\ q \in SeatRecord /\ q.registered = r.registered
      /\ q.reserved \in {0, r.reserved}
  BY RollType
<1>2. /\ q.reserved \in Nat /\ r.reserved \in Nat
      /\ q.reserved + Estimate \in Nat /\ q.reserved <= r.reserved
  BY <1>1, EstimateAssumption DEF SeatRecord
<1>3. full \in BOOLEAN
  OBVIOUS
<1>4. Reserved(r, p) = f
  BY DEF Reserved
<1> HIDE DEF q, full
<1>5. PICK sum \in Nat, e \in BOOLEAN : sum = q.reserved + Estimate /\ e = full
  BY <1>2, <1>3
<1>6. f = [q EXCEPT !.reserved = sum, !.exhausted = e]
  BY <1>5
<1>7. [q EXCEPT !.reserved = sum, !.exhausted = e] \in SeatRecord
  BY <1>1 DEF SeatRecord
<1>8. f.registered = q.registered /\ f.reserved = sum
  BY <1>1, <1>6 DEF SeatRecord
<1> QED
  BY <1>1, <1>2, <1>4, <1>5, <1>6, <1>7, <1>8, EstimateAssumption

LEMMA ReconciledType ==
    ASSUME NEW r \in SeatRecord, NEW held \in Nat, NEW cost \in Nat, NEW p \in Nat
    PROVE  /\ Reconciled(r, held, cost, p) \in SeatRecord
           /\ Reconciled(r, held, cost, p).registered = r.registered
           /\ Reconciled(r, held, cost, p).reserved <= Monus(r.reserved, held)
<1> DEFINE q == Roll(r, p)
           left == Monus(q.reserved, held)
           full == Budget <= q.spent + cost + left
           f == [q EXCEPT !.reserved = left, !.spent = q.spent + cost,
                          !.exhausted = full]
<1>1. /\ q \in SeatRecord /\ q.registered = r.registered
      /\ q.reserved \in {0, r.reserved}
  BY RollType
<1>2. q.reserved \in Nat /\ r.reserved \in Nat /\ q.spent + cost \in Nat
  BY <1>1 DEF SeatRecord
<1>3. left \in Nat /\ left <= Monus(r.reserved, held)
  BY <1>1, <1>2 DEF Monus
<1>4. full \in BOOLEAN
  OBVIOUS
<1>5. Reconciled(r, held, cost, p) = f
  BY DEF Reconciled
<1> HIDE DEF q, left, full
<1>6. PICK sum \in Nat, l \in Nat, e \in BOOLEAN :
          sum = q.spent + cost /\ l = left /\ e = full
  BY <1>2, <1>3, <1>4
<1>7. f = [q EXCEPT !.reserved = l, !.spent = sum, !.exhausted = e]
  BY <1>6
<1>8. [q EXCEPT !.reserved = l, !.spent = sum, !.exhausted = e] \in SeatRecord
  BY <1>1 DEF SeatRecord
<1>9. f.registered = q.registered /\ f.reserved = l
  BY <1>1, <1>7 DEF SeatRecord
<1> QED
  BY <1>1, <1>3, <1>5, <1>6, <1>7, <1>8, <1>9
-----------------------------------------------------------------------------
(* The pieces the handlers are made of keep the types. *)

LEMMA StaleFinite ==
    ASSUME TypeOK, NEW s
    PROVE  IsFiniteSet(StaleOf(s)) /\ Cardinality(StaleOf(s)) \in Nat
<1>1. IsFiniteSet(Tickets)
  BY FS_Product, SeatsAssumption DEF Tickets
<1>2. StaleOf(s) \in SUBSET Tickets
  BY DEF StaleOf, TypeOK
<1> QED
  BY <1>1, <1>2, FS_Subset, FS_CardinalityType

LEMMA ReclaimedType ==
    ASSUME TypeOK
    PROVE  /\ ReclaimedSeats \in [Seats -> SeatRecord]
           /\ \A s \in Seats :
                ReclaimedSeats[s].registered = seats[s].registered
           /\ ReclaimedLeases \in [Tickets -> LeaseRecord]
<1>1. ASSUME NEW s \in Seats
      PROVE  /\ ReclaimedSeats[s] \in SeatRecord
             /\ ReclaimedSeats[s].registered = seats[s].registered
  <2> DEFINE held == Estimate * Cardinality(StaleOf(s))
  <2>1. held \in Nat
    BY StaleFinite, EstimateAssumption
  <2>2. seats[s] \in SeatRecord /\ period \in Nat /\ 0 \in Nat
    BY DEF TypeOK
  <2> HIDE DEF held
  <2>3. /\ Reconciled(seats[s], held, 0, period) \in SeatRecord
        /\ Reconciled(seats[s], held, 0, period).registered = seats[s].registered
    BY <2>1, <2>2, ReconciledType, ZenonT(40)
  <2> QED
    BY <2>2, <2>3 DEF ReclaimedSeats, held
<1>2. ReclaimedLeases \in [Tickets -> LeaseRecord]
  BY DEF ReclaimedLeases, TypeOK, NoLease, LeaseRecord
<1> QED
  BY <1>1, <1>2 DEF ReclaimedSeats

LEMMA TimedOutType ==
    ASSUME NEW job \in JobRecord
    PROVE  /\ TimedOut(job) \in JobRecord
           /\ TimedOut(job).status # "pending"
           /\ job.status # "pending" => TimedOut(job) = job
BY DEF TimedOut, JobRecord

LEMMA AnswerType ==
    ASSUME NEW job \in JobRecord
    PROVE  Persisted(job) \in Answer /\ Lost \in Answer /\ NoAnswer \in Answer
BY DEF Persisted, Failure, Lost, NoAnswer, JobRecord, Answer

LEMMA ResumeType ==
    ASSUME TypeOK, NEW T, NEW a \in Answer, Resume(T, a)
    PROVE  live' \subseteq Tickets /\ answers' \in [Tickets -> Answer]
BY DEF Resume, TypeOK

LEMMA UncheckedType ==
    ASSUME TypeOK, NEW s \in Seats
    PROVE  Unchecked(s) \in SeatRecord
<1> DEFINE kept == IF seats[s].registered THEN seats[s]
                   ELSE [Unregistered EXCEPT !.period = period]
           r == [kept EXCEPT !.registered = TRUE, !.healthy = FALSE,
                             !.fresh = FALSE, !.conn = NoConn]
<1>1. kept \in SeatRecord
  BY DEF TypeOK, SeatRecord, Unregistered
<1>2. r \in SeatRecord
  <2> HIDE DEF kept
  <2> QED
    BY <1>1 DEF SeatRecord
<1>3. Unchecked(s) = Roll(r, period)
  BY DEF Unchecked
<1> HIDE DEF r
<1> QED
  BY <1>2, <1>3, RollType DEF TypeOK

LEMMA RefreshedType ==
    ASSUME TypeOK
    PROVE  RefreshedSeats \in [Seats -> SeatRecord]
<1> SUFFICES ASSUME NEW s \in Seats
             PROVE  RefreshedSeats[s] \in SeatRecord
  BY DEF RefreshedSeats
<1> DEFINE seat == Roll(ReclaimedSeats[s], period)
<1>1. ReclaimedSeats[s] \in SeatRecord /\ seat \in SeatRecord
  BY ReclaimedType, RollType DEF TypeOK
<1> HIDE DEF seat
<1>2. PICK up \in BOOLEAN : up = (seat.healthy /\ seat.fresh)
  OBVIOUS
<1>3. [seat EXCEPT !.healthy = up] \in SeatRecord
  BY <1>1 DEF SeatRecord
<1>4. RefreshedSeats[s] \in {ReclaimedSeats[s], seat, [seat EXCEPT !.healthy = up]}
  BY <1>2 DEF RefreshedSeats, seat
<1> QED
  BY <1>1, <1>3, <1>4

LEMMA ExpiredType ==
    ASSUME TypeOK
    PROVE  ExpiredJobs \in [Tickets -> JobRecord]
BY TimedOutType DEF ExpiredJobs, TypeOK

LEMMA NothingType ==
    /\ Unregistered \in SeatRecord /\ NoLease \in LeaseRecord
    /\ NoJob \in JobRecord /\ NoProbe \in ProbeRecord
BY DEF Unregistered, SeatRecord, NoLease, LeaseRecord, NoJob, JobRecord,
       NoProbe, ProbeRecord, NoSeats, NoLeases, NoJobs

LEMMA BillLateType ==
    ASSUME TypeOK, NEW t \in Tickets, NEW job \in JobRecord,
           NEW cost \in Costs \cup {Unreported}, BillLate(t, job, cost)
    PROVE  seats' \in [Seats -> SeatRecord] /\ jobs' \in [Tickets -> JobRecord]
<1>1. CASE /\ job.status = "failed" /\ job.cost = Unreported
           /\ cost # Unreported
  <2>1. cost \in Nat /\ 0 \in Nat /\ SeatOf(t) \in Seats
    BY <1>1, SeatsAssumption DEF Tickets, SeatOf
  <2>2. seats[SeatOf(t)] \in SeatRecord /\ period \in Nat
    BY <2>1 DEF TypeOK
  <2>3. Reconciled(seats[SeatOf(t)], 0, cost, period) \in SeatRecord
    BY <2>1, <2>2, ReconciledType, Zenon
  <2>4. seats' \in [Seats -> SeatRecord]
    BY <1>1, <2>2, <2>3 DEF BillLate, TypeOK
  <2>5. [job EXCEPT !.cost = cost] \in JobRecord
    BY <2>1 DEF JobRecord
  <2>6. jobs' \in [Tickets -> JobRecord]
    BY <1>1, <2>5 DEF BillLate, TypeOK
  <2> QED
    BY <2>4, <2>6
<1>2. CASE ~(/\ job.status = "failed" /\ job.cost = Unreported
             /\ cost # Unreported)
  BY <1>2 DEF BillLate, TypeOK
<1> QED
  BY <1>1, <1>2
-----------------------------------------------------------------------------
(* Type correctness: one step per action. *)

LEMMA TypeCalls == TypeOK /\ Calls => TypeOK'
<1> SUFFICES ASSUME TypeOK, Calls PROVE TypeOK'
  OBVIOUS
<1> USE DEF TypeOK, clock
<1>1. ASSUME NEW t \in Tickets, ReserveSeatBudget(t)
      PROVE  TypeOK'
  <2> DEFINE s == SeatOf(t)
             r == ReclaimedSeats[s]
  <2>1. s \in Seats /\ r \in SeatRecord /\ period \in Nat
    BY ReclaimedType DEF SeatOf, Tickets
  <2>2. Reserved(r, period) \in SeatRecord /\ Roll(r, period) \in SeatRecord
    BY <2>1, ReservedType, RollType
  <2>3. seats' \in [Seats -> SeatRecord]
    BY <1>1, <2>1, <2>2, ReclaimedType DEF ReserveSeatBudget
  <2>4. leases' \in [Tickets -> LeaseRecord]
    <3>1. [ReclaimedLeases[t] EXCEPT !.status = "reserved"] \in LeaseRecord
      BY ReclaimedType DEF LeaseRecord
    <3> QED
      BY <1>1, <3>1, ReclaimedType DEF ReserveSeatBudget
  <2> QED
    BY <1>1, <2>3, <2>4 DEF ReserveSeatBudget
<1>2. ASSUME NEW t \in Tickets, NEW cost \in Costs \cup {0},
             ReconcileSeatBudget(t, cost)
      PROVE  TypeOK'
  <2> DEFINE s == SeatOf(t)
             r == ReclaimedSeats[s]
  <2>1. /\ s \in Seats /\ r \in SeatRecord /\ period \in Nat
        /\ cost \in Nat /\ Estimate \in Nat
    BY ReclaimedType, SeatsAssumption, EstimateAssumption DEF SeatOf, Tickets
  <2>2. Reconciled(r, Estimate, cost, period) \in SeatRecord
    BY <2>1, ReconciledType, Zenon
  <2>3. seats' \in [Seats -> SeatRecord]
    BY <1>2, <2>1, <2>2, ReclaimedType DEF ReconcileSeatBudget
  <2>4. [status |-> "settled", cost |-> cost] \in LeaseRecord
    BY <2>1 DEF LeaseRecord
  <2>5. leases' \in [Tickets -> LeaseRecord]
    BY <1>2, <2>4, ReclaimedType DEF ReconcileSeatBudget
  <2> QED
    BY <1>2, <2>3, <2>5 DEF ReconcileSeatBudget
<1>3. ASSUME NEW t \in Tickets, NEW same \in BOOLEAN,
             InvokeContributor(t, same)
      PROVE  TypeOK'
  <2>1. /\ jobs[t] \in JobRecord /\ TimedOut(jobs[t]) \in JobRecord
        /\ [jobs[t] EXCEPT !.status = "pending"] \in JobRecord
    BY TimedOutType DEF JobRecord
  <2>2. /\ Persisted(jobs[t]) \in Answer /\ Lost \in Answer
        /\ NoAnswer \in Answer /\ Failure(Unreported, FALSE) \in Answer
        /\ Unavailable(SeatOf(t)) \in Answer
    BY <2>1, AnswerType DEF Unavailable, Failure, Answer
  <2>3. jobs' \in [Tickets -> JobRecord] /\ live' \subseteq Tickets
    BY <1>3, <2>1 DEF InvokeContributor
  <2>4. answers' \in [Tickets -> Answer]
    BY <1>3, <2>2 DEF InvokeContributor
  <2> QED
    BY <1>3, <2>3, <2>4 DEF InvokeContributor
<1>4. ASSUME NEW s \in Seats, MarkSeatUnhealthy(s)
      PROVE  TypeOK'
  <2>1. [seats[s] EXCEPT !.healthy = FALSE, !.fresh = FALSE] \in SeatRecord
    BY DEF SeatRecord
  <2> QED
    BY <1>4, <2>1 DEF MarkSeatUnhealthy
<1> QED
  BY <1>1, <1>2, <1>3, <1>4 DEF Calls

LEMMA ClosingType ==
    ASSUME bound \in [Conns -> Connection], NEW C
    PROVE  Closing(C) \in [Conns -> Connection]
BY DEF Closing, Connection

LEMMA TypeMessages == TypeOK /\ Messages => TypeOK'
<1> SUFFICES ASSUME TypeOK, NEW c \in Conns,
                    \/ Connect(c) \/ Close(c)
                    \/ \E s \in Seats :
                        \/ SeatRegister(c, s)
                        \/ \E status \in {"healthy", "unavailable", "exhausted"} :
                                Heartbeat(c, s, status)
                    \/ \E t \in Tickets, report \in Reports :
                        LateResult(c, t, report) \/ Result(c, t, report)
             PROVE  TypeOK'
  BY DEF Messages
<1> USE DEF TypeOK, clock
<1>1. CASE Connect(c)
  BY <1>1 DEF Connect, Connection
<1>2. CASE Close(c)
  <2>1. Lost \in Answer /\ \A t \in Tickets : TimedOut(jobs[t]) \in JobRecord
    BY AnswerType, NothingType, TimedOutType
  <2>2. \A s \in Seats :
            [seats[s] EXCEPT !.conn = NoConn, !.healthy = FALSE] \in SeatRecord
    BY DEF SeatRecord
  <2>3. seats' \in [Seats -> SeatRecord]
    BY <1>2, <2>2 DEF Close
  <2>4. jobs' \in [Tickets -> JobRecord] /\ bound' \in [Conns -> Connection]
    BY <1>2, <2>1 DEF Close, Connection, NoConnection
  <2>5. live' \subseteq Tickets /\ answers' \in [Tickets -> Answer]
    BY <1>2, <2>1, ResumeType DEF Close
  <2> QED
    BY <1>2, <2>3, <2>4, <2>5 DEF Close
<1>3. ASSUME NEW s \in Seats, SeatRegister(c, s)
      PROVE  TypeOK'
  <2> DEFINE kept == IF seats[s].registered THEN seats[s]
                     ELSE [Unregistered EXCEPT !.period = period]
             r == [kept EXCEPT !.registered = TRUE, !.healthy = TRUE,
                               !.fresh = TRUE, !.exhausted = FALSE, !.conn = c]
  <2>1. kept \in SeatRecord
    BY DEF SeatRecord, Unregistered
  <2>2. r \in SeatRecord
    <3> HIDE DEF kept
    <3> QED
      BY <2>1 DEF SeatRecord
  <2>3. seats' = [seats EXCEPT ![s] = Roll(r, period)]
    BY <1>3 DEF SeatRegister
  <2> HIDE DEF r
  <2>4. Roll(r, period) \in SeatRecord
    BY <2>2, RollType
  <2>5. bound' \in [Conns -> Connection]
    <3>1. bound' = [Closing(Of(s) \ {c}) EXCEPT ![c].seat = s]
      BY <1>3 DEF SeatRegister
    <3>2. Closing(Of(s) \ {c}) \in [Conns -> Connection]
      BY ClosingType
    <3> QED
      BY <3>1, <3>2 DEF Connection
  <2> QED
    BY <1>3, <2>3, <2>4, <2>5 DEF SeatRegister
<1>4. ASSUME NEW s \in Seats, NEW status, Heartbeat(c, s, status)
      PROVE  TypeOK'
  <2> DEFINE up == status = "healthy"
             full == \/ seats[s].exhausted \/ status = "exhausted"
                     \/ Budget <= seats[s].spent + seats[s].reserved
  <2>1. up \in BOOLEAN /\ full \in BOOLEAN
    OBVIOUS
  <2>2. seats' = [seats EXCEPT ![s] = [@ EXCEPT !.healthy = up, !.exhausted = full,
                                                !.fresh = TRUE]]
    BY <1>4 DEF Heartbeat
  <2> HIDE DEF up, full
  <2>3. [seats[s] EXCEPT !.healthy = up, !.exhausted = full, !.fresh = TRUE]
            \in SeatRecord
    BY <2>1 DEF SeatRecord
  <2>4. seats' \in [Seats -> SeatRecord]
    BY <2>2, <2>3
  <2> QED
    BY <1>4, <2>4 DEF Heartbeat
<1>5. ASSUME NEW t \in Tickets, NEW report \in Reports, LateResult(c, t, report)
      PROVE  TypeOK'
  <2>1. report.cost \in Costs \cup {Unreported}
    BY DEF Reports
  <2>2. TimedOut(jobs[t]) \in JobRecord /\ jobs[t] \in JobRecord
    BY TimedOutType
  <2>3. seats' \in [Seats -> SeatRecord] /\ jobs' \in [Tickets -> JobRecord]
    BY <1>5, <2>1, <2>2, BillLateType DEF LateResult
  <2>4. Persisted(jobs[t]) \in Answer /\ Lost \in Answer
    BY <2>2, AnswerType
  <2>5. live' \subseteq Tickets /\ answers' \in [Tickets -> Answer]
    BY <1>5, <2>4, ResumeType DEF LateResult
  <2> QED
    BY <1>5, <2>3, <2>5 DEF LateResult
<1>6. ASSUME NEW t \in Tickets, NEW report \in Reports, Result(c, t, report)
      PROVE  TypeOK'
  <2> DEFINE job == [status |-> IF report.kind = "decision" THEN "succeeded"
                                                            ELSE "failed",
                     cost |-> report.cost, retryable |-> report.retryable]
  <2>1. report.cost \in Nat \cup {Unreported} /\ report.retryable \in BOOLEAN
    BY SeatsAssumption DEF Reports
  <2>2. job \in JobRecord
    BY <2>1 DEF JobRecord
  <2>3. jobs' \in [Tickets -> JobRecord]
    BY <1>6, <2>2 DEF Result
  <2>4. \A s \in Seats :
            [seats[s] EXCEPT !.healthy = FALSE, !.exhausted = TRUE] \in SeatRecord
    BY DEF SeatRecord
  <2>5. seats' \in [Seats -> SeatRecord]
    BY <1>6, <2>4, ZenonT(40) DEF Result
  <2>6. live' \subseteq Tickets /\ answers' \in [Tickets -> Answer]
    BY <1>6, <2>2, AnswerType, ResumeType DEF Result
  <2> QED
    BY <1>6, <2>3, <2>5, <2>6 DEF Result
<1> QED
  BY <1>1, <1>2, <1>3, <1>4, <1>5, <1>6

LEMMA TypeTimers == TypeOK /\ (Timers \/ Restart) => TypeOK'
<1> SUFFICES ASSUME TypeOK, Timers \/ Restart PROVE TypeOK'
  OBVIOUS
<1> USE DEF TypeOK, clock
<1>1. ASSUME NEW t \in Tickets, JobTimeout(t)
      PROVE  TypeOK'
  <2>1. Lost \in Answer /\ TimedOut(jobs[t]) \in JobRecord
    BY AnswerType, NothingType, TimedOutType
  <2>2. live' \subseteq Tickets /\ answers' \in [Tickets -> Answer]
    BY <1>1, <2>1, ResumeType DEF JobTimeout
  <2> QED
    BY <1>1, <2>1, <2>2 DEF JobTimeout
<1>2. ASSUME NEW t \in Tickets, LeaseGoesStale(t)
      PROVE  TypeOK'
  BY <1>2 DEF LeaseGoesStale
<1>3. ASSUME NEW t \in Tickets, DeadlinePasses(t)
      PROVE  TypeOK'
  BY <1>3 DEF DeadlinePasses
<1>4. ASSUME NEW s \in Seats, HealthLapses(s)
      PROVE  TypeOK'
  <2>1. [seats[s] EXCEPT !.fresh = FALSE] \in SeatRecord
    BY DEF SeatRecord
  <2> QED
    BY <1>4, <2>1 DEF HealthLapses
<1>5. CASE MonthTurns
  BY <1>5 DEF MonthTurns
<1>6. CASE Restart
  BY <1>6, NothingType DEF Restart
<1> QED
  BY <1>1, <1>2, <1>3, <1>4, <1>5, <1>6 DEF Timers

LEMMA TypeAdmin == TypeOK /\ Admin => TypeOK'
<1> SUFFICES ASSUME TypeOK, Admin PROVE TypeOK'
  OBVIOUS
<1> USE DEF TypeOK, clock
<1>1. ASSUME NEW s \in Seats, RemoveSeat(s)
      PROVE  TypeOK'
  BY <1>1, NothingType, ClosingType DEF RemoveSeat
<1>2. ASSUME NEW s \in Seats, RegisterSeat(s)
      PROVE  TypeOK'
  BY <1>2, UncheckedType DEF RegisterSeat
<1>3. ASSUME NEW s \in Seats, RegisterStart(s)
      PROVE  TypeOK'
  <2>1. probe' = [NoProbe EXCEPT !.kind = "register", !.asked = {s},
                                 !.seats[s] = Unchecked(s)]
    BY <1>3 DEF RegisterStart, ProbeStart
  <2>2. probe' \in ProbeRecord
    BY <2>1, UncheckedType, NothingType DEF ProbeRecord
  <2> QED
    BY <1>3, <2>2 DEF RegisterStart, ProbeStart
<1>4. ASSUME NEW s \in Seats, NEW up \in SUBSET {s}, RegisterFinish(s, up)
      PROVE  TypeOK'
  <2>1. probe.seats[s] \in SeatRecord /\ (s \in up) \in BOOLEAN
    BY DEF ProbeRecord
  <2>2. [probe.seats[s] EXCEPT !.healthy = s \in up, !.fresh = s \in up] \in SeatRecord
    BY <2>1 DEF SeatRecord
  <2>3. Probed(s, up) \in SeatRecord
    BY <2>1, <2>2 DEF Probed
  <2> QED
    BY <1>4, <2>3, NothingType DEF RegisterFinish
<1>5. CASE RefreshSeats
  <2>1. Lost \in Answer
    BY AnswerType, NothingType
  <2>2. live' \subseteq Tickets /\ answers' \in [Tickets -> Answer]
    BY <1>5, <2>1, ResumeType DEF RefreshSeats
  <2> QED
    BY <1>5, <2>2, RefreshedType, ReclaimedType, ExpiredType DEF RefreshSeats
<1>6. CASE RefreshStart
  <2>1. probe' = [kind |-> "refresh", seats |-> RefreshedSeats,
                  leases |-> ReclaimedLeases, jobs |-> ExpiredJobs,
                  expired |-> Overdue, asked |-> ToProbe]
    BY <1>6 DEF RefreshStart, ProbeStart
  <2>2. Overdue \subseteq Tickets /\ ToProbe \subseteq Seats
    BY DEF Overdue, ToProbe
  <2>3. probe' \in ProbeRecord
    BY <2>1, <2>2, RefreshedType, ReclaimedType, ExpiredType DEF ProbeRecord
  <2> QED
    BY <1>6, <2>3 DEF RefreshStart, ProbeStart
<1>7. ASSUME NEW up \in SUBSET Seats, RefreshFinish(up)
      PROVE  TypeOK'
  <2>1. ASSUME NEW s \in Seats
        PROVE  Probed(s, up) \in SeatRecord
    <3>1. probe.seats[s] \in SeatRecord /\ (s \in up) \in BOOLEAN
      BY DEF ProbeRecord
    <3>2. [probe.seats[s] EXCEPT !.healthy = s \in up, !.fresh = s \in up] \in SeatRecord
      BY <3>1 DEF SeatRecord
    <3> QED
      BY <3>1, <3>2 DEF Probed
  <2>2. seats' \in [Seats -> SeatRecord]
    BY <1>7, <2>1 DEF RefreshFinish, WrittenSeats
  <2>3. /\ leases' \in [Tickets -> LeaseRecord]
        /\ jobs' \in [Tickets -> JobRecord]
    BY <1>7 DEF RefreshFinish, WrittenLeases, ProbeRecord
  <2>4. Lost \in Answer
    BY AnswerType, NothingType
  <2>5. live' \subseteq Tickets /\ answers' \in [Tickets -> Answer]
    BY <1>7, <2>4, ResumeType DEF RefreshFinish
  <2> QED
    BY <1>7, <2>2, <2>3, <2>5, NothingType DEF RefreshFinish
<1> QED
  BY <1>1, <1>2, <1>3, <1>4, <1>5, <1>6, <1>7 DEF Admin

LEMMA TypeStep == TypeOK /\ [Next]_vars => TypeOK'
<1>1. TypeOK /\ UNCHANGED vars => TypeOK'
  BY DEF TypeOK, vars, clock
<1> QED
  BY <1>1, TypeCalls, TypeMessages, TypeTimers, TypeAdmin
     DEF Next, Environment

LEMMA TypeInit == Init => TypeOK
BY NothingType
   DEF Init, TypeOK, NoSeats, NoLeases, NoJobs, NoAnswer, Answer, Connection, NoConnection

\* The state of the registry is what its schema says, whoever calls it, in
\* whatever order: orchestrator.ts keeps CommanderSessionState well-formed.
THEOREM TypeCorrect == Spec => []TypeOK
BY TypeInit, TypeStep, PTL DEF Spec
-----------------------------------------------------------------------------
(***************************************************************************)
(* Money held on a seat is backed by leases.  The invariant is not         *)
(* inductive alone: a seat that is not registered holds nothing, and the   *)
(* snapshot of a refresh suspended in a probe is backed by its own leases, *)
(* for it will replace seats and leases together.                          *)
(***************************************************************************)

Held(L, s) == {t \in Tickets : SeatOf(t) = s /\ L[t].status = "reserved"}

Backed(S, L) ==
    \A s \in Seats :
        /\ S[s].reserved <= Estimate * Cardinality(Held(L, s))
        /\ ~S[s].registered => S[s].reserved = 0

ProbeBacked ==
    /\ probe.kind = "refresh" => Backed(probe.seats, probe.leases)
    /\ probe.kind = "register" =>
            \A s \in probe.asked : /\ probe.seats[s].registered
                                   /\ probe.seats[s].reserved = 0

HeldInv == TypeOK /\ Backed(seats, leases) /\ ProbeBacked

LEMMA HeldFinite ==
    ASSUME NEW L, NEW s
    PROVE  IsFiniteSet(Held(L, s)) /\ Cardinality(Held(L, s)) \in Nat
<1>1. IsFiniteSet(Tickets)
  BY FS_Product, SeatsAssumption DEF Tickets
<1>2. Held(L, s) \in SUBSET Tickets
  BY DEF Held
<1> QED
  BY <1>1, <1>2, FS_Subset, FS_CardinalityType

\* Seats that hold no more than before stay backed by the same leases.
LEMMA BackedLess ==
    ASSUME NEW S \in [Seats -> SeatRecord], NEW L,
           NEW S2 \in [Seats -> SeatRecord], Backed(S, L),
           \A s \in Seats : \/ S2[s].reserved = 0
                            \/ /\ S2[s].reserved <= S[s].reserved
                               /\ S2[s].registered = S[s].registered
                            \/ /\ S2[s].reserved <= S[s].reserved
                               /\ S2[s].registered
    PROVE  Backed(S2, L)
<1> SUFFICES ASSUME NEW s \in Seats
             PROVE  /\ S2[s].reserved <= Estimate * Cardinality(Held(L, s))
                    /\ ~S2[s].registered => S2[s].reserved = 0
  BY DEF Backed
<1>1. S[s].reserved \in Nat /\ S2[s].reserved \in Nat
  BY DEF SeatRecord
<1> DEFINE most == Estimate * Cardinality(Held(L, s))
<1>2. most \in Nat
  BY HeldFinite, EstimateAssumption
<1>3. S[s].reserved <= most /\ (~S[s].registered => S[s].reserved = 0)
  BY DEF Backed
<1> HIDE DEF most
<1>4. S2[s].reserved <= most /\ (~S2[s].registered => S2[s].reserved = 0)
  BY <1>1, <1>2, <1>3
<1> QED
  BY <1>4 DEF most

LEMMA BackedReclaimed ==
    ASSUME TypeOK, Backed(seats, leases)
    PROVE  Backed(ReclaimedSeats, ReclaimedLeases)
<1> SUFFICES ASSUME NEW s \in Seats
             PROVE  /\ ReclaimedSeats[s].reserved
                          <= Estimate * Cardinality(Held(ReclaimedLeases, s))
                    /\ ~ReclaimedSeats[s].registered
                          => ReclaimedSeats[s].reserved = 0
  BY DEF Backed
<1> DEFINE H == Held(leases, s)
           T == StaleOf(s)
           c == Cardinality(H)
           d == Cardinality(T)
<1>1. Held(ReclaimedLeases, s) = H \ T
  BY DEF Held, ReclaimedLeases, StaleOf, NoLease, TypeOK
<1>2. H \cap T = T
  BY DEF Held, StaleOf, TypeOK
<1>3. c \in Nat /\ d \in Nat /\ Cardinality(H \ T) = c - d /\ c - d \in Nat
  <2>1. IsFiniteSet(H) /\ c \in Nat
    BY HeldFinite
  <2>2. d \in Nat
    BY StaleFinite
  <2>3. IsFiniteSet(H \ T) /\ Cardinality(H \ T) = c - d
    BY <1>2, <2>1, FS_Difference
  <2>4. Cardinality(H \ T) \in Nat
    BY <2>3, FS_CardinalityType
  <2> QED
    BY <2>1, <2>2, <2>3, <2>4
<1>4. /\ seats[s] \in SeatRecord /\ seats[s].reserved \in Nat
      /\ seats[s].reserved <= Estimate * c
      /\ ~seats[s].registered => seats[s].reserved = 0
  BY DEF Backed, TypeOK, SeatRecord
<1>5. T = {} => d = 0
  BY FS_EmptySet
<1> HIDE DEF H, T, c, d
<1>6. Estimate * (c - d) = Estimate * c - Estimate * d
      /\ Estimate * c \in Nat /\ Estimate * d \in Nat /\ Estimate * (c - d) \in Nat
  BY <1>3, EstimateAssumption
<1>7. CASE ~seats[s].registered \/ T = {}
  <2>1. ReclaimedSeats[s] = seats[s]
    BY <1>7 DEF ReclaimedSeats, T
  <2>2. ~seats[s].registered => seats[s].reserved <= Estimate * (c - d)
    BY <1>4, <1>6
  <2>3. T = {} => seats[s].reserved <= Estimate * (c - d)
    BY <1>3, <1>4, <1>5, <1>6
  <2> QED
    BY <1>1, <1>3, <1>4, <1>7, <2>1, <2>2, <2>3
<1>8. CASE seats[s].registered /\ T # {}
  <2> DEFINE r == Reconciled(seats[s], Estimate * d, 0, period)
  <2>1. ReclaimedSeats[s] = r
    BY <1>8 DEF ReclaimedSeats, T, d
  <2>2. /\ seats[s] \in SeatRecord /\ Estimate * d \in Nat
        /\ 0 \in Nat /\ period \in Nat
    BY <1>4, <1>6 DEF TypeOK
  <2>3. /\ r \in SeatRecord /\ r.registered = seats[s].registered
        /\ r.reserved <= Monus(seats[s].reserved, Estimate * d)
    BY <2>2, ReconciledType, ZenonT(40)
  <2>4. r.reserved \in Nat
    BY <2>3 DEF SeatRecord
  <2> HIDE DEF r
  <2>5. Monus(seats[s].reserved, Estimate * d) <= Estimate * (c - d)
        /\ Monus(seats[s].reserved, Estimate * d) \in Nat
    <3>1. ASSUME NEW x \in Nat, NEW y \in Nat, NEW z \in Nat, NEW w \in Nat,
                 x <= z, w = z - y
          PROVE  Monus(x, y) <= w /\ Monus(x, y) \in Nat
      BY <3>1 DEF Monus
    <3> QED
      BY <1>4, <1>6, <3>1
  <2> QED
    BY <1>1, <1>3, <1>6, <1>8, <2>1, <2>3, <2>4, <2>5
<1> QED
  BY <1>7, <1>8

\* A lease more, or a lease less, among those held on seat SeatOf(t).
LEMMA HeldMore ==
    ASSUME NEW L, NEW L2, NEW t \in Tickets, NEW s \in Seats,
           L[t].status # "reserved", L2[t].status = "reserved",
           \A u \in Tickets : u # t => L2[u].status = L[u].status
    PROVE  /\ s # SeatOf(t) => Held(L2, s) = Held(L, s)
           /\ s = SeatOf(t) =>
                Estimate * Cardinality(Held(L2, s))
                    = Estimate * Cardinality(Held(L, s)) + Estimate
<1>1. s # SeatOf(t) => Held(L2, s) = Held(L, s)
  BY DEF Held
<1>2. CASE s = SeatOf(t)
  <2> DEFINE H == Held(L, s)
             c == Cardinality(H)
  <2>1. Held(L2, s) = H \cup {t} /\ t \notin H
    BY <1>2 DEF Held
  <2>2. IsFiniteSet(H) /\ c \in Nat
    BY HeldFinite
  <2>3. Cardinality(Held(L2, s)) = c + 1
    BY <2>1, <2>2, FS_AddElement
  <2> HIDE DEF H, c
  <2>4. Estimate * (c + 1) = Estimate * c + Estimate
    BY <2>2, EstimateAssumption
  <2> QED
    BY <1>2, <2>3, <2>4 DEF H, c
<1> QED
  BY <1>1, <1>2

LEMMA BackedReserve ==
    ASSUME HeldInv, NEW t \in Tickets, ReserveSeatBudget(t), TypeOK'
    PROVE  Backed(seats, leases)'
<1> DEFINE x == SeatOf(t)
           R == ReclaimedSeats
           L == ReclaimedLeases
<1>1. Backed(R, L)
  BY BackedReclaimed DEF HeldInv
<1>2. /\ R \in [Seats -> SeatRecord] /\ L \in [Tickets -> LeaseRecord]
      /\ x \in Seats /\ period \in Nat
      /\ seats' \in [Seats -> SeatRecord] /\ leases' \in [Tickets -> LeaseRecord]
  BY ReclaimedType DEF HeldInv, TypeOK, Tickets, SeatOf
<1>3. CASE seats' = R /\ leases' = L
  BY <1>1, <1>3
<1>4. CASE /\ leases' = L
           /\ seats' = [R EXCEPT ![x] = IF @.registered THEN Roll(@, period) ELSE @]
  <2>1. ASSUME NEW s \in Seats
        PROVE  \/ seats'[s].reserved = 0
               \/ /\ seats'[s].reserved <= R[s].reserved
                  /\ seats'[s].registered = R[s].registered
    <3>1. R[s] \in SeatRecord /\ R[s].reserved \in Nat
      BY <1>2 DEF SeatRecord
    <3>2. seats'[s] = R[s] \/ seats'[s] = Roll(R[s], period)
      BY <1>2, <1>4
    <3> HIDE DEF R, L
    <3>3. /\ Roll(R[s], period).registered = R[s].registered
          /\ Roll(R[s], period).reserved \in {0, R[s].reserved}
      BY <1>2, <3>1, RollType
    <3>4. R[s].reserved <= R[s].reserved
      BY <3>1
    <3> QED
      BY <3>2, <3>3, <3>4
  <2> HIDE DEF R, L
  <2> QED
    BY <1>1, <1>2, <1>4, <2>1, BackedLess
<1>5. CASE /\ L[t].status = "none" /\ R[x].registered
           /\ seats' = [R EXCEPT ![x] = Reserved(@, period)]
           /\ leases' = [L EXCEPT ![t].status = "reserved"]
  <2> SUFFICES ASSUME NEW s \in Seats
               PROVE  /\ seats'[s].reserved <= Estimate * Cardinality(Held(leases', s))
                      /\ ~seats'[s].registered => seats'[s].reserved = 0
    BY DEF Backed
  <2> HIDE DEF R, L
  <2>1. leases'[t].status = "reserved" /\ L[t].status # "reserved"
        /\ \A u \in Tickets : u # t => leases'[u].status = L[u].status
    BY <1>2, <1>5 DEF LeaseRecord
  <2>2. /\ R[s].reserved <= Estimate * Cardinality(Held(L, s))
        /\ ~R[s].registered => R[s].reserved = 0
    BY <1>1 DEF Backed
  <2>3. CASE s # x
    <3>1. Held(leases', s) = Held(L, s)
      BY <2>1, <2>3, HeldMore
    <3> QED
      BY <1>2, <1>5, <2>2, <2>3, <3>1
  <2>4. CASE s = x
    <3> DEFINE c == Cardinality(Held(L, s))
               c2 == Cardinality(Held(leases', s))
    <3>1. Estimate * c2 = Estimate * c + Estimate
      BY <2>1, <2>4, HeldMore
    <3>2. R[s] \in SeatRecord /\ R[s].reserved \in Nat
      BY <1>2 DEF SeatRecord
    <3>3. /\ seats'[s] = Reserved(R[s], period)
          /\ seats'[s].registered = R[s].registered
          /\ seats'[s].reserved <= R[s].reserved + Estimate
      BY <1>2, <1>5, <2>4, <3>2, ReservedType
    <3>4. seats'[s].reserved \in Nat /\ Estimate \in Nat /\ Estimate * c \in Nat
      BY <1>2, HeldFinite, EstimateAssumption DEF SeatRecord
    <3> HIDE DEF c, c2
    <3>5. R[s].reserved <= Estimate * c
      BY <2>2 DEF c
    <3>6. seats'[s].reserved <= Estimate * c2
      BY <3>1, <3>2, <3>3, <3>4, <3>5
    <3> QED
      BY <1>5, <2>4, <3>3, <3>6 DEF c2
  <2> QED
    BY <2>3, <2>4
<1> QED
  BY <1>3, <1>4, <1>5 DEF ReserveSeatBudget

LEMMA BackedReconcile ==
    ASSUME HeldInv, NEW t \in Tickets, NEW cost \in Costs \cup {0},
           ReconcileSeatBudget(t, cost), TypeOK'
    PROVE  Backed(seats, leases)'
<1> DEFINE x == SeatOf(t)
           R == ReclaimedSeats
           L == ReclaimedLeases
<1>1. Backed(R, L)
  BY BackedReclaimed DEF HeldInv
<1>2. /\ R \in [Seats -> SeatRecord] /\ L \in [Tickets -> LeaseRecord]
      /\ x \in Seats /\ period \in Nat /\ cost \in Nat /\ Estimate \in Nat
      /\ seats' \in [Seats -> SeatRecord] /\ leases' \in [Tickets -> LeaseRecord]
  BY ReclaimedType, SeatsAssumption, EstimateAssumption
     DEF HeldInv, TypeOK, Tickets, SeatOf
<1>3. CASE seats' = R /\ leases' = L
  BY <1>1, <1>3
<1>4. CASE /\ L[t].status = "reserved"
           /\ seats' = [R EXCEPT ![x] =
                           IF @.registered
                           THEN Reconciled(@, Estimate, cost, period) ELSE @]
           /\ leases' = [L EXCEPT ![t] = [status |-> "settled", cost |-> cost]]
  <2> SUFFICES ASSUME NEW s \in Seats
               PROVE  /\ seats'[s].reserved <= Estimate * Cardinality(Held(leases', s))
                      /\ ~seats'[s].registered => seats'[s].reserved = 0
    BY DEF Backed
  <2> HIDE DEF R, L
  <2>1. leases'[t].status # "reserved" /\ L[t].status = "reserved"
        /\ \A u \in Tickets : u # t => L[u].status = leases'[u].status
    BY <1>2, <1>4
  <2>2. /\ R[s].reserved <= Estimate * Cardinality(Held(L, s))
        /\ ~R[s].registered => R[s].reserved = 0
    BY <1>1 DEF Backed
  <2>3. CASE s # x
    <3>1. Held(L, s) = Held(leases', s)
      BY <2>1, <2>3, HeldMore
    <3> QED
      BY <1>2, <1>4, <2>2, <2>3, <3>1
  <2>4. CASE s = x
    <3> DEFINE c == Cardinality(Held(L, s))
               c2 == Cardinality(Held(leases', s))
    <3>1. Estimate * c = Estimate * c2 + Estimate
      BY <2>1, <2>4, HeldMore
    <3>2. /\ R[s] \in SeatRecord /\ R[s].reserved \in Nat
          /\ seats'[s].reserved \in Nat /\ Estimate * c2 \in Nat
      BY <1>2, HeldFinite DEF SeatRecord
    <3> HIDE DEF c, c2
    <3>3. R[s].reserved <= Estimate * c2 + Estimate
      BY <2>2, <3>1 DEF c
    <3>4. CASE R[s].registered
      <4>1. /\ seats'[s] = Reconciled(R[s], Estimate, cost, period)
            /\ seats'[s].registered = R[s].registered
            /\ seats'[s].reserved <= Monus(R[s].reserved, Estimate)
        BY <1>2, <1>4, <2>4, <3>2, <3>4, ReconciledType
      <4>2. Monus(R[s].reserved, Estimate) <= Estimate * c2
            /\ Monus(R[s].reserved, Estimate) \in Nat
        BY <1>2, <3>2, <3>3 DEF Monus
      <4>3. seats'[s].reserved <= Estimate * c2
        BY <3>2, <4>1, <4>2
      <4> QED
        BY <2>4, <3>4, <4>1, <4>3 DEF c2
    <3>5. CASE ~R[s].registered
      <4>1. seats'[s] = R[s]
        BY <1>2, <1>4, <2>4, <3>5
      <4> QED
        BY <2>2, <3>2, <3>5, <4>1 DEF c2
    <3> QED
      BY <3>4, <3>5
  <2> QED
    BY <2>3, <2>4
<1> QED
  BY <1>3, <1>4 DEF ReconcileSeatBudget

\* The handlers that leave the leases alone let no seat hold more.
HoldsLess ==
    /\ leases' = leases
    /\ \A s \in Seats :
        \/ seats'[s].reserved = 0
        \/ /\ seats'[s].reserved <= seats[s].reserved
           /\ seats'[s].registered = seats[s].registered
        \/ /\ seats'[s].reserved <= seats[s].reserved
           /\ seats'[s].registered

LEMMA HoldsSame ==
    ASSUME TypeOK, leases' = leases,
           \A s \in Seats : /\ seats'[s].reserved = seats[s].reserved
                            /\ seats'[s].registered = seats[s].registered
    PROVE  HoldsLess
<1>1. \A s \in Seats : seats[s].reserved <= seats[s].reserved
  BY DEF TypeOK, SeatRecord
<1> QED
  BY <1>1 DEF HoldsLess

LEMMA LessMessages ==
    ASSUME TypeOK, Messages
    PROVE  HoldsLess /\ UNCHANGED <<probe, period>>
<1> SUFFICES ASSUME NEW c \in Conns,
                    \/ Connect(c) \/ Close(c)
                    \/ \E s \in Seats :
                        \/ SeatRegister(c, s)
                        \/ \E status \in {"healthy", "unavailable", "exhausted"} :
                                Heartbeat(c, s, status)
                    \/ \E t \in Tickets, report \in Reports :
                        LateResult(c, t, report) \/ Result(c, t, report)
             PROVE  HoldsLess /\ UNCHANGED <<probe, period>>
  BY DEF Messages
<1> USE DEF TypeOK, clock
<1>1. CASE Connect(c)
  BY <1>1, HoldsSame DEF Connect
<1>2. CASE Close(c)
  <2>1. \A s \in Seats : /\ seats'[s].reserved = seats[s].reserved
                         /\ seats'[s].registered = seats[s].registered
    BY <1>2 DEF Close, SeatRecord
  <2> QED
    BY <1>2, <2>1, HoldsSame DEF Close
<1>3. ASSUME NEW s \in Seats, SeatRegister(c, s)
      PROVE  HoldsLess /\ UNCHANGED <<probe, period>>
  <2> DEFINE kept == IF seats[s].registered THEN seats[s]
                     ELSE [Unregistered EXCEPT !.period = period]
             r == [kept EXCEPT !.registered = TRUE, !.healthy = TRUE,
                               !.fresh = TRUE, !.exhausted = FALSE, !.conn = c]
  <2>1. /\ kept \in SeatRecord /\ kept.reserved \in {0, seats[s].reserved}
    BY DEF SeatRecord, Unregistered
  <2>2. r \in SeatRecord /\ r.reserved = kept.reserved /\ r.registered
    <3> HIDE DEF kept
    <3>1. r \in SeatRecord
      BY <2>1 DEF SeatRecord
    <3>2. r.reserved = kept.reserved /\ r.registered
      BY <2>1 DEF SeatRecord
    <3> QED
      BY <3>1, <3>2
  <2>3. seats' = [seats EXCEPT ![s] = Roll(r, period)]
    BY <1>3 DEF SeatRegister
  <2> HIDE DEF r, kept
  <2>4. /\ Roll(r, period).reserved \in {0, seats[s].reserved}
        /\ Roll(r, period).registered
    BY <2>1, <2>2, RollType
  <2>5. \A u \in Seats : seats[u].reserved <= seats[u].reserved
    BY DEF SeatRecord
  <2>6. ASSUME NEW u \in Seats
        PROVE  \/ seats'[u].reserved = 0
               \/ /\ seats'[u].reserved <= seats[u].reserved
                  /\ seats'[u].registered = seats[u].registered
               \/ /\ seats'[u].reserved <= seats[u].reserved
                  /\ seats'[u].registered
    <3>1. CASE u = s
      BY <2>3, <2>4, <2>5, <3>1
    <3>2. CASE u # s
      BY <2>3, <2>5, <3>2
    <3> QED
      BY <3>1, <3>2
  <2> QED
    BY <1>3, <2>6 DEF SeatRegister, HoldsLess
<1>4. ASSUME NEW s \in Seats, NEW status, Heartbeat(c, s, status)
      PROVE  HoldsLess /\ UNCHANGED <<probe, period>>
  <2> DEFINE up == status = "healthy"
             full == \/ seats[s].exhausted \/ status = "exhausted"
                     \/ Budget <= seats[s].spent + seats[s].reserved
  <2>1. seats' = [seats EXCEPT ![s] = [@ EXCEPT !.healthy = up, !.exhausted = full,
                                                !.fresh = TRUE]]
    BY <1>4 DEF Heartbeat
  <2> HIDE DEF up, full
  <2>2. \A u \in Seats : /\ seats'[u].reserved = seats[u].reserved
                         /\ seats'[u].registered = seats[u].registered
    BY <2>1 DEF SeatRecord
  <2> QED
    BY <1>4, <2>2, HoldsSame DEF Heartbeat
<1>5. ASSUME NEW t \in Tickets, NEW report \in Reports, LateResult(c, t, report)
      PROVE  HoldsLess /\ UNCHANGED <<probe, period>>
  <2> DEFINE x == SeatOf(t)
             r == Reconciled(seats[x], 0, report.cost, period)
  <2>1. \/ UNCHANGED seats
        \/ /\ report.cost \in Nat /\ seats[x].registered
           /\ seats' = [seats EXCEPT ![x] = r]
    BY <1>5, SeatsAssumption, ZenonT(40) DEF LateResult, BillLate, Reports
  <2>2. CASE UNCHANGED seats
    BY <1>5, <2>2, HoldsSame DEF LateResult
  <2>3. CASE /\ report.cost \in Nat /\ seats[x].registered
             /\ seats' = [seats EXCEPT ![x] = r]
    <3>1. /\ seats[x] \in SeatRecord /\ 0 \in Nat /\ report.cost \in Nat
          /\ period \in Nat
      BY <2>3 DEF Tickets, SeatOf
    <3>2. /\ r \in SeatRecord /\ r.registered = seats[x].registered
          /\ r.reserved <= Monus(seats[x].reserved, 0)
      BY <3>1, ReconciledType, ZenonT(40)
    <3> HIDE DEF r
    <3>3. r.reserved <= seats[x].reserved
      BY <3>1, <3>2 DEF Monus, SeatRecord
    <3>4. \A u \in Seats : seats[u].reserved <= seats[u].reserved
      BY DEF SeatRecord
    <3>5. ASSUME NEW u \in Seats
          PROVE  /\ seats'[u].reserved <= seats[u].reserved
                 /\ seats'[u].registered = seats[u].registered
      <4>1. CASE u = x
        BY <2>3, <3>2, <3>3, <4>1
      <4>2. CASE u # x
        BY <2>3, <3>4, <4>2
      <4> QED
        BY <4>1, <4>2
    <3> QED
      BY <1>5, <3>5 DEF LateResult, HoldsLess
  <2> QED
    BY <2>1, <2>2, <2>3
<1>6. ASSUME NEW t \in Tickets, NEW report \in Reports, Result(c, t, report)
      PROVE  HoldsLess /\ UNCHANGED <<probe, period>>
  <2>1. \A u \in Seats : /\ seats'[u].reserved = seats[u].reserved
                         /\ seats'[u].registered = seats[u].registered
    BY <1>6 DEF Result, SeatRecord
  <2> QED
    BY <1>6, <2>1, HoldsSame DEF Result
<1> QED
  BY <1>1, <1>2, <1>3, <1>4, <1>5, <1>6

LEMMA LessTimers ==
    ASSUME TypeOK, Timers
    PROVE  HoldsLess /\ UNCHANGED probe
<1> USE DEF TypeOK, clock
<1>1. ASSUME NEW t \in Tickets,
             JobTimeout(t) \/ LeaseGoesStale(t) \/ DeadlinePasses(t)
      PROVE  HoldsLess /\ UNCHANGED probe
  BY <1>1, HoldsSame DEF JobTimeout, LeaseGoesStale, DeadlinePasses
<1>2. ASSUME NEW s \in Seats, HealthLapses(s)
      PROVE  HoldsLess /\ UNCHANGED probe
  <2>1. \A u \in Seats : /\ seats'[u].reserved = seats[u].reserved
                         /\ seats'[u].registered = seats[u].registered
    BY <1>2 DEF HealthLapses, SeatRecord
  <2> QED
    BY <1>2, <2>1, HoldsSame DEF HealthLapses
<1>3. CASE MonthTurns
  BY <1>3, HoldsSame DEF MonthTurns
<1> QED
  BY <1>1, <1>2, <1>3 DEF Timers

LEMMA UncheckedHeld ==
    ASSUME TypeOK, NEW s \in Seats
    PROVE  /\ Unchecked(s).reserved \in {0, seats[s].reserved}
           /\ ~seats[s].registered => Unchecked(s).reserved = 0
           /\ Unchecked(s).registered
<1> DEFINE kept == IF seats[s].registered THEN seats[s]
                   ELSE [Unregistered EXCEPT !.period = period]
           r == [kept EXCEPT !.registered = TRUE, !.healthy = FALSE,
                             !.fresh = FALSE, !.conn = NoConn]
<1>1. /\ kept \in SeatRecord /\ kept.reserved \in {0, seats[s].reserved}
      /\ ~seats[s].registered => kept.reserved = 0
  BY DEF TypeOK, SeatRecord, Unregistered
<1>2. r \in SeatRecord /\ r.registered /\ r.reserved = kept.reserved
  <2> HIDE DEF kept
  <2>1. r \in SeatRecord
    BY <1>1 DEF SeatRecord
  <2>2. r.registered /\ r.reserved = kept.reserved
    BY <1>1 DEF SeatRecord
  <2> QED
    BY <2>1, <2>2
<1>3. Unchecked(s) = Roll(r, period)
  BY DEF Unchecked
<1> HIDE DEF r, kept
<1>4. /\ Roll(r, period).registered = r.registered
      /\ Roll(r, period).reserved \in {0, r.reserved}
  BY <1>2, RollType DEF TypeOK
<1> QED
  BY <1>1, <1>2, <1>3, <1>4

LEMMA BackedRefreshed ==
    ASSUME TypeOK, Backed(seats, leases)
    PROVE  Backed(RefreshedSeats, ReclaimedLeases)
<1>1. /\ ReclaimedSeats \in [Seats -> SeatRecord]
      /\ RefreshedSeats \in [Seats -> SeatRecord]
      /\ Backed(ReclaimedSeats, ReclaimedLeases)
  BY ReclaimedType, RefreshedType, BackedReclaimed
<1>2. ASSUME NEW s \in Seats
      PROVE  \/ RefreshedSeats[s].reserved = 0
             \/ /\ RefreshedSeats[s].reserved <= ReclaimedSeats[s].reserved
                /\ RefreshedSeats[s].registered = ReclaimedSeats[s].registered
  <2> DEFINE seat == Roll(ReclaimedSeats[s], period)
             up == seat.healthy /\ seat.fresh
  <2>1. /\ ReclaimedSeats[s] \in SeatRecord /\ seat \in SeatRecord
        /\ seat.registered = ReclaimedSeats[s].registered
        /\ seat.reserved \in {0, ReclaimedSeats[s].reserved}
    BY ReclaimedType, RollType DEF TypeOK
  <2>2. RefreshedSeats[s] \in
            {ReclaimedSeats[s], seat, [seat EXCEPT !.healthy = up]}
    BY DEF RefreshedSeats
  <2>3. ReclaimedSeats[s].reserved <= ReclaimedSeats[s].reserved
    BY <2>1 DEF SeatRecord
  <2> HIDE DEF seat, up
  <2>4. /\ [seat EXCEPT !.healthy = up].registered = seat.registered
        /\ [seat EXCEPT !.healthy = up].reserved = seat.reserved
    BY <2>1 DEF SeatRecord
  <2> QED
    BY <2>1, <2>2, <2>3, <2>4
<1> QED
  BY <1>1, <1>2, BackedLess

LEMMA HeldAdmin ==
    ASSUME "reregister" \notin Faults, HeldInv, TypeOK', Admin
    PROVE  HeldInv'
<1> USE DEF HeldInv
<1>1. ASSUME NEW s \in Seats, RemoveSeat(s) \/ RegisterSeat(s)
      PROVE  HeldInv'
  <2>1. \A u \in Seats : seats[u].reserved <= seats[u].reserved
    BY DEF TypeOK, SeatRecord
  <2>2. CASE RemoveSeat(s)
    <3>1. HoldsLess /\ UNCHANGED probe
      BY <2>1, <2>2 DEF RemoveSeat, HoldsLess, Unregistered, TypeOK
    <3>2. Backed(seats, leases)'
      BY <3>1, BackedLess DEF HoldsLess, TypeOK
    <3> QED
      BY <3>1, <3>2 DEF ProbeBacked
  <2>3. CASE RegisterSeat(s)
    <3>1. /\ Unchecked(s).reserved \in {0, seats[s].reserved}
          /\ Unchecked(s).registered
      BY UncheckedHeld
    <3>2. HoldsLess /\ UNCHANGED probe
      BY <2>1, <2>3, <3>1 DEF RegisterSeat, HoldsLess, TypeOK
    <3>3. Backed(seats, leases)'
      BY <3>2, BackedLess DEF HoldsLess, TypeOK
    <3> QED
      BY <3>2, <3>3 DEF ProbeBacked
  <2> QED
    BY <1>1, <2>2, <2>3
<1>2. ASSUME NEW s \in Seats, RegisterStart(s)
      PROVE  HeldInv'
  <2>1. /\ ~seats[s].registered
        /\ probe' = [NoProbe EXCEPT !.kind = "register", !.asked = {s},
                                    !.seats[s] = Unchecked(s)]
        /\ UNCHANGED <<seats, leases>>
    BY <1>2 DEF RegisterStart, ProbeStart
  <2>2. /\ probe'.kind = "register" /\ probe'.asked = {s}
        /\ probe'.seats[s] = Unchecked(s)
    BY <2>1 DEF NoProbe, NoSeats
  <2>3. ProbeBacked'
    BY <2>1, <2>2, UncheckedHeld DEF ProbeBacked
  <2> QED
    BY <2>1, <2>3
<1>3. ASSUME NEW s \in Seats, NEW up \in SUBSET {s}, RegisterFinish(s, up)
      PROVE  HeldInv'
  <2>1. /\ probe.seats[s] \in SeatRecord
        /\ probe.seats[s].registered /\ probe.seats[s].reserved = 0
        /\ seats' = [seats EXCEPT ![s] = Probed(s, up)]
        /\ leases' = leases /\ probe' = NoProbe
    BY <1>3 DEF RegisterFinish, ProbeBacked, TypeOK, ProbeRecord
  <2>2. Probed(s, up).reserved = 0
    BY <2>1 DEF Probed, SeatRecord
  <2>3. \A u \in Seats : seats[u].reserved <= seats[u].reserved
    BY DEF TypeOK, SeatRecord
  <2>4. HoldsLess
    BY <2>1, <2>2, <2>3 DEF HoldsLess, TypeOK
  <2>5. Backed(seats, leases)'
    BY <2>4, BackedLess DEF HoldsLess, TypeOK
  <2> QED
    BY <2>1, <2>5 DEF ProbeBacked, NoProbe
<1>4. CASE RefreshSeats
  <2>1. Backed(seats, leases)'
    BY <1>4, BackedRefreshed DEF RefreshSeats
  <2> QED
    BY <1>4, <2>1 DEF RefreshSeats, ProbeBacked
<1>5. CASE RefreshStart
  <2>1. /\ probe'.kind = "refresh" /\ probe'.seats = RefreshedSeats
        /\ probe'.leases = ReclaimedLeases
        /\ UNCHANGED <<seats, leases>>
    BY <1>5 DEF RefreshStart, ProbeStart
  <2> QED
    BY <2>1, BackedRefreshed DEF ProbeBacked
<1>6. ASSUME NEW up \in SUBSET Seats, RefreshFinish(up)
      PROVE  HeldInv'
  <2>1. /\ Backed(probe.seats, probe.leases)
        /\ probe.seats \in [Seats -> SeatRecord]
        /\ leases' = probe.leases /\ probe' = NoProbe
        /\ seats' = [s \in Seats |-> Probed(s, up)]
        /\ seats' \in [Seats -> SeatRecord]
    BY <1>6 DEF RefreshFinish, WrittenSeats, WrittenLeases, ProbeBacked, TypeOK,
                ProbeRecord
  <2>2. ASSUME NEW s \in Seats
        PROVE  /\ seats'[s].reserved <= probe.seats[s].reserved
               /\ seats'[s].registered = probe.seats[s].registered
    <3>1. /\ seats'[s] = Probed(s, up) /\ probe.seats[s] \in SeatRecord
          /\ probe.seats[s].reserved <= probe.seats[s].reserved
      BY <2>1 DEF SeatRecord
    <3> QED
      BY <3>1 DEF Probed, SeatRecord
  <2>3. Backed(seats, leases)'
    BY <2>1, <2>2, BackedLess
  <2> QED
    BY <2>1, <2>3 DEF ProbeBacked, NoProbe
<1> QED
  BY <1>1, <1>2, <1>3, <1>4, <1>5, <1>6 DEF Admin

LEMMA HeldStep ==
    ASSUME "reregister" \notin Faults, HeldInv, [Next]_vars
    PROVE  HeldInv'
<1>1. TypeOK'
  BY TypeStep DEF HeldInv
<1>2. ASSUME HoldsLess, UNCHANGED probe
      PROVE  HeldInv'
  <2>1. Backed(seats, leases)'
    BY <1>1, <1>2, BackedLess DEF HoldsLess, HeldInv, TypeOK
  <2> QED
    BY <1>1, <1>2, <2>1 DEF HeldInv, ProbeBacked
<1>3. ASSUME NEW t \in Tickets, ReserveSeatBudget(t)
      PROVE  HeldInv'
  BY <1>1, <1>3, BackedReserve DEF HeldInv, ProbeBacked, ReserveSeatBudget
<1>4. ASSUME NEW t \in Tickets, NEW cost \in Costs \cup {0},
             ReconcileSeatBudget(t, cost)
      PROVE  HeldInv'
  BY <1>1, <1>4, BackedReconcile DEF HeldInv, ProbeBacked, ReconcileSeatBudget
<1>5. ASSUME NEW t \in Tickets, NEW same \in BOOLEAN, InvokeContributor(t, same)
      PROVE  HeldInv'
  BY <1>2, <1>5, HoldsSame DEF InvokeContributor, HeldInv
<1>6. ASSUME NEW s \in Seats, MarkSeatUnhealthy(s)
      PROVE  HeldInv'
  <2>1. \A u \in Seats : /\ seats'[u].reserved = seats[u].reserved
                         /\ seats'[u].registered = seats[u].registered
    BY <1>6 DEF MarkSeatUnhealthy, HeldInv, TypeOK, SeatRecord
  <2> QED
    BY <1>2, <1>6, <2>1, HoldsSame DEF MarkSeatUnhealthy, HeldInv
<1>7. CASE Messages
  BY <1>2, <1>7, LessMessages DEF HeldInv
<1>8. CASE Timers
  BY <1>2, <1>8, LessTimers DEF HeldInv
<1>9. CASE Restart
  BY <1>1, <1>9 DEF Restart, HeldInv, ProbeBacked, NoProbe
<1>10. CASE UNCHANGED vars
  BY <1>1, <1>10 DEF vars, HeldInv, ProbeBacked
<1>11. CASE Calls
  BY <1>3, <1>4, <1>5, <1>6, <1>11 DEF Calls
<1>12. CASE Admin
  BY <1>1, <1>12, HeldAdmin
<1> QED
  BY <1>7, <1>8, <1>9, <1>10, <1>11, <1>12 DEF Next, Environment

\* Unless an operator registers a probed seat anew while it is in use, the
\* money held on every seat is backed by leases that are open: what
\* reserveSeatBudget holds, reconcileSeatBudget or reclaimStaleReservations
\* gives back in the end, even when a refresh overwrites a month of changes.
THEOREM MoneyHeldIsBacked ==
    ASSUME "reregister" \notin Faults
    PROVE  Spec => []HeldByLeases
<1>1. Init => HeldInv
  <2> SUFFICES ASSUME Init PROVE HeldInv
    OBVIOUS
  <2>1. TypeOK
    BY TypeInit
  <2>2. ASSUME NEW s \in Seats
        PROVE  seats[s].reserved = 0 /\ 0 <= Estimate * Cardinality(Held(leases, s))
    <3>1. Estimate * Cardinality(Held(leases, s)) \in Nat
      BY HeldFinite, EstimateAssumption
    <3> QED
      BY <3>1 DEF Init, NoSeats, Unregistered
  <2>3. Backed(seats, leases) /\ ProbeBacked
    BY <2>2 DEF Backed, ProbeBacked, Init, NoProbe
  <2> QED
    BY <2>1, <2>3 DEF HeldInv
<1>2. HeldInv => HeldByLeases
  BY DEF HeldInv, Backed, HeldByLeases, OpenLeases, Held
<1> QED
  BY <1>1, <1>2, HeldStep, PTL DEF Spec
-----------------------------------------------------------------------------
(***************************************************************************)
(* Where no refresh is ever suspended in a probe, the ledgers are as       *)
(* serial as the comments of the code assume.  The invariant is inductive: *)
(* whom a caller waits for and what it was told are tied to the ledger of  *)
(* jobs by every handler.                                                  *)
(***************************************************************************)

\* refreshSeats runs to its end: there is no seat to probe over HTTP, or no
\* other handler gets in while it probes.
RefreshesRun == Contributors = Seats \/ "refresh" \notin Faults

LEMMA NoneSuspended ==
    ASSUME RefreshesRun
    PROVE  /\ ~RefreshStart
           /\ NoProbe.kind # "refresh"
           /\ \A s : RegisterStart(s) => probe'.kind # "refresh"
BY DEF RefreshesRun, RefreshStart, ToProbe, NoProbe, RegisterStart, ProbeStart

JobsInv == TypeOK /\ probe.kind # "refresh" /\ WaitersWillHear /\ AnswersMatchLedger

\* What one step may do to the jobs, and to the leases.
JobsStep ==
    \A t \in Tickets : jobs[t].status \in {"succeeded", "failed"} =>
        /\ jobs'[t].status = jobs[t].status
        /\ jobs[t].cost # Unreported => jobs'[t].cost = jobs[t].cost
LeasesStep ==
    \A t \in Tickets :
        /\ leases[t].status = "settled" => leases'[t] = leases[t]
        /\ t \notin stale /\ leases[t].status = "reserved"
             => leases'[t].status # "none"

JobsKept == WaitersWillHear' /\ AnswersMatchLedger' /\ JobsStep

\* Handlers that leave the jobs alone.
LEMMA JobsSame ==
    ASSUME JobsInv, UNCHANGED <<jobs, answers>>, live' \subseteq live,
           due \subseteq due'
    PROVE  JobsKept
BY DEF JobsInv, WaitersWillHear, AnswersMatchLedger, JobsKept, JobsStep

\* Handlers that fail the pending ones of the jobs in T, and tell whoever
\* waits for them.
LEMMA JobsFail ==
    ASSUME JobsInv, NEW T, Resume(T, Lost), UNCHANGED due,
           \A t \in Tickets :
                jobs'[t] = IF t \in T THEN TimedOut(jobs[t]) ELSE jobs[t]
    PROVE  JobsKept
<1> USE DEF JobsInv
<1>1. /\ live' = live \ T
      /\ answers' = [t \in Tickets |-> IF t \in T \cap live THEN Lost
                                                            ELSE answers[t]]
  BY DEF Resume
<1>2. WaitersWillHear'
  BY <1>1 DEF WaitersWillHear, TypeOK
<1>3. ASSUME NEW t \in Tickets
      PROVE  \/ jobs'[t] = jobs[t]
             \/ jobs[t].status = "pending"
  BY DEF TimedOut
<1>4. JobsStep
  BY <1>3 DEF JobsStep
<1>5. ASSUME NEW t \in Tickets
      PROVE  /\ answers'[t].status = "ok" =>
                  jobs'[t].status = "succeeded" /\ jobs'[t].cost = answers'[t].cost
             /\ answers'[t].status = "failure" /\ answers'[t].cost # Unreported =>
                  jobs'[t].status = "failed" /\ jobs'[t].cost = answers'[t].cost
  <2>1. CASE t \in T \cap live
    BY <1>1, <2>1 DEF Lost, Failure
  <2>2. CASE t \notin T \cap live
    <3>1. answers'[t] = answers[t]
      BY <1>1, <2>2
    <3> QED
      BY <1>3, <3>1 DEF AnswersMatchLedger
  <2> QED
    BY <2>1, <2>2
<1>6. AnswersMatchLedger'
  BY <1>5 DEF AnswersMatchLedger
<1> QED
  BY <1>2, <1>4, <1>6 DEF JobsKept

LEMMA JobsInvoke ==
    ASSUME JobsInv, NEW t \in Tickets, NEW same \in BOOLEAN,
           InvokeContributor(t, same)
    PROVE  JobsKept
<1> USE DEF JobsInv
<1>1. /\ \A u \in Tickets : u # t => jobs'[u] = jobs[u] /\ answers'[u] = answers[u]
      /\ \A u \in live' : u # t => u \in live
      /\ due' = due
  BY DEF InvokeContributor, clock, TypeOK
<1>2. /\ jobs'[t] # jobs[t] =>
            jobs[t].status \in {"none", "pending"}
      /\ t \in live' /\ jobs'[t].status # "pending" =>
            \/ t \in live /\ jobs'[t] = jobs[t]
            \/ t \in due
  <2>1. CASE UNCHANGED <<jobs, live>>
    BY <2>1
  <2>2. CASE jobs[t].status = "pending" /\ t \in due /\ UNCHANGED live
    BY <2>2
  <2>3. CASE /\ jobs[t].status \in {"none", "pending"}
             /\ jobs' = [jobs EXCEPT ![t].status = "pending"]
    BY <2>3 DEF TypeOK, JobRecord
  <2> QED
    BY <2>1, <2>2, <2>3 DEF InvokeContributor
<1>3. /\ answers'[t].status = "ok" =>
            jobs'[t].status = "succeeded" /\ jobs'[t].cost = answers'[t].cost
      /\ answers'[t].status = "failure" /\ answers'[t].cost # Unreported =>
            jobs'[t].status = "failed" /\ jobs'[t].cost = answers'[t].cost
  BY DEF InvokeContributor, TypeOK, Persisted, Lost, Failure, NoAnswer,
         Unavailable, JobRecord
<1>4. WaitersWillHear'
  BY <1>1, <1>2 DEF WaitersWillHear, TypeOK
<1>5. AnswersMatchLedger'
  BY <1>1, <1>3 DEF AnswersMatchLedger
<1>6. JobsStep
  BY <1>1, <1>2 DEF JobsStep
<1> QED
  BY <1>4, <1>5, <1>6 DEF JobsKept

LEMMA JobsResult ==
    ASSUME JobsInv, NEW c \in Conns, NEW t \in Tickets, NEW report \in Reports,
           LateResult(c, t, report) \/ Result(c, t, report)
    PROVE  JobsKept
<1> USE DEF JobsInv
<1>1. PICK a : /\ Resume({t}, a)
               /\ \A u \in Tickets : u # t => jobs'[u] = jobs[u]
               /\ due' = due /\ jobs' \in [Tickets -> JobRecord]
               /\ \/ a = Lost /\ jobs[t].status = "pending"
                  \/ /\ a = Persisted(jobs[t])
                     /\ jobs[t].status \in {"succeeded", "failed"}
                  \/ /\ a = Persisted(jobs'[t])
                     /\ jobs[t].status = "pending"
                     /\ jobs'[t].status \in {"succeeded", "failed"}
               /\ \/ jobs[t].status = "pending"
                  \/ jobs'[t] = jobs[t]
                  \/ /\ jobs[t].status = "failed" /\ jobs[t].cost = Unreported
                     /\ jobs'[t].status = "failed"
  <2>1. CASE LateResult(c, t, report)
    <3> DEFINE job == TimedOut(jobs[t])
    <3>1. /\ job \in JobRecord /\ jobs[t] \in JobRecord
          /\ jobs[t].status # "pending" => job = jobs[t]
      BY TimedOutType DEF TypeOK
    <3>2. BillLate(t, job, report.cost) /\ due' = due
          /\ jobs[t].status # "none"
      BY <2>1 DEF LateResult, clock
    <3>3. report.cost \in Costs \cup {Unreported}
      BY DEF Reports
    <3> HIDE DEF job
    <3>4. jobs' \in [Tickets -> JobRecord]
      BY <3>1, <3>2, <3>3, BillLateType
    <3>5. /\ \A u \in Tickets : u # t => jobs'[u] = jobs[u]
          /\ \/ jobs'[t] = job
             \/ /\ job.status = "failed" /\ job.cost = Unreported
                /\ jobs'[t].status = "failed"
      BY <3>1, <3>2 DEF BillLate, TypeOK, JobRecord
    <3>6. CASE jobs[t].status = "pending"
      <4>1. Resume({t}, Lost)
        BY <2>1, <3>6 DEF LateResult
      <4> QED
        BY <3>2, <3>4, <3>5, <3>6, <4>1
    <3>7. CASE jobs[t].status # "pending"
      <4>1. Resume({t}, Persisted(jobs[t]))
            /\ jobs[t].status \in {"succeeded", "failed"}
        BY <2>1, <3>1, <3>2, <3>7 DEF LateResult, JobRecord
      <4> QED
        BY <3>1, <3>2, <3>4, <3>5, <3>7, <4>1
    <3> QED
      BY <3>6, <3>7
  <2>2. CASE Result(c, t, report)
    <3> DEFINE job == [status |-> IF report.kind = "decision" THEN "succeeded"
                                                              ELSE "failed",
                       cost |-> report.cost, retryable |-> report.retryable]
    <3>1. report.cost \in Nat \cup {Unreported} /\ report.retryable \in BOOLEAN
      BY SeatsAssumption DEF Reports
    <3>2. job \in JobRecord /\ job.status \in {"succeeded", "failed"}
      BY <3>1 DEF JobRecord
    <3>3. /\ jobs' = [jobs EXCEPT ![t] = job] /\ Resume({t}, Persisted(job))
          /\ jobs[t].status = "pending" /\ due' = due
      BY <2>2 DEF Result, clock
    <3> HIDE DEF job
    <3> QED
      BY <3>2, <3>3 DEF TypeOK
  <2> QED
    BY <2>1, <2>2
<1>2. /\ live' = live \ {t}
      /\ \A u \in Tickets : u # t => answers'[u] = answers[u]
      /\ answers'[t] \in {a, answers[t]}
  BY <1>1 DEF Resume, TypeOK
<1>3. WaitersWillHear'
  BY <1>1, <1>2 DEF WaitersWillHear, TypeOK
<1>4. JobsStep
  BY <1>1 DEF JobsStep
<1>5. /\ answers[t].status = "ok" =>
            jobs'[t].status = "succeeded" /\ jobs'[t].cost = answers[t].cost
      /\ answers[t].status = "failure" /\ answers[t].cost # Unreported =>
            jobs'[t].status = "failed" /\ jobs'[t].cost = answers[t].cost
  BY <1>1 DEF AnswersMatchLedger
<1>6. /\ a.status = "ok" =>
            jobs'[t].status = "succeeded" /\ jobs'[t].cost = a.cost
      /\ a.status = "failure" /\ a.cost # Unreported =>
            jobs'[t].status = "failed" /\ jobs'[t].cost = a.cost
  BY <1>1 DEF Persisted, Lost, Failure
<1>7. AnswersMatchLedger'
  <2> SUFFICES ASSUME NEW u \in Tickets
               PROVE  /\ answers'[u].status = "ok" =>
                           /\ jobs'[u].status = "succeeded"
                           /\ jobs'[u].cost = answers'[u].cost
                      /\ answers'[u].status = "failure"
                           /\ answers'[u].cost # Unreported =>
                           /\ jobs'[u].status = "failed"
                           /\ jobs'[u].cost = answers'[u].cost
    BY DEF AnswersMatchLedger
  <2>1. CASE u = t
    BY <1>2, <1>5, <1>6, <2>1
  <2>2. CASE u # t
    BY <1>1, <1>2, <2>2 DEF AnswersMatchLedger
  <2> QED
    BY <2>1, <2>2
<1> QED
  BY <1>3, <1>4, <1>7 DEF JobsKept

\* The leases: a settled one stays, and none is dropped unless it is stale.
LEMMA LeasesKept ==
    ASSUME JobsInv, RefreshesRun, [Next]_vars
    PROVE  LeasesStep
<1> USE DEF JobsInv
<1>1. ASSUME NEW t \in Tickets
      PROVE  /\ leases[t].status = "settled" => ReclaimedLeases[t] = leases[t]
             /\ t \notin stale => ReclaimedLeases[t] = leases[t]
  BY DEF ReclaimedLeases, StaleOf
<1>2. CASE leases' = leases
  BY <1>2 DEF LeasesStep
<1>3. CASE leases' = ReclaimedLeases
  BY <1>1, <1>3 DEF LeasesStep
<1>4. ASSUME NEW t \in Tickets, ReserveSeatBudget(t)
      PROVE  LeasesStep
  <2>1. CASE /\ ReclaimedLeases[t].status = "none"
             /\ leases' = [ReclaimedLeases EXCEPT ![t].status = "reserved"]
    BY <1>1, <2>1, ReclaimedType DEF LeasesStep, LeaseRecord
  <2> QED
    BY <1>3, <1>4, <2>1 DEF ReserveSeatBudget
<1>5. ASSUME NEW t \in Tickets, NEW cost, ReconcileSeatBudget(t, cost)
      PROVE  LeasesStep
  <2>1. CASE /\ ReclaimedLeases[t].status = "reserved"
             /\ leases' = [ReclaimedLeases EXCEPT
                              ![t] = [status |-> "settled", cost |-> cost]]
    BY <1>1, <2>1, ReclaimedType DEF LeasesStep
  <2> QED
    BY <1>3, <1>5, <2>1 DEF ReconcileSeatBudget
<1>6. CASE Calls
  BY <1>2, <1>4, <1>5, <1>6
     DEF Calls, InvokeContributor, MarkSeatUnhealthy
<1>7. CASE Messages
  BY <1>2, <1>7, ZenonT(40)
     DEF Messages, Connect, Close, SeatRegister, Heartbeat, LateResult, Result
<1>8. CASE Timers \/ Restart
  BY <1>2, <1>8
     DEF Timers, Restart, JobTimeout, LeaseGoesStale, DeadlinePasses,
         HealthLapses, MonthTurns
<1>9. CASE Admin
  BY <1>2, <1>3, <1>9, NoneSuspended
     DEF Admin, RemoveSeat, RegisterSeat, RegisterStart, ProbeStart,
         RegisterFinish, RefreshSeats, RefreshFinish
<1>10. CASE UNCHANGED vars
  BY <1>2, <1>10 DEF vars
<1> QED
  BY <1>6, <1>7, <1>8, <1>9, <1>10 DEF Next, Environment

LEMMA JobsKeptStep ==
    ASSUME JobsInv, RefreshesRun, [Next]_vars
    PROVE  JobsKept
<1> USE DEF JobsInv
<1>2. ASSUME NEW t \in Tickets, NEW cost,
             ReserveSeatBudget(t) \/ ReconcileSeatBudget(t, cost)
      PROVE  JobsKept
  BY <1>2, JobsSame DEF ReserveSeatBudget, ReconcileSeatBudget
<1>3. CASE Calls
  BY <1>2, <1>3, JobsSame, JobsInvoke DEF Calls, MarkSeatUnhealthy, clock
<1>4. CASE Messages
  <2>1. PICK c \in Conns :
            \/ Connect(c) \/ Close(c)
            \/ \E s \in Seats :
                \/ SeatRegister(c, s)
                \/ \E status \in {"healthy", "unavailable", "exhausted"} :
                        Heartbeat(c, s, status)
            \/ \E t \in Tickets, report \in Reports :
                LateResult(c, t, report) \/ Result(c, t, report)
    BY <1>4 DEF Messages
  <2>2. CASE Close(c)
    <3> DEFINE orphans == {t \in Tickets : SeatOf(t) \in Abandoned(c)}
    <3>1. /\ Resume(orphans, Lost) /\ UNCHANGED due
          /\ jobs' = [t \in Tickets |-> IF t \in orphans THEN TimedOut(jobs[t])
                                                         ELSE jobs[t]]
      BY <2>2 DEF Close, clock
    <3> HIDE DEF orphans
    <3> QED
      BY <3>1, JobsFail
  <2>3. ASSUME NEW s \in Seats, NEW status,
               Connect(c) \/ SeatRegister(c, s) \/ Heartbeat(c, s, status)
        PROVE  JobsKept
    BY <2>3, JobsSame DEF Connect, SeatRegister, Heartbeat, clock
  <2>4. CASE Connect(c)
    BY <2>4, JobsSame DEF Connect, clock
  <2> QED
    BY <2>1, <2>2, <2>3, <2>4, JobsResult
<1>5. CASE Timers
  <2>1. ASSUME NEW t \in Tickets, JobTimeout(t)
        PROVE  JobsKept
    <3>1. /\ Resume({t}, Lost) /\ UNCHANGED due
          /\ \A u \in Tickets :
                jobs'[u] = IF u \in {t} THEN TimedOut(jobs[u]) ELSE jobs[u]
      BY <2>1 DEF JobTimeout, clock, TypeOK
    <3> QED
      BY <3>1, JobsFail
  <2>2. ASSUME NEW t \in Tickets, LeaseGoesStale(t) \/ DeadlinePasses(t)
        PROVE  JobsKept
    BY <2>2, JobsSame DEF LeaseGoesStale, DeadlinePasses
  <2>3. ASSUME NEW s \in Seats, HealthLapses(s)
        PROVE  JobsKept
    BY <2>3, JobsSame DEF HealthLapses, clock
  <2>4. CASE MonthTurns
    BY <2>4, JobsSame DEF MonthTurns
  <2> QED
    BY <1>5, <2>1, <2>2, <2>3, <2>4 DEF Timers
<1>6. CASE Restart
  BY <1>6, JobsSame DEF Restart, clock
<1>7. CASE Admin
  <2>1. CASE RefreshSeats
    <3>1. /\ Resume(Overdue, Lost) /\ UNCHANGED due
          /\ jobs' = [t \in Tickets |-> IF t \in Overdue THEN TimedOut(jobs[t])
                                                         ELSE jobs[t]]
      BY <2>1 DEF RefreshSeats, ExpiredJobs
    <3> QED
      BY <3>1, JobsFail
  <2>2. ASSUME NEW s \in Seats, RemoveSeat(s) \/ RegisterSeat(s)
        PROVE  JobsKept
    BY <2>2, JobsSame DEF RemoveSeat, RegisterSeat, clock
  <2>3. ASSUME NEW s \in Seats,
               RegisterStart(s) \/ \E up \in SUBSET {s} : RegisterFinish(s, up)
        PROVE  JobsKept
    BY <2>3, JobsSame DEF RegisterStart, ProbeStart, RegisterFinish, clock
  <2> QED
    BY <1>7, <2>1, <2>2, <2>3, NoneSuspended DEF Admin, RefreshFinish
<1>8. CASE UNCHANGED vars
  BY <1>8, JobsSame DEF vars, clock
<1> QED
  BY <1>3, <1>4, <1>5, <1>6, <1>7, <1>8 DEF Next, Environment

LEMMA LedgersStep ==
    ASSUME JobsInv, RefreshesRun, [Next]_vars
    PROVE  JobsInv' /\ JobsStep /\ LeasesStep
<1> USE DEF JobsInv
<1>1. TypeOK'
  BY TypeStep
<1>3. probe'.kind # "refresh"
  BY NoneSuspended, ZenonT(40)
     DEF Next, Calls, Environment, Admin, Messages, Timers, vars,
         ReserveSeatBudget, ReconcileSeatBudget, InvokeContributor,
         MarkSeatUnhealthy, RemoveSeat, RegisterSeat,
         RegisterFinish, RefreshSeats, RefreshFinish,
         Connect, Close, SeatRegister, Heartbeat, LateResult, Result,
         JobTimeout, LeaseGoesStale, DeadlinePasses, HealthLapses, MonthTurns,
         Restart
<1> QED
  BY <1>1, <1>3, JobsKeptStep, LeasesKept DEF JobsKept

LEMMA JobsInit == Init => JobsInv
<1> SUFFICES ASSUME Init PROVE JobsInv
  OBVIOUS
<1>1. TypeOK
  BY TypeInit
<1> QED
  BY <1>1 DEF Init, JobsInv, WaitersWillHear, AnswersMatchLedger, NoAnswer, NoProbe

\* A caller of invokeContributor never waits in vain: the job it waits for
\* is pending, or its own timer is about to fire.
THEOREM NobodyWaitsInVain ==
    ASSUME RefreshesRun
    PROVE  Spec => []WaitersWillHear
<1>1. JobsInv => WaitersWillHear
  BY DEF JobsInv
<1> QED
  BY <1>1, JobsInit, LedgersStep, PTL DEF Spec

\* What invokeContributorOutcome answered is what the ledger says for good.
THEOREM AnswersAreFinal ==
    ASSUME RefreshesRun
    PROVE  Spec => []AnswersMatchLedger
<1>1. JobsInv => AnswersMatchLedger
  BY DEF JobsInv
<1> QED
  BY <1>1, JobsInit, LedgersStep, PTL DEF Spec

\* A terminal job is a fence: no late result, timeout or disconnection
\* changes its outcome, or a usage once recorded.
THEOREM TerminalJobsAreFences ==
    ASSUME RefreshesRun
    PROVE  Spec => TerminalJobsStay
<1>1. JobsInv /\ [Next]_vars => [JobsStep]_vars
  BY LedgersStep
<1>2. JobsInv /\ [Next]_vars => JobsInv'
  BY LedgersStep
<1> QED
  BY <1>1, <1>2, JobsInit, PTL DEF Spec, TerminalJobsStay, JobsStep

\* A lease is settled at most once: reconcileSeatBudget may be repeated.
THEOREM LeasesSettleOnce ==
    ASSUME RefreshesRun
    PROVE  Spec => SettledOnce
<1>1. JobsInv /\ [Next]_vars => JobsInv'
  BY LedgersStep
<1>2. JobsInv /\ [Next]_vars =>
        [\A t \in Tickets :
            leases[t].status = "settled" => leases'[t] = leases[t]]_vars
  BY LedgersStep DEF LeasesStep
<1> QED
  BY <1>1, <1>2, JobsInit, PTL DEF Spec, SettledOnce

\* A reservation the registry accepted stays on its books until it is
\* settled or stale.
THEOREM LeasesStay ==
    ASSUME RefreshesRun
    PROVE  Spec => ReservationsStay
<1>1. JobsInv /\ [Next]_vars => JobsInv'
  BY LedgersStep
<1>2. JobsInv /\ [Next]_vars =>
        [\A t \in Tickets \ stale :
            leases[t].status = "reserved" => leases'[t].status # "none"]_vars
  BY LedgersStep DEF LeasesStep
<1> QED
  BY <1>1, <1>2, JobsInit, PTL DEF Spec, ReservationsStay
-----------------------------------------------------------------------------
(***************************************************************************)
(* The connections.  A seat is marked healthy only by its own connection,  *)
(* and loses its mark when that connection goes.  The invariant adds that  *)
(* no connection speaks for a seat its credential is not valid for, and    *)
(* that no HTTP probe is about to overwrite a contributor seat.            *)
(***************************************************************************)

ConnInv ==
    /\ TypeOK /\ HealthyIsConnected
    /\ \A c \in Conns : bound[c].seat \in Authorized[c] \cup {NoSeat}
    /\ probe.kind # "refresh"
    /\ probe.kind = "register" => probe.asked \cap Contributors = {}

\* Seat r has the connection it had, and is not healthier.
NoHealthier(r) ==
    seats'[r].conn = seats[r].conn /\ (seats'[r].healthy => seats[r].healthy)

LEMMA RollHealth ==
    ASSUME NEW r \in SeatRecord, NEW p
    PROVE  Roll(r, p).conn = r.conn /\ Roll(r, p).healthy = r.healthy
BY DEF Roll, SeatRecord

LEMMA BudgetHealth ==
    ASSUME NEW r \in SeatRecord, NEW held, NEW cost, NEW p \in Nat
    PROVE  /\ Reconciled(r, held, cost, p).conn = r.conn
           /\ Reconciled(r, held, cost, p).healthy = r.healthy
           /\ Reserved(r, p).conn = r.conn /\ Reserved(r, p).healthy = r.healthy
<1> DEFINE q == Roll(r, p)
<1>1. q \in SeatRecord /\ q.conn = r.conn /\ q.healthy = r.healthy
  BY RollType, RollHealth
<1> HIDE DEF q
<1>2. \A a, b, d : LET f == [q EXCEPT !.reserved = a, !.spent = b, !.exhausted = d]
                   IN  f.conn = q.conn /\ f.healthy = q.healthy
  BY <1>1 DEF SeatRecord
<1>3. \A a, d : LET f == [q EXCEPT !.reserved = a, !.exhausted = d]
                IN  f.conn = q.conn /\ f.healthy = q.healthy
  BY <1>1 DEF SeatRecord
<1> QED
  BY <1>1, <1>2, <1>3 DEF Reconciled, Reserved, q

LEMMA ReclaimHealth ==
    ASSUME TypeOK, NEW s \in Seats
    PROVE  /\ ReclaimedSeats[s].conn = seats[s].conn
           /\ ReclaimedSeats[s].healthy = seats[s].healthy
BY BudgetHealth DEF ReclaimedSeats, TypeOK

\* A handler that makes no seat healthier and moves no connection to another
\* seat keeps the invariant.
LEMMA ConnectionsStay ==
    ASSUME HealthyIsConnected, \A r \in Contributors : NoHealthier(r),
           \A c \in Conns : bound'[c].seat = bound[c].seat
    PROVE  HealthyIsConnected'
BY DEF HealthyIsConnected, NoHealthier, Of

LEMMA HealthCalls ==
    ASSUME TypeOK, Calls, NEW r \in Contributors
    PROVE  NoHealthier(r) /\ bound' = bound /\ probe' = probe
<1>1. r \in Seats
  BY SeatsAssumption
<1> USE DEF TypeOK, NoHealthier
<1>2. /\ ReclaimedSeats \in [Seats -> SeatRecord] /\ ReclaimedSeats[r] \in SeatRecord
      /\ ReclaimedSeats[r].conn = seats[r].conn
      /\ ReclaimedSeats[r].healthy = seats[r].healthy
  BY <1>1, ReclaimedType, ReclaimHealth
<1>3. ASSUME NEW t \in Tickets, ReserveSeatBudget(t)
      PROVE  NoHealthier(r) /\ bound' = bound /\ probe' = probe
  <2> DEFINE s == SeatOf(t)
  <2>1. \/ seats' = ReclaimedSeats
        \/ seats' = [ReclaimedSeats EXCEPT ![s] = Reserved(@, period)]
        \/ seats' = [ReclaimedSeats EXCEPT ![s] = IF @.registered THEN Roll(@, period) ELSE @]
    BY <1>3 DEF ReserveSeatBudget
  <2>2. seats'[r] \in {ReclaimedSeats[r], Reserved(ReclaimedSeats[r], period),
                       Roll(ReclaimedSeats[r], period)}
    BY <1>1, <1>2, <2>1
  <2>3. \A q \in {ReclaimedSeats[r], Reserved(ReclaimedSeats[r], period),
                  Roll(ReclaimedSeats[r], period)} :
           q.conn = seats[r].conn /\ q.healthy = seats[r].healthy
    <3>1. ReclaimedSeats[r] \in SeatRecord /\ period \in Nat
      BY <1>2
    <3>2. /\ Roll(ReclaimedSeats[r], period).conn = ReclaimedSeats[r].conn
          /\ Roll(ReclaimedSeats[r], period).healthy = ReclaimedSeats[r].healthy
      BY <3>1, RollHealth
    <3>3. /\ Reserved(ReclaimedSeats[r], period).conn = ReclaimedSeats[r].conn
          /\ Reserved(ReclaimedSeats[r], period).healthy = ReclaimedSeats[r].healthy
      BY <3>1, BudgetHealth
    <3> QED
      BY <1>2, <3>2, <3>3
  <2> QED
    BY <1>3, <2>2, <2>3 DEF ReserveSeatBudget
<1>4. ASSUME NEW t \in Tickets, NEW cost, ReconcileSeatBudget(t, cost)
      PROVE  NoHealthier(r) /\ bound' = bound /\ probe' = probe
  <2> DEFINE s == SeatOf(t)
  <2>1. \/ seats' = ReclaimedSeats
        \/ seats' = [ReclaimedSeats EXCEPT
                       ![s] = IF @.registered THEN Reconciled(@, Estimate, cost, period) ELSE @]
    BY <1>4 DEF ReconcileSeatBudget
  <2>2. seats'[r] \in {ReclaimedSeats[r], Reconciled(ReclaimedSeats[r], Estimate, cost, period)}
    BY <1>1, <1>2, <2>1
  <2>3. \A q \in {ReclaimedSeats[r], Reconciled(ReclaimedSeats[r], Estimate, cost, period)} :
           q.conn = seats[r].conn /\ q.healthy = seats[r].healthy
    BY <1>2, BudgetHealth
  <2> QED
    BY <1>4, <2>2, <2>3 DEF ReconcileSeatBudget
<1>5. ASSUME NEW t \in Tickets, NEW same, InvokeContributor(t, same)
      PROVE  NoHealthier(r) /\ bound' = bound /\ probe' = probe
  BY <1>5 DEF InvokeContributor
<1>6. ASSUME NEW s \in Seats, MarkSeatUnhealthy(s)
      PROVE  NoHealthier(r) /\ bound' = bound /\ probe' = probe
  BY <1>1, <1>6 DEF MarkSeatUnhealthy, SeatRecord
<1> QED
  BY <1>3, <1>4, <1>5, <1>6 DEF Calls

\* A late result bills the seat, whose health it leaves alone.
LEMMA HealthLate ==
    ASSUME TypeOK, NEW r \in Seats, NEW t \in Tickets, NEW job, NEW cost,
           BillLate(t, job, cost)
    PROVE  NoHealthier(r)
<1> USE DEF TypeOK, NoHealthier
<1>1. \/ seats' = seats
      \/ seats' = [seats EXCEPT ![SeatOf(t)] =
                      IF @.registered THEN Reconciled(@, 0, cost, period) ELSE @]
  BY DEF BillLate
<1>2. seats'[r] \in {seats[r], Reconciled(seats[r], 0, cost, period)}
  BY <1>1
<1> QED
  BY <1>2, BudgetHealth

LEMMA HealthMessages ==
    ASSUME ConnInv, Messages,
           \A c \in Conns : \A s, r \in Authorized[c] : s = r
    PROVE  /\ HealthyIsConnected'
           /\ \A c \in Conns : bound'[c].seat \in Authorized[c] \cup {NoSeat}
<1>1. PICK c \in Conns :
        \/ Connect(c) \/ Close(c)
        \/ \E s \in Seats :
            \/ SeatRegister(c, s)
            \/ \E status \in {"healthy", "unavailable", "exhausted"} :
                    Heartbeat(c, s, status)
        \/ \E t \in Tickets, report \in Reports :
            LateResult(c, t, report) \/ Result(c, t, report)
  BY DEF Messages
<1> USE DEF ConnInv, TypeOK, NoHealthier, Of
<1>0. Contributors \subseteq Seats /\ NoSeat \notin Seats
  BY SeatsAssumption
<1>2. CASE Connect(c)
  BY <1>2, ConnectionsStay DEF Connect, Connection
<1>3. CASE Close(c)
  <2>1. /\ bound' = [bound EXCEPT ![c] = NoConnection]
        /\ seats' = [s \in Seats |->
                       IF s \in Abandoned(c)
                       THEN [seats[s] EXCEPT !.conn = NoConn, !.healthy = FALSE]
                       ELSE seats[s]]
    BY <1>3 DEF Close
  <2>2. ASSUME NEW s \in Contributors, seats'[s].healthy
        PROVE  seats'[s].conn \in Conns /\ bound'[seats'[s].conn].seat = s
    <3>1. s \notin Abandoned(c) /\ seats'[s] = seats[s]
      <4>1. s \in Seats /\ seats[s] \in SeatRecord
        BY <1>0
      <4>2. [seats[s] EXCEPT !.conn = NoConn, !.healthy = FALSE].healthy = FALSE
        BY <4>1 DEF SeatRecord
      <4> QED
        BY <2>1, <2>2, <4>1, <4>2
    <3>2. seats[s].conn \in Conns /\ bound[seats[s].conn].seat = s /\ seats[s].conn # c
      BY <1>0, <2>2, <3>1 DEF HealthyIsConnected, Abandoned, Active
    <3> QED
      BY <2>1, <3>1, <3>2
  <2>3. \A d \in Conns : bound'[d].seat \in {bound[d].seat, NoSeat}
    <3>1. \A d \in Conns : bound'[d] \in {bound[d], NoConnection}
      BY <2>1
    <3>2. NoConnection.seat = NoSeat
      BY DEF NoConnection
    <3> QED
      BY <3>1, <3>2
  <2> QED
    BY <2>2, <2>3 DEF HealthyIsConnected
<1>4. ASSUME NEW s \in Seats, SeatRegister(c, s)
      PROVE  /\ HealthyIsConnected'
             /\ \A d \in Conns : bound'[d].seat \in Authorized[d] \cup {NoSeat}
  <2> DEFINE kept == IF seats[s].registered THEN seats[s]
                     ELSE [Unregistered EXCEPT !.period = period]
             new == [kept EXCEPT !.registered = TRUE, !.healthy = TRUE,
                                 !.fresh = TRUE, !.exhausted = FALSE, !.conn = c]
  <2>1. /\ s \in Authorized[c] /\ bound' = [Closing(Of(s) \ {c}) EXCEPT ![c].seat = s]
        /\ seats' = [seats EXCEPT ![s] = Roll(new, period)]
    BY <1>4 DEF SeatRegister
  <2>2. kept \in SeatRecord
    BY NothingType DEF SeatRecord
  <2>3. new \in SeatRecord /\ new.conn = c
    <3> HIDE DEF kept
    <3> QED
      BY <2>2 DEF SeatRecord
  <2> HIDE DEF new
  <2>4. seats'[s].conn = c /\ \A r \in Seats \ {s} : seats'[r] = seats[r]
    BY <2>1, <2>3, RollHealth
  <2>5. /\ bound'[c].seat = s
        /\ \A d \in Conns \ {c} : bound'[d].seat = bound[d].seat
    BY <2>1, ClosingType DEF Closing, Connection
  <2>6. bound[c].seat \in {s, NoSeat}
    BY <2>1
  <2>7. ASSUME NEW r \in Contributors, seats'[r].healthy
        PROVE  seats'[r].conn \in Conns /\ bound'[seats'[r].conn].seat = r
    <3>1. CASE r = s
      BY <2>4, <2>5, <3>1
    <3>2. CASE r # s
      <4>1. seats'[r] = seats[r] /\ seats[r].conn \in Conns /\ bound[seats[r].conn].seat = r
        BY <1>0, <2>4, <2>7, <3>2 DEF HealthyIsConnected
      <4>2. seats[r].conn # c
        BY <1>0, <2>6, <3>2, <4>1
      <4> QED
        BY <2>5, <4>1, <4>2
    <3> QED
      BY <3>1, <3>2
  <2> QED
    BY <2>1, <2>5, <2>7 DEF HealthyIsConnected
<1>5. ASSUME NEW s \in Seats, NEW status, Heartbeat(c, s, status)
      PROVE  /\ HealthyIsConnected'
             /\ \A d \in Conns : bound'[d].seat \in Authorized[d] \cup {NoSeat}
  <2>1. /\ bound' = bound /\ seats[s].conn = c /\ bound[c].seat = s
        /\ seats'[s].conn = seats[s].conn /\ \A r \in Seats \ {s} : seats'[r] = seats[r]
    BY <1>5 DEF Heartbeat, Active, SeatRecord
  <2> QED
    BY <1>0, <2>1 DEF HealthyIsConnected
<1>6. ASSUME NEW t \in Tickets, NEW report \in Reports, LateResult(c, t, report)
      PROVE  /\ HealthyIsConnected'
             /\ \A d \in Conns : bound'[d].seat \in Authorized[d] \cup {NoSeat}
  <2>1. bound' = bound /\ BillLate(t, TimedOut(jobs[t]), report.cost)
    BY <1>6 DEF LateResult
  <2> QED
    BY <1>0, <2>1, HealthLate, ConnectionsStay
<1>7. ASSUME NEW t \in Tickets, NEW report \in Reports, Result(c, t, report)
      PROVE  /\ HealthyIsConnected'
             /\ \A d \in Conns : bound'[d].seat \in Authorized[d] \cup {NoSeat}
  <2>1. bound' = bound /\ \A r \in Seats : NoHealthier(r)
    BY <1>7 DEF Result, SeatRecord
  <2> QED
    BY <1>0, <2>1, ConnectionsStay
<1> QED
  BY <1>1, <1>2, <1>3, <1>4, <1>5, <1>6, <1>7, ConnectionsStay DEF Connect, Close, NoConnection, Connection

LEMMA HealthAdmin ==
    ASSUME ConnInv, Admin, RefreshesRun
    PROVE  /\ HealthyIsConnected' /\ \A c \in Conns : bound'[c].seat = bound[c].seat
           /\ probe'.kind # "refresh"
           /\ probe'.kind = "register" => probe'.asked \cap Contributors = {}
<1> USE DEF ConnInv, TypeOK
<1>0. Contributors \subseteq Seats
  BY SeatsAssumption
<1>1. \A C : \A c \in Conns : Closing(C)[c].seat = bound[c].seat
  BY DEF Closing, Connection
<1>2. ASSUME NEW s \in Seats, RemoveSeat(s)
      PROVE  /\ HealthyIsConnected' /\ \A c \in Conns : bound'[c].seat = bound[c].seat
             /\ probe' = probe
  <2>1. seats' = [seats EXCEPT ![s] = Unregistered] /\ bound' = Closing(Of(s)) /\ probe' = probe
    BY <1>2 DEF RemoveSeat
  <2>2. \A r \in Contributors : seats'[r].healthy => seats'[r] = seats[r]
    BY <1>0, <2>1 DEF Unregistered
  <2> QED
    BY <1>1, <2>1, <2>2 DEF HealthyIsConnected, Of
<1>3. ASSUME NEW s \in Seats, RegisterSeat(s)
      PROVE  /\ HealthyIsConnected' /\ bound' = bound /\ probe' = probe
  <2>1. ~Unchecked(s).healthy
    <3> DEFINE kept == IF seats[s].registered THEN seats[s]
                       ELSE [Unregistered EXCEPT !.period = period]
               new == [kept EXCEPT !.registered = TRUE, !.healthy = FALSE,
                                   !.fresh = FALSE, !.conn = NoConn]
    <3>1. kept \in SeatRecord
      BY NothingType DEF SeatRecord
    <3>2. new \in SeatRecord /\ new.healthy = FALSE
      <4> HIDE DEF kept
      <4> QED
        BY <3>1 DEF SeatRecord
    <3>3. Unchecked(s) = Roll(new, period)
      BY DEF Unchecked
    <3> HIDE DEF new
    <3> QED
      BY <3>2, <3>3, RollHealth
  <2>2. \A r \in Contributors : seats'[r].healthy => seats'[r] = seats[r]
    BY <1>0, <1>3, <2>1 DEF RegisterSeat
  <2> QED
    BY <1>3, <2>2 DEF HealthyIsConnected, Of, RegisterSeat
<1>4. ASSUME NEW s \in Seats, RegisterStart(s)
      PROVE  /\ UNCHANGED <<seats, bound>>
             /\ probe'.kind = "register" /\ probe'.asked = {s} /\ s \notin Contributors
  BY <1>4, NothingType DEF RegisterStart, ProbeStart, ProbeRecord
<1>5. ASSUME NEW s \in Seats, NEW up, RegisterFinish(s, up)
      PROVE  /\ HealthyIsConnected' /\ bound' = bound /\ probe' = NoProbe
  <2>1. s \notin Contributors
    BY <1>5 DEF RegisterFinish
  <2>2. \A r \in Contributors : seats'[r] = seats[r]
    BY <1>5, <2>1 DEF RegisterFinish
  <2> QED
    BY <1>5, <2>2 DEF RegisterFinish, HealthyIsConnected, Of
<1>6. CASE RefreshSeats
  <2>1. seats' = RefreshedSeats /\ bound' = bound /\ probe' = probe
    BY <1>6 DEF RefreshSeats
  <2>2. ASSUME NEW r \in Contributors
        PROVE  NoHealthier(r)
    <3> DEFINE seat == Roll(ReclaimedSeats[r], period)
    <3>1. /\ r \in Seats /\ ReclaimedSeats[r] \in SeatRecord
          /\ ReclaimedSeats[r].conn = seats[r].conn
          /\ ReclaimedSeats[r].healthy = seats[r].healthy
      BY <1>0, ReclaimedType, ReclaimHealth
    <3>2. seat \in SeatRecord /\ seat.conn = seats[r].conn /\ seat.healthy = seats[r].healthy
      BY <3>1, RollType, RollHealth
    <3>3. RefreshedSeats[r] \in {ReclaimedSeats[r],
                                 [seat EXCEPT !.healthy = seat.healthy /\ seat.fresh]}
      BY <3>1 DEF RefreshedSeats
    <3> HIDE DEF seat
    <3>4. LET f == [seat EXCEPT !.healthy = seat.healthy /\ seat.fresh]
          IN  f.conn = seat.conn /\ (f.healthy => seat.healthy)
      BY <3>2 DEF SeatRecord
    <3> QED
      BY <2>1, <3>1, <3>2, <3>3, <3>4 DEF NoHealthier
  <2> QED
    BY <2>1, <2>2, ConnectionsStay
<1>7. ~RefreshStart /\ \A up : ~RefreshFinish(up)
  BY NoneSuspended DEF RefreshFinish
<1> QED
  BY <1>2, <1>3, <1>4, <1>5, <1>6, <1>7, NoneSuspended
     DEF Admin, HealthyIsConnected, Of, NoProbe

LEMMA ConnStep ==
    ASSUME RefreshesRun, \A c \in Conns : \A s, r \in Authorized[c] : s = r
    PROVE  ConnInv /\ [Next]_vars => ConnInv'
<1> SUFFICES ASSUME ConnInv, [Next]_vars PROVE ConnInv'
  OBVIOUS
<1>1. TypeOK'
  BY TypeStep DEF ConnInv
<1>2. ASSUME HealthyIsConnected', UNCHANGED probe,
             \A c \in Conns : bound'[c].seat \in Authorized[c] \cup {NoSeat}
      PROVE  ConnInv'
  BY <1>1, <1>2 DEF ConnInv
<1>3. CASE Calls
  <2>1. UNCHANGED <<bound, probe>>
    BY <1>3 DEF Calls, ReserveSeatBudget, ReconcileSeatBudget, InvokeContributor, MarkSeatUnhealthy
  <2>2. HealthyIsConnected'
    <3>1. \A r \in Contributors : NoHealthier(r)
      BY <1>3, HealthCalls DEF ConnInv
    <3> QED
      BY <2>1, <3>1, ConnectionsStay DEF ConnInv
  <2>3. \A c \in Conns : bound'[c].seat \in Authorized[c] \cup {NoSeat}
    BY <2>1 DEF ConnInv
  <2> QED
    BY <1>2, <2>1, <2>2, <2>3
<1>4. CASE Messages
  <2>1. PICK c \in Conns :
          \/ Connect(c) \/ Close(c)
          \/ \E s \in Seats :
              \/ SeatRegister(c, s)
              \/ \E status \in {"healthy", "unavailable", "exhausted"} :
                      Heartbeat(c, s, status)
          \/ \E t \in Tickets, report \in Reports :
              LateResult(c, t, report) \/ Result(c, t, report)
    BY <1>4 DEF Messages
  <2>2. probe' = probe
    <3>1. CASE Connect(c) \/ Close(c)
      BY <3>1 DEF Connect, Close
    <3>2. CASE \E s \in Seats :
                 \/ SeatRegister(c, s)
                 \/ \E status \in {"healthy", "unavailable", "exhausted"} :
                         Heartbeat(c, s, status)
      BY <3>2 DEF SeatRegister, Heartbeat
    <3>3. CASE \E t \in Tickets, report \in Reports :
                 LateResult(c, t, report) \/ Result(c, t, report)
      BY <3>3 DEF LateResult, Result
    <3> QED
      BY <2>1, <3>1, <3>2, <3>3
  <2> QED
    BY <1>2, <1>4, <2>2, HealthMessages
<1>5. CASE Admin
  BY <1>1, <1>5, HealthAdmin DEF ConnInv
<1>6. CASE Timers
  <2>1. ASSUME NEW r \in Contributors PROVE NoHealthier(r)
    <3>1. r \in Seats /\ seats[r] \in SeatRecord /\ seats \in [Seats -> SeatRecord]
      BY SeatsAssumption DEF ConnInv, TypeOK
    <3>2. seats' = seats \/ \E s \in Seats : HealthLapses(s)
      BY <1>6 DEF Timers, JobTimeout, LeaseGoesStale, DeadlinePasses, MonthTurns
    <3>3. CASE seats' = seats
      BY <3>3 DEF NoHealthier
    <3>4. ASSUME NEW s \in Seats, HealthLapses(s) PROVE NoHealthier(r)
      <4>1. seats'[r] \in {seats[r], [seats[r] EXCEPT !.fresh = FALSE]}
        BY <3>1, <3>4 DEF HealthLapses
      <4> QED
        BY <3>1, <4>1 DEF NoHealthier, SeatRecord
    <3> QED
      BY <3>2, <3>3, <3>4
  <2>2. UNCHANGED <<bound, probe>>
    BY <1>6 DEF Timers, JobTimeout, LeaseGoesStale, DeadlinePasses, HealthLapses, MonthTurns, clock
  <2> QED
    BY <1>2, <2>1, <2>2, ConnectionsStay DEF ConnInv
<1>7. CASE Restart
  BY <1>1, <1>7 DEF Restart, ConnInv, HealthyIsConnected, Of, NoProbe
<1>8. CASE UNCHANGED vars
  BY <1>1, <1>8 DEF vars, ConnInv, HealthyIsConnected, Of
<1> QED
  BY <1>3, <1>4, <1>5, <1>6, <1>7, <1>8 DEF Next, Environment

\* The guard isActiveSeatConnection of handleSeatMessage: a seat that routing
\* takes for healthy has a connection that has not gone, whatever replaced or
\* revoked connections still deliver.  The code lets the operator's bootstrap
\* token register any seat, with which a connection may leave one seat for
\* another, and a suspended refresh writes old health marks back.
THEOREM HealthySeatsAreConnected ==
    ASSUME RefreshesRun, \A c \in Conns : \A s, r \in Authorized[c] : s = r
    PROVE  Spec => []HealthyIsConnected
<1>1. Init => ConnInv
  <2> SUFFICES ASSUME Init PROVE ConnInv
    OBVIOUS
  <2>1. TypeOK
    BY TypeInit
  <2>2. \A s \in Contributors : seats[s].healthy = FALSE
    BY SeatsAssumption DEF Init, NoSeats, Unregistered
  <2> QED
    BY <2>1, <2>2 DEF Init, ConnInv, HealthyIsConnected, NoConnection, NoProbe
<1>2. ConnInv => HealthyIsConnected
  BY DEF ConnInv
<1> QED
  BY <1>1, <1>2, ConnStep, PTL DEF Spec

LEMMA ConnectionGoes ==
    ASSUME TypeOK, [Next]_vars, NEW c \in Conns,
           bound[c].socket = "closing", bound'[c].socket = "closed"
    PROVE  Close(c)
<1> USE DEF TypeOK
<1>1. ASSUME NEW C PROVE Closing(C)[c].socket = "closing"
  BY DEF Closing, Connection
<1>2. bound' # bound
  OBVIOUS
<1>3. Admin \/ Messages
  BY <1>2 DEF Next, Environment, Calls, Timers, Restart, vars, clock,
              ReserveSeatBudget, ReconcileSeatBudget, InvokeContributor, MarkSeatUnhealthy,
              JobTimeout, LeaseGoesStale, DeadlinePasses, HealthLapses, MonthTurns
<1>4. ~Admin
  BY <1>1, <1>2 DEF Admin, RemoveSeat, RegisterSeat, RegisterStart, ProbeStart,
                    RegisterFinish, RefreshSeats, RefreshStart, RefreshFinish, clock
<1>5. PICK d \in Conns :
        \/ Connect(d) \/ Close(d)
        \/ \E s \in Seats :
            \/ SeatRegister(d, s)
            \/ \E status \in {"healthy", "unavailable", "exhausted"} :
                    Heartbeat(d, s, status)
        \/ \E t \in Tickets, report \in Reports :
            LateResult(d, t, report) \/ Result(d, t, report)
  BY <1>3, <1>4 DEF Messages
<1>6. ASSUME NEW s \in Seats, SeatRegister(d, s)
      PROVE  FALSE
  <2>1. bound' = [Closing(Of(s) \ {d}) EXCEPT ![d].seat = s]
    BY <1>6 DEF SeatRegister
  <2>2. Closing(Of(s) \ {d}) \in [Conns -> Connection]
    BY ClosingType
  <2> QED
    BY <1>1, <2>1, <2>2 DEF Connection
<1>7. ~Connect(d)
  BY DEF Connect, Connection, NoConnection
<1>8. CASE Close(d)
  BY <1>8 DEF Close
<1> QED
  BY <1>2, <1>5, <1>6, <1>7, <1>8 DEF Heartbeat, LateResult, Result

\* The guard of markConnectionUnavailable: when a replaced connection finally
\* goes, its successor, the successor's jobs and their callers go on.
THEOREM SuccessorsAreUndisturbed == Spec => SuccessorUndisturbed
<1>1. ASSUME TypeOK, [Next]_vars, NEW c \in Conns, NEW s \in Seats,
             bound[c].socket = "closing", bound'[c].socket = "closed", Connected(s)
      PROVE  /\ Connected(s)' /\ seats'[s] = seats[s]
             /\ \A t \in Tickets : SeatOf(t) = s =>
                   jobs'[t] = jobs[t] /\ (t \in live => t \in live')
  <2> USE <1>1 DEF TypeOK
  <2>1. Close(c)
    BY ConnectionGoes
  <2>2. seats[s].conn # c /\ s \notin Abandoned(c)
    BY DEF Connected, Abandoned, Active
  <2>3. seats'[s] = seats[s] /\ bound'[seats[s].conn] = bound[seats[s].conn]
    BY <2>1, <2>2 DEF Close, Connected, SeatRecord
  <2>4. \A t \in Tickets : SeatOf(t) = s =>
           jobs'[t] = jobs[t] /\ (t \in live => t \in live')
    BY <2>1, <2>2 DEF Close, Resume
  <2> QED
    BY <2>3, <2>4 DEF Connected
<1>2. TypeOK /\ [Next]_vars =>
        \A c \in Conns, s \in Seats :
            bound[c].socket = "closing" /\ bound'[c].socket = "closed" /\ Connected(s) =>
                /\ Connected(s)' /\ seats'[s] = seats[s]
                /\ \A t \in Tickets : SeatOf(t) = s =>
                      jobs'[t] = jobs[t] /\ (t \in live => t \in live')
  BY <1>1
<1> QED
  BY <1>2, TypeInit, TypeStep, PTL DEF Spec, SuccessorUndisturbed
-----------------------------------------------------------------------------
(***************************************************************************)
(* Every open lease is held on its seat, while no month turns and no seat  *)
(* is removed: with MoneyHeldIsBacked, a seat holds exactly its open       *)
(* leases.  Again the snapshot of a suspended refresh must have this of    *)
(* itself, and a seat that is being registered must have no lease yet.     *)
(***************************************************************************)

Covered(S, L) ==
    \A s \in Seats :
        /\ S[s].period = 0
        /\ Estimate * Cardinality(Held(L, s)) <= S[s].reserved
        /\ ~S[s].registered => Held(L, s) = {}

ProbeCovered ==
    /\ probe.kind = "refresh" => Covered(probe.seats, probe.leases)
    /\ probe.kind = "register" =>
            \A s \in probe.asked : /\ s \notin Contributors /\ ~seats[s].registered
                                   /\ probe.seats[s].registered
                                   /\ probe.seats[s].period = 0

CoverInv == TypeOK /\ period = 0 /\ Covered(seats, leases) /\ ProbeCovered

\* In the month an account is of, the arithmetic is plain.
LEMMA SameMonth ==
    ASSUME NEW r \in SeatRecord, r.period = 0
    PROVE  /\ Roll(r, 0) = r
           /\ Reserved(r, 0).reserved = r.reserved + Estimate
           /\ Reserved(r, 0).period = 0
           /\ \A held, cost \in Nat :
                /\ Reconciled(r, held, cost, 0).reserved = Monus(r.reserved, held)
                /\ Reconciled(r, held, cost, 0).period = 0
<1>1. Roll(r, 0) = r
  BY DEF Roll
<1>2. /\ Reserved(r, 0).reserved = r.reserved + Estimate
      /\ Reserved(r, 0).period = 0
  BY <1>1 DEF Reserved, SeatRecord
<1>3. ASSUME NEW held \in Nat, NEW cost \in Nat
      PROVE  /\ Reconciled(r, held, cost, 0).reserved = Monus(r.reserved, held)
             /\ Reconciled(r, held, cost, 0).period = 0
  <2> DEFINE left == Monus(r.reserved, held)
  <2>1. Reconciled(r, held, cost, 0)
          = [r EXCEPT !.reserved = left, !.spent = r.spent + cost,
                      !.exhausted = Budget <= r.spent + cost + left]
    BY <1>1 DEF Reconciled
  <2> HIDE DEF left
  <2>2. /\ Reconciled(r, held, cost, 0).reserved = left
        /\ Reconciled(r, held, cost, 0).period = 0
    BY <2>1 DEF SeatRecord
  <2> QED
    BY <2>2 DEF left
<1> QED
  BY <1>1, <1>2, <1>3

\* The same leases stay covered by seats that hold as much or more.
LEMMA CoveredMore ==
    ASSUME NEW S \in [Seats -> SeatRecord], NEW L,
           NEW S2 \in [Seats -> SeatRecord], Covered(S, L),
           \A s \in Seats : /\ S2[s].period = 0
                            /\ S[s].registered => /\ S[s].reserved <= S2[s].reserved
                                                  /\ S2[s].registered
    PROVE  Covered(S2, L)
<1> SUFFICES ASSUME NEW s \in Seats
             PROVE  /\ Estimate * Cardinality(Held(L, s)) <= S2[s].reserved
                    /\ ~S2[s].registered => Held(L, s) = {}
  BY DEF Covered
<1>1. S[s].reserved \in Nat /\ S2[s].reserved \in Nat
  BY DEF SeatRecord
<1> DEFINE most == Estimate * Cardinality(Held(L, s))
<1>2. most \in Nat /\ (Held(L, s) = {} => most = 0)
  BY HeldFinite, EstimateAssumption, FS_EmptySet
<1>3. most <= S[s].reserved /\ (~S[s].registered => Held(L, s) = {})
  BY DEF Covered
<1> HIDE DEF most
<1>4. most <= S2[s].reserved
  BY <1>1, <1>2, <1>3
<1> QED
  BY <1>3, <1>4 DEF most

LEMMA CoveredReclaimed ==
    ASSUME TypeOK, period = 0, Covered(seats, leases)
    PROVE  Covered(ReclaimedSeats, ReclaimedLeases)
<1> SUFFICES ASSUME NEW s \in Seats
             PROVE  /\ ReclaimedSeats[s].period = 0
                    /\ Estimate * Cardinality(Held(ReclaimedLeases, s))
                          <= ReclaimedSeats[s].reserved
                    /\ ~ReclaimedSeats[s].registered => Held(ReclaimedLeases, s) = {}
  BY DEF Covered
<1> DEFINE H == Held(leases, s)
           T == StaleOf(s)
           c == Cardinality(H)
           d == Cardinality(T)
<1>1. Held(ReclaimedLeases, s) = H \ T
  BY DEF Held, ReclaimedLeases, StaleOf, NoLease, TypeOK
<1>2. H \cap T = T
  BY DEF Held, StaleOf, TypeOK
<1>3. c \in Nat /\ d \in Nat /\ Cardinality(H \ T) = c - d /\ c - d \in Nat
  <2>1. IsFiniteSet(H) /\ c \in Nat
    BY HeldFinite
  <2>2. d \in Nat
    BY StaleFinite
  <2>3. IsFiniteSet(H \ T) /\ Cardinality(H \ T) = c - d
    BY <1>2, <2>1, FS_Difference
  <2>4. Cardinality(H \ T) \in Nat
    BY <2>3, FS_CardinalityType
  <2> QED
    BY <2>1, <2>2, <2>3, <2>4
<1>4. /\ seats[s] \in SeatRecord /\ seats[s].reserved \in Nat /\ seats[s].period = 0
      /\ Estimate * c <= seats[s].reserved
      /\ ~seats[s].registered => H = {}
  BY DEF Covered, TypeOK, SeatRecord
<1>5. T = {} => H \ T = H
  OBVIOUS
<1>6. ReclaimedSeats[s].registered = seats[s].registered
  BY ReclaimedType
<1> HIDE DEF H, T, c, d
<1>7. Estimate * (c - d) = Estimate * c - Estimate * d
      /\ Estimate * c \in Nat /\ Estimate * d \in Nat /\ Estimate * (c - d) \in Nat
  BY <1>3, EstimateAssumption
<1>8. CASE ~seats[s].registered \/ T = {}
  <2>1. ReclaimedSeats[s] = seats[s]
    BY <1>8 DEF ReclaimedSeats, T
  <2>2. Estimate * (c - d) <= seats[s].reserved
    BY <1>4, <1>7
  <2> QED
    BY <1>1, <1>3, <1>4, <1>8, <2>1, <2>2
<1>9. CASE seats[s].registered /\ T # {}
  <2> DEFINE r == Reconciled(seats[s], Estimate * d, 0, 0)
  <2>1. ReclaimedSeats[s] = r
    BY <1>9 DEF ReclaimedSeats, T, d
  <2>2. r.reserved = Monus(seats[s].reserved, Estimate * d) /\ r.period = 0
    <3>1. \A held, cost \in Nat :
                /\ Reconciled(seats[s], held, cost, 0).reserved = Monus(seats[s].reserved, held)
                /\ Reconciled(seats[s], held, cost, 0).period = 0
      BY <1>4, SameMonth
    <3>2. Estimate * d \in Nat /\ 0 \in Nat
      BY <1>7
    <3> QED
      BY <3>1, <3>2, Zenon
  <2> HIDE DEF r
  <2>3. Estimate * (c - d) <= Monus(seats[s].reserved, Estimate * d)
    <3>1. ASSUME NEW x \in Nat, NEW y \in Nat, NEW z \in Nat, NEW w \in Nat,
                 z <= x, w = z - y
          PROVE  w <= Monus(x, y)
      BY <3>1 DEF Monus
    <3> QED
      BY <1>4, <1>7, <3>1
  <2> QED
    BY <1>1, <1>3, <1>6, <1>9, <2>1, <2>2, <2>3
<1> QED
  BY <1>8, <1>9

LEMMA CoveredReserve ==
    ASSUME CoverInv, NEW t \in Tickets, ReserveSeatBudget(t), TypeOK'
    PROVE  Covered(seats, leases)'
<1> DEFINE x == SeatOf(t)
           R == ReclaimedSeats
           L == ReclaimedLeases
<1>1. Covered(R, L) /\ period = 0
  BY CoveredReclaimed DEF CoverInv
<1>2. /\ R \in [Seats -> SeatRecord] /\ L \in [Tickets -> LeaseRecord]
      /\ x \in Seats /\ \A s \in Seats : R[s].period = 0
      /\ seats' \in [Seats -> SeatRecord] /\ leases' \in [Tickets -> LeaseRecord]
  BY <1>1, ReclaimedType DEF CoverInv, TypeOK, Tickets, SeatOf, Covered
<1>3. Roll(R[x], 0) = R[x]
  BY <1>2, SameMonth
<1>4. CASE seats' = R /\ leases' = L
  BY <1>1, <1>4
<1>5. CASE /\ leases' = L
           /\ seats' = [R EXCEPT ![x] = IF @.registered THEN Roll(@, period) ELSE @]
  <2>1. seats' = R
    <3> HIDE DEF R, L, x
    <3> QED
      BY <1>1, <1>2, <1>3, <1>5
  <2> QED
    BY <1>4, <1>5, <2>1
<1>6. CASE /\ L[t].status = "none" /\ R[x].registered
           /\ seats' = [R EXCEPT ![x] = Reserved(@, period)]
           /\ leases' = [L EXCEPT ![t].status = "reserved"]
  <2> SUFFICES ASSUME NEW s \in Seats
               PROVE  /\ seats'[s].period = 0
                      /\ Estimate * Cardinality(Held(leases', s)) <= seats'[s].reserved
                      /\ ~seats'[s].registered => Held(leases', s) = {}
    BY DEF Covered
  <2> HIDE DEF R, L
  <2>1. leases'[t].status = "reserved" /\ L[t].status # "reserved"
        /\ \A u \in Tickets : u # t => leases'[u].status = L[u].status
    BY <1>2, <1>6 DEF LeaseRecord
  <2>2. /\ Estimate * Cardinality(Held(L, s)) <= R[s].reserved
        /\ ~R[s].registered => Held(L, s) = {}
    BY <1>1 DEF Covered
  <2>3. CASE s # x
    <3>1. Held(leases', s) = Held(L, s)
      BY <2>1, <2>3, HeldMore
    <3> QED
      BY <1>2, <1>6, <2>2, <2>3, <3>1
  <2>4. CASE s = x
    <3> DEFINE c == Cardinality(Held(L, s))
               c2 == Cardinality(Held(leases', s))
    <3>1. Estimate * c2 = Estimate * c + Estimate
      BY <2>1, <2>4, HeldMore
    <3>2. R[s] \in SeatRecord /\ R[s].reserved \in Nat /\ R[s].period = 0
      BY <1>2 DEF SeatRecord
    <3>3. /\ seats'[s] = Reserved(R[s], 0)
          /\ seats'[s].registered = R[s].registered
          /\ seats'[s].reserved = R[s].reserved + Estimate /\ seats'[s].period = 0
      <4>1. seats'[s] = Reserved(R[s], 0)
        BY <1>1, <1>2, <1>6, <2>4
      <4>2. Reserved(R[s], 0).registered = R[s].registered
        BY <3>2, ReservedType
      <4> QED
        BY <3>2, <4>1, <4>2, SameMonth
    <3>4. Estimate \in Nat /\ Estimate * c \in Nat
      BY HeldFinite, EstimateAssumption
    <3> HIDE DEF c, c2
    <3>5. Estimate * c <= R[s].reserved
      BY <2>2 DEF c
    <3>6. Estimate * c2 <= seats'[s].reserved
      BY <3>1, <3>2, <3>3, <3>4, <3>5
    <3> QED
      BY <1>6, <2>4, <3>3, <3>6 DEF c2
  <2> QED
    BY <2>3, <2>4
<1> QED
  BY <1>4, <1>5, <1>6 DEF ReserveSeatBudget

LEMMA CoveredReconcile ==
    ASSUME CoverInv, NEW t \in Tickets, NEW cost \in Costs \cup {0},
           ReconcileSeatBudget(t, cost), TypeOK'
    PROVE  Covered(seats, leases)'
<1> DEFINE x == SeatOf(t)
           R == ReclaimedSeats
           L == ReclaimedLeases
<1>1. Covered(R, L) /\ period = 0
  BY CoveredReclaimed DEF CoverInv
<1>2. /\ R \in [Seats -> SeatRecord] /\ L \in [Tickets -> LeaseRecord]
      /\ x \in Seats /\ cost \in Nat /\ Estimate \in Nat
      /\ \A s \in Seats : R[s].period = 0
      /\ seats' \in [Seats -> SeatRecord] /\ leases' \in [Tickets -> LeaseRecord]
  BY <1>1, ReclaimedType, SeatsAssumption, EstimateAssumption
     DEF CoverInv, TypeOK, Tickets, SeatOf, Covered
<1>3. CASE seats' = R /\ leases' = L
  BY <1>1, <1>3
<1>4. CASE /\ L[t].status = "reserved"
           /\ seats' = [R EXCEPT ![x] =
                           IF @.registered
                           THEN Reconciled(@, Estimate, cost, period) ELSE @]
           /\ leases' = [L EXCEPT ![t] = [status |-> "settled", cost |-> cost]]
  <2> SUFFICES ASSUME NEW s \in Seats
               PROVE  /\ seats'[s].period = 0
                      /\ Estimate * Cardinality(Held(leases', s)) <= seats'[s].reserved
                      /\ ~seats'[s].registered => Held(leases', s) = {}
    BY DEF Covered
  <2> HIDE DEF R, L
  <2>1. leases'[t].status # "reserved" /\ L[t].status = "reserved"
        /\ \A u \in Tickets : u # t => L[u].status = leases'[u].status
    BY <1>2, <1>4
  <2>2. /\ Estimate * Cardinality(Held(L, s)) <= R[s].reserved
        /\ ~R[s].registered => Held(L, s) = {}
    BY <1>1 DEF Covered
  <2>3. CASE s # x
    <3>1. Held(L, s) = Held(leases', s)
      BY <2>1, <2>3, HeldMore
    <3> QED
      BY <1>2, <1>4, <2>2, <2>3, <3>1
  <2>4. CASE s = x
    <3> DEFINE c == Cardinality(Held(L, s))
               c2 == Cardinality(Held(leases', s))
    <3>1. Estimate * c = Estimate * c2 + Estimate
      BY <2>1, <2>4, HeldMore
    <3>2. /\ R[s] \in SeatRecord /\ R[s].reserved \in Nat /\ R[s].period = 0
          /\ Estimate * c2 \in Nat
      BY <1>2, HeldFinite DEF SeatRecord
    <3>3. R[s].registered
      BY <2>1, <2>2, <2>4 DEF Held
    <3>4. /\ seats'[s].registered = R[s].registered /\ seats'[s].period = 0
          /\ seats'[s].reserved = Monus(R[s].reserved, Estimate)
      <4>1. seats'[s] = Reconciled(R[s], Estimate, cost, 0)
        BY <1>1, <1>2, <1>4, <2>4, <3>3
      <4>2. Reconciled(R[s], Estimate, cost, 0).registered = R[s].registered
        BY <1>2, <3>2, ReconciledType
      <4>3. \A held, spent \in Nat :
                /\ Reconciled(R[s], held, spent, 0).reserved = Monus(R[s].reserved, held)
                /\ Reconciled(R[s], held, spent, 0).period = 0
        BY <3>2, SameMonth
      <4> QED
        BY <1>2, <4>1, <4>2, <4>3, Zenon
    <3> HIDE DEF c, c2
    <3>5. Estimate * c <= R[s].reserved
      BY <2>2 DEF c
    <3>6. Estimate * c2 <= Monus(R[s].reserved, Estimate)
      BY <1>2, <3>1, <3>2, <3>5 DEF Monus
    <3> QED
      BY <3>3, <3>4, <3>6 DEF c2
  <2> QED
    BY <2>3, <2>4
<1> QED
  BY <1>3, <1>4 DEF ReconcileSeatBudget

\* The handlers that leave the leases alone let no seat hold less.
HoldsAll ==
    /\ leases' = leases /\ period' = period /\ probe' = probe
    /\ \A s \in Seats : /\ seats'[s].period = 0
                        /\ seats[s].registered => /\ seats[s].reserved <= seats'[s].reserved
                                                  /\ seats'[s].registered
    /\ \A s \in Seats \ Contributors : seats'[s].registered = seats[s].registered

LEMMA HoldsAllStep ==
    ASSUME CoverInv, TypeOK', HoldsAll
    PROVE  CoverInv'
<1>1. Covered(seats, leases)'
  BY CoveredMore DEF CoverInv, TypeOK, HoldsAll
<1>2. ProbeCovered'
  <2>1. probe'.kind = "register" => probe'.asked \subseteq Seats
    BY DEF TypeOK, ProbeRecord
  <2> QED
    BY <2>1 DEF ProbeCovered, CoverInv, HoldsAll
<1> QED
  BY <1>1, <1>2 DEF CoverInv, HoldsAll

LEMMA SameSeats ==
    ASSUME CoverInv, UNCHANGED <<leases, period, probe>>,
           \A s \in Seats : /\ seats'[s].reserved = seats[s].reserved
                            /\ seats'[s].registered = seats[s].registered
                            /\ seats'[s].period = seats[s].period
    PROVE  HoldsAll
<1>1. \A s \in Seats : seats[s].reserved <= seats[s].reserved
  BY DEF CoverInv, TypeOK, SeatRecord
<1> QED
  BY <1>1 DEF HoldsAll, CoverInv, Covered

\* A seat registered again or anew.
LEMMA RegisteredSeat ==
    ASSUME CoverInv, NEW s \in Seats, NEW c \in Conns \cup {NoConn}, NEW up \in BOOLEAN,
           NEW full \in BOOLEAN
    PROVE  LET kept == IF seats[s].registered THEN seats[s]
                       ELSE [Unregistered EXCEPT !.period = period]
               r == Roll([kept EXCEPT !.registered = TRUE, !.healthy = up,
                                      !.fresh = up, !.exhausted = full, !.conn = c], period)
           IN  /\ r \in SeatRecord /\ r.registered /\ r.period = 0
               /\ seats[s].registered => r.reserved = seats[s].reserved
<1> DEFINE kept == IF seats[s].registered THEN seats[s]
                   ELSE [Unregistered EXCEPT !.period = period]
           q == [kept EXCEPT !.registered = TRUE, !.healthy = up,
                             !.fresh = up, !.exhausted = full, !.conn = c]
<1>1. /\ period = 0 /\ seats[s] \in SeatRecord /\ seats[s].period = 0
  BY DEF CoverInv, TypeOK, Covered
<1>2. /\ kept \in SeatRecord /\ kept.period = 0
      /\ seats[s].registered => kept.reserved = seats[s].reserved
  BY <1>1 DEF SeatRecord, Unregistered
<1>3. q \in SeatRecord /\ q.registered /\ q.period = 0 /\ q.reserved = kept.reserved
  <2> HIDE DEF kept
  <2>1. q \in SeatRecord
    BY <1>2 DEF SeatRecord
  <2>2. q.registered /\ q.period = 0 /\ q.reserved = kept.reserved
    BY <1>2 DEF SeatRecord
  <2> QED
    BY <2>1, <2>2
<1> HIDE DEF q
<1>4. Roll(q, period) = q
  BY <1>1, <1>3, SameMonth
<1> QED
  BY <1>2, <1>3, <1>4 DEF q

LEMMA CoveredMessages ==
    ASSUME CoverInv, Messages
    PROVE  HoldsAll
<1> SUFFICES ASSUME NEW c \in Conns,
                    \/ Connect(c) \/ Close(c)
                    \/ \E s \in Seats :
                        \/ SeatRegister(c, s)
                        \/ \E status \in {"healthy", "unavailable", "exhausted"} :
                                Heartbeat(c, s, status)
                    \/ \E t \in Tickets, report \in Reports :
                        LateResult(c, t, report) \/ Result(c, t, report)
             PROVE  HoldsAll
  BY DEF Messages
<1> USE DEF clock
<1>1. seats \in [Seats -> SeatRecord] /\ jobs \in [Tickets -> JobRecord] /\ period = 0
      /\ \A u \in Seats : seats[u].reserved <= seats[u].reserved /\ seats[u].period = 0
                          /\ seats[u].reserved \in Nat
  BY DEF CoverInv, TypeOK, Covered, SeatRecord
<1>2. CASE Connect(c)
  BY <1>2, SameSeats DEF Connect
<1>3. CASE Close(c)
  <2>1. \A s \in Seats : /\ seats'[s].reserved = seats[s].reserved
                         /\ seats'[s].registered = seats[s].registered
                         /\ seats'[s].period = seats[s].period
    BY <1>1, <1>3 DEF Close, SeatRecord
  <2> QED
    BY <1>3, <2>1, SameSeats DEF Close
<1>4. ASSUME NEW s \in Seats, SeatRegister(c, s)
      PROVE  HoldsAll
  <2> DEFINE kept == IF seats[s].registered THEN seats[s]
                     ELSE [Unregistered EXCEPT !.period = period]
             r == Roll([kept EXCEPT !.registered = TRUE, !.healthy = TRUE,
                               !.fresh = TRUE, !.exhausted = FALSE, !.conn = c], period)
  <2>1. seats' = [seats EXCEPT ![s] = r] /\ UNCHANGED <<leases, probe, period>>
    BY <1>4 DEF SeatRegister
  <2>2. /\ r.registered /\ r.period = 0
        /\ seats[s].registered => r.reserved = seats[s].reserved
    BY RegisteredSeat, Zenon
  <2>3. s \in Contributors
    BY <1>4, SeatsAssumption DEF SeatRegister
  <2> HIDE DEF r
  <2> QED
    BY <1>1, <2>1, <2>2, <2>3 DEF HoldsAll
<1>5. ASSUME NEW s \in Seats, NEW status, Heartbeat(c, s, status)
      PROVE  HoldsAll
  <2> DEFINE up == status = "healthy"
             full == \/ seats[s].exhausted \/ status = "exhausted"
                     \/ Budget <= seats[s].spent + seats[s].reserved
  <2>1. seats' = [seats EXCEPT ![s] = [@ EXCEPT !.healthy = up, !.exhausted = full,
                                                !.fresh = TRUE]]
    BY <1>5 DEF Heartbeat
  <2> HIDE DEF up, full
  <2>2. \A u \in Seats : /\ seats'[u].reserved = seats[u].reserved
                         /\ seats'[u].registered = seats[u].registered
                         /\ seats'[u].period = seats[u].period
    BY <1>1, <2>1 DEF SeatRecord
  <2> QED
    BY <1>5, <2>2, SameSeats DEF Heartbeat
<1>6. ASSUME NEW t \in Tickets, NEW report \in Reports, LateResult(c, t, report)
      PROVE  HoldsAll
  <2> DEFINE x == SeatOf(t)
             r == Reconciled(seats[x], 0, report.cost, period)
  <2>1. \/ UNCHANGED seats
        \/ /\ report.cost \in Nat /\ seats[x].registered
           /\ seats' = [seats EXCEPT ![x] = r]
    BY <1>1, <1>6, SeatsAssumption DEF LateResult, BillLate, Reports
  <2>2. UNCHANGED <<leases, probe, period>>
    BY <1>6 DEF LateResult
  <2>3. CASE UNCHANGED seats
    BY <2>2, <2>3, SameSeats
  <2>4. CASE /\ report.cost \in Nat /\ seats[x].registered
             /\ seats' = [seats EXCEPT ![x] = r]
    <3>1. /\ seats[x] \in SeatRecord /\ 0 \in Nat /\ report.cost \in Nat /\ x \in Seats
      BY <1>1, <2>4 DEF Tickets, SeatOf
    <3>2. \A held, cost \in Nat :
                /\ Reconciled(seats[x], held, cost, 0).reserved = Monus(seats[x].reserved, held)
                /\ Reconciled(seats[x], held, cost, 0).period = 0
      BY <1>1, <3>1, SameMonth
    <3>3. /\ r.registered = seats[x].registered
          /\ r.reserved = Monus(seats[x].reserved, 0) /\ r.period = 0
      <4>1. r = Reconciled(seats[x], 0, report.cost, 0) /\ 0 \in Nat
        BY <1>1
      <4>2. Reconciled(seats[x], 0, report.cost, 0).registered = seats[x].registered
        BY <3>1, ReconciledType, Zenon
      <4> HIDE DEF r, x
      <4> QED
        BY <3>1, <3>2, <4>1, <4>2, Zenon
    <3> HIDE DEF r
    <3>4. r.reserved = seats[x].reserved
      BY <1>1, <3>1, <3>3 DEF Monus
    <3>5. \A u \in Seats : /\ seats'[u].reserved = seats[u].reserved
                           /\ seats'[u].registered = seats[u].registered
                           /\ seats'[u].period = seats[u].period
      BY <1>1, <2>4, <3>1, <3>3, <3>4
    <3> QED
      BY <2>2, <3>5, SameSeats
  <2> QED
    BY <2>1, <2>3, <2>4
<1>7. ASSUME NEW t \in Tickets, NEW report \in Reports, Result(c, t, report)
      PROVE  HoldsAll
  <2>1. \A u \in Seats : /\ seats'[u].reserved = seats[u].reserved
                         /\ seats'[u].registered = seats[u].registered
                         /\ seats'[u].period = seats[u].period
    BY <1>1, <1>7 DEF Result, SeatRecord
  <2> QED
    BY <1>7, <2>1, SameSeats DEF Result
<1> QED
  BY <1>2, <1>3, <1>4, <1>5, <1>6, <1>7

LEMMA CoveredTimers ==
    ASSUME LastPeriod = 0, CoverInv, Timers
    PROVE  HoldsAll
<1> USE DEF clock
<1>1. ASSUME NEW t \in Tickets,
             JobTimeout(t) \/ LeaseGoesStale(t) \/ DeadlinePasses(t)
      PROVE  HoldsAll
  BY <1>1, SameSeats DEF JobTimeout, LeaseGoesStale, DeadlinePasses
<1>2. ASSUME NEW s \in Seats, HealthLapses(s)
      PROVE  HoldsAll
  <2>1. \A u \in Seats : /\ seats'[u].reserved = seats[u].reserved
                         /\ seats'[u].registered = seats[u].registered
                         /\ seats'[u].period = seats[u].period
    BY <1>2 DEF HealthLapses, CoverInv, TypeOK, SeatRecord
  <2> QED
    BY <1>2, <2>1, SameSeats DEF HealthLapses
<1>3. ~MonthTurns
  BY DEF MonthTurns, CoverInv
<1> QED
  BY <1>1, <1>2, <1>3 DEF Timers

LEMMA CoveredRefreshed ==
    ASSUME TypeOK, period = 0, Covered(seats, leases)
    PROVE  /\ Covered(RefreshedSeats, ReclaimedLeases)
           /\ \A s \in Seats : RefreshedSeats[s].registered = seats[s].registered
<1>1. /\ ReclaimedSeats \in [Seats -> SeatRecord]
      /\ RefreshedSeats \in [Seats -> SeatRecord]
      /\ Covered(ReclaimedSeats, ReclaimedLeases)
  BY ReclaimedType, RefreshedType, CoveredReclaimed
<1>2. ASSUME NEW s \in Seats
      PROVE  /\ RefreshedSeats[s].period = 0
             /\ RefreshedSeats[s].reserved = ReclaimedSeats[s].reserved
             /\ RefreshedSeats[s].registered = ReclaimedSeats[s].registered
  <2> DEFINE seat == ReclaimedSeats[s]
             up == seat.healthy /\ seat.fresh
  <2>1. seat \in SeatRecord /\ seat.period = 0
    BY <1>1 DEF Covered
  <2>2. Roll(seat, period) = seat
    <3> HIDE DEF seat
    <3> QED
      BY <2>1, SameMonth
  <2>3. RefreshedSeats[s] \in {seat, [seat EXCEPT !.healthy = up]}
    BY <2>2 DEF RefreshedSeats
  <2> HIDE DEF seat, up
  <2>4. /\ [seat EXCEPT !.healthy = up].registered = seat.registered
        /\ [seat EXCEPT !.healthy = up].reserved = seat.reserved
        /\ [seat EXCEPT !.healthy = up].period = 0
    BY <2>1 DEF SeatRecord
  <2> QED
    BY <2>1, <2>3, <2>4 DEF seat
<1>3. \A s \in Seats : ReclaimedSeats[s].reserved <= ReclaimedSeats[s].reserved
  BY <1>1 DEF SeatRecord
<1> QED
  BY <1>1, <1>2, <1>3, CoveredMore, ReclaimedType

LEMMA UncheckedCovered ==
    ASSUME CoverInv, NEW s \in Seats
    PROVE  /\ Unchecked(s).registered /\ Unchecked(s).period = 0
           /\ seats[s].registered => Unchecked(s).reserved = seats[s].reserved
<1> DEFINE kept == IF seats[s].registered THEN seats[s]
                   ELSE [Unregistered EXCEPT !.period = period]
           r == [kept EXCEPT !.registered = TRUE, !.healthy = FALSE,
                             !.fresh = FALSE, !.conn = NoConn]
<1>1. /\ period = 0 /\ seats[s] \in SeatRecord /\ seats[s].period = 0
  BY DEF CoverInv, TypeOK, Covered
<1>2. /\ kept \in SeatRecord /\ kept.period = 0
      /\ seats[s].registered => kept.reserved = seats[s].reserved
  BY <1>1 DEF SeatRecord, Unregistered
<1>3. r \in SeatRecord /\ r.registered /\ r.period = 0 /\ r.reserved = kept.reserved
  <2> HIDE DEF kept
  <2>1. r \in SeatRecord
    BY <1>2 DEF SeatRecord
  <2>2. r.registered /\ r.period = 0 /\ r.reserved = kept.reserved
    BY <1>2 DEF SeatRecord
  <2> QED
    BY <2>1, <2>2
<1>4. Unchecked(s) = Roll(r, period)
  BY DEF Unchecked
<1> HIDE DEF r, kept
<1>5. Roll(r, period) = r
  BY <1>1, <1>3, SameMonth
<1> QED
  BY <1>2, <1>3, <1>4, <1>5

LEMMA CoveredAdmin ==
    ASSUME "reregister" \notin Faults, Removable = {}, CoverInv, TypeOK', Admin
    PROVE  CoverInv'
<1>1. /\ seats \in [Seats -> SeatRecord] /\ period = 0 /\ period' = period
      /\ Covered(seats, leases) /\ TypeOK
      /\ \A u \in Seats : seats[u].reserved <= seats[u].reserved /\ seats[u].period = 0
  <2>1. period' = period
    BY DEF Admin, RemoveSeat, RegisterSeat, RegisterStart, ProbeStart, RegisterFinish,
           RefreshSeats, RefreshStart, RefreshFinish, clock
  <2> QED
    BY <2>1 DEF CoverInv, TypeOK, Covered, SeatRecord
<1>2. ASSUME Covered(seats, leases)', ProbeCovered'
      PROVE  CoverInv'
  BY <1>1, <1>2 DEF CoverInv
<1>3. ASSUME NEW s \in Seats, RemoveSeat(s) \/ RegisterSeat(s)
      PROVE  CoverInv'
  <2>1. s \in Contributors /\ seats' = [seats EXCEPT ![s] = Unchecked(s)]
        /\ UNCHANGED <<leases, probe, period>>
    BY <1>3 DEF RemoveSeat, RegisterSeat, clock
  <2>2. /\ Unchecked(s).registered /\ Unchecked(s).period = 0
        /\ seats[s].registered => Unchecked(s).reserved = seats[s].reserved
    BY UncheckedCovered
  <2>3. HoldsAll
    BY <1>1, <2>1, <2>2 DEF HoldsAll
  <2> QED
    BY <2>3, HoldsAllStep
<1>4. ASSUME NEW s \in Seats, RegisterStart(s)
      PROVE  CoverInv'
  <2>1. /\ ~seats[s].registered /\ s \notin Contributors
        /\ probe' = [NoProbe EXCEPT !.kind = "register", !.asked = {s},
                                    !.seats[s] = Unchecked(s)]
        /\ UNCHANGED <<seats, leases>>
    BY <1>4 DEF RegisterStart, ProbeStart
  <2>2. /\ probe'.kind = "register" /\ probe'.asked = {s}
        /\ probe'.seats[s] = Unchecked(s)
    BY <2>1 DEF NoProbe, NoSeats
  <2>3. ProbeCovered'
    BY <2>1, <2>2, UncheckedCovered DEF ProbeCovered
  <2> QED
    BY <1>1, <1>2, <2>1, <2>3
<1>5. ASSUME NEW s \in Seats, NEW up \in SUBSET {s}, RegisterFinish(s, up)
      PROVE  CoverInv'
  <2>1. /\ probe.seats[s] \in SeatRecord
        /\ probe.seats[s].registered /\ probe.seats[s].period = 0
        /\ ~seats[s].registered
        /\ seats' = [seats EXCEPT ![s] = Probed(s, up)]
        /\ leases' = leases /\ probe' = NoProbe
    BY <1>5 DEF RegisterFinish, CoverInv, ProbeCovered, TypeOK, ProbeRecord
  <2>2. Probed(s, up).period = 0 /\ Probed(s, up).registered
    BY <2>1 DEF Probed, SeatRecord
  <2>3. Covered(seats, leases)'
    <3>1. \A u \in Seats : /\ seats'[u].period = 0
                           /\ seats[u].registered => /\ seats[u].reserved <= seats'[u].reserved
                                                     /\ seats'[u].registered
      BY <1>1, <2>1, <2>2
    <3>2. seats' \in [Seats -> SeatRecord]
      BY DEF TypeOK
    <3> QED
      BY <1>1, <2>1, <3>1, <3>2, CoveredMore
  <2> QED
    BY <1>2, <2>1, <2>3 DEF ProbeCovered, NoProbe
<1>6. CASE RefreshSeats
  <2>1. /\ seats' = RefreshedSeats /\ leases' = ReclaimedLeases /\ UNCHANGED probe
        /\ Covered(RefreshedSeats, ReclaimedLeases)
        /\ \A s \in Seats : seats'[s].registered = seats[s].registered
    BY <1>1, <1>6, CoveredRefreshed DEF RefreshSeats
  <2>2. probe.asked \subseteq Seats
    BY DEF TypeOK, CoverInv, ProbeRecord
  <2>3. ProbeCovered'
    BY <2>1, <2>2 DEF CoverInv, ProbeCovered
  <2> QED
    BY <1>2, <2>1, <2>3
<1>7. CASE RefreshStart
  <2>1. /\ probe'.kind = "refresh" /\ probe'.seats = RefreshedSeats
        /\ probe'.leases = ReclaimedLeases
        /\ UNCHANGED <<seats, leases>>
    BY <1>7 DEF RefreshStart, ProbeStart
  <2>2. Covered(RefreshedSeats, ReclaimedLeases)
    BY <1>1, CoveredRefreshed
  <2> QED
    BY <1>1, <1>2, <2>1, <2>2 DEF ProbeCovered
<1>8. ASSUME NEW up \in SUBSET Seats, RefreshFinish(up)
      PROVE  CoverInv'
  <2>1. /\ Covered(probe.seats, probe.leases)
        /\ probe.seats \in [Seats -> SeatRecord]
        /\ leases' = probe.leases /\ probe' = NoProbe
        /\ seats' = [s \in Seats |-> Probed(s, up)]
        /\ seats' \in [Seats -> SeatRecord]
    BY <1>8 DEF RefreshFinish, WrittenSeats, WrittenLeases, ProbeCovered, TypeOK,
                ProbeRecord, CoverInv
  <2>2. ASSUME NEW s \in Seats
        PROVE  /\ seats'[s].period = 0
               /\ probe.seats[s].reserved <= seats'[s].reserved
               /\ seats'[s].registered = probe.seats[s].registered
    <3>1. /\ seats'[s] = Probed(s, up) /\ probe.seats[s] \in SeatRecord
          /\ probe.seats[s].reserved <= probe.seats[s].reserved
          /\ probe.seats[s].period = 0
      BY <2>1 DEF SeatRecord, Covered
    <3> QED
      BY <3>1 DEF Probed, SeatRecord
  <2>3. Covered(seats, leases)'
    BY <2>1, <2>2, CoveredMore
  <2> QED
    BY <1>2, <2>1, <2>3 DEF ProbeCovered, NoProbe
<1> QED
  BY <1>3, <1>4, <1>5, <1>6, <1>7, <1>8 DEF Admin

LEMMA CoverStep ==
    ASSUME "reregister" \notin Faults, Removable = {}, LastPeriod = 0, CoverInv, [Next]_vars
    PROVE  CoverInv'
<1>1. TypeOK'
  BY TypeStep DEF CoverInv
<1>2. seats \in [Seats -> SeatRecord] /\ TypeOK /\ period = 0
      /\ probe.asked \subseteq Seats
  BY DEF CoverInv, TypeOK, ProbeRecord
<1>3. ASSUME Covered(seats, leases)', UNCHANGED <<probe, period>>,
             \A s \in Seats : seats'[s].registered = seats[s].registered
      PROVE  CoverInv'
  <2>1. ProbeCovered'
    BY <1>2, <1>3 DEF ProbeCovered, CoverInv
  <2> QED
    BY <1>1, <1>2, <1>3, <2>1 DEF CoverInv
<1>4. ASSUME NEW t \in Tickets, ReserveSeatBudget(t)
      PROVE  CoverInv'
  <2> DEFINE x == SeatOf(t)
             R == ReclaimedSeats
  <2>1. /\ R \in [Seats -> SeatRecord] /\ x \in Seats
        /\ \A s \in Seats : R[s].registered = seats[s].registered
    BY <1>2, ReclaimedType DEF Tickets, SeatOf
  <2>2. R[x] \in SeatRecord /\ period \in Nat
    BY <1>2, <2>1
  <2>3. /\ Reserved(R[x], period).registered = R[x].registered
        /\ Roll(R[x], period).registered = R[x].registered
    <3> HIDE DEF R, x
    <3> QED
      BY <2>2, ReservedType, RollType
  <2>4. \/ seats' = R \/ seats' = [R EXCEPT ![x] = Reserved(@, period)]
        \/ seats' = [R EXCEPT ![x] = IF @.registered THEN Roll(@, period) ELSE @]
    BY <1>4 DEF ReserveSeatBudget
  <2>5. UNCHANGED <<probe, period>>
    BY <1>4 DEF ReserveSeatBudget
  <2>6. Covered(seats, leases)'
    BY <1>1, <1>4, CoveredReserve
  <2> HIDE DEF R, x
  <2>7. \A s \in Seats : seats'[s].registered = seats[s].registered
    BY <2>1, <2>3, <2>4
  <2> QED
    BY <1>3, <2>5, <2>6, <2>7
<1>5. ASSUME NEW t \in Tickets, NEW cost \in Costs \cup {0},
             ReconcileSeatBudget(t, cost)
      PROVE  CoverInv'
  <2> DEFINE x == SeatOf(t)
             R == ReclaimedSeats
  <2>1. /\ R \in [Seats -> SeatRecord] /\ x \in Seats
        /\ \A s \in Seats : R[s].registered = seats[s].registered
    BY <1>2, ReclaimedType DEF Tickets, SeatOf
  <2>2. R[x] \in SeatRecord /\ period \in Nat /\ cost \in Nat /\ Estimate \in Nat
    BY <1>2, <2>1, SeatsAssumption, EstimateAssumption
  <2>3. Reconciled(R[x], Estimate, cost, period).registered = R[x].registered
    <3> HIDE DEF R, x
    <3> QED
      BY <2>2, ReconciledType, ZenonT(40)
  <2>4. \/ seats' = R
        \/ seats' = [R EXCEPT ![x] = IF @.registered
                                     THEN Reconciled(@, Estimate, cost, period) ELSE @]
    BY <1>5 DEF ReconcileSeatBudget
  <2>5. UNCHANGED <<probe, period>>
    BY <1>5 DEF ReconcileSeatBudget
  <2>6. Covered(seats, leases)'
    BY <1>1, <1>5, CoveredReconcile
  <2> HIDE DEF R, x
  <2>7. \A s \in Seats : seats'[s].registered = seats[s].registered
    BY <2>1, <2>3, <2>4
  <2> QED
    BY <1>3, <2>5, <2>6, <2>7
<1>6. ASSUME NEW t \in Tickets, NEW same \in BOOLEAN, InvokeContributor(t, same)
      PROVE  CoverInv'
  <2>1. HoldsAll
    BY <1>6, SameSeats DEF InvokeContributor, clock
  <2> QED
    BY <1>1, <2>1, HoldsAllStep
<1>7. ASSUME NEW s \in Seats, MarkSeatUnhealthy(s)
      PROVE  CoverInv'
  <2>1. \A u \in Seats : /\ seats'[u].reserved = seats[u].reserved
                         /\ seats'[u].registered = seats[u].registered
                         /\ seats'[u].period = seats[u].period
    BY <1>2, <1>7 DEF MarkSeatUnhealthy, SeatRecord
  <2>2. HoldsAll
    BY <1>7, <2>1, SameSeats DEF MarkSeatUnhealthy, clock
  <2> QED
    BY <1>1, <2>2, HoldsAllStep
<1>8. CASE Messages \/ Timers
  BY <1>1, <1>8, CoveredMessages, CoveredTimers, HoldsAllStep
<1>9. CASE Restart
  <2>1. UNCHANGED <<seats, leases, period>> /\ probe' = NoProbe
    BY <1>9 DEF Restart, clock
  <2> QED
    BY <1>1, <2>1 DEF CoverInv, ProbeCovered, NoProbe
<1>10. CASE UNCHANGED vars
  BY <1>1, <1>10 DEF vars, clock, CoverInv, ProbeCovered
<1>11. CASE Calls
  BY <1>4, <1>5, <1>6, <1>7, <1>11 DEF Calls
<1>12. CASE Admin
  BY <1>1, <1>12, CoveredAdmin
<1> QED
  BY <1>8, <1>9, <1>10, <1>11, <1>12 DEF Next, Environment

\* reserveSeatBudget and reconcileSeatBudget: within a month, and unless a seat
\* is removed or registered anew, every reservation that is open is held on its
\* seat, through refreshes, restarts and reclaims; so what the seat may still
\* spend is never promised twice.
THEOREM OpenLeasesAreHeld ==
    ASSUME "reregister" \notin Faults, Removable = {}, LastPeriod = 0
    PROVE  Spec => []LeasesAreHeld
<1>1. Init => CoverInv
  <2> SUFFICES ASSUME Init PROVE CoverInv
    OBVIOUS
  <2>1. TypeOK
    BY TypeInit
  <2>2. \A s \in Seats : Held(leases, s) = {}
    BY DEF Init, NoLeases, NoLease, Held
  <2>3. Estimate * Cardinality({}) = 0
    BY FS_EmptySet, EstimateAssumption
  <2>4. Covered(seats, leases)
    <3>1. ASSUME NEW s \in Seats
          PROVE  seats[s].period = 0 /\ seats[s].reserved = 0
      BY DEF Init, NoSeats, Unregistered
    <3> QED
      BY <2>2, <2>3, <3>1 DEF Covered
  <2> QED
    BY <2>1, <2>4 DEF CoverInv, ProbeCovered, Init, NoProbe
<1>2. CoverInv => LeasesAreHeld
  BY DEF CoverInv, Covered, LeasesAreHeld, OpenLeases, Held
<1> QED
  BY <1>1, <1>2, CoverStep, PTL DEF Spec
=============================================================================
