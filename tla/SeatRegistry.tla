---------------------------- MODULE SeatRegistry ----------------------------
(***************************************************************************)
(* The seat registry: the one OrchestratorAgent object named               *)
(* __seat-registry__ that all sessions of the Commander share.  It keeps   *)
(* the registered seats with their budgets, the ledger of budget           *)
(* reservations ("leases"), the ledger of contributor jobs, and the        *)
(* WebSockets of the contributors.                                         *)
(*                                                                         *)
(* A Durable Object runs one handler at a time up to its next await, and   *)
(* storage awaits let no other event in.  So every handler here is one     *)
(* action, except refreshSeats and registerSeat when they await a health   *)
(* probe over HTTP: those are two, and what they read before the await is  *)
(* kept in `probe` and used after it.                                      *)
(*                                                                         *)
(* Clocks are abstracted to what the code compares them with: a lease is   *)
(* in `stale`, a job in `due`, a seat `fresh`, and the month is a counter. *)
(* Each may change at any moment, so every order of the timers is covered. *)
(*                                                                         *)
(* Callers are open: any invocation may call any method at any time, again *)
(* and again.  SeatRouting closes them.                                    *)
(***************************************************************************)
EXTENDS SeatBudget, FiniteSets

CONSTANTS
    Seats,          \* seat ids
    Contributors,   \* the seats of mode "contributor"; others speak HTTP
    Removable,      \* the seats an operator may remove
    Invocations,    \* invocation ids: one per decision or assessment
    Conns,          \* WebSocket connections
    Authorized,     \* the seats each connection's credential is valid for
    Costs,          \* the costs a provider may report
    LastPeriod,     \* bound: the last month of a behaviour
    Faults,         \* what may go wrong in a behaviour, of AllFaults
    NoConn, NoSeat, Unreported

\* "stale": a reservation may outlive its five minutes; "restart": the
\* registry object may restart; "refresh": a refresh may be suspended in the
\* probes of HTTP seats; "reregister": an operator may register an HTTP seat
\* anew.  The others concern the callers: "rpc": a call or its reply may be
\* lost; "crash": a caller may restart.
AllFaults == {"stale", "restart", "refresh", "reregister", "rpc", "crash"}

ASSUME SeatsAssumption ==
    /\ Faults \subseteq AllFaults
    /\ Contributors \subseteq Seats /\ Removable \subseteq Seats
    /\ Authorized \in [Conns -> SUBSET Contributors]
    /\ Costs \subseteq Nat /\ LastPeriod \in Nat
    /\ NoConn \notin Conns /\ Unreported \notin Nat
    /\ NoSeat \notin Seats
    /\ IsFiniteSet(Invocations) /\ IsFiniteSet(Seats)

VARIABLES
    seats,      \* SeatRegistration of each seat
    leases,     \* seatBudgetReservations, by `${invocationId}:${seatId}`
    jobs,       \* contributorJobLedger, by contributorJobId(seat, invocation)
    live,       \* contributorJobs: jobs with a caller waiting, in memory
    answers,    \* what invokeContributorOutcome last answered on each job
    bound,      \* every connection: its socket, and connection.state.seatId
    probe,      \* the handler suspended in a health probe, if any
    period,     \* the current UTC month
    stale,      \* leases reserved STALE_SEAT_RESERVATION_SECONDS ago
    due         \* jobs whose deadlineAt has passed

clock == <<period, stale, due>>
vars == <<seats, leases, jobs, live, answers, bound, probe, clock>>

Tickets == Invocations \X Seats     \* ids of leases, and of jobs
SeatOf(t) == t[2]

SeatRecord ==
    [registered : BOOLEAN, healthy : BOOLEAN, fresh : BOOLEAN,
     conn : Conns \cup {NoConn}, exhausted : BOOLEAN,
     spent : Nat, reserved : Nat, period : Nat]
LeaseRecord == [status : {"none", "reserved", "settled"}, cost : Nat]
JobRecord == [status : {"none", "pending", "succeeded", "failed"},
              cost : Nat \cup {Unreported}, retryable : BOOLEAN]
Answer == [status : {"none", "ok", "failure"},
           cost : Nat \cup {Unreported}, retryable : BOOLEAN]
ProbeRecord ==
    [kind : {"none", "refresh", "register"}, seats : [Seats -> SeatRecord],
     leases : [Tickets -> LeaseRecord], jobs : [Tickets -> JobRecord],
     expired : SUBSET Tickets, asked : SUBSET Seats]

\* A socket the registry closed is "closing" until its close event comes; what
\* its contributor had sent before may still be delivered.
Connection == [socket : {"closed", "open", "closing"}, seat : Seats \cup {NoSeat}]
NoConnection == [socket |-> "closed", seat |-> NoSeat]

Unregistered ==
    [registered |-> FALSE, healthy |-> FALSE, fresh |-> FALSE, conn |-> NoConn,
     exhausted |-> FALSE, spent |-> 0, reserved |-> 0, period |-> 0]
NoLease == [status |-> "none", cost |-> 0]
NoJob == [status |-> "none", cost |-> Unreported, retryable |-> FALSE]
NoAnswer == [status |-> "none", cost |-> Unreported, retryable |-> FALSE]
NoSeats == [s \in Seats |-> Unregistered]
NoLeases == [t \in Tickets |-> NoLease]
NoJobs == [t \in Tickets |-> NoJob]
NoProbe == [kind |-> "none", seats |-> NoSeats, leases |-> NoLeases,
            jobs |-> NoJobs, expired |-> {}, asked |-> {}]

Failure(cost, retryable) ==
    [status |-> "failure", cost |-> cost, retryable |-> retryable]
\* A timeout, or a disconnection: retryable, and no usage is known.
Lost == Failure(Unreported, TRUE)

TypeOK ==
    /\ seats \in [Seats -> SeatRecord]
    /\ leases \in [Tickets -> LeaseRecord]
    /\ jobs \in [Tickets -> JobRecord]
    /\ live \subseteq Tickets
    /\ answers \in [Tickets -> Answer]
    /\ bound \in [Conns -> Connection]
    /\ probe \in ProbeRecord
    /\ period \in Nat /\ stale \subseteq Tickets /\ due \subseteq Tickets

Init ==
    /\ seats = NoSeats /\ leases = NoLeases /\ jobs = NoJobs
    /\ live = {} /\ answers = [t \in Tickets |-> NoAnswer]
    /\ bound = [c \in Conns |-> NoConnection]
    /\ probe = NoProbe
    /\ period = 0 /\ stale = {} /\ due = {}
-----------------------------------------------------------------------------
(* Budget reservations. *)

\* Mutant: every reservation is taken for an abandoned one.
StaleOfAny(s) == {t \in Tickets : SeatOf(t) = s /\ leases[t].status = "reserved"}

\* The reservations of seat s abandoned by their callers.
StaleOf(s) == {t \in stale : SeatOf(t) = s /\ leases[t].status = "reserved"}

\* Giving back several reservations one after the other is giving back
\* their sum, for Reconciled rolls once and Monus composes.
ReclaimedSeats ==
    [s \in Seats |->
        IF seats[s].registered /\ StaleOf(s) # {}
        THEN Reconciled(seats[s], Estimate * Cardinality(StaleOf(s)), 0, period)
        ELSE seats[s]]
\* Mutant: the money is given back and the lease kept.
ReclaimedLeasesKept == leases

ReclaimedLeases ==
    [t \in Tickets |-> IF t \in StaleOf(SeatOf(t)) THEN NoLease ELSE leases[t]]

\* The call is accepted if and only if the lease is "reserved" after it.
ReserveSeatBudget(t) ==
    LET s == SeatOf(t)
        admitted == /\ ReclaimedSeats[s].registered
                    /\ Admits(ReclaimedSeats[s], period)
    IN  /\ \/ /\ ReclaimedLeases[t].status # "none"
              /\ seats' = ReclaimedSeats /\ leases' = ReclaimedLeases
           \/ /\ ReclaimedLeases[t].status = "none" /\ admitted
              /\ seats' = [ReclaimedSeats EXCEPT ![s] = Reserved(@, period)]
              /\ leases' = [ReclaimedLeases EXCEPT ![t].status = "reserved"]
           \/ /\ ReclaimedLeases[t].status = "none" /\ ~admitted
              /\ seats' = [ReclaimedSeats EXCEPT
                              ![s] = IF @.registered THEN Roll(@, period) ELSE @]
              /\ leases' = ReclaimedLeases
        /\ stale' = {}
        /\ UNCHANGED <<jobs, live, answers, bound, probe, period, due>>

\* Mutant: a settled lease is settled again.
ReconcileAgain(t, cost) ==
    /\ seats' = [ReclaimedSeats EXCEPT
                    ![SeatOf(t)] = Reconciled(@, Estimate, cost, period)]
    /\ leases' = [ReclaimedLeases EXCEPT
                     ![t] = [status |-> "settled", cost |-> cost]]
    /\ stale' = {}
    /\ UNCHANGED <<jobs, live, answers, bound, probe, period, due>>

\* A lease that is settled already, or was reclaimed, drops the cost.
ReconcileSeatBudget(t, cost) ==
    LET s == SeatOf(t)
    IN  /\ IF ReclaimedLeases[t].status = "reserved"
           THEN /\ seats' = [ReclaimedSeats EXCEPT
                               ![s] = IF @.registered
                                      THEN Reconciled(@, Estimate, cost, period)
                                      ELSE @]
                /\ leases' = [ReclaimedLeases EXCEPT
                                ![t] = [status |-> "settled", cost |-> cost]]
           ELSE seats' = ReclaimedSeats /\ leases' = ReclaimedLeases
        /\ stale' = {}
        /\ UNCHANGED <<jobs, live, answers, bound, probe, period, due>>

MarkSeatUnhealthy(s) ==
    /\ seats' = [seats EXCEPT ![s].healthy = FALSE, ![s].fresh = FALSE]
    /\ UNCHANGED <<leases, jobs, live, answers, bound, probe, clock>>
-----------------------------------------------------------------------------
(* Contributor jobs. *)

\* Mutant: a timeout overwrites a terminal job.
TimedOutAny(job) ==
    [status |-> "failed", cost |-> Unreported, retryable |-> TRUE]

\* A pending job fails without a usage report; a terminal one stays.
TimedOut(job) ==
    IF job.status = "pending"
    THEN [status |-> "failed", cost |-> Unreported, retryable |-> TRUE]
    ELSE job

\* What a terminal job answers to whoever asks for it.
Persisted(job) ==
    IF job.status = "succeeded"
    THEN [status |-> "ok", cost |-> job.cost, retryable |-> FALSE]
    ELSE Failure(job.cost, job.retryable)

\* Mutant: the waiters are answered and not removed.
ResumeKept(T, a) ==
    /\ live' = live
    /\ answers' = [t \in Tickets |-> IF t \in T \cap live THEN a ELSE answers[t]]
\* Mutant: nobody is answered.
ResumeNobody(T, a) == UNCHANGED <<live, answers>>

\* The callers waiting for the jobs in T are resumed with answer a.
Resume(T, a) ==
    /\ live' = live \ T
    /\ answers' = [t \in Tickets |-> IF t \in T \cap live THEN a ELSE answers[t]]

\* getConnections lists the open sockets.
Connected(s) ==
    seats[s].conn # NoConn /\ bound[seats[s].conn] = [socket |-> "open", seat |-> s]

\* Why a job cannot be sent.  The text of the failure decides whether the
\* caller may try another seat: isRetryableSeatFailure knows the words
\* "unavailable" and "disconnected", not "heartbeat expired".
Unavailable(s) ==
    IF /\ seats[s].registered /\ seats[s].healthy /\ ~seats[s].exhausted
       /\ ~seats[s].fresh
    THEN Failure(Unreported, FALSE)
    ELSE Lost
Available(s) ==
    /\ seats[s].registered /\ seats[s].healthy /\ ~seats[s].exhausted
    /\ seats[s].fresh /\ Connected(s)

\* The answer is immediate unless the job is sent.  `same`: the prompt is
\* the one the job was first sent with.
InvokeContributor(t, same) ==
    LET s == SeatOf(t)
        job == jobs[t]
        Reply(a) == answers' = [answers EXCEPT ![t] = a]
    IN  /\ s \in Contributors
        /\ \/ /\ job.status # "none" /\ ~same
              /\ Reply(Failure(Unreported, FALSE))
              /\ UNCHANGED <<jobs, live>>
           \/ /\ job.status \in {"succeeded", "failed"} /\ same
              /\ Reply(Persisted(job))
              /\ UNCHANGED <<jobs, live>>
           \/ /\ job.status = "pending" /\ t \in due /\ same
              /\ jobs' = [jobs EXCEPT ![t] = TimedOut(@)]
              /\ Reply(Lost)
              /\ UNCHANGED live
           \/ /\ \/ job.status = "none"
                 \/ job.status = "pending" /\ t \notin due /\ same
              /\ \/ /\ ~Available(s)
                    /\ Reply(Unavailable(s))
                    /\ UNCHANGED <<jobs, live>>
                 \/ /\ Available(s)
                    /\ jobs' = [jobs EXCEPT ![t].status = "pending"]
                    /\ live' = live \cup {t}
                    /\ Reply(NoAnswer)
        /\ UNCHANGED <<seats, leases, bound, probe, clock>>

\* The timer of the callers waiting for job t.
JobTimeout(t) ==
    /\ t \in live \cap due
    /\ jobs' = [jobs EXCEPT ![t] = TimedOut(@)]
    /\ Resume({t}, Lost)
    /\ UNCHANGED <<seats, leases, bound, probe, clock>>
-----------------------------------------------------------------------------
(* Messages of the contributors, and their connections. *)

Connect(c) ==
    /\ bound[c] = NoConnection
    /\ bound' = [bound EXCEPT ![c].socket = "open"]
    /\ UNCHANGED <<seats, leases, jobs, live, answers, probe, clock>>

\* connection.close, for the connections in C that are still open.
Closing(C) ==
    [c \in Conns |-> IF c \in C /\ bound[c].socket = "open"
                     THEN [bound[c] EXCEPT !.socket = "closing"] ELSE bound[c]]
Of(s) == {c \in Conns : bound[c].seat = s}

\* A registration keeps the account of an earlier one, but lifts its
\* exhaustion fence.  Connection c becomes the seat's, and its others are
\* closed.
SeatRegister(c, s) ==
    /\ bound[c].socket # "closed" /\ s \in Authorized[c]
    /\ LET kept == IF seats[s].registered
                   THEN seats[s]
                   ELSE [Unregistered EXCEPT !.period = period]
       IN  seats' = [seats EXCEPT ![s] =
                        Roll([kept EXCEPT !.registered = TRUE, !.healthy = TRUE,
                                          !.fresh = TRUE, !.exhausted = FALSE,
                                          !.conn = c], period)]
    /\ bound' = [Closing(Of(s) \ {c}) EXCEPT ![c].seat = s]
    /\ UNCHANGED <<leases, jobs, live, answers, probe, clock>>

\* Mutant: a replaced connection still speaks for its seat.
ActiveAny(c, s) == bound[c].seat = s
\* Connection c speaks for seat s: isActiveSeatConnection.
Active(c, s) == bound[c].seat = s /\ seats[s].conn = c

Heartbeat(c, s, status) ==
    /\ Active(c, s)
    /\ seats' = [seats EXCEPT
                    ![s].healthy = status = "healthy",
                    ![s].exhausted = \/ @ \/ status = "exhausted"
                                     \/ Budget <= seats[s].spent + seats[s].reserved,
                    ![s].fresh = TRUE]
    /\ UNCHANGED <<leases, jobs, live, answers, bound, probe, clock>>

\* Mutants: a repeated late result is billed again, is recorded and not
\* billed, or fails a job that succeeded.
BillLateAgain(t, job, cost) ==
    IF job.status = "failed" /\ cost # Unreported
    THEN /\ jobs' = [jobs EXCEPT ![t] = [job EXCEPT !.cost = cost]]
         /\ seats' = [seats EXCEPT ![SeatOf(t)] = Reconciled(@, 0, cost, period)]
    ELSE jobs' = [jobs EXCEPT ![t] = job] /\ UNCHANGED seats
BillLateAny(t, job, cost) ==
    /\ jobs' = [jobs EXCEPT ![t] = [job EXCEPT !.status = "failed", !.cost = cost]]
    /\ UNCHANGED seats

\* A result that comes too late is refused, but the usage it reports is
\* billed to the seat if the failed job has none on record.
BillLate(t, job, cost) ==
    IF job.status = "failed" /\ job.cost = Unreported /\ cost # Unreported
    THEN /\ jobs' = [jobs EXCEPT ![t] = [job EXCEPT !.cost = cost]]
         /\ seats' = [seats EXCEPT ![SeatOf(t)] =
                         IF @.registered THEN Reconciled(@, 0, cost, period)
                                         ELSE @]
    ELSE jobs' = [jobs EXCEPT ![t] = job] /\ UNCHANGED seats

\* What a contributor may report about a job: a decision (well-formed or
\* not, always with its usage) or a failure.
Reports ==
    [kind : {"decision", "invalid"}, cost : Costs, retryable : {FALSE},
     exhausted : {FALSE}]
    \cup [kind : {"failure"}, cost : Costs \cup {Unreported},
          retryable : BOOLEAN, exhausted : BOOLEAN]

\* A result for a job the registry does not know changes nothing.
LateResult(c, t, report) ==
    LET s == SeatOf(t)
        overdue == jobs[t].status = "pending" /\ t \in due
    IN  /\ Active(c, s) /\ jobs[t].status # "none"
        /\ overdue \/ jobs[t].status # "pending"
        /\ Resume({t}, IF overdue THEN Lost ELSE Persisted(jobs[t]))
        /\ BillLate(t, TimedOut(jobs[t]), report.cost)
        /\ UNCHANGED <<leases, bound, probe, clock>>

Result(c, t, report) ==
    LET s == SeatOf(t)
        job == [status |-> IF report.kind = "decision" THEN "succeeded"
                                                       ELSE "failed",
                cost |-> report.cost, retryable |-> report.retryable]
    IN  /\ Active(c, s) /\ jobs[t].status = "pending" /\ t \notin due
        /\ jobs' = [jobs EXCEPT ![t] = job]
        /\ seats' = IF report.exhausted
                    THEN [seats EXCEPT ![s].healthy = FALSE,
                                       ![s].exhausted = TRUE]
                    ELSE seats
        /\ Resume({t}, Persisted(job))
        /\ UNCHANGED <<leases, bound, probe, clock>>

\* Mutant: the close of a replaced connection is taken for the seat's.
AbandonedAny(c) == {s \in Seats : bound[c].seat = s}
\* The seat that a close leaves without a connection, if any.
Abandoned(c) == {s \in Seats : Active(c, s)}

\* The close of the active connection of a seat fails the seat's jobs; that
\* of a replaced one does nothing.
Close(c) ==
    LET orphans == {t \in Tickets : SeatOf(t) \in Abandoned(c)}
    IN  /\ bound[c].socket # "closed"
        /\ bound' = [bound EXCEPT ![c] = NoConnection]
        /\ seats' = [s \in Seats |->
                        IF s \in Abandoned(c)
                        THEN [seats[s] EXCEPT !.conn = NoConn, !.healthy = FALSE]
                        ELSE seats[s]]
        /\ jobs' = [t \in Tickets |-> IF t \in orphans THEN TimedOut(jobs[t])
                                                       ELSE jobs[t]]
        /\ Resume(orphans, Lost)
        /\ UNCHANGED <<leases, probe, clock>>

\* The object restarts: calls under way fail without an answer, suspended
\* handlers are gone, hibernating WebSockets stay.
Restart ==
    /\ "restart" \in Faults
    /\ live' = {} /\ probe' = NoProbe
    /\ UNCHANGED <<seats, leases, jobs, answers, bound, clock>>
-----------------------------------------------------------------------------
(* Administration and health probes. *)

RemoveSeat(s) ==
    /\ s \in Removable /\ seats[s].registered
    /\ seats' = [seats EXCEPT ![s] = Unregistered]
    /\ bound' = Closing(Of(s))
    /\ UNCHANGED <<leases, jobs, live, answers, probe, clock>>

\* What the admin API's registerSeat makes of a seat before it is probed.
Unchecked(s) ==
    LET kept == IF seats[s].registered THEN seats[s]
                ELSE [Unregistered EXCEPT !.period = period]
    IN  Roll([kept EXCEPT !.registered = TRUE, !.healthy = FALSE,
                          !.fresh = FALSE, !.conn = NoConn], period)

\* The seats, leases and jobs refreshSeats computes before it probes.
Overdue == {t \in due : jobs[t].status = "pending"}
RefreshedSeats ==
    [s \in Seats |->
        IF ~ReclaimedSeats[s].registered THEN ReclaimedSeats[s]
        ELSE LET seat == Roll(ReclaimedSeats[s], period)
             IN  IF s \in Contributors
                 THEN [seat EXCEPT !.healthy = seat.healthy /\ seat.fresh]
                 ELSE seat]
ExpiredJobs ==
    [t \in Tickets |-> IF t \in Overdue THEN TimedOut(jobs[t]) ELSE jobs[t]]
ToProbe ==
    {s \in Seats \ Contributors : seats[s].registered /\ ~seats[s].fresh}

\* No seat needs a probe: the handler runs to its end.
RefreshSeats ==
    /\ ToProbe = {}
    /\ seats' = RefreshedSeats /\ leases' = ReclaimedLeases /\ jobs' = ExpiredJobs
    /\ Resume(Overdue, Lost)
    /\ stale' = {}
    /\ UNCHANGED <<bound, probe, period, due>>

RegisterSeat(s) ==
    /\ s \in Contributors
    /\ seats' = [seats EXCEPT ![s] = Unchecked(s)]
    /\ UNCHANGED <<leases, jobs, live, answers, bound, probe, clock>>

\* Bound: one handler is suspended at a time.
ProbeStart(p) ==
    /\ probe = NoProbe /\ probe' = p
    /\ UNCHANGED <<seats, leases, jobs, live, answers, bound, clock>>
RefreshStart ==
    /\ "refresh" \in Faults /\ ToProbe # {}
    /\ ProbeStart([kind |-> "refresh", seats |-> RefreshedSeats,
                   leases |-> ReclaimedLeases, jobs |-> ExpiredJobs,
                   expired |-> Overdue, asked |-> ToProbe])
RegisterStart(s) ==
    /\ s \notin Contributors
    /\ seats[s].registered => "reregister" \in Faults
    /\ ProbeStart([NoProbe EXCEPT !.kind = "register", !.asked = {s},
                                  !.seats[s] = Unchecked(s)])

Probed(s, up) ==
    IF s \in probe.asked
    THEN [probe.seats[s] EXCEPT !.healthy = s \in up, !.fresh = s \in up]
    ELSE probe.seats[s]

\* Mutant: the finished refresh writes only half of its snapshot.
CurrentLeases == leases

\* What the finished refresh writes.
WrittenSeats(up) == [s \in Seats |-> Probed(s, up)]
WrittenLeases == probe.leases

\* The probes answered, `up` are the healthy seats: the handler writes what
\* it computed before the await over whatever the state has become.
RefreshFinish(up) ==
    /\ probe.kind = "refresh" /\ up \subseteq probe.asked
    /\ seats' = WrittenSeats(up) /\ leases' = WrittenLeases
    /\ jobs' = probe.jobs
    /\ Resume(probe.expired, Lost)
    /\ probe' = NoProbe
    /\ stale' = {t \in stale : leases'[t].status = "reserved"}
    /\ UNCHANGED <<bound, period, due>>

RegisterFinish(s, up) ==
    /\ probe.kind = "register" /\ s \in probe.asked /\ up \subseteq {s}
    /\ seats' = [seats EXCEPT ![s] = Probed(s, up)]
    /\ probe' = NoProbe
    /\ UNCHANGED <<leases, jobs, live, answers, bound, clock>>
-----------------------------------------------------------------------------
(* The clock. *)

LeaseGoesStale(t) ==
    /\ "stale" \in Faults
    /\ leases[t].status = "reserved" /\ t \notin stale
    /\ stale' = stale \cup {t}
    /\ UNCHANGED <<seats, leases, jobs, live, answers, bound, probe, period, due>>

DeadlinePasses(t) ==
    /\ jobs[t].status = "pending" \/ t \in live
    /\ t \notin due
    /\ due' = due \cup {t}
    /\ UNCHANGED <<seats, leases, jobs, live, answers, bound, probe, period, stale>>

HealthLapses(s) ==
    /\ seats[s].fresh
    /\ seats' = [seats EXCEPT ![s].fresh = FALSE]
    /\ UNCHANGED <<leases, jobs, live, answers, bound, probe, clock>>

MonthTurns ==
    /\ period < LastPeriod
    /\ period' = period + 1
    /\ UNCHANGED <<seats, leases, jobs, live, answers, bound, probe, stale, due>>
-----------------------------------------------------------------------------
Calls ==
    \/ \E t \in Tickets :
        \/ ReserveSeatBudget(t)
        \/ \E cost \in Costs \cup {0} : ReconcileSeatBudget(t, cost)
        \/ \E same \in BOOLEAN : InvokeContributor(t, same)
    \/ \E s \in Seats : MarkSeatUnhealthy(s)

Admin ==
    \/ \E s \in Seats : RemoveSeat(s) \/ RegisterSeat(s) \/ RegisterStart(s)
    \/ \E s \in Seats : \E up \in SUBSET {s} : RegisterFinish(s, up)
    \/ RefreshSeats \/ RefreshStart
    \/ \E up \in SUBSET Seats : RefreshFinish(up)

Messages ==
    \E c \in Conns :
        \/ Connect(c) \/ Close(c)
        \/ \E s \in Seats :
            \/ SeatRegister(c, s)
            \/ \E status \in {"healthy", "unavailable", "exhausted"} :
                    Heartbeat(c, s, status)
        \/ \E t \in Tickets, report \in Reports :
            LateResult(c, t, report) \/ Result(c, t, report)

Timers ==
    \/ \E t \in Tickets : JobTimeout(t) \/ LeaseGoesStale(t) \/ DeadlinePasses(t)
    \/ \E s \in Seats : HealthLapses(s)
    \/ MonthTurns

Environment == Admin \/ Messages \/ Timers \/ Restart
Next == Calls \/ Environment
Spec == Init /\ [][Next]_vars
-----------------------------------------------------------------------------
(* Properties. *)

OpenLeases(s) == {t \in Tickets : SeatOf(t) = s /\ leases[t].status = "reserved"}

\* Money held on a seat is always backed by a lease, which is settled or
\* reclaimed in the end: no reservation can be stuck until the month turns.
HeldByLeases ==
    \A s \in Seats :
        seats[s].reserved <= Estimate * Cardinality(OpenLeases(s))

\* Every open lease is held on its seat, so concurrent callers cannot
\* oversubscribe it (as long as no month turns and no seat is removed).
LeasesAreHeld ==
    \A s \in Seats :
        Estimate * Cardinality(OpenLeases(s)) <= seats[s].reserved

\* A caller waits only for a job that can still be answered: a result is
\* awaited, or the timer is about to fire.
WaitersWillHear ==
    \A t \in live : jobs[t].status = "pending" \/ t \in due

\* What a caller was told about a job is what the ledger says for good, so a
\* caller that asks again after a crash gets the same outcome.
AnswersMatchLedger ==
    \A t \in Tickets :
        /\ answers[t].status = "ok" =>
              /\ jobs[t].status = "succeeded"
              /\ jobs[t].cost = answers[t].cost
        /\ answers[t].status = "failure" /\ answers[t].cost # Unreported =>
              /\ jobs[t].status = "failed"
              /\ jobs[t].cost = answers[t].cost

\* A contributor seat that routing takes for healthy has a connection that has
\* not gone: what a replaced connection had sent before it was closed does not
\* revive a seat whose successor has left or which was removed.  (As long as no
\* connection may register several seats, and no refresh is suspended.)
HealthyIsConnected ==
    \A s \in Contributors :
        seats[s].healthy => seats[s].conn \in Of(s)

\* The close event of a connection that was replaced comes late; by then its
\* successor may have jobs, and neither it nor they nor their callers notice.
SuccessorUndisturbed ==
    [][\A c \in Conns, s \in Seats :
            bound[c].socket = "closing" /\ bound'[c].socket = "closed" /\ Connected(s) =>
                /\ Connected(s)' /\ seats'[s] = seats[s]
                /\ \A t \in Tickets : SeatOf(t) = s =>
                      jobs'[t] = jobs[t] /\ (t \in live => t \in live')]_vars

\* The terminal state of a job is a fence: no late result, timeout or close
\* changes the outcome, or a usage once recorded.
TerminalJobsStay ==
    [][\A t \in Tickets : jobs[t].status \in {"succeeded", "failed"} =>
            /\ jobs'[t].status = jobs[t].status
            /\ jobs[t].cost # Unreported => jobs'[t].cost = jobs[t].cost]_vars

\* A lease is settled once: a repeated reconciliation changes nothing.
SettledOnce ==
    [][\A t \in Tickets :
            leases[t].status = "settled" => leases'[t] = leases[t]]_vars

\* A reservation the registry accepted stays on its books until it is
\* settled, or reclaimed because it is stale.
ReservationsStay ==
    [][\A t \in Tickets \ stale :
            leases[t].status = "reserved" => leases'[t].status # "none"]_vars
=============================================================================
