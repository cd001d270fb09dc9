------------------------------ MODULE Sergeant ------------------------------
(***************************************************************************)
(* The SergeantAgents of one session (services/commander/src/durable/      *)
(* sergeant.ts), one per group of soldiers.  A sergeant queues the reports *)
(* of its group as work, has a durable fiber assess each of them with a    *)
(* model, and keeps the finished assessments until the session object has  *)
(* taken them over and acknowledged them by name.                          *)
(*                                                                         *)
(* startFiber, which starts a fiber once per idempotency key and keeps its *)
(* status over restarts, and onFiberRecovered, which is called after a     *)
(* restart for a fiber it interrupted, belong to the agents SDK; they are  *)
(* modelled from how sergeant.ts uses them.                                *)
(*                                                                         *)
(* Only the session object calls a sergeant: CommanderSession closes this  *)
(* module.                                                                 *)
(***************************************************************************)
EXTENDS Naturals, FiniteSets

CONSTANTS
    Groups,         \* group ids
    MaxWork,        \* bound: reports a sergeant queues in a behaviour
    MaxAttempts,    \* bound: attempts at one report
    MaxRestarts,    \* bound: restarts in a behaviour
    Failures        \* what may fail: "accept", a fiber is not accepted;
                    \* "fiber", it ends with an error; "rpc", a call of the
                    \* session object to a sergeant; "save", its log or its
                    \* archive is not written; "schedule", a callback is not
                    \* scheduled; "disconnect", the game

ASSUME SergeantAssumption ==
    /\ IsFiniteSet(Groups)
    /\ MaxWork \in Nat /\ MaxAttempts \in Nat \ {0} /\ MaxRestarts \in Nat
    /\ Failures \subseteq {"accept", "fiber", "rpc", "save", "schedule",
                    "disconnect"}

VARIABLES
    works,          \* pendingWorkQueue, by version
    completed,      \* completedAssessments: works, each with its attempt
    fibers,         \* the status of the fiber of each attempt
    interrupted,    \* fibers whose onFiberRecovered is still to be called
    restarts        \* restarts so far, of sergeants and the session object

sergeants == <<works, completed, fibers, interrupted>>

Versions == 1..MaxWork
Works == Groups \X Versions     \* of a report, and of its assessment
Fibers == Works \X (1..MaxAttempts)
WorkRecord == [status : {"none", "pending", "completed", "acknowledged"},
               attempt : 0..MaxAttempts]
NoWork == [status |-> "none", attempt |-> 0]

SergeantTypeOK ==
    /\ works \in [Works -> WorkRecord]
    /\ completed \subseteq Fibers
    /\ fibers \in [Fibers ->
            {"none", "running", "completed", "error", "interrupted"}]
    /\ interrupted \subseteq Fibers
    /\ restarts \in 0..MaxRestarts

SergeantInit ==
    /\ works = [w \in Works |-> NoWork]
    /\ completed = {} /\ interrupted = {} /\ restarts = 0
    /\ fibers = [f \in Fibers |-> "none"]

\* The status of a fiber that was asked to start.
Started == {"running"} \cup IF "accept" \in Failures THEN {"none"} ELSE {}

\* The versions are handed out in order, before any fiber starts.
Unused(g) == {w \in Works : w[1] = g /\ works[w].status = "none"}
NextWork(g) == CHOOSE w \in Unused(g) : \A u \in Unused(g) : w[2] <= u[2]

\* The reports of the groups in G are queued, and a fiber started for each.
QueueAssessments(G) ==
    LET queued == {NextWork(g) : g \in G}
    IN  /\ \A g \in G : Unused(g) # {}
        /\ works' = [w \in Works |->
                IF w \in queued THEN [status |-> "pending", attempt |-> 1]
                                ELSE works[w]]
        /\ \E status \in [queued -> Started] :
            fibers' = [f \in Fibers |->
                IF f[1] \in queued /\ f[2] = 1 THEN status[f[1]] ELSE fibers[f]]
        /\ UNCHANGED <<completed, interrupted>>

\* The finished assessments of the groups in G.
CompletedAssessments(G) == {f[1] : f \in {c \in completed : c[1][1] \in G}}

AcknowledgeAssessments(ids) ==
    /\ completed' = {c \in completed : c[1] \notin ids}
    /\ works' = [w \in Works |->
            IF w \in ids /\ works[w].status = "completed"
            THEN [works[w] EXCEPT !.status = "acknowledged"]
            ELSE works[w]]
    /\ UNCHANGED <<fibers, interrupted>>

\* Mutant: an attempt that was superseded finishes the work too.
CurrentAny(f) == works[f[1]].status # "acknowledged"

\* The attempt is the one the queue waits for.
Current(f) == works[f[1]] = [status |-> "pending", attempt |-> f[2]]

\* Mutant: a finished assessment is handed over and not kept.
CompleteQueuedAssessmentUnkept(f) ==
    /\ fibers[f] = "running"
    /\ fibers' = [fibers EXCEPT ![f] = "completed"]
    /\ works' = [works EXCEPT ![f[1]].status =
                    IF Current(f) THEN "acknowledged" ELSE @]
    /\ completed' = IF Current(f) THEN completed \cup {f} ELSE completed
    /\ UNCHANGED interrupted

\* The model answered, or failed and the rules were used instead.
CompleteQueuedAssessment(f) ==
    /\ fibers[f] = "running"
    /\ fibers' = [fibers EXCEPT ![f] = "completed"]
    /\ IF Current(f)
       THEN /\ works' = [works EXCEPT ![f[1]].status = "completed"]
            /\ completed' = completed \cup {f}
       ELSE UNCHANGED <<works, completed>>
    /\ UNCHANGED interrupted

\* The configuration could not be read, or the log not be saved.
FiberFails(f) ==
    /\ "fiber" \in Failures
    /\ fibers[f] = "running"
    /\ fibers' = [fibers EXCEPT ![f] = "error"]
    /\ UNCHANGED <<works, completed, interrupted>>

\* The next attempt at work w, with a fiber of its own.
Retried(w) == [works[w] EXCEPT !.attempt = @ + 1]
Retry(w) == <<w, works[w].attempt + 1>>

\* onFiberRecovered looks the work up by its version, and retries whatever
\* attempt it is at.
FiberRecovered(f) ==
    /\ f \in interrupted
    /\ interrupted' = interrupted \ {f}
    /\ IF works[f[1]].status = "pending"
       THEN /\ Retry(f[1]) \in Fibers
            /\ works' = [works EXCEPT ![f[1]] = Retried(f[1])]
            /\ \E status \in Started :
                    fibers' = [fibers EXCEPT ![Retry(f[1])] = status]
       ELSE UNCHANGED <<works, fibers>>
    /\ UNCHANGED completed

\* Mutant: onStart leaves the work to onFiberRecovered.
RelaunchNever(stopped) == works' = works /\ fibers' = stopped

\* recoverPendingWork: what is pending is launched again, under the key of
\* its attempt if that never started, else as another attempt.
Relaunch(stopped) ==
    LET waiting == {w \in Works : works[w].status = "pending"}
        again == {w \in waiting :
                    stopped[<<w, works[w].attempt>>] \in {"error", "interrupted"}}
        first == {<<w, works[w].attempt>> : w \in waiting \ again}
        launched == {Retry(w) : w \in again}
                    \cup {f \in first : stopped[f] = "none"}
    IN  /\ \A w \in again : Retry(w) \in Fibers
        /\ works' = [w \in Works |-> IF w \in again THEN Retried(w) ELSE works[w]]
        /\ \E status \in [launched -> Started] :
            fibers' = [f \in Fibers |->
                        IF f \in launched THEN status[f] ELSE stopped[f]]

\* The sergeants of all groups restart, being facets of one object.  The
\* fibers that ran are reported to onFiberRecovered, some of them before
\* onStart, which then has nothing more to do for them.
RestartSergeants ==
    LET stopped == [f \in Fibers |->
                        IF fibers[f] = "running" THEN "interrupted" ELSE fibers[f]]
        ran == {f \in Fibers : fibers[f] = "running"}
    IN  /\ Relaunch(stopped)
        /\ \E late \in SUBSET ran : interrupted' = interrupted \cup late
        /\ UNCHANGED completed

FiberSteps ==
    \E f \in Fibers :
        CompleteQueuedAssessment(f) \/ FiberFails(f) \/ FiberRecovered(f)
-----------------------------------------------------------------------------
(* Properties. *)

\* A report is assessed once, however many attempts restarts caused: the
\* session object never sees two assessments under one id.
AssessedOnce ==
    \A c, d \in completed : c[1] = d[1] => c = d
=============================================================================
