-------------------------- MODULE CommanderSession --------------------------
(***************************************************************************)
(* The session object: one OrchestratorAgent per session, mission epoch    *)
(* and faction, with its sergeants (services/commander/src/durable/        *)
(* orchestrator.ts, state/game-state.ts).  The game sends it ticks.  A     *)
(* tick applies what the game reports, takes over the assessments its      *)
(* sergeants finished, queues new reports with them, and requests a        *)
(* decision of the commander, which a scheduled callback makes while ticks *)
(* go on.                                                                  *)
(*                                                                         *)
(* handleTick gives up the object whenever it calls a sergeant or the      *)
(* registry, so one action stands for what runs between two such calls,    *)
(* and several ticks may be under way: the game sends another after its    *)
(* request timed out.  A tick the object refuses (a duplicate, or a delta  *)
(* on another base) changes nothing, and is no action.                     *)
(*                                                                         *)
(* The mission of an object never changes, for its name holds the session, *)
(* the epoch and the faction.  Mission time is the age of the last         *)
(* decision.  A decision, and an assessment, gives one command.            *)
(***************************************************************************)
EXTENDS Sergeant, Sequences, SequencesExt

CONSTANTS
    Handlers,       \* bound: ticks under way at a time
    Interval,       \* decisionIntervalSeconds, in ticks
    KeepProcessed,  \* how many processed assessment ids are kept: 500
    KeepGroups,     \* how many groups with a sergeant are remembered: 50
    MaxDecisions    \* bound: decisions after which nothing asks for more

ASSUME SessionAssumption ==
    /\ IsFiniteSet(Handlers)
    /\ Interval \in Nat \ {0} /\ MaxDecisions \in Nat
    /\ KeepProcessed \in Nat /\ KeepGroups \in Nat

VARIABLES
    connected, heard,   \* the game is connected; a snapshot was received
    age,                \* ticks since the last decision, up to Interval
    request,            \* the pending decision: its trigger, or NoTrigger
    version,            \* pendingDecisionVersion
    sequence,           \* nextDecisionSequence
    orders,             \* pendingCommands
    processed,          \* processedSergeantAssessmentIds
    known,              \* sergeantGroupIds
    ticks,              \* the ticks under way
    rows,               \* versions with a scheduled runScheduledDecision
    runs,               \* runningDecisions, in memory
    sent,               \* commands the game got
    settled             \* commands the game reported the end of

game == <<sent, settled>>
decisions == <<age, request, version, sequence, rows, runs>>
session == <<connected, heard, decisions, orders, processed, known>>
allvars == <<sergeants, restarts, session, ticks, game>>

\* The triggers of decisions by their priority.
NoTrigger == 0
Scheduled == 1
Report == 2
Event == 3

Numbers == 1..(MaxDecisions + Cardinality(Handlers) + 1)
Commands == Works \cup ({"commander"} \X Numbers)
TickRecord ==
    [at : {"idle", "drain", "merge", "queue", "decide", "acknowledge"},
     reports : SUBSET Groups, trigger : NoTrigger..Event,
     ids : SUBSET Groups, drained : SUBSET Works]
NoTick == [at |-> "idle", reports |-> {}, trigger |-> NoTrigger,
           ids |-> {}, drained |-> {}]

SessionTypeOK ==
    /\ SergeantTypeOK
    /\ connected \in BOOLEAN /\ heard \in BOOLEAN
    /\ age \in 0..Interval /\ request \in NoTrigger..Event
    /\ version \in Nat /\ sequence \in Numbers
    /\ orders \subseteq Commands
    /\ processed \in Seq(Works) /\ Len(processed) <= KeepProcessed
    /\ known \subseteq Groups
    /\ ticks \in [Handlers -> TickRecord]
    /\ rows \subseteq 1..version /\ runs \subseteq rows
    /\ sent \subseteq Commands /\ settled \subseteq sent

\* No decision was made yet, so the first tick asks for one.
SessionInit ==
    /\ SergeantInit
    /\ connected = FALSE /\ heard = FALSE
    /\ age = Interval /\ request = NoTrigger /\ version = 0 /\ sequence = 1
    /\ orders = {} /\ processed = <<>> /\ known = {}
    /\ ticks = [h \in Handlers |-> NoTick]
    /\ rows = {} /\ runs = {} /\ sent = {} /\ settled = {}
-----------------------------------------------------------------------------
(* Requests for decisions. *)

\* A request supersedes a pending one of a lower priority.
Supersedes(trigger) == trigger > request

RequestCommanderDecision(trigger) ==
    IF Supersedes(trigger)
    THEN request' = trigger /\ version' = version + 1
    ELSE UNCHANGED <<request, version>>

\* Mutant: only a request that changed something is scheduled.
EnqueueChanged == rows' = IF version' # version THEN rows \cup {version'} ELSE rows

\* Scheduling is idempotent, and may fail: the request stays pending.
EnqueueDecisionRun ==
    \/ rows' = rows \cup {version'}
    \/ "schedule" \in Failures /\ rows' = rows

\* The alarm of scheduleEvery.
ScheduledDecision ==
    /\ connected /\ heard /\ request = NoTrigger /\ age > 0
    /\ RequestCommanderDecision(Scheduled)
    /\ EnqueueDecisionRun
    /\ UNCHANGED <<sergeants, restarts, connected, heard, age, sequence, orders,
                   processed, known, ticks, runs, game>>

\* runScheduledDecision up to the call of the model; a version that is not
\* wanted any more is dropped.
RunStart(v) ==
    /\ v \in rows \ runs
    /\ IF connected /\ heard /\ request # NoTrigger /\ version = v
       THEN runs' = runs \cup {v} /\ UNCHANGED rows
       ELSE rows' = rows \ {v} /\ UNCHANGED runs
    /\ UNCHANGED <<sergeants, restarts, connected, heard, age, request, version,
                   sequence, orders, processed, known, ticks, game>>

\* What makes a decision stale while the model works on it.
Stale(v) == ~connected \/ ~heard \/ request = NoTrigger \/ version # v

Release(v) == rows' = rows \ {v} /\ runs' = runs \ {v}

\* The model answered: the decision is committed, or discarded.
RunFinish(v) ==
    /\ v \in runs
    /\ Release(v)
    /\ IF Stale(v)
       THEN UNCHANGED <<age, request, sequence, orders>>
       ELSE /\ age' = 0 /\ request' = NoTrigger /\ sequence' = sequence + 1
            /\ orders' = orders \cup {<<"commander", sequence>>}
    /\ UNCHANGED <<sergeants, restarts, connected, heard, version, processed,
                   known, ticks, game>>
-----------------------------------------------------------------------------
(* The game's calls. *)

Goes(h, at) == ticks' = [ticks EXCEPT ![h].at = at]

\* Bound: after MaxDecisions the game asks for nothing more, and once it has
\* what it asked for its clock stops.
Asks == sequence <= MaxDecisions
ClockRuns == Asks \/ request # NoTrigger

\* What a tick may report: groups, if their sergeants have work left; an
\* event or a report that calls for a decision; and ended commands.
Reportable ==
    {g \in Groups : Cardinality({h \in Handlers : g \in ticks[h].reports})
                        < Cardinality(Unused(g))}
Triggers == {NoTrigger} \cup IF Asks THEN {Report, Event} ELSE {}

\* The groups a tick remembers of those in S.  Which of them came last, and
\* are kept when there are too many, is left open.
Latest(S) ==
    IF Cardinality(S) <= KeepGroups THEN {S}
    ELSE {T \in SUBSET S : Cardinality(T) = KeepGroups}

\* handleTick up to the call of the sergeants.  A tick connects the session.
Tick(h, reports, trigger, ended) ==
    /\ ticks[h].at = "idle"
    /\ reports \subseteq Reportable /\ ended \subseteq sent
    /\ connected' = TRUE /\ heard' = TRUE
    /\ age' = IF ClockRuns /\ age < Interval THEN age + 1 ELSE age
    /\ orders' = orders \ ended
    /\ settled' = settled \cup ended
    /\ \E ids \in Latest(known \cup reports) :
        ticks' = [ticks EXCEPT ![h] =
            [at |-> "drain", reports |-> reports, trigger |-> trigger,
             ids |-> ids, drained |-> {}]]
    /\ UNCHANGED <<sergeants, restarts, request, version, sequence, rows, runs,
                   processed, known, sent>>

\* The sergeants' lists of completed assessments; a call may fail.
Drain(h) ==
    /\ ticks[h].at = "drain"
    /\ \E G \in SUBSET ticks[h].ids :
        /\ "rpc" \in Failures \/ G = ticks[h].ids
        /\ ticks' = [ticks EXCEPT ![h].at = "merge",
                                  ![h].drained = CompletedAssessments(G)]
    /\ UNCHANGED <<sergeants, restarts, session, game>>

\* Mutant: what was read before the call is not compared with what other
\* ticks took over meanwhile.
FreshAny(h) == ticks[h].drained

\* The drained assessments that no tick took over.
Fresh(h) == ticks[h].drained \ Range(processed)

\* The groups the tick read, and shortened, before the call.
KnownAfter(h) == ticks[h].ids

\* The assessments are taken over; the registry is asked for the seats.
Merge(h) ==
    LET all == processed \o SetToSeq(Fresh(h))
        excess == IF Len(all) > KeepProcessed THEN Len(all) - KeepProcessed ELSE 0
    IN  /\ ticks[h].at = "merge"
        /\ orders' = orders \cup Fresh(h)
        /\ processed' = SubSeq(all, excess + 1, Len(all))
        /\ known' = KnownAfter(h)
        /\ Goes(h, "queue")
        /\ UNCHANGED <<sergeants, restarts, connected, heard, decisions, game>>

\* The reports are queued with the sergeants; a call may fail.
Queue(h) ==
    /\ ticks[h].at = "queue"
    /\ \E G \in SUBSET ticks[h].reports :
        /\ "rpc" \in Failures \/ G = ticks[h].reports
        /\ QueueAssessments(G)
    /\ ticks' = [ticks EXCEPT ![h].at = "decide", ![h].reports = {}]
    /\ UNCHANGED <<restarts, session, game>>

\* A decision is requested if the tick, or the time, calls for one, and the
\* game is answered with all the commands it has not ended.
Decide(h) ==
    LET due == age = Interval
    IN  /\ ticks[h].at = "decide"
        /\ IF ticks[h].trigger # NoTrigger \/ due
           THEN /\ RequestCommanderDecision(
                        IF ticks[h].trigger # NoTrigger THEN ticks[h].trigger
                                                        ELSE Scheduled)
                /\ EnqueueDecisionRun
           ELSE UNCHANGED <<request, version, rows>>
        /\ sent' = sent \cup orders
        /\ Goes(h, "acknowledge")
        /\ UNCHANGED <<sergeants, restarts, connected, heard, age, sequence, runs,
                       orders, processed, known, settled>>

\* The sergeants are told which assessments arrived; a call may fail.
Acknowledge(h) ==
    /\ ticks[h].at = "acknowledge"
    /\ \E G \in SUBSET ticks[h].ids :
        /\ "rpc" \in Failures \/ G = ticks[h].ids
        /\ AcknowledgeAssessments({w \in ticks[h].drained : w[1] \in G})
    /\ ticks' = [ticks EXCEPT ![h] = NoTick]
    /\ UNCHANGED <<restarts, session, game>>

\* The log of a drained assessment, or the archive of the tick, is not
\* written: the tick ends with an error and does no more.
SaveFails(h) ==
    /\ "save" \in Failures
    /\ \/ ticks[h].at = "merge" /\ Fresh(h) # {}
       \/ ticks[h].at = "acknowledge"
    /\ ticks' = [ticks EXCEPT ![h] = NoTick]
    /\ UNCHANGED <<sergeants, restarts, session, game>>

ConnectSession ==
    /\ ~connected /\ connected' = TRUE
    /\ UNCHANGED <<sergeants, restarts, heard, decisions, orders, processed,
                   known, ticks, game>>

DisconnectSession ==
    /\ "disconnect" \in Failures
    /\ connected /\ connected' = FALSE
    /\ UNCHANGED <<sergeants, restarts, heard, decisions, orders, processed,
                   known, ticks, game>>

\* The object restarts and its facets with it; ticks and runs are gone, and
\* onStart schedules the pending decision.
Restart ==
    /\ restarts < MaxRestarts /\ restarts' = restarts + 1
    /\ RestartSergeants
    /\ ticks' = [h \in Handlers |-> NoTick]
    /\ runs' = {}
    /\ UNCHANGED <<connected, heard, age, request, version, sequence, orders,
                   processed, known, game>>
    /\ IF connected /\ heard /\ request # NoTrigger
       THEN EnqueueDecisionRun ELSE UNCHANGED rows

TickSteps(h) ==
    \/ Drain(h) \/ Merge(h) \/ Queue(h) \/ Decide(h) \/ Acknowledge(h)
    \/ SaveFails(h)
Runs == \E v \in rows : RunStart(v) \/ RunFinish(v)
AnyTick ==
    \E h \in Handlers, reports \in SUBSET Groups, trigger \in Triggers,
       ended \in SUBSET sent : Tick(h, reports, trigger, ended)
Sergeants == FiberSteps /\ UNCHANGED <<restarts, session, ticks, game>>

SessionNext ==
    \/ ConnectSession \/ DisconnectSession \/ Restart
    \/ AnyTick \/ ScheduledDecision \/ Runs \/ Sergeants
    \/ \E h \in Handlers : TickSteps(h)

SessionSpec == SessionInit /\ [][SessionNext]_allvars

\* The game keeps sending ticks, the object's handlers and callbacks run,
\* models answer and recovered fibers are restarted.  Nothing makes the
\* game report, end a command, or connect.
SessionFairness ==
    /\ WF_allvars(AnyTick) /\ WF_allvars(Runs) /\ WF_allvars(Sergeants)
    /\ \A h \in Handlers : WF_allvars(TickSteps(h))
FairSessionSpec == SessionSpec /\ SessionFairness
-----------------------------------------------------------------------------
(* Properties. *)

\* A command the game has ended never comes back: an assessment is taken
\* over once, although ticks drain concurrently, acknowledgements get lost
\* and everything restarts.
NeverReissued == orders \cap settled = {}

\* An assessment leaves its sergeant only when its command was issued.
AcknowledgedIsIssued ==
    \A w \in Works :
        works[w].status = "acknowledged" => w \in orders \cup settled

\* Types, and the agreement of sergeants and session on what was issued,
\* which every reachable state has.
SessionInv == SessionTypeOK /\ AcknowledgedIsIssued

\* The object remembers every group that has a sergeant, so that no
\* finished assessment is forgotten.  Two ticks under way break it (README).
SergeantsStayKnown == [][known \subseteq known']_allvars

\* A decision asked for is made, if the game stays connected.
DecisionsAreMade == request # NoTrigger ~> request = NoTrigger \/ ~connected

\* The assessment of every report queued reaches the game's commander.
ReportsAreHeard ==
    \A w \in Works :
        works[w].status = "pending" ~> w \in orders \cup settled
=============================================================================
