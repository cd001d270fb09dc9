------------------------------ MODULE TickLink ------------------------------
(***************************************************************************)
(* The tick protocol between a game and its session object: the simulator's *)
(* RestCommanderLink (packages/sim-link/src/rest-link.ts) at one end, and   *)
(* at the other what handleTick and applyTick (services/commander) do with  *)
(* the ids of ticks, the snapshot, the commands and the last response.      *)
(*                                                                         *)
(* One tick is under way at a time.  Its HTTP request is retried a few      *)
(* times with the same body; after that the tick has failed and the next    *)
(* one carries what it carried.  A request that timed out may still arrive, *)
(* and its handler may still be at work when the next tick arrives.         *)
(*                                                                         *)
(* A snapshot is named by the tick that took it.  A delta is named by the   *)
(* snapshot it was computed from and the one it leads to; applied to any    *)
(* other it gives a mixture of both, so the session's snapshot is a set of  *)
(* ticks.  News are the events and reports of a tick.                       *)
(* What a handler does with its sergeants is in CommanderSession.           *)
(***************************************************************************)
EXTENDS Naturals, FiniteSets

CONSTANTS
    Commands,       \* command ids
    News,           \* events and sergeant reports
    MaxTries,       \* attempts at one request: 1 + retryMaxAttempts
    MaxFaults       \* bound: lost or late messages, restarts, and
                    \* full snapshots asked for

ASSUME LinkAssumption == MaxTries \in Nat \ {0} /\ MaxFaults \in Nat

VARIABLES
    tickId,         \* #tickId
    base,           \* #lastSnapshot
    forceFull,      \* #forceFull
    waiting,        \* #pendingReports and the event filter's queues
    results,        \* #pendingResults: a status, or None, per command
    ledger,         \* #commandLedger: the status of the result, or None
    acceptedSent,   \* commands whose ledger entry is accepted_sent
    request,        \* the tick under way, or NoRequest
    try,            \* the attempt at it
    times,          \* how often the world executed a command
    over,           \* executed commands that came to an end in the world
    born,           \* news that happened
    wire,           \* requests that have not arrived, each of an attempt
    reply,          \* the response to the present attempt, or NoReply
    faults,         \* faults so far
    lastTickId, snapshot, orders, cached, \* the session's state: lastTickId,
                    \* snapshot, pendingCommands, lastTickResponse
    handlers,       \* attempts whose handleTick is under way
    issued,         \* commands the commander issued
    taken           \* news in the session's memory

link == <<tickId, base, forceFull, waiting, results, ledger, acceptedSent,
          request, try>>
world == <<times, over, born>>
network == <<wire, reply, faults>>
state == <<lastTickId, snapshot, orders, cached, handlers, issued, taken>>
linkvars == <<link, world, network, state>>

None == "none"
Status == {None, "accepted", "ended"}   \* ended: completed, or failed
NoSnapshot == 0
Bodies ==
    [tick : Nat, full : BOOLEAN, base : Nat, news : SUBSET News,
     results : [Commands -> Status]]
Responses == [tick : Nat, commands : SUBSET Commands, full : BOOLEAN]
NoRequest == [tick |-> 0]
NoReply == [tick |-> 0, commands |-> {}, full |-> TRUE]
Present == <<request.tick, try>>        \* the attempt under way

LinkTypeOK ==
    /\ tickId \in Nat /\ base \in 0..tickId /\ forceFull \in BOOLEAN
    /\ waiting \subseteq born /\ born \subseteq News
    /\ results \in [Commands -> Status] /\ ledger \in [Commands -> Status]
    /\ acceptedSent \subseteq Commands /\ over \subseteq Commands
    /\ request \in Bodies \cup {NoRequest} /\ try \in 0..MaxTries
    /\ times \in [Commands -> Nat]
    /\ \A m \in wire : m.body \in Bodies /\ m.try \in 1..MaxTries
    /\ reply \in Responses /\ cached \in Responses /\ faults \in 0..MaxFaults
    /\ lastTickId \in 0..tickId /\ snapshot \subseteq 1..tickId
    /\ orders \subseteq issued /\ issued \subseteq Commands
    /\ handlers \subseteq (1..tickId) \X (1..MaxTries) /\ taken \subseteq born

LinkInit ==
    /\ tickId = 0 /\ base = NoSnapshot /\ forceFull = TRUE /\ waiting = {}
    /\ results = [c \in Commands |-> None] /\ ledger = [c \in Commands |-> None]
    /\ acceptedSent = {} /\ request = NoRequest /\ try = 0
    /\ times = [c \in Commands |-> 0] /\ over = {} /\ born = {}
    /\ wire = {} /\ reply = NoReply /\ faults = 0
    /\ lastTickId = 0 /\ snapshot = {} /\ orders = {}
    /\ cached = NoReply /\ handlers = {} /\ issued = {} /\ taken = {}
-----------------------------------------------------------------------------
(* The world and the commander. *)

NewsHappen(n) ==
    /\ n \notin born
    /\ born' = born \cup {n} /\ waiting' = waiting \cup {n}
    /\ UNCHANGED <<tickId, base, forceFull, results, ledger, acceptedSent,
                   request, try, times, over, network, state>>

\* A command's objective is reached, or superseded, or its group is gone.
CommandEnds(c) ==
    /\ ledger[c] = "accepted" /\ c \notin over
    /\ over' = over \cup {c}
    /\ UNCHANGED <<link, times, born, network, state>>

IssueCommand(c) ==
    /\ c \notin issued
    /\ issued' = issued \cup {c} /\ orders' = orders \cup {c}
    /\ UNCHANGED <<link, world, network, lastTickId, snapshot, cached, handlers,
                   taken>>
-----------------------------------------------------------------------------
(* The link. *)

Fault == faults < MaxFaults /\ faults' = faults + 1

\* Bound: the link ticks when that can move something: it carries news, or
\* there is something to say about a command.
Worthwhile ==
    \/ \E c \in orders : ledger[c] = None
    \/ \E c \in Commands :
        \/ results[c] = "accepted" /\ c \notin acceptedSent
        \/ results[c] = "ended"
        \/ c \in over /\ ledger[c] = "accepted"

\* A full snapshot, when one is asked for or due, or what changed; with the
\* reports there are, and the events unless their batch is not yet due.
TickStart(full, sent) ==
    /\ request = NoRequest
    /\ Worthwhile \/ sent # {}
    /\ forceFull \/ base = NoSnapshot => full
    /\ tickId' = tickId + 1
    /\ request' = [tick |-> tickId', full |-> full, base |-> base,
                   news |-> sent, results |-> results]
    /\ try' = 1 /\ waiting' = waiting \ sent
    /\ wire' = wire \cup {[body |-> request', try |-> 1]}
    /\ UNCHANGED <<base, forceFull, results, ledger, acceptedSent, world, reply,
                   faults, state>>

\* Mutant: after a failure the link goes on with deltas.
GiveUpCalmly ==
    /\ waiting' = waiting \cup request.news
    /\ request' = NoRequest /\ try' = 0 /\ reply' = NoReply
    /\ UNCHANGED <<tickId, base, forceFull, results, ledger, acceptedSent,
                   world, wire>>

\* Mutant: what the failed tick carried is dropped.
GiveUpNews ==
    /\ forceFull' = TRUE
    /\ request' = NoRequest /\ try' = 0 /\ reply' = NoReply
    /\ UNCHANGED <<tickId, base, waiting, results, ledger, acceptedSent, world,
                   wire>>

\* Mutant: the permit to tick is not given back when a tick fails.
GiveUpHolding ==
    /\ forceFull' = TRUE
    /\ waiting' = waiting \cup request.news
    /\ UNCHANGED <<tickId, base, results, ledger, acceptedSent, request, try,
                   reply, world, wire>>

\* The tick failed: its news wait again, and the next one is full.
GiveUp ==
    /\ forceFull' = TRUE
    /\ waiting' = waiting \cup request.news
    /\ request' = NoRequest /\ try' = 0 /\ reply' = NoReply
    /\ UNCHANGED <<tickId, base, results, ledger, acceptedSent, world, wire>>

\* Another attempt, with the same body.
Retry ==
    /\ try < MaxTries /\ try' = try + 1
    /\ wire' = wire \cup {[body |-> request, try |-> try']}
    /\ reply' = NoReply
    /\ UNCHANGED <<tickId, base, forceFull, waiting, results, ledger,
                   acceptedSent, request, world>>

\* Nothing will answer the present attempt any more.
Dead ==
    /\ reply = NoReply /\ Present \notin handlers
    /\ \A m \in wire : <<m.body.tick, m.try>> # Present

\* The attempt times out, or fails in another way, which may not be one
\* that is retried.
AttemptFails ==
    /\ request # NoRequest
    /\ Fault \/ (Dead /\ UNCHANGED faults)
    /\ Retry \/ GiveUp
    /\ UNCHANGED state

\* The response names the tick of the request.
Fits == reply.tick = request.tick

Misfit ==
    /\ request # NoRequest /\ reply # NoReply /\ ~Fits
    /\ GiveUp
    /\ UNCHANGED <<faults, state>>

\* settleDeliveredCommandResults: which delivered results are done with.
Delivered(status) == {c \in Commands : request.results[c] = status}
AcceptedSentAfter ==
    acceptedSent \cup {c \in Delivered("accepted") : ledger[c] = "accepted"}
\* advanceCommandLifecycles: accepted commands that are over in the world.
Ending == {c \in AcceptedSentAfter : ledger[c] = "accepted" /\ c \in over}

\* Mutant: commands are executed whenever they are sent.
UnknownAny == reply.commands

\* The commands of the response that the ledger does not have.
Unknown == {c \in reply.commands : ledger[c] = None}

\* The response is accepted: delivered results are settled, commands that
\* ended are reported, unknown ones executed, and known ones reported again.
HearReply ==
    /\ request # NoRequest /\ reply # NoReply /\ Fits
    /\ acceptedSent' = AcceptedSentAfter
    /\ \E refused \in SUBSET Unknown :
        /\ ledger' = [c \in Commands |->
                CASE c \in refused \cup Ending -> "ended"
                  [] c \in Unknown \ refused -> "accepted"
                  [] OTHER -> ledger[c]]
        /\ times' = [c \in Commands |->
                IF c \in Unknown \ refused THEN times[c] + 1 ELSE times[c]]
    /\ results' = [c \in Commands |->
            IF c \in Ending \cup reply.commands THEN ledger'[c]
            ELSE IF c \in Delivered("ended") THEN None ELSE results[c]]
    /\ base' = request.tick
    /\ forceFull' = reply.full
    /\ request' = NoRequest /\ try' = 0 /\ reply' = NoReply
    /\ UNCHANGED <<tickId, waiting, over, born, wire, faults, state>>

\* requestFullSnapshot, at any time, and connect to the same mission.
RequestFullSnapshot ==
    /\ ~forceFull /\ Fault
    /\ forceFull' = TRUE
    /\ UNCHANGED <<tickId, base, waiting, results, ledger, acceptedSent, request,
                   try, world, wire, reply, state>>

LoseRequest(m) ==
    /\ m \in wire
    /\ <<m.body.tick, m.try>> = Present => Fault
    /\ <<m.body.tick, m.try>> # Present => UNCHANGED faults
    /\ wire' = wire \ {m}
    /\ UNCHANGED <<link, world, reply, state>>
-----------------------------------------------------------------------------
(* The session object. *)

\* A response reaches the link only while it waits for that attempt.
Respond(attempt, response) ==
    reply' = IF attempt = Present THEN response ELSE reply

\* applyTick refuses a repeated tick, and a delta on another tick than the
\* last one.
Accepts(r) ==
    /\ r.tick > lastTickId
    /\ ~r.full => snapshot # {} /\ lastTickId = r.tick - 1

\* The snapshot after the tick.
Applied(r) ==
    IF r.full \/ snapshot = {r.base} THEN {r.tick} ELSE snapshot \cup {r.tick}

\* The commands the game reports the end of.
Terminal(r) == {c \in Commands : r.results[c] = "ended"}

\* A request arrives: a repeated one gets the last response if there is one,
\* another that is refused gets none of the commands, and the rest is
\* applied and goes on to its sergeants.
Receive(m) ==
    LET r == m.body
        attempt == <<r.tick, m.try>>
        known == lastTickId = r.tick /\ cached # NoReply
    IN  /\ m \in wire /\ wire' = wire \ {m}
        /\ IF known \/ ~Accepts(r)
           THEN /\ Respond(attempt, IF known THEN cached ELSE
                        [tick |-> lastTickId, commands |-> {}, full |-> TRUE])
                /\ UNCHANGED <<lastTickId, snapshot, orders, handlers, taken>>
           ELSE /\ lastTickId' = r.tick
                /\ snapshot' = Applied(r)
                /\ orders' = orders \ Terminal(r)
                /\ taken' = taken \cup r.news
                /\ handlers' = handlers \cup {attempt}
                /\ UNCHANGED reply
        /\ UNCHANGED <<link, world, faults, cached, issued>>

\* A handler ends: its response is that of the last tick there was, which
\* may be a later one.  It asks for a full snapshot when one is due.
Answer(h) ==
    /\ h \in handlers /\ handlers' = handlers \ {h}
    /\ \E full \in BOOLEAN :
        cached' = [tick |-> lastTickId, commands |-> orders, full |-> full]
    /\ Respond(h, cached')
    /\ UNCHANGED <<link, world, wire, faults, lastTickId, snapshot, orders,
                   issued, taken>>

\* The object restarts, or handlers end with an error.
HandlersEnd ==
    /\ Fault
    /\ \E ended \in SUBSET handlers : ended # {} /\ handlers' = handlers \ ended
    /\ UNCHANGED <<link, world, wire, reply, lastTickId, snapshot, orders, cached,
                   issued, taken>>

Ticking ==
    \E full \in BOOLEAN, sent \in SUBSET waiting : TickStart(full, sent)
Receiving == \E m \in wire : Receive(m)
Answering == \E h \in handlers : Answer(h)
Failing == Dead /\ AttemptFails

LinkNext ==
    \/ \E n \in News : NewsHappen(n)
    \/ \E c \in Commands : CommandEnds(c) \/ IssueCommand(c)
    \/ Ticking \/ AttemptFails \/ Misfit \/ HearReply \/ RequestFullSnapshot
    \/ \E m \in wire : LoseRequest(m)
    \/ Receiving \/ Answering \/ HandlersEnd

LinkSpec == LinkInit /\ [][LinkNext]_linkvars

\* The link ticks, an attempt that nothing can answer times out, and what
\* arrives is handled.  Nothing makes a command end or news happen.
LinkFairness ==
    /\ WF_linkvars(Ticking) /\ WF_linkvars(Failing)
    /\ WF_linkvars(Misfit) /\ WF_linkvars(HearReply)
    /\ WF_linkvars(Receiving) /\ WF_linkvars(Answering)
FairLinkSpec == LinkSpec /\ LinkFairness
-----------------------------------------------------------------------------
(* Properties. *)

\* A delta never meets a snapshot it was not computed from: link and session
\* agree on the base although responses get lost, requests arrive late, and
\* refused deltas leave the session where it was.
NeverMixed == Cardinality(snapshot) <= 1

\* Events and reports reach the session's memory, or are still with the
\* link: the tick that carries them may fail in any way.
NewsNotLost ==
    born \subseteq waiting \cup taken
                   \cup IF request = NoRequest THEN {} ELSE request.news

\* How far a command is, as both sides together have it.
StageOf(c) ==
    IF c \notin issued THEN "unknown"
    ELSE IF c \notin orders THEN "settled"
    ELSE IF ledger[c] = "ended" THEN "ended"
    ELSE IF ledger[c] = "accepted" THEN "executed" ELSE "issued"
Life == INSTANCE CommandLife WITH stage <- [c \in Commands |-> StageOf(c)]

\* At-least-once delivery of commands and results amounts to what a reliable
\* channel would do: a command is executed once, and settled after its end.
CommandsLive == Life!LifeSpec

\* The end of a command reaches the session, which then gives back what it
\* reserved for it.
EndsAreHeard == \A c \in Commands : c \in over ~> c \notin orders

\* A command that was issued reaches the game.
OrdersArrive == \A c \in Commands : c \in orders ~> ledger[c] # None

\* Commands and their ends get across, over a connection that loses both.
CommandsProgress == EndsAreHeard /\ OrdersArrive

\* Types, and the agreement on a base, which every reachable state has.
LinkInv == LinkTypeOK /\ NeverMixed
=============================================================================
