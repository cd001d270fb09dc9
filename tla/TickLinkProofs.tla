--------------------------- MODULE TickLinkProofs ---------------------------
(***************************************************************************)
(* Theorems about the tick protocol, for any sets of commands and news, any *)
(* number of attempts and of faults: link and session agree on the base of *)
(* a delta, no news are lost, and the delivery of commands implements      *)
(* CommandLife.                                                            *)
(***************************************************************************)
EXTENDS TickLink, FiniteSetTheorems, TLAPS

(* What a request may be, wherever it is: its delta is computed from the   *)
(* tick before it, its news happened, and a command it reports the end of  *)
(* is one the link has ended.                                              *)
Sound(r) ==
    /\ r \in Bodies
    /\ r.tick \in 1..tickId
    /\ ~r.full => r.base = r.tick - 1
    /\ r.news \subseteq born
    /\ \A c \in Commands : r.results[c] = "ended" => ledger[c] = "ended"

(* A response is of a tick the session had, with commands it issued.       *)
Heard(response) ==
    /\ response \in Responses
    /\ response.tick <= lastTickId
    /\ response.commands \subseteq issued

Idle == request = NoRequest

LinkHas ==
    /\ tickId \in Nat /\ base \in 0..tickId /\ forceFull \in BOOLEAN
    /\ results \in [Commands -> Status] /\ ledger \in [Commands -> Status]
    /\ acceptedSent \subseteq Commands /\ try \in 0..MaxTries
    /\ Idle \/ (Sound(request) /\ request.tick = tickId)
    /\ \A c \in Commands : results[c] = "ended" => ledger[c] = "ended"

WorldHas ==
    /\ waiting \subseteq born /\ born \subseteq News /\ taken \subseteq born
    /\ times \in [Commands -> Nat] /\ over \subseteq Commands
    /\ faults \in 0..MaxFaults

\* The requests of one tick are the same one.
WireHas ==
    /\ \A m \in wire :
        /\ Sound(m.body) /\ m.try \in 1..MaxTries
        /\ ~Idle /\ m.body.tick = request.tick => m.body = request
    /\ Heard(reply) /\ Heard(cached)

SessionHas ==
    /\ lastTickId \in 0..tickId
    /\ snapshot = {} \/ (snapshot = {lastTickId} /\ lastTickId # 0)
    /\ orders \subseteq issued /\ issued \subseteq Commands
    /\ handlers \subseteq (1..tickId) \X (1..MaxTries)

\* An idle link that needs no full snapshot ended its last tick with it.
Based == Idle /\ ~forceFull => base = tickId

\* The session has the news of the tick it applied last.
Delivery ==
    /\ born \subseteq waiting \cup taken \cup (IF Idle THEN {} ELSE request.news)
    /\ ~Idle /\ lastTickId = request.tick => request.news \subseteq taken

\* The link knows issued commands only, and those settled are ended there.
Lives ==
    \A c \in Commands :
        /\ c \notin issued => ledger[c] = None
        /\ c \in issued \ orders => ledger[c] = "ended"

IInv == LinkHas /\ WorldHas /\ WireHas /\ SessionHas /\ Based /\ Delivery /\ Lives

-----------------------------------------------------------------------------
LEMMA InitIInv == LinkInit => IInv
<1> USE LinkAssumption
<1> SUFFICES ASSUME LinkInit PROVE IInv
  OBVIOUS
<1>1. LinkHas
  BY DEF LinkInit, LinkHas, Idle, None, Status, NoSnapshot
<1>2. WorldHas /\ SessionHas
  BY DEF LinkInit, WorldHas, SessionHas
<1>3. WireHas
  BY DEF LinkInit, WireHas, Heard, NoReply, Responses
<1>4. Based /\ Delivery /\ Lives
  BY DEF LinkInit, Based, Delivery, Lives, Idle, None
<1> QED
  BY <1>1, <1>2, <1>3, <1>4 DEF IInv

LEMMA IInvImplies == IInv => LinkInv /\ NewsNotLost
<1> USE LinkAssumption
<1> SUFFICES ASSUME IInv PROVE LinkInv /\ NewsNotLost
  OBVIOUS
<1>1. LinkTypeOK
  BY DEF LinkTypeOK, IInv, LinkHas, WorldHas, WireHas, SessionHas, Sound, Heard, Idle
<1>2. NeverMixed
  <2>1. Cardinality({}) = 0 /\ Cardinality({lastTickId}) = 1
    BY FS_EmptySet, FS_Singleton
  <2> QED
    BY <2>1 DEF IInv, SessionHas, NeverMixed
<1>3. NewsNotLost
  BY DEF IInv, Delivery, NewsNotLost, Idle
<1> QED
  BY <1>1, <1>2, <1>3 DEF LinkInv
-----------------------------------------------------------------------------
(* Every step keeps the invariant. *)

LEMMA NewsKeep ==
    ASSUME IInv, NEW n \in News, NewsHappen(n)  PROVE IInv'
<1> USE DEF NewsHappen, link, world, network, state
<1>1. LinkHas'
  BY DEF IInv, LinkHas, Idle, Sound
<1>2. WorldHas'
  BY DEF IInv, WorldHas
<1>3. WireHas'
  BY DEF IInv, WireHas, Idle, Sound, Heard
<1>4. SessionHas' /\ Based' /\ Delivery' /\ Lives'
  BY DEF IInv, SessionHas, Based, Delivery, Lives, Idle
<1> QED
  BY <1>1, <1>2, <1>3, <1>4 DEF IInv

LEMMA CommandKeep ==
    ASSUME IInv, NEW c \in Commands, CommandEnds(c) \/ IssueCommand(c)
    PROVE  IInv'
<1> USE DEF CommandEnds, IssueCommand, link, world, network, state
<1>1. LinkHas'
  BY DEF IInv, LinkHas, Idle, Sound
<1>2. WorldHas'
  BY DEF IInv, WorldHas
<1>3. WireHas'
  BY DEF IInv, WireHas, Idle, Sound, Heard
<1>4. SessionHas' /\ Based' /\ Delivery' /\ Lives'
  BY DEF IInv, SessionHas, Based, Delivery, Lives, Idle
<1> QED
  BY <1>1, <1>2, <1>3, <1>4 DEF IInv

LEMMA TickKeep ==
    ASSUME IInv, Ticking  PROVE IInv'
<1> USE LinkAssumption
<1>1. PICK full \in BOOLEAN, sent \in SUBSET waiting : TickStart(full, sent)
  BY DEF Ticking
<1>2. /\ request' = [tick |-> tickId', full |-> full, base |-> base,
                      news |-> sent, results |-> results]
      /\ tickId' = tickId + 1 /\ try' = 1 /\ waiting' = waiting \ sent
      /\ wire' = wire \cup {[body |-> request', try |-> 1]}
      /\ Idle /\ (~full => ~forceFull)
      /\ UNCHANGED <<base, forceFull, results, ledger, acceptedSent, world, reply,
                     faults, state>>
  BY <1>1 DEF TickStart, Idle
<1>3. Sound(request)' /\ request'.tick = tickId' /\ ~Idle'
  <2>1. request' \in Bodies
    BY <1>2 DEF IInv, LinkHas, WorldHas, Bodies
  <2>2. request'.tick = tickId' /\ ~Idle'
    BY <1>2 DEF IInv, LinkHas, Idle, NoRequest
  <2>3. ~request'.full => request'.base = request'.tick - 1
    BY <1>2 DEF IInv, LinkHas, Based
  <2>4. /\ request'.news \subseteq born'
        /\ \A c \in Commands : request'.results[c] = "ended" => ledger'[c] = "ended"
    BY <1>2 DEF IInv, LinkHas, WorldHas, world
  <2> QED
    BY <1>2, <2>1, <2>2, <2>3, <2>4 DEF Sound, IInv, LinkHas
<1>4. LinkHas'
  BY <1>2, <1>3 DEF IInv, LinkHas
<1>5. WorldHas' /\ SessionHas'
  BY <1>2 DEF IInv, LinkHas, WorldHas, SessionHas, world, state
<1>6. WireHas'
  <2>1. ASSUME NEW m \in wire
        PROVE  /\ Sound(m.body)' /\ m.try \in 1..MaxTries
               /\ m.body.tick # request'.tick
    BY <1>2, <1>3 DEF IInv, LinkHas, WireHas, Sound, world
  <2>2. Heard(reply)' /\ Heard(cached)'
    BY <1>2 DEF IInv, WireHas, Heard, state
  <2> QED
    BY <1>2, <1>3, <2>1, <2>2 DEF WireHas
<1>7. Based' /\ Lives'
  BY <1>2, <1>3 DEF IInv, Based, Lives, state
<1>8. Delivery'
  BY <1>2, <1>3 DEF IInv, LinkHas, SessionHas, Delivery, world, state
<1> QED
  BY <1>4, <1>5, <1>6, <1>7, <1>8 DEF IInv

\* A tick that failed, whatever the reason.
LEMMA GiveUpKeep ==
    ASSUME IInv, ~Idle, GiveUp, faults' \in 0..MaxFaults, UNCHANGED state
    PROVE  IInv'
<1> USE LinkAssumption DEF GiveUp, world, state
<1>1. Idle'
  BY DEF Idle
<1>2. LinkHas'
  BY <1>1 DEF IInv, LinkHas, Sound
<1>3. WorldHas' /\ SessionHas'
  BY DEF IInv, LinkHas, Sound, WorldHas, SessionHas
<1>4. WireHas'
  <2>1. Heard(reply)'
    BY DEF IInv, SessionHas, Heard, NoReply, Responses
  <2> QED
    BY <1>1, <2>1 DEF IInv, WireHas, Sound, Heard
<1>5. Based' /\ Lives' /\ Delivery'
  BY <1>1 DEF IInv, Based, Lives, Delivery
<1> QED
  BY <1>2, <1>3, <1>4, <1>5 DEF IInv

LEMMA FailKeep ==
    ASSUME IInv, AttemptFails  PROVE IInv'
<1> USE LinkAssumption DEF world, state
<1>1. ~Idle /\ faults' \in 0..MaxFaults /\ UNCHANGED state
  BY DEF AttemptFails, Idle, Fault, IInv, WorldHas
<1>2. CASE GiveUp
  BY <1>1, <1>2, GiveUpKeep
<1>3. CASE Retry
  <2> USE <1>1, <1>3 DEF Retry
  <2>1. LinkHas'
    BY DEF IInv, LinkHas, Sound, Idle
  <2>2. WorldHas' /\ SessionHas'
    BY DEF IInv, WorldHas, SessionHas
  <2>3. WireHas'
    <3>1. Heard(reply)' /\ Heard(cached)'
      BY DEF IInv, SessionHas, WireHas, Heard, NoReply, Responses
    <3>2. ~Idle' /\ Sound(request)' /\ try' \in 1..MaxTries
      BY <2>1 DEF LinkHas, Idle, IInv
    <3>3. ASSUME NEW m \in wire'
          PROVE  /\ Sound(m.body)' /\ m.try \in 1..MaxTries
                 /\ m.body.tick = request'.tick => m.body = request'
      <4>1. CASE m \in wire
        BY <4>1 DEF IInv, WireHas, Sound
      <4>2. CASE m = [body |-> request, try |-> try']
        BY <4>2, <3>2 DEF Sound
      <4> QED
        BY <4>1, <4>2
    <3> QED
      BY <3>1, <3>2, <3>3 DEF WireHas
  <2>4. Based' /\ Lives' /\ Delivery'
    BY DEF IInv, Based, Lives, Delivery, Idle
  <2> QED
    BY <2>1, <2>2, <2>3, <2>4 DEF IInv
<1> QED
  BY <1>2, <1>3 DEF AttemptFails

LEMMA MisfitKeep ==
    ASSUME IInv, Misfit  PROVE IInv'
BY GiveUpKeep DEF Misfit, Idle, IInv, WorldHas

LEMMA AskKeep ==
    ASSUME IInv, RequestFullSnapshot \/ HandlersEnd \/ \E m \in wire : LoseRequest(m)
    PROVE  IInv'
<1> USE LinkAssumption DEF link, world, state, RequestFullSnapshot, HandlersEnd, LoseRequest
<1>1. faults' \in 0..MaxFaults
  BY DEF Fault, IInv, WorldHas
<1>2. wire' \subseteq wire /\ handlers' \subseteq handlers
  OBVIOUS
<1>3. UNCHANGED <<tickId, base, waiting, results, ledger, acceptedSent, request, try,
                  times, over, born, reply, lastTickId, snapshot, orders, cached,
                  issued, taken>>
  OBVIOUS
<1>4. forceFull' = forceFull \/ forceFull' = TRUE
  OBVIOUS
<1>5. LinkHas' /\ WorldHas' /\ SessionHas'
  BY <1>1, <1>2, <1>3, <1>4 DEF IInv, LinkHas, WorldHas, SessionHas, Idle, Sound
<1>6. WireHas'
  BY <1>2, <1>3 DEF IInv, WireHas, Idle, Sound, Heard
<1>7. Based' /\ Lives' /\ Delivery'
  BY <1>3, <1>4 DEF IInv, Based, Lives, Delivery, Idle
<1> QED
  BY <1>5, <1>6, <1>7 DEF IInv

\* What hearing a response does to each command: one that is unknown is
\* executed or refused, and one that was executed may end.
LEMMA HearLedger ==
    ASSUME IInv, HearReply
    PROVE  /\ ledger' \in [Commands -> Status]
           /\ times' \in [Commands -> Nat]
           /\ \A c \in Commands :
                \/ ledger'[c] = ledger[c] /\ times'[c] = times[c]
                \/ /\ ledger[c] = None /\ c \in reply.commands
                   /\ \/ ledger'[c] = "ended" /\ times'[c] = times[c]
                      \/ ledger'[c] = "accepted" /\ times'[c] = times[c] + 1
                \/ /\ ledger[c] = "accepted"
                   /\ ledger'[c] = "ended" /\ times'[c] = times[c]
<1>1. PICK refused \in SUBSET Unknown :
        /\ ledger' = [c \in Commands |->
                CASE c \in refused \cup Ending -> "ended"
                  [] c \in Unknown \ refused -> "accepted"
                  [] OTHER -> ledger[c]]
        /\ times' = [c \in Commands |->
                IF c \in Unknown \ refused THEN times[c] + 1 ELSE times[c]]
  BY DEF HearReply
<1>2. /\ Unknown \subseteq {c \in Commands : ledger[c] = None /\ c \in reply.commands}
      /\ Ending \subseteq {c \in Commands : ledger[c] = "accepted"}
  BY DEF Unknown, Ending, AcceptedSentAfter, Delivered, IInv, LinkHas, WireHas,
         Heard, Responses, SessionHas
<1>3. ledger \in [Commands -> Status] /\ times \in [Commands -> Nat]
  BY DEF IInv, LinkHas, WorldHas
<1>4. ASSUME NEW c \in Commands
      PROVE  /\ ledger'[c] \in Status /\ times'[c] \in Nat
             /\ \/ ledger'[c] = ledger[c] /\ times'[c] = times[c]
                \/ /\ ledger[c] = None /\ c \in reply.commands
                   /\ \/ ledger'[c] = "ended" /\ times'[c] = times[c]
                      \/ ledger'[c] = "accepted" /\ times'[c] = times[c] + 1
                \/ /\ ledger[c] = "accepted"
                   /\ ledger'[c] = "ended" /\ times'[c] = times[c]
  <2>1. CASE c \in refused
    BY <1>1, <1>2, <1>3, <2>1 DEF Status
  <2>2. CASE c \in Ending
    BY <1>1, <1>2, <1>3, <2>2 DEF Status, None
  <2>3. CASE c \in Unknown \ refused
    BY <1>1, <1>2, <1>3, <2>3 DEF Status, None
  <2>4. CASE c \notin refused \cup Ending \cup Unknown
    BY <1>1, <1>3, <2>4 DEF Status
  <2> QED
    BY <2>1, <2>2, <2>3, <2>4
<1>5. /\ ledger' = [c \in Commands |-> ledger'[c]]
      /\ times' = [c \in Commands |-> times'[c]]
  BY <1>1
<1> QED
  BY <1>4, <1>5

LEMMA HearKeep ==
    ASSUME IInv, HearReply  PROVE IInv'
<1> USE LinkAssumption DEF state
<1>1. /\ ~Idle /\ reply.tick = request.tick /\ Idle' /\ try' = 0
      /\ base' = request.tick /\ forceFull' = reply.full /\ reply' = NoReply
      /\ UNCHANGED <<tickId, waiting, over, born, wire, faults, state>>
  BY DEF HearReply, Fits, Idle
<1>2. /\ ledger' \in [Commands -> Status] /\ times' \in [Commands -> Nat]
      /\ \A c \in Commands :
            /\ ledger[c] = "ended" => ledger'[c] = "ended"
            /\ c \notin reply.commands /\ ledger[c] = None => ledger'[c] = None
  BY HearLedger DEF IInv, LinkHas, Status, None
<1>3. lastTickId = request.tick
  BY <1>1 DEF IInv, LinkHas, WireHas, SessionHas, Heard, Sound, Responses
<1>4. results' \in [Commands -> Status]
      /\ \A c \in Commands : results'[c] = "ended" => ledger'[c] = "ended"
  <2>1. results' = [c \in Commands |->
            IF c \in Ending \cup reply.commands THEN ledger'[c]
            ELSE IF c \in Delivered("ended") THEN None ELSE results[c]]
    BY DEF HearReply
  <2> QED
    BY <1>2, <2>1 DEF IInv, LinkHas, Status, None
<1>5. acceptedSent' \subseteq Commands
  BY DEF HearReply, AcceptedSentAfter, Delivered, IInv, LinkHas
<1>6. LinkHas'
  BY <1>1, <1>2, <1>4, <1>5 DEF IInv, LinkHas, Sound, Heard, WireHas, Responses
<1>7. WorldHas' /\ SessionHas'
  BY <1>1, <1>2 DEF IInv, WorldHas, SessionHas
<1>8. WireHas'
  <2>1. Heard(reply)' /\ Heard(cached)'
    BY <1>1 DEF IInv, SessionHas, WireHas, Heard, NoReply, Responses
  <2>2. \A m \in wire : Sound(m.body)' /\ m.try \in 1..MaxTries
    BY <1>1, <1>2 DEF IInv, WireHas, Sound
  <2> QED
    BY <1>1, <2>1, <2>2 DEF WireHas
<1>9. Based'
  BY <1>1 DEF IInv, LinkHas, Based
<1>10. Delivery'
  BY <1>1, <1>3 DEF IInv, Delivery
<1>11. Lives'
  <2>1. reply.commands \subseteq issued
    BY DEF IInv, WireHas, Heard
  <2> QED
    BY <1>1, <1>2, <2>1 DEF IInv, Lives
<1> QED
  BY <1>6, <1>7, <1>8, <1>9, <1>10, <1>11 DEF IInv

LEMMA ReceiveKeep ==
    ASSUME IInv, NEW m \in wire, Receive(m)  PROVE IInv'
<1> USE LinkAssumption DEF link, world
<1> DEFINE r == m.body
           attempt == <<r.tick, m.try>>
           known == lastTickId = r.tick /\ cached # NoReply
<1>1. /\ wire' = wire \ {m}
      /\ UNCHANGED <<link, world, faults, cached, issued>>
  BY DEF Receive
<1>2. Sound(r) /\ m.try \in 1..MaxTries
      /\ (~Idle /\ r.tick = request.tick => r = request)
  BY DEF IInv, WireHas
<1>3. LinkHas' /\ Based'
  BY <1>1 DEF IInv, LinkHas, Based, Idle, Sound
<1>4. CASE known \/ ~Accepts(r)
  <2>1. /\ UNCHANGED <<lastTickId, snapshot, orders, handlers, taken>>
        /\ Respond(attempt, IF known THEN cached ELSE
                       [tick |-> lastTickId, commands |-> {}, full |-> TRUE])
    BY <1>4 DEF Receive
  <2>2. Heard(reply)' /\ Heard(cached)'
    <3>1. Heard(cached) /\ Heard(reply)
          /\ Heard([tick |-> lastTickId, commands |-> {}, full |-> TRUE])
      BY DEF IInv, WireHas, SessionHas, Heard, Responses, LinkHas
    <3>2. reply' \in {reply, cached, [tick |-> lastTickId, commands |-> {}, full |-> TRUE]}
      BY <2>1 DEF Respond
    <3> QED
      BY <1>1, <2>1, <3>1, <3>2 DEF Heard
  <2>3. WireHas'
    BY <1>1, <2>2 DEF IInv, WireHas, Idle, Sound
  <2>4. WorldHas' /\ SessionHas' /\ Delivery' /\ Lives'
    BY <1>1, <2>1 DEF IInv, WorldHas, SessionHas, Delivery, Lives, Idle
  <2> QED
    BY <1>3, <2>3, <2>4 DEF IInv
<1>5. CASE ~known /\ Accepts(r)
  <2>1. /\ lastTickId' = r.tick /\ snapshot' = Applied(r)
        /\ orders' = orders \ Terminal(r) /\ taken' = taken \cup r.news
        /\ handlers' = handlers \cup {attempt} /\ reply' = reply
    BY <1>5 DEF Receive
  <2>2. r.tick > lastTickId /\ (~r.full => snapshot # {} /\ lastTickId = r.tick - 1)
    BY <1>5 DEF Accepts
  <2>3. snapshot' = {lastTickId'} /\ lastTickId' # 0
    BY <1>2, <2>1, <2>2 DEF Applied, Sound, IInv, SessionHas
  <2>4. handlers' \subseteq (1..tickId') \X (1..MaxTries)
    BY <1>1, <1>2, <2>1 DEF Sound, IInv, SessionHas
  <2>5. SessionHas'
    BY <1>1, <1>2, <2>1, <2>3, <2>4 DEF Sound, IInv, SessionHas
  <2>6. WorldHas'
    BY <1>1, <1>2, <2>1 DEF Sound, IInv, WorldHas
  <2>7. Heard(reply)' /\ Heard(cached)'
    BY <1>1, <1>2, <2>1, <2>2 DEF IInv, WireHas, Heard, Sound, Responses, SessionHas, LinkHas
  <2>8. WireHas'
    BY <1>1, <2>7 DEF IInv, WireHas, Idle, Sound
  <2>9. Delivery'
    BY <1>1, <1>2, <2>1 DEF IInv, Delivery, Idle
  <2>10. Lives'
    BY <1>1, <1>2, <2>1 DEF IInv, Lives, Sound, Terminal
  <2> QED
    BY <1>3, <2>5, <2>6, <2>8, <2>9, <2>10 DEF IInv
<1> QED
  BY <1>4, <1>5

LEMMA AnswerKeep ==
    ASSUME IInv, NEW h \in handlers, Answer(h)  PROVE IInv'
<1> USE LinkAssumption DEF link, world
<1>1. /\ handlers' = handlers \ {h}
      /\ UNCHANGED <<link, world, wire, faults, lastTickId, snapshot, orders,
                     issued, taken>>
  BY DEF Answer
<1>2. PICK full \in BOOLEAN :
        cached' = [tick |-> lastTickId, commands |-> orders, full |-> full]
  BY DEF Answer
<1>3. Heard(reply)' /\ Heard(cached)'
  <2>1. Heard(cached)'
    BY <1>1, <1>2 DEF Heard, Responses, IInv, SessionHas, LinkHas
  <2>2. reply' \in {reply, cached'}
    BY DEF Answer, Respond
  <2> QED
    BY <1>1, <2>1, <2>2 DEF Heard, IInv, WireHas
<1>4. LinkHas' /\ WorldHas' /\ SessionHas'
  BY <1>1 DEF IInv, LinkHas, WorldHas, SessionHas, Idle, Sound
<1>5. WireHas'
  BY <1>1, <1>3 DEF IInv, WireHas, Idle, Sound
<1>6. Based' /\ Delivery' /\ Lives'
  BY <1>1 DEF IInv, Based, Delivery, Lives, Idle
<1> QED
  BY <1>4, <1>5, <1>6 DEF IInv

LEMMA StepIInv ==
    ASSUME IInv, [LinkNext]_linkvars  PROVE IInv'
<1>1. CASE \E n \in News : NewsHappen(n)
  BY <1>1, NewsKeep
<1>2. CASE \E c \in Commands : CommandEnds(c) \/ IssueCommand(c)
  BY <1>2, CommandKeep
<1>3. CASE Ticking
  BY <1>3, TickKeep
<1>4. CASE AttemptFails \/ Misfit
  BY <1>4, FailKeep, MisfitKeep
<1>5. CASE HearReply
  BY <1>5, HearKeep
<1>6. CASE RequestFullSnapshot \/ HandlersEnd \/ \E m \in wire : LoseRequest(m)
  BY <1>6, AskKeep
<1>7. CASE Receiving
  BY <1>7, ReceiveKeep DEF Receiving
<1>8. CASE Answering
  BY <1>8, AnswerKeep DEF Answering
<1>9. CASE UNCHANGED linkvars
  BY <1>9 DEF linkvars, link, world, network, state, IInv, LinkHas, WorldHas, WireHas,
     SessionHas, Based, Delivery, Lives, Idle, Sound, Heard
<1> QED
  BY <1>1, <1>2, <1>3, <1>4, <1>5, <1>6, <1>7, <1>8, <1>9 DEF LinkNext
-----------------------------------------------------------------------------
(* Every step is one of CommandLife, or does nothing to the commands. *)

\* What makes a command move in CommandLife.
LifeKept(c) ==
    /\ issued' = issued /\ times'[c] = times[c]
    /\ ledger'[c] = ledger[c] /\ (c \in orders' <=> c \in orders)

LEMMA LifeStutters ==
    ASSUME NEW c \in Commands, LifeKept(c)  PROVE Life!Same(c)
BY DEF LifeKept, Life!Same, StageOf

LEMMA LifeIssue ==
    ASSUME IInv, NEW d \in Commands, IssueCommand(d)  PROVE Life!LifeNext
<1> SUFFICES ASSUME NEW c \in Commands PROVE Life!Same(c) \/ Life!Issued(c)
  BY DEF Life!LifeNext
<1>1. /\ d \notin issued /\ issued' = issued \cup {d} /\ orders' = orders \cup {d}
      /\ ledger' = ledger /\ times' = times
  BY DEF IssueCommand, link, world
<1>2. CASE c = d
  BY <1>1, <1>2 DEF Life!Issued, StageOf, IInv, Lives, None
<1>3. CASE c # d
  BY <1>1, <1>3 DEF Life!Same, StageOf
<1> QED
  BY <1>2, <1>3

LEMMA LifeHear ==
    ASSUME IInv, HearReply  PROVE Life!LifeNext
<1> SUFFICES ASSUME NEW c \in Commands
             PROVE  \/ Life!Same(c) \/ Life!Executed(c) \/ Life!Refused(c) \/ Life!Ended(c)
  BY DEF Life!LifeNext
<1>1. issued' = issued /\ orders' = orders
  BY DEF HearReply, state
<1>2. ledger[c] \in Status /\ ledger'[c] \in Status
  BY HearLedger DEF IInv, LinkHas
<1>3. CASE ledger'[c] = ledger[c] /\ times'[c] = times[c]
  BY <1>1, <1>3, LifeStutters DEF LifeKept
<1>4. CASE /\ ledger[c] = None /\ c \in reply.commands
           /\ \/ ledger'[c] = "ended" /\ times'[c] = times[c]
              \/ ledger'[c] = "accepted" /\ times'[c] = times[c] + 1
  <2>1. c \in issued /\ c \in orders
    BY <1>4 DEF IInv, WireHas, Heard, Lives, None
  <2> QED
    BY <1>1, <1>4, <2>1 DEF Life!Executed, Life!Refused, StageOf, None
<1>5. CASE /\ ledger[c] = "accepted"
           /\ ledger'[c] = "ended" /\ times'[c] = times[c]
  <2>1. c \in issued /\ c \in orders
    BY <1>5 DEF IInv, Lives, None
  <2> QED
    BY <1>1, <1>5, <2>1 DEF Life!Ended, StageOf
<1> QED
  BY <1>3, <1>4, <1>5, HearLedger

LEMMA LifeReceive ==
    ASSUME IInv, NEW m \in wire, Receive(m)  PROVE Life!LifeNext
<1> SUFFICES ASSUME NEW c \in Commands PROVE Life!Same(c) \/ Life!Settled(c)
  BY DEF Life!LifeNext
<1>1. /\ issued' = issued /\ ledger' = ledger /\ times' = times
      /\ orders' = orders \/ orders' = orders \ Terminal(m.body)
  BY DEF Receive, link, world
<1>2. c \in Terminal(m.body) => ledger[c] = "ended"
  BY DEF Terminal, IInv, WireHas, Sound
<1>3. CASE c \in orders /\ c \notin orders'
  <2>1. c \in issued /\ ledger[c] = "ended"
    BY <1>1, <1>2, <1>3 DEF IInv, SessionHas
  <2> QED
    BY <1>1, <1>3, <2>1 DEF Life!Settled, StageOf
<1>4. CASE c \in orders' <=> c \in orders
  BY <1>1, <1>4, LifeStutters DEF LifeKept
<1> QED
  BY <1>1, <1>3, <1>4

LEMMA LifeStep ==
    ASSUME IInv, [LinkNext]_linkvars  PROVE Life!LifeNext
<1>1. ASSUME UNCHANGED <<issued, orders, ledger, times>>
      PROVE  Life!LifeNext
  BY <1>1, LifeStutters DEF Life!LifeNext, LifeKept
<1> USE DEF link, world, network, state
<1>2. CASE \E n \in News : NewsHappen(n)
  BY <1>1, <1>2 DEF NewsHappen
<1>3. CASE \E c \in Commands : CommandEnds(c)
  BY <1>1, <1>3 DEF CommandEnds
<1>4. CASE \E c \in Commands : IssueCommand(c)
  BY <1>4, LifeIssue
<1>5. CASE Ticking
  BY <1>1, <1>5 DEF Ticking, TickStart
<1>6. CASE AttemptFails \/ Misfit
  BY <1>1, <1>6 DEF AttemptFails, Misfit, GiveUp, Retry
<1>7. CASE HearReply
  BY <1>7, LifeHear
<1>8. CASE RequestFullSnapshot \/ HandlersEnd \/ \E m \in wire : LoseRequest(m)
  BY <1>1, <1>8 DEF RequestFullSnapshot, HandlersEnd, LoseRequest
<1>9. CASE Receiving
  BY <1>9, LifeReceive DEF Receiving
<1>10. CASE Answering
  BY <1>1, <1>10 DEF Answering, Answer
<1>11. CASE UNCHANGED linkvars
  BY <1>1, <1>11 DEF linkvars
<1> QED
  BY <1>2, <1>3, <1>4, <1>5, <1>6, <1>7, <1>8, <1>9, <1>10, <1>11 DEF LinkNext

-----------------------------------------------------------------------------
LEMMA IInvHolds == LinkSpec => []IInv
<1>1. LinkInit => IInv
  BY InitIInv
<1>2. IInv /\ [LinkNext]_linkvars => IInv'
  BY StepIInv
<1> QED
  BY <1>1, <1>2, PTL DEF LinkSpec

\* A delta never meets a snapshot it was not computed from, whatever gets
\* lost, is late, is retried or restarts (applyTick, RestCommanderLink).
THEOREM LinkSound == LinkSpec => []LinkInv
<1>1. IInv => LinkInv
  BY IInvImplies
<1> QED
  BY <1>1, IInvHolds, PTL

\* Events and reports reach the session's memory or stay with the link,
\* however the ticks that carry them fail (rest-link's pendingReports).
THEOREM NewsStay == LinkSpec => []NewsNotLost
<1>1. IInv => NewsNotLost
  BY IInvImplies
<1> QED
  BY <1>1, IInvHolds, PTL

\* The two ends together implement CommandLife: over a network that loses,
\* delays and repeats, a command is executed once or refused, and settled
\* only after its end (the ledger of rest-link, pendingCommands).
THEOREM LinkImplementsLife == LinkSpec => CommandsLive
<1>1. LinkInit => Life!LifeInit
  BY DEF LinkInit, Life!LifeInit, StageOf
<1>2. IInv /\ [LinkNext]_linkvars
        => [Life!LifeNext]_<<[c \in Commands |-> StageOf(c)], times>>
  BY LifeStep
<1> QED
  BY <1>1, <1>2, IInvHolds, PTL DEF LinkSpec, CommandsLive, Life!LifeSpec
=============================================================================
