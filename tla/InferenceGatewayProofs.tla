----------------------- MODULE InferenceGatewayProofs -----------------------
(***************************************************************************)
(* Theorems about the inference service, for any number of requests,       *)
(* accounts, grants and revisions, and any limit of a grant.               *)
(*                                                                         *)
(* The inductive invariant has four parts: the types (with what a request  *)
(* past the queue has read), the holder of the start lock, the books of    *)
(* the grants, and what the recorded fingerprint vouches for.              *)
(***************************************************************************)
EXTENDS InferenceGateway, FiniteSetTheorems, TLAPS

Outside == {"new", "queued", "ended"}
Readying == {"refresh", "ensure", "start", "ports", "verify"}
Launched == {"fetch", "served"}
States == Outside \cup Readying \cup Launched
RequestRecord == [pc : States, session : BOOLEAN, grant : 0 .. MaxGrants,
                  key : Keys \cup {NoKey}]

\* Every variable has its type, and a request past the queue has read an
\* account and, when it is a session's, consumed of a grant.
Typed ==
    /\ killed \in BOOLEAN
    /\ accounts \in [Names -> [revision : 0 .. MaxRevision, stale : BOOLEAN]]
    /\ active \in Names \cup {NoName}
    /\ grant \in [id : 0 .. MaxGrants, used : 0 .. Limit, over : BOOLEAN]
    /\ lock \in Requests \cup {NoOne}
    /\ req \in [Requests -> RequestRecord]
    /\ admin \in {"idle", "restart"}
    /\ container \in [running : BOOLEAN, key : Keys \cup {NoKey}]
    /\ begun \in [1 .. MaxGrants -> Nat]
    /\ faults \in 0 .. MaxFaults
    /\ \A r \in Requests : req[r].pc \notin Outside =>
         /\ req[r].key \in Keys
         /\ req[r].session => req[r].grant \in 1 .. grant.id

-----------------------------------------------------------------------------
(* Types.                                                                  *)

LEMMA KeyTypes ==
    /\ NoKey \notin Keys
    /\ \A k \in Keys : k.name \in Names /\ k.revision \in 1 .. MaxRevision
    /\ \A n \in Names, v \in 1 .. MaxRevision : [name |-> n, revision |-> v] \in Keys
BY GatewayAssumption DEF Keys, NoKey

LEMMA ActiveKeyType ==
    ASSUME Typed
    PROVE  ActiveKey \in Keys \cup {NoKey} /\ (ActiveKey # NoKey => active \in Names)
BY GatewayAssumption, KeyTypes DEF Typed, ActiveKey

LEMMA TypedInit == Init => Typed
<1> SUFFICES ASSUME Init
             PROVE  Typed
  OBVIOUS
<1>1. {0, Limit, MaxGrants, MaxRevision, MaxFaults} \subseteq Nat
  BY GatewayAssumption
<1>2. Fresh \in RequestRecord /\ Fresh.pc \in Outside
  BY <1>1 DEF Fresh, RequestRecord, States, Outside
<1>3. req \in [Requests -> RequestRecord] /\ \A r \in Requests : req[r].pc \in Outside
  BY <1>2 DEF Init
<1>4. container \in [running : BOOLEAN, key : Keys \cup {NoKey}]
  BY DEF Init, Stopped
<1>5. grant \in [id : 0 .. MaxGrants, used : 0 .. Limit, over : BOOLEAN]
  BY <1>1 DEF Init
<1>6. accounts \in [Names -> [revision : 0 .. MaxRevision, stale : BOOLEAN]]
  BY <1>1 DEF Init
<1>7. begun \in [1 .. MaxGrants -> Nat] /\ faults \in 0 .. MaxFaults
  BY <1>1 DEF Init
<1>8. /\ killed \in BOOLEAN /\ active \in Names \cup {NoName}
      /\ lock \in Requests \cup {NoOne} /\ admin \in {"idle", "restart"}
  BY DEF Init
<1> QED
  BY <1>3, <1>4, <1>5, <1>6, <1>7, <1>8 DEF Typed

\* What a request reads with the lock stays within its record.
LEMMA RequestType ==
    ASSUME NEW f \in [Requests -> RequestRecord], NEW r \in Requests, NEW pc \in States,
           NEW g \in 0 .. MaxGrants, NEW k \in Keys
    PROVE  /\ [f EXCEPT ![r].grant = g, ![r].key = k, ![r].pc = pc]
                \in [Requests -> RequestRecord]
           /\ [f EXCEPT ![r].pc = pc, ![r].key = k] \in [Requests -> RequestRecord]
           /\ [f EXCEPT ![r].pc = pc] \in [Requests -> RequestRecord]
BY DEF RequestRecord

\* A request that goes on, or leaves, with what it has read.
LEMMA MovesTyped ==
    ASSUME Typed, NEW r \in Requests, NEW pc \in States, Goes(r, pc),
           pc \in Outside \/ req[r].pc \notin Outside,
           grant'.id = grant.id
    PROVE  /\ req' \in [Requests -> RequestRecord]
           /\ \A q \in Requests : req'[q].pc \notin Outside =>
                /\ req'[q].key \in Keys
                /\ req'[q].session => req'[q].grant \in 1 .. grant'.id
<1>1. /\ req \in [Requests -> RequestRecord]
      /\ \A q \in Requests : req[q].pc \notin Outside =>
           /\ req[q].key \in Keys
           /\ req[q].session => req[q].grant \in 1 .. grant.id
  BY DEF Typed
<1>2. req' = [req EXCEPT ![r].pc = pc]
  BY DEF Goes
<1>3. req' \in [Requests -> RequestRecord]
  BY <1>1, <1>2 DEF RequestRecord
<1>4. \A q \in Requests : /\ req'[q].key = req[q].key /\ req'[q].session = req[q].session
                          /\ req'[q].grant = req[q].grant
                          /\ req'[q].pc = IF q = r THEN pc ELSE req[q].pc
  BY <1>1, <1>2 DEF RequestRecord
<1> QED
  BY <1>1, <1>3, <1>4

LEMMA BeginTyped ==
    ASSUME Typed, NEW r \in Requests, Begin(r)
    PROVE  Typed'
<1>1. CASE req[r].session /\ ~Standing
  <2>1. Goes(r, "ended") /\ "ended" \in States /\ "ended" \in Outside /\ UNCHANGED grant
    BY <1>1 DEF Begin, Leave, States, Outside
  <2> QED
    BY <1>1, <2>1, MovesTyped DEF Begin, Leave, Calm, Typed, history
<1>2. CASE ~(req[r].session /\ ~Standing)
  <2>1. /\ grant' \in [id : 0 .. MaxGrants, used : 0 .. Limit, over : BOOLEAN]
        /\ grant'.id = grant.id
        /\ req[r].session => grant.id \in 1 .. grant.id
    BY <1>2, GatewayAssumption DEF Begin, Standing, Typed
  <2>2. CASE ActiveKey = NoKey
    <3>1. Goes(r, "ended") /\ "ended" \in States /\ "ended" \in Outside /\ lock' = NoOne
      BY <1>2, <2>2 DEF Begin, Leave, States, Outside
    <3> QED
      BY <2>1, <3>1, MovesTyped DEF Begin, Calm, Typed, history
  <2>3. CASE ActiveKey # NoKey
    <3>1. ActiveKey \in Keys
      BY <2>3, ActiveKeyType
    <3>2. PICK pc \in {"refresh", "ensure"} :
             req' = [req EXCEPT ![r].grant = grant.id, ![r].key = ActiveKey, ![r].pc = pc]
      BY <1>2, <2>3 DEF Begin
    <3>3. lock' = r
      BY <1>2, <2>3 DEF Begin
    <3>4. pc \in States /\ pc \notin Outside
      BY DEF States, Outside, Readying
    <3>5. req' \in [Requests -> RequestRecord]
      <4>1. grant.id \in 0 .. MaxGrants /\ req \in [Requests -> RequestRecord]
        BY DEF Typed
      <4> QED
        BY <3>1, <3>2, <3>4, <4>1, RequestType
    <3>6. \A q \in Requests : req'[q].pc \notin Outside =>
             /\ req'[q].key \in Keys
             /\ req'[q].session => req'[q].grant \in 1 .. grant'.id
      BY <2>1, <3>1, <3>2, <3>4 DEF Typed
    <3> QED
      BY <2>1, <3>3, <3>5, <3>6 DEF Begin, Calm, Typed, history
  <2> QED
    BY <2>2, <2>3
<1> QED
  BY <1>1, <1>2

LEMMA RefreshTyped ==
    ASSUME Typed, NEW r \in Requests, Refresh(r)
    PROVE  Typed'
<1> DEFINE name == req[r].key.name
           key == [name |-> name, revision |-> accounts'[name].revision]
<1>1. req[r].key \in Keys /\ name \in Names
  BY KeyTypes DEF Refresh, At, Typed, Outside
<1>2. accounts' \in [Names -> [revision : 0 .. MaxRevision, stale : BOOLEAN]]
      /\ accounts'[name].revision \in 1 .. MaxRevision
  BY <1>1, GatewayAssumption DEF Refresh, Put, Typed
<1>3. req[r].key = [name |-> name, revision |-> req[r].key.revision]
  BY <1>1 DEF Keys
<1>4. req' = [req EXCEPT ![r].pc = "ensure", ![r].key = key]
  <2>1. req' = [req EXCEPT ![r] = [[req[r] EXCEPT !.pc = "ensure"]
                    EXCEPT !.key = [req[r].key EXCEPT !.revision = accounts'[name].revision]]]
    BY DEF Refresh
  <2>2. [req[r].key EXCEPT !.revision = accounts'[name].revision] = key
    BY <1>3
  <2> QED
    BY <2>1, <2>2
<1>5. key \in Keys /\ key \in Keys \cup {NoKey}
  BY <1>1, <1>2 DEF Keys
<1> HIDE DEF key
<1>6. req' \in [Requests -> RequestRecord]
  <2>1. req \in [Requests -> RequestRecord] /\ "ensure" \in States
    BY DEF Typed, States, Readying
  <2> QED
    BY <1>4, <1>5, <2>1 DEF RequestRecord
<1>7. \A q \in Requests : req'[q].pc \notin Outside =>
         /\ req'[q].key \in Keys
         /\ req'[q].session => req'[q].grant \in 1 .. grant'.id
  <2>1. req \in [Requests -> RequestRecord] /\ req[r].pc \notin Outside /\ UNCHANGED grant
    BY DEF Typed, Refresh, At, Outside
  <2>2. req'[r].key = key /\ req'[r].session = req[r].session /\ req'[r].grant = req[r].grant
    BY <1>4, <2>1 DEF RequestRecord
  <2>3. \A q \in Requests \ {r} : req'[q] = req[q]
    BY <1>4, <2>1
  <2> QED
    BY <1>5, <2>1, <2>2, <2>3 DEF Typed
<1> QED
  BY <1>1, <1>2, <1>6, <1>7 DEF Refresh, Calm, Typed, history

\* The steps that only move a request, release the lock or stop or start the
\* container.
LEMMA MoveTyped ==
    ASSUME Typed, NEW r \in Requests,
           \/ RefreshFails(r) \/ EnsureReady(r) \/ PortsReady(r)
           \/ ContainerFetch(r) \/ Answer(r)
    PROVE  Typed'
<1>1. PICK pc \in States : Goes(r, pc)
  BY DEF RefreshFails, EnsureReady, PortsReady, ContainerFetch, Answer, Leave,
         States, Outside, Readying, Launched
<1>2. req[r].pc \notin Outside
  BY DEF RefreshFails, EnsureReady, PortsReady, ContainerFetch, Answer, At, Outside
<1>3. lock' \in {lock, NoOne} /\ container' \in {container, Stopped}
  BY DEF RefreshFails, EnsureReady, PortsReady, ContainerFetch, Answer, Leave
<1>4. UNCHANGED <<killed, accounts, active, grant, begun, admin, faults>>
  BY DEF RefreshFails, EnsureReady, PortsReady, ContainerFetch, Answer, Calm, tables, history
<1>5. Stopped \in [running : BOOLEAN, key : Keys \cup {NoKey}]
  BY DEF Stopped
<1> QED
  BY <1>1, <1>2, <1>3, <1>4, <1>5, MovesTyped DEF Typed

LEMMA StepTyped == Typed /\ [Next]_gatewayvars => Typed'
<1> SUFFICES ASSUME Typed, [Next]_gatewayvars
             PROVE  Typed'
  OBVIOUS
<1>1. ASSUME NEW r \in Requests, NEW s \in BOOLEAN, Arrive(r, s)
      PROVE  Typed'
  <2>1. PICK pc \in {"queued", "ended"} :
          req' = [req EXCEPT ![r] = [[req[r] EXCEPT !.pc = pc] EXCEPT !.session = s]]
    <3>1. CASE killed
      BY <1>1, <3>1 DEF Arrive
    <3>2. CASE ~killed
      BY <1>1, <3>2 DEF Arrive
    <3> QED
      BY <3>1, <3>2
  <2>2. req \in [Requests -> RequestRecord] /\ pc \in States /\ pc \in Outside
    BY DEF Typed, States, Outside
  <2>3. req' \in [Requests -> RequestRecord] /\ req'[r].pc = pc
    BY <2>1, <2>2 DEF RequestRecord
  <2>4. \A q \in Requests \ {r} : req'[q] = req[q]
    BY <2>1, <2>2
  <2> QED
    BY <1>1, <2>2, <2>3, <2>4 DEF Arrive, Calm, Typed, tables, history
<1>2. ASSUME NEW r \in Requests, RequestStep(r)
      PROVE  Typed'
  <2>1. CASE Begin(r)
    BY <2>1, BeginTyped
  <2>2. CASE Refresh(r)
    BY <2>2, RefreshTyped
  <2>3. CASE RefreshFails(r) \/ EnsureReady(r) \/ PortsReady(r) \/ ContainerFetch(r) \/ Answer(r)
    BY <2>3, MoveTyped
  <2>4. CASE StartContainer(r)
    <3>1. /\ Goes(r, "ports") /\ "ports" \in States /\ req[r].pc \notin Outside
          /\ req[r].key \in Keys \cup {NoKey} /\ grant'.id = grant.id
      BY <2>4 DEF StartContainer, At, Outside, States, Readying, Typed, tables
    <3> QED
      BY <2>4, <3>1, MovesTyped DEF StartContainer, Calm, tables, history, Typed
  <2>5. CASE Verify(r)
    <3>1. PICK pc \in {"fetch", "ended"} : Goes(r, pc)
      BY <2>5 DEF Verify, Leave
    <3>2. pc \in States /\ req[r].pc \notin Outside
      BY <2>5 DEF Verify, At, Outside, States, Launched
    <3>3. begun' \in [1 .. MaxGrants -> Nat]
      BY <2>5, <3>2, GatewayAssumption DEF Verify, Typed
    <3>4. lock' \in {lock, NoOne} /\ UNCHANGED <<killed, accounts, active, grant, container, admin, faults>>
      BY <2>5 DEF Verify, Leave, Calm
    <3> QED
      BY <3>1, <3>2, <3>3, <3>4, MovesTyped DEF Typed
  <2> QED
    BY <1>2, <2>1, <2>2, <2>3, <2>4, <2>5 DEF RequestStep
<1>3. ASSUME NEW n \in Names, NEW activate \in BOOLEAN, PutProviderAccount(n, activate)
      PROVE  Typed'
  BY <1>3, GatewayAssumption DEF PutProviderAccount, Put, ThenRestart, history, Typed
<1>4. ASSUME NEW n \in Names,
             ActivateProviderAccount(n) \/ DeleteProviderAccount(n) \/ CredentialAges(n)
      PROVE  Typed'
  <2>1. accounts' \in [Names -> [revision : 0 .. MaxRevision, stale : BOOLEAN]]
    <3>1. accounts \in [Names -> [revision : 0 .. MaxRevision, stale : BOOLEAN]] /\ 0 \in 0 .. MaxRevision
      BY GatewayAssumption DEF Typed
    <3>2. CASE ActivateProviderAccount(n)
      BY <3>1, <3>2 DEF ActivateProviderAccount
    <3>3. CASE DeleteProviderAccount(n)
      BY <3>1, <3>3 DEF DeleteProviderAccount
    <3>4. CASE CredentialAges(n)
      BY <3>1, <3>4 DEF CredentialAges
    <3> QED
      BY <1>4, <3>2, <3>3, <3>4
  <2>2. active' \in Names \cup {NoName} /\ admin' \in {"idle", "restart"}
    BY <1>4 DEF ActivateProviderAccount, DeleteProviderAccount, CredentialAges, ThenRestart,
       Calm, Typed
  <2>3. UNCHANGED <<killed, grant, lock, req, container, begun, faults>>
    BY <1>4 DEF ActivateProviderAccount, DeleteProviderAccount, CredentialAges, ThenRestart,
       Calm, history
  <2> QED
    BY <2>1, <2>2, <2>3 DEF Typed
<1>5. CASE RemapAlias \/ RestartForConfiguration \/ SetKillSwitch \/ Stop
  <2>1. /\ killed' \in BOOLEAN /\ admin' \in {"idle", "restart"}
        /\ container' \in {container, Stopped}
    BY <1>5 DEF RemapAlias, RestartForConfiguration, SetKillSwitch, Stop, ThenRestart, Typed,
       tables
  <2>2. UNCHANGED <<accounts, active, grant, lock, req, begun>>
    BY <1>5 DEF RemapAlias, RestartForConfiguration, SetKillSwitch, Stop, ThenRestart, tables,
       history
  <2>3. faults' \in 0 .. MaxFaults
    BY <1>5, GatewayAssumption DEF RemapAlias, RestartForConfiguration, SetKillSwitch, Stop,
       Fault, ThenRestart, tables, Typed
  <2>4. Stopped \in [running : BOOLEAN, key : Keys \cup {NoKey}]
    BY DEF Stopped
  <2> QED
    BY <2>1, <2>2, <2>3, <2>4 DEF Typed
<1>6. CASE AuthorizeExecution \/ EndExecution
  <2>1. grant' \in [id : 0 .. MaxGrants, used : 0 .. Limit, over : BOOLEAN]
        /\ grant.id <= grant'.id /\ grant.id \in Nat /\ grant'.id \in Nat
    <3>1. /\ grant \in [id : 0 .. MaxGrants, used : 0 .. Limit, over : BOOLEAN]
          /\ 0 \in 0 .. Limit /\ MaxGrants \in Nat
      BY GatewayAssumption DEF Typed
    <3>2. CASE AuthorizeExecution
      BY <3>1, <3>2 DEF AuthorizeExecution
    <3>3. CASE EndExecution
      <4>1. grant' = [grant EXCEPT !.over = TRUE]
        BY <3>3 DEF EndExecution
      <4>2. grant'.id = grant.id /\ grant.id \in Nat
        BY <3>1, <4>1
      <4>3. grant' \in [id : 0 .. MaxGrants, used : 0 .. Limit, over : BOOLEAN]
        BY <3>1, <4>1
      <4> QED
        BY <4>2, <4>3
    <3> QED
      BY <1>6, <3>2, <3>3
  <2>2. UNCHANGED <<killed, accounts, active, lock, req, container, begun, admin, faults>>
    BY <1>6 DEF AuthorizeExecution, EndExecution, Calm
  <2>3. \A q \in Requests : req'[q].pc \notin Outside =>
           /\ req'[q].key \in Keys
           /\ req'[q].session => req'[q].grant \in 1 .. grant'.id
    BY <2>1, <2>2 DEF Typed
  <2> QED
    BY <2>1, <2>2, <2>3 DEF Typed
<1>7. ASSUME NEW r \in Requests, Abort(r)
      PROVE  Typed'
  <2>1. Goes(r, "ended") /\ "ended" \in States /\ "ended" \in Outside /\ grant'.id = grant.id
    BY <1>7 DEF Abort, States, Outside, tables
  <2> QED
    BY <1>7, <2>1, MovesTyped, GatewayAssumption DEF Abort, Fault, tables, history, Typed
<1>8. CASE Evict
  <2>1. \A r \in Requests : req'[r] = IF At(r, "new") THEN req[r] ELSE [req[r] EXCEPT !.pc = "ended"]
    BY <1>8 DEF Evict
  <2>2. req \in [Requests -> RequestRecord] /\ "ended" \in States
    BY DEF Typed, States, Outside
  <2>3. ASSUME NEW r \in Requests
        PROVE  req'[r] \in RequestRecord /\ req'[r].pc \in Outside
    BY <2>1, <2>2 DEF RequestRecord, Outside, At
  <2>4. req' \in [Requests -> RequestRecord]
    BY <1>8, <2>3 DEF Evict
  <2> QED
    BY <1>8, <2>3, <2>4, GatewayAssumption DEF Evict, Fault, tables, history, Typed
<1>9. CASE UNCHANGED gatewayvars
  BY <1>9 DEF gatewayvars, tables, history, Typed
<1> QED
  BY <1>1, <1>2, <1>3, <1>4, <1>5, <1>6, <1>7, <1>8, <1>9 DEF Next, Owner
-----------------------------------------------------------------------------
(* The lock.                                                               *)

LEMMA HolderStep ==
    ASSUME Typed, Typed', LockIsLeft, [Next]_gatewayvars
    PROVE  LockIsLeft'
<1> USE DEF LockIsLeft
<1>1. NoOne \notin Requests /\ req \in [Requests -> RequestRecord]
  BY GatewayAssumption DEF Typed
<1>2. ASSUME NEW r \in Requests, NEW s \in BOOLEAN, Arrive(r, s)
      PROVE  LockIsLeft'
  <2>1. At(r, "new") /\ req'[r].pc \in {"ended", "queued"} /\ lock' = lock
    BY <1>1, <1>2 DEF Arrive, RequestRecord
  <2>2. \A q \in Requests \ {r} : req'[q] = req[q]
    BY <1>1, <1>2 DEF Arrive
  <2> QED
    BY <2>1, <2>2 DEF At
<1>3. ASSUME NEW r \in Requests, RequestStep(r)
      PROVE  LockIsLeft'
  <2>1. lock = r \/ (At(r, "queued") /\ lock = NoOne)
    BY <1>3 DEF RequestStep, Begin, Refresh, RefreshFails, EnsureReady, StartContainer, PortsReady,
       Verify, ContainerFetch, Answer, At
  <2>2. \A q \in Requests \ {r} : req'[q] = req[q]
    BY <1>1, <1>3 DEF RequestStep, Begin, Refresh, RefreshFails, EnsureReady, StartContainer,
       PortsReady, Verify, ContainerFetch, Answer, Leave, Goes
  <2>3. \/ lock' = r /\ req'[r].pc \notin {"new", "queued", "ended"}
        \/ lock' = NoOne /\ req'[r].pc = "ended"
    <3>1. CASE Begin(r)
      <4>1. CASE Goes(r, "ended") /\ lock' = NoOne
        BY <1>1, <4>1 DEF Goes, RequestRecord
      <4>2. CASE ~(Goes(r, "ended") /\ lock' = NoOne)
        <5>1. PICK pc \in {"refresh", "ensure"} :
                 lock' = r /\ req' = [req EXCEPT ![r].grant = grant.id, ![r].key = ActiveKey, ![r].pc = pc]
          BY <3>1, <4>2 DEF Begin, Leave
        <5> QED
          BY <1>1, <5>1 DEF RequestRecord
      <4> QED
        BY <4>1, <4>2
    <3>2. CASE Refresh(r)
      <4>1. req'[r].pc = "ensure" /\ lock' = lock /\ lock = r
        BY <1>1, <2>1, <3>2 DEF Refresh, RequestRecord, At
      <4> QED
        BY <4>1
    <3>3. CASE ~Begin(r) /\ ~Refresh(r)
      <4>1. lock = r
        BY <1>3, <2>1, <3>3 DEF RequestStep, RefreshFails, EnsureReady, StartContainer, PortsReady,
           Verify, ContainerFetch, Answer, At
      <4>2. \/ lock' = lock /\ \E pc \in {"verify", "start", "ports", "fetch", "served"} : Goes(r, pc)
            \/ Leave(r)
        BY <1>3, <3>3 DEF RequestStep, RefreshFails, EnsureReady, StartContainer, PortsReady,
           Verify, ContainerFetch, Answer
      <4> QED
        BY <1>1, <4>1, <4>2 DEF Goes, Leave, RequestRecord
    <3> QED
      BY <3>1, <3>2, <3>3
  <2> QED
    BY <1>1, <2>1, <2>2, <2>3 DEF At
<1>4. ASSUME NEW r \in Requests, Abort(r)
      PROVE  LockIsLeft'
  <2>1. req'[r].pc = "ended" /\ \A q \in Requests \ {r} : req'[q] = req[q]
    BY <1>1, <1>4 DEF Abort, Goes, RequestRecord
  <2> QED
    BY <1>1, <1>4, <2>1 DEF Abort
<1>5. CASE Evict
  <2>1. \A r \in Requests : req'[r].pc \in {"new", "ended"}
    BY <1>1, <1>5 DEF Evict, At, RequestRecord
  <2> QED
    BY <1>1, <1>5, <2>1 DEF Evict
<1>6. CASE UNCHANGED <<req, lock>>
  BY <1>6
<1>7. CASE Owner \/ (\E n \in Names : CredentialAges(n)) \/ Stop \/ UNCHANGED gatewayvars
  <2>1. UNCHANGED <<req, lock>>
    BY <1>7 DEF Owner, PutProviderAccount, ActivateProviderAccount, DeleteProviderAccount, RemapAlias,
       RestartForConfiguration, SetKillSwitch, AuthorizeExecution, EndExecution, ThenRestart,
       CredentialAges, Stop, gatewayvars
  <2> QED
    BY <1>6, <2>1
<1> QED
  BY <1>2, <1>3, <1>4, <1>5, <1>7 DEF Next

\* So at most one request is past the queue.
LEMMA OneAtATime ==
    ASSUME LockIsLeft, NEW r \in Requests, NEW q \in Requests,
           req[r].pc \notin Outside, req[q].pc \notin Outside
    PROVE  r = q
BY DEF LockIsLeft, Outside
-----------------------------------------------------------------------------
(* What the recorded fingerprint vouches for.                              *)

\* A request from the start of its container on is with a container that was
\* given what it read; and when no start is under way, the fingerprint is of
\* what the running container was given.
Vouched ==
    /\ \A r \in Requests : req[r].pc \in {"ports", "verify", "fetch", "served"} /\ container.running
                            => container.key = req[r].key
    /\ container.running /\ (\A r \in Requests : ~At(r, "ports"))
         => fingerprint = Fingerprint(container.key)

LEMMA FingerprintTells ==
    ASSUME NEW k \in Keys \cup {NoKey}, NEW l \in Keys \cup {NoKey},
           Fingerprint(k) = Fingerprint(l)
    PROVE  k = l
<1>1. k.name = l.name /\ k.revision = l.revision
  BY DEF Fingerprint
<1>2. /\ k = [name |-> k.name, revision |-> k.revision]
      /\ l = [name |-> l.name, revision |-> l.revision]
  BY DEF Keys, NoKey
<1> QED
  BY <1>1, <1>2

LEMMA VouchedStep ==
    ASSUME "midstart" \notin Faults, Typed, Typed', LockIsLeft, LockIsLeft', Vouched,
           [Next]_gatewayvars
    PROVE  Vouched'
<1>1. NoOne \notin Requests /\ req \in [Requests -> RequestRecord]
  BY GatewayAssumption DEF Typed
<1>2. ASSUME NEW r \in Requests, NEW s \in BOOLEAN, Arrive(r, s)
      PROVE  Vouched'
  <2>1. req[r].pc = "new" /\ req'[r].pc \in {"ended", "queued"}
    BY <1>1, <1>2 DEF Arrive, RequestRecord, At
  <2>2. (\A q \in Requests \ {r} : req'[q] = req[q]) /\ UNCHANGED <<container, fingerprint>>
    BY <1>1, <1>2 DEF Arrive, tables
  <2> QED
    BY <2>1, <2>2 DEF Vouched, At
<1>3. ASSUME NEW r \in Requests, RequestStep(r)
      PROVE  Vouched'
  <2>1. \A q \in Requests \ {r} : req'[q].pc \in Outside
    <3>1. \A q \in Requests \ {r} : req'[q] = req[q]
      BY <1>1, <1>3 DEF RequestStep, Begin, Refresh, RefreshFails, EnsureReady, StartContainer,
         PortsReady, Verify, ContainerFetch, Answer, Leave, Goes
    <3>2. lock = r \/ lock = NoOne
      BY <1>3 DEF RequestStep, Begin, Refresh, RefreshFails, EnsureReady, StartContainer, PortsReady,
         Verify, ContainerFetch, Answer, At, LockIsLeft
    <3> QED
      BY <1>1, <3>1, <3>2 DEF LockIsLeft, Outside
  <2>2. \A q \in Requests \ {r} : req[q].pc \in Outside
    <3>1. lock = r \/ lock = NoOne
      BY <1>3 DEF RequestStep, Begin, Refresh, RefreshFails, EnsureReady, StartContainer, PortsReady,
         Verify, ContainerFetch, Answer, At, LockIsLeft
    <3> QED
      BY <1>1, <3>1 DEF LockIsLeft, Outside
  <2>3. CASE Begin(r) \/ Refresh(r) \/ RefreshFails(r)
    <3>1. req[r].pc \in {"queued", "refresh"} /\ UNCHANGED <<container, fingerprint>>
      BY <2>3 DEF Begin, Refresh, RefreshFails, At
    <3>2. req'[r].pc \in {"ended", "refresh", "ensure"}
      <4>1. CASE Begin(r)
        BY <1>1, <4>1 DEF Begin, Leave, Goes, RequestRecord
      <4>2. CASE Refresh(r) \/ RefreshFails(r)
        BY <1>1, <4>2 DEF Refresh, RefreshFails, Leave, Goes, RequestRecord
      <4> QED
        BY <2>3, <4>1, <4>2
    <3> QED
      BY <2>1, <2>2, <3>1, <3>2 DEF Vouched, At, Outside
  <2>4. CASE EnsureReady(r)
    <3>1. \A q \in Requests : ~At(q, "ports")
      BY <2>2, <2>4 DEF EnsureReady, At, Outside
    <3>2. CASE container.running /\ fingerprint = Fingerprint(req[r].key)
      <4>1. container.key = req[r].key
        BY <1>1, <3>1, <3>2, FingerprintTells DEF Vouched, Typed, RequestRecord
      <4>2. UNCHANGED <<container, fingerprint>> /\ req'[r].key = req[r].key
        BY <1>1, <2>4, <3>2 DEF EnsureReady, Goes, tables, RequestRecord
      <4> QED
        BY <2>1, <3>1, <4>1, <4>2 DEF Vouched, Outside
    <3>3. CASE ~(container.running /\ fingerprint = Fingerprint(req[r].key))
      BY <2>4, <3>3 DEF EnsureReady, Stopped, Vouched
    <3> QED
      BY <3>2, <3>3
  <2>5. CASE StartContainer(r)
    <3>1. req'[r].pc = "ports" /\ req'[r].key = req[r].key /\ container'.key = req[r].key
      BY <1>1, <2>5 DEF StartContainer, Goes, RequestRecord
    <3> QED
      BY <2>1, <3>1 DEF Vouched, At, Outside
  <2>6. CASE PortsReady(r)
    <3>1. CASE container.running
      <4>1. container.key = req[r].key
        BY <2>6, <3>1 DEF PortsReady, Vouched, At
      <4>2. fingerprint' = Fingerprint(req[r].key) /\ req'[r].key = req[r].key /\ UNCHANGED container
        BY <1>1, <2>6, <3>1 DEF PortsReady, Goes, RequestRecord
      <4> QED
        BY <2>1, <4>1, <4>2 DEF Vouched, Outside
    <3>2. CASE ~container.running
      BY <2>6, <3>2 DEF PortsReady, Vouched
    <3> QED
      BY <3>1, <3>2
  <2>7. CASE Verify(r) \/ ContainerFetch(r) \/ Answer(r)
    <3>1. req[r].pc \in {"verify", "fetch", "served"} /\ UNCHANGED <<container, fingerprint>>
      BY <2>7 DEF Verify, ContainerFetch, Answer, At
    <3>2. req'[r].key = req[r].key
      BY <1>1, <2>7 DEF Verify, ContainerFetch, Answer, Leave, Goes, RequestRecord
    <3> QED
      BY <2>1, <2>2, <3>1, <3>2 DEF Vouched, At, Outside
  <2> QED
    BY <1>3, <2>3, <2>4, <2>5, <2>6, <2>7 DEF RequestStep
<1>4. ASSUME NEW r \in Requests, Abort(r)
      PROVE  Vouched'
  <2>1. req[r].pc # "ports" /\ UNCHANGED <<container, fingerprint>>
    BY <1>4 DEF Abort, Interruptible, Starting, At, tables
  <2>2. req'[r].pc = "ended" /\ \A q \in Requests \ {r} : req'[q] = req[q]
    BY <1>1, <1>4 DEF Abort, Goes, RequestRecord
  <2> QED
    BY <2>1, <2>2 DEF Vouched, At
<1>5. CASE Evict
  <2>1. \A r \in Requests : ~At(r, "ports")
    BY <1>5 DEF Evict, Interruptible, Starting
  <2>2. \A r \in Requests : req'[r].pc \in {"new", "ended"}
    BY <1>1, <1>5 DEF Evict, At, RequestRecord
  <2> QED
    BY <1>5, <2>1, <2>2 DEF Evict, Vouched, tables
<1>6. CASE Owner \/ (\E n \in Names : CredentialAges(n)) \/ Stop \/ UNCHANGED gatewayvars
  <2>1. UNCHANGED <<req, fingerprint>> /\ (UNCHANGED container \/ container' = Stopped)
    BY <1>6 DEF Owner, PutProviderAccount, ActivateProviderAccount, DeleteProviderAccount, RemapAlias,
       RestartForConfiguration, SetKillSwitch, AuthorizeExecution, EndExecution, ThenRestart,
       CredentialAges, Stop, gatewayvars, tables
  <2> QED
    BY <2>1 DEF Vouched, At, Stopped
<1> QED
  BY <1>2, <1>3, <1>4, <1>5, <1>6 DEF Next
-----------------------------------------------------------------------------
(* The grants.                                                             *)

\* Of the requests a grant counts as used, one that is not out yet has still to
\* begin; a grant to come has none, and the one that ended keeps its count.
Books ==
    /\ \A g \in 1 .. MaxGrants : begun[g] <= Limit /\ (grant.id < g => begun[g] = 0)
    /\ grant.id # 0 => begun[grant.id] <= grant.used
    /\ \A r \in Requests :
         req[r].session /\ req[r].pc \in Readying /\ req[r].grant = grant.id
           => begun[grant.id] < grant.used

\* The grants that ended are the ones before the session's, and that one only
\* when it is over.
Endings == \A e \in ended : e \in 0 .. grant.id /\ (e = grant.id => grant.over)

\* Requests that went out under a grant.
Launches(g) == {r \in Requests : /\ req[r].session /\ req[r].grant = g
                                 /\ req[r].pc \in Launched \cup {"ended"}}
Counted == \A g \in 1 .. MaxGrants : begun[g] <= Cardinality(Launches(g))

LEMMA BooksStep ==
    ASSUME Typed, Typed', LockIsLeft, LockIsLeft', Books, [Next]_gatewayvars
    PROVE  Books'
<1>1. /\ NoOne \notin Requests /\ req \in [Requests -> RequestRecord]
      /\ begun \in [1 .. MaxGrants -> Nat] /\ {Limit, MaxGrants} \subseteq Nat
      /\ grant \in [id : 0 .. MaxGrants, used : 0 .. Limit, over : BOOLEAN]
  BY GatewayAssumption DEF Typed
<1>2. ASSUME UNCHANGED <<begun, grant>>,
             \A q \in Requests : req'[q].pc \in Readying =>
                 /\ req[q].pc \in Readying
                 /\ req'[q].session = req[q].session /\ req'[q].grant = req[q].grant
      PROVE  Books'
  BY <1>2 DEF Books
<1>3. ASSUME NEW r \in Requests, NEW s \in BOOLEAN, Arrive(r, s)
      PROVE  Books'
  <2>1. req'[r].pc \in {"ended", "queued"} /\ UNCHANGED <<begun, grant>>
    BY <1>1, <1>3 DEF Arrive, RequestRecord, tables, history
  <2>2. \A q \in Requests \ {r} : req'[q] = req[q]
    BY <1>1, <1>3 DEF Arrive
  <2> QED
    BY <1>2, <2>1, <2>2 DEF Readying
<1>4. ASSUME NEW r \in Requests, Begin(r)
      PROVE  Books'
  <2>1. \A q \in Requests \ {r} : req'[q] = req[q] /\ req[q].pc \in Outside
    <3>1. \A q \in Requests \ {r} : req'[q] = req[q]
      BY <1>1, <1>4 DEF Begin, Leave, Goes
    <3> QED
      BY <1>1, <1>4, <3>1 DEF Begin, LockIsLeft, Outside
  <2>2. UNCHANGED begun
    BY <1>4 DEF Begin, history
  <2>3. CASE UNCHANGED grant /\ (req'[r].pc = "ended" \/ ~req'[r].session)
    <3>1. \A q \in Requests : ~(req'[q].session /\ req'[q].pc \in Readying)
      BY <2>1, <2>3 DEF Outside, Readying
    <3> QED
      BY <2>2, <2>3, <3>1 DEF Books
  <2>4. CASE req[r].session /\ Standing /\ grant' = [grant EXCEPT !.used = @ + 1]
    <3>1. /\ grant'.id = grant.id /\ grant'.used = grant.used + 1
          /\ grant.id \in 1 .. MaxGrants /\ grant.used \in Nat
      BY <1>1, <2>4 DEF Standing
    <3>2. begun[grant.id] <= grant.used /\ begun[grant.id] \in Nat
      BY <1>1, <3>1 DEF Books
    <3> QED
      BY <2>2, <3>1, <3>2 DEF Books
  <2>5. CASE req[r].session /\ ~Standing
    <3>1. Goes(r, "ended") /\ UNCHANGED grant
      BY <1>4, <2>5 DEF Begin, Leave
    <3> QED
      BY <1>1, <2>3, <3>1 DEF Goes, RequestRecord
  <2>6. CASE ~req[r].session
    <3>1. ~req'[r].session
      <4>1. CASE ActiveKey = NoKey
        BY <1>1, <1>4, <2>6, <4>1 DEF Begin, Leave, Goes, RequestRecord
      <4>2. CASE ActiveKey # NoKey
        <5>1. PICK pc \in {"refresh", "ensure"} :
                 req' = [req EXCEPT ![r].grant = grant.id, ![r].key = ActiveKey, ![r].pc = pc]
          BY <1>4, <2>6, <4>2 DEF Begin
        <5> QED
          BY <1>1, <2>6, <5>1 DEF RequestRecord
      <4> QED
        BY <4>1, <4>2
    <3>2. UNCHANGED grant
      BY <1>4, <2>6 DEF Begin
    <3> QED
      BY <2>3, <3>1, <3>2
  <2> QED
    BY <1>4, <2>4, <2>5, <2>6 DEF Begin
<1>5. ASSUME NEW r \in Requests, Verify(r)
      PROVE  Books'
  <2>1. req[r].pc = "verify" /\ lock = r /\ UNCHANGED grant
    BY <1>5 DEF Verify, At, LockIsLeft
  <2>2. \A q \in Requests \ {r} : req'[q] = req[q] /\ req[q].pc \in Outside
    BY <1>1, <1>5, <2>1 DEF Verify, Leave, Goes, LockIsLeft, Outside
  <2>3. req'[r].pc \in {"fetch", "ended"}
    BY <1>1, <1>5 DEF Verify, Leave, Goes, RequestRecord
  <2>4. \A q \in Requests : req'[q].pc \notin Readying
    BY <2>2, <2>3 DEF Outside, Readying
  <2>5. CASE UNCHANGED begun
    BY <2>1, <2>4, <2>5 DEF Books
  <2>6. CASE req[r].session /\ Verified(r) /\ begun' = [begun EXCEPT ![req[r].grant] = @ + 1]
    <3>1. req[r].grant = grant.id /\ grant.id \in 1 .. MaxGrants
      BY <1>1, <2>1, <2>6 DEF Verified, Typed, Outside
    <3>2. begun[grant.id] < grant.used /\ grant.used <= Limit /\ grant.used \in Nat
      BY <1>1, <2>1, <2>6, <3>1 DEF Books, Readying
    <3>3. begun'[grant.id] = begun[grant.id] + 1 /\ begun[grant.id] \in Nat
      BY <1>1, <2>6, <3>1
    <3>4. \A g \in (1 .. MaxGrants) \ {grant.id} : begun'[g] = begun[g]
      BY <1>1, <2>6, <3>1
    <3> QED
      BY <1>1, <2>1, <2>4, <3>1, <3>2, <3>3, <3>4 DEF Books
  <2> QED
    BY <1>5, <2>5, <2>6 DEF Verify
<1>6. ASSUME NEW r \in Requests, RequestStep(r), ~Begin(r), ~Verify(r)
      PROVE  Books'
  <2>1. \A q \in Requests \ {r} : req'[q] = req[q]
    BY <1>1, <1>6 DEF RequestStep, Refresh, RefreshFails, EnsureReady, StartContainer, PortsReady,
       ContainerFetch, Answer, Leave, Goes
  <2>2. UNCHANGED <<begun, grant>>
    BY <1>6 DEF RequestStep, Refresh, RefreshFails, EnsureReady, StartContainer, PortsReady,
       ContainerFetch, Answer, tables, history
  <2>3. req'[r].session = req[r].session /\ req'[r].grant = req[r].grant
    <3>1. CASE Refresh(r)
      BY <1>1, <3>1 DEF Refresh, RequestRecord
    <3>2. CASE ~Refresh(r)
      BY <1>1, <1>6, <3>2 DEF RequestStep, RefreshFails, EnsureReady, StartContainer, PortsReady,
         ContainerFetch, Answer, Leave, Goes, RequestRecord
    <3> QED
      BY <3>1, <3>2
  <2>4. req[r].pc \in Readying \/ req'[r].pc \notin Readying
    <3>1. CASE ContainerFetch(r) \/ Answer(r)
      BY <1>1, <3>1 DEF ContainerFetch, Answer, Leave, Goes, RequestRecord, Readying
    <3>2. CASE ~(ContainerFetch(r) \/ Answer(r))
      BY <1>6, <3>2 DEF RequestStep, Refresh, RefreshFails, EnsureReady, StartContainer, PortsReady,
         At, Readying
    <3> QED
      BY <3>1, <3>2
  <2> QED
    BY <1>2, <2>1, <2>2, <2>3, <2>4
<1>7. ASSUME NEW r \in Requests, Abort(r)
      PROVE  Books'
  <2>1. req'[r].pc = "ended" /\ \A q \in Requests \ {r} : req'[q] = req[q]
    BY <1>1, <1>7 DEF Abort, Goes, RequestRecord
  <2> QED
    BY <1>2, <1>7, <2>1 DEF Abort, tables, history, Readying
<1>8. CASE Evict
  <2>1. \A r \in Requests : req'[r].pc \in {"new", "ended"}
    BY <1>1, <1>8 DEF Evict, At, RequestRecord
  <2> QED
    BY <1>2, <1>8, <2>1 DEF Evict, tables, history, Readying
<1>9. CASE AuthorizeExecution
  <2>1. /\ grant'.id = grant.id + 1 /\ grant'.id \in 1 .. MaxGrants /\ grant'.used = 0
        /\ grant.id \in Nat /\ UNCHANGED <<begun, req>>
    BY <1>1, <1>9 DEF AuthorizeExecution
  <2>2. \A r \in Requests : ~(req[r].session /\ req[r].pc \in Readying /\ req[r].grant = grant'.id)
    <3>1. \A r \in Requests : req[r].session /\ req[r].pc \in Readying
                               => req[r].grant \in 1 .. grant.id
      BY DEF Typed, Outside, Readying
    <3> QED
      BY <2>1, <3>1
  <2>3. \A g \in 1 .. MaxGrants : grant'.id <= g => grant.id < g
    BY <2>1
  <2> QED
    BY <1>1, <2>1, <2>2, <2>3 DEF Books
<1>10. CASE EndExecution
  <2>1. grant'.id = grant.id /\ grant'.used = grant.used /\ UNCHANGED <<begun, req>>
    BY <1>1, <1>10 DEF EndExecution
  <2> QED
    BY <2>1 DEF Books
<1>11. CASE \/ Owner /\ ~AuthorizeExecution /\ ~EndExecution
            \/ (\E n \in Names : CredentialAges(n)) \/ Stop \/ UNCHANGED gatewayvars
  <2>1. UNCHANGED <<req, begun, grant>>
    BY <1>11 DEF Owner, PutProviderAccount, ActivateProviderAccount, DeleteProviderAccount,
       RemapAlias, RestartForConfiguration, SetKillSwitch, ThenRestart, CredentialAges, Stop,
       gatewayvars, tables, history
  <2> QED
    BY <1>2, <2>1
<1> QED
  BY <1>3, <1>4, <1>5, <1>6, <1>7, <1>8, <1>9, <1>10, <1>11 DEF Next, Owner, RequestStep

LEMMA EndingsStep ==
    ASSUME Typed, Endings, [Next]_gatewayvars
    PROVE  Endings'
<1>1. grant \in [id : 0 .. MaxGrants, used : 0 .. Limit, over : BOOLEAN] /\ MaxGrants \in Nat
  BY GatewayAssumption DEF Typed
<1>2. ASSUME UNCHANGED ended, grant'.id = grant.id, grant'.over = grant.over
      PROVE  Endings'
  BY <1>2 DEF Endings
<1>3. CASE AuthorizeExecution
  <2>1. grant'.id = grant.id + 1 /\ ended' = ended \cup {grant.id} /\ grant.id \in Nat
    BY <1>1, <1>3 DEF AuthorizeExecution
  <2> QED
    BY <2>1 DEF Endings
<1>4. CASE EndExecution
  <2>1. grant'.id = grant.id /\ grant'.over /\ ended' = ended \cup {grant.id} /\ grant.id \in Nat
    BY <1>1, <1>4 DEF EndExecution
  <2> QED
    BY <2>1 DEF Endings
<1>5. ASSUME NEW r \in Requests, Begin(r)
      PROVE  Endings'
  <2>1. grant' \in {grant, [grant EXCEPT !.used = @ + 1]} /\ UNCHANGED ended
    BY <1>5 DEF Begin, history
  <2> QED
    BY <1>1, <1>2, <2>1
<1>6. ASSUME NEW r \in Requests,
             Abort(r) \/ (RequestStep(r) /\ ~Begin(r)) \/ \E s \in BOOLEAN : Arrive(r, s)
      PROVE  Endings'
  BY <1>2, <1>6 DEF Arrive, RequestStep, Refresh, RefreshFails, EnsureReady, StartContainer,
     PortsReady, Verify, ContainerFetch, Answer, Abort, tables, history
<1>7. CASE \/ Owner /\ ~AuthorizeExecution /\ ~EndExecution
           \/ (\E n \in Names : CredentialAges(n)) \/ Stop \/ Evict \/ UNCHANGED gatewayvars
  BY <1>2, <1>7 DEF Owner, PutProviderAccount, ActivateProviderAccount, DeleteProviderAccount,
     RemapAlias, RestartForConfiguration, SetKillSwitch, ThenRestart, CredentialAges, Stop, Evict,
     gatewayvars, tables, history
<1> QED
  BY <1>3, <1>4, <1>5, <1>6, <1>7 DEF Next

\* A request that went out, or ended, keeps its grant and does neither again.
LEMMA LaunchesStay ==
    ASSUME Typed, [Next]_gatewayvars, NEW r \in Requests, req[r].pc \in Launched \cup {"ended"}
    PROVE  /\ req'[r].session = req[r].session /\ req'[r].grant = req[r].grant
           /\ req'[r].pc \in Launched \cup {"ended"}
<1> DEFINE Stays == /\ req'[r].session = req[r].session /\ req'[r].grant = req[r].grant
                    /\ req'[r].pc \in Launched \cup {"ended"}
<1> SUFFICES Stays
  OBVIOUS
<1>1. req \in [Requests -> RequestRecord] /\ req[r].pc \notin {"new", "queued"} \cup Readying
  BY DEF Typed, Readying, Launched
<1>2. CASE req' = req
  BY <1>2
<1>3. ASSUME NEW q \in Requests, RequestStep(q) \/ Abort(q) \/ (\E s \in BOOLEAN : Arrive(q, s))
      PROVE  Stays
  <2>1. CASE q # r
    <3>1. req'[r] = req[r]
      BY <1>1, <1>3, <2>1 DEF Arrive, RequestStep, Begin, Refresh, RefreshFails, EnsureReady,
         StartContainer, PortsReady, Verify, ContainerFetch, Answer, Leave, Goes, Abort
    <3> QED
      BY <3>1
  <2>2. CASE q = r
    <3>1. Goes(r, "ended") \/ Goes(r, "served")
      BY <1>1, <1>3, <2>2 DEF Arrive, RequestStep, Begin, Refresh, RefreshFails, EnsureReady,
         StartContainer, PortsReady, Verify, ContainerFetch, Answer, Leave, Abort, At, Readying
    <3> QED
      BY <1>1, <3>1 DEF Goes, RequestRecord, Launched
  <2> QED
    BY <2>1, <2>2
<1>4. CASE Evict
  <2>1. req'[r] = [req[r] EXCEPT !.pc = "ended"]
    BY <1>1, <1>4 DEF Evict, At
  <2> QED
    BY <1>1, <2>1 DEF RequestRecord
<1>5. CASE Owner \/ (\E n \in Names : CredentialAges(n)) \/ Stop \/ UNCHANGED gatewayvars
  <2>1. req' = req
    BY <1>5 DEF Owner, PutProviderAccount, ActivateProviderAccount, DeleteProviderAccount, RemapAlias,
       RestartForConfiguration, SetKillSwitch, AuthorizeExecution, EndExecution, ThenRestart,
       CredentialAges, Stop, gatewayvars
  <2> QED
    BY <1>2, <2>1
<1> QED
  BY <1>3, <1>4, <1>5 DEF Next

LEMMA LaunchesFinite ==
    ASSUME NEW g
    PROVE  /\ IsFiniteSet(Launches(g)) /\ Cardinality(Launches(g)) \in Nat
           /\ Cardinality(Launches(g)) <= Cardinality(Requests) /\ Cardinality(Requests) \in Nat
<1>1. Launches(g) \in SUBSET Requests /\ IsFiniteSet(Requests)
  BY GatewayAssumption DEF Launches
<1> QED
  BY <1>1, FS_Subset, FS_CardinalityType

LEMMA CountedStep ==
    ASSUME Typed, Counted, [Next]_gatewayvars
    PROVE  Counted'
<1> SUFFICES ASSUME NEW g \in 1 .. MaxGrants
             PROVE  begun'[g] <= Cardinality(Launches(g)')
  BY DEF Counted
<1>1. begun \in [1 .. MaxGrants -> Nat] /\ begun[g] <= Cardinality(Launches(g))
  BY DEF Typed, Counted
<1>2. Launches(g) \subseteq Launches(g)'
  BY LaunchesStay DEF Launches
<1>3. /\ IsFiniteSet(Launches(g)') /\ Cardinality(Launches(g)') \in Nat
      /\ IsFiniteSet(Launches(g)) /\ Cardinality(Launches(g)) \in Nat
  <2>1. Launches(g)' \in SUBSET Requests /\ IsFiniteSet(Requests)
    BY GatewayAssumption DEF Launches
  <2> QED
    BY <2>1, FS_Subset, FS_CardinalityType, LaunchesFinite
<1>4. CASE begun'[g] = begun[g]
  BY <1>1, <1>2, <1>3, <1>4, FS_Subset
<1>5. ASSUME NEW r \in Requests, Verify(r), req[r].session, g = req[r].grant,
             begun' = [begun EXCEPT ![req[r].grant] = @ + 1]
      PROVE  begun'[g] <= Cardinality(Launches(g)')
  <2>1. req[r].pc = "verify" /\ req'[r] = [req[r] EXCEPT !.pc = "fetch"] /\ req[r] \in RequestRecord
    <3>1. req \in [Requests -> RequestRecord]
      BY DEF Typed
    <3>2. Goes(r, "fetch")
      <4>1. begun' # begun
        BY <1>1, <1>5
      <4> QED
        BY <1>5, <4>1 DEF Verify
    <3> QED
      BY <1>5, <3>1, <3>2 DEF Verify, Goes, At
  <2>2. r \notin Launches(g) /\ r \in Launches(g)'
    BY <1>5, <2>1 DEF Launches, Launched, RequestRecord
  <2>3. Cardinality(Launches(g) \cup {r}) = Cardinality(Launches(g)) + 1
    BY <1>3, <2>2, FS_AddElement
  <2>4. Cardinality(Launches(g) \cup {r}) <= Cardinality(Launches(g)')
    BY <1>2, <1>3, <2>2, FS_Subset
  <2>5. begun'[g] = begun[g] + 1 /\ begun[g] \in Nat
    BY <1>1, <1>5
  <2> QED
    BY <1>1, <1>3, <2>3, <2>4, <2>5
<1>6. ASSUME begun'[g] # begun[g]
      PROVE  \E r \in Requests : /\ Verify(r) /\ req[r].session /\ g = req[r].grant
                                  /\ begun' = [begun EXCEPT ![req[r].grant] = @ + 1]
  <2>1. begun' # begun
    BY <1>6
  <2>2. PICK r \in Requests : Verify(r)
    BY <2>1 DEF Next, Arrive, RequestStep, Begin, Refresh, RefreshFails, EnsureReady, StartContainer,
       PortsReady, ContainerFetch, Answer, Abort, Owner, PutProviderAccount,
       ActivateProviderAccount, DeleteProviderAccount, RemapAlias, RestartForConfiguration,
       SetKillSwitch, AuthorizeExecution, EndExecution, ThenRestart, CredentialAges, Stop, Evict,
       gatewayvars, tables, history
  <2>3. req[r].session /\ begun' = [begun EXCEPT ![req[r].grant] = @ + 1]
    BY <2>1, <2>2 DEF Verify
  <2>4. g = req[r].grant
    BY <1>1, <1>6, <2>3
  <2> QED
    BY <2>2, <2>3, <2>4
<1> QED
  BY <1>4, <1>5, <1>6
-----------------------------------------------------------------------------
(* The theorems.                                                           *)

IInv == Typed /\ LockIsLeft /\ Books /\ Endings /\ Counted

LEMMA InitInv == Init => IInv
<1> SUFFICES ASSUME Init
             PROVE  IInv
  OBVIOUS
<1>1. Typed
  BY TypedInit
<1>2. \A r \in Requests : req[r].pc = "new" /\ ~req[r].session
  BY DEF Init, Fresh
<1>3. NoOne \notin Requests /\ Limit \in Nat
  BY GatewayAssumption
<1>4. LockIsLeft
  BY <1>2, <1>3 DEF Init, LockIsLeft
<1>5. \A g \in 1 .. MaxGrants : begun[g] = 0
  BY DEF Init
<1>6. Books
  BY <1>2, <1>3, <1>5 DEF Init, Books
<1>7. Endings
  BY DEF Init, Endings
<1>8. Counted
  BY <1>5, LaunchesFinite DEF Counted
<1> QED
  BY <1>1, <1>4, <1>6, <1>7, <1>8 DEF IInv

LEMMA StepInv == IInv /\ [Next]_gatewayvars => IInv'
BY StepTyped, HolderStep, BooksStep, EndingsStep, CountedStep DEF IInv

LEMMA InvType == IInv => GatewayTypeOK
<1> SUFFICES ASSUME IInv
             PROVE  GatewayTypeOK
  OBVIOUS
<1>1. Typed /\ Counted /\ Endings
  BY DEF IInv
<1>2. \A r \in Requests : req[r].grant \in 0 .. MaxGrants /\ req[r].key \in Keys \cup {NoKey}
  BY <1>1 DEF Typed, RequestRecord
<1>3. begun \in [1 .. MaxGrants -> 0 .. Cardinality(Requests)]
  <2>1. begun \in [1 .. MaxGrants -> Nat]
    BY <1>1 DEF Typed
  <2>2. ASSUME NEW g \in 1 .. MaxGrants
        PROVE  begun[g] \in 0 .. Cardinality(Requests)
    BY <1>1, <2>1, LaunchesFinite DEF Counted
  <2> QED
    BY <2>1, <2>2
<1>4. ended \subseteq 0 .. MaxGrants
  <2>1. grant.id \in 0 .. MaxGrants /\ MaxGrants \in Nat
    BY <1>1, GatewayAssumption DEF Typed
  <2> QED
    BY <1>1, <2>1 DEF Endings
<1> QED
  BY <1>1, <1>2, <1>3, <1>4 DEF Typed, GatewayTypeOK

\* The service keeps its books under every interleaving of requests, operator's
\* calls, interruptions and restarts: types; no more requests begin under a
\* grant than its limit (consume and verifyReserved); and the start lock
\* belongs to the one request that is past the queue, and is left by whatever
\* ends it (forwardEffect).
THEOREM GatewaySound == Spec => []GatewayInv
<1>1. IInv => GatewayInv
  <2>1. IInv => WithinLimit
    BY DEF IInv, Books, WithinLimit
  <2> QED
    BY <2>1, InvType DEF IInv, GatewayInv
<1> QED
  BY <1>1, InitInv, StepInv, PTL DEF Spec

\* Unless a request or the object is interrupted while a container starts, a
\* request is served by a container that was given what the request read,
\* name and revision: ensureContainerReady never takes a container for
\* another's because the recorded fingerprint is stale.
THEOREM OwnAccountRuns ==
    ASSUME "midstart" \notin Faults
    PROVE  Spec => []RunsOwnAccount
<1>1. Init => Vouched
  BY DEF Init, Stopped, Vouched
<1>2. IInv /\ Vouched /\ [Next]_gatewayvars => Vouched'
  BY StepInv, VouchedStep DEF IInv
<1>3. Vouched => RunsOwnAccount
  BY DEF Vouched, RunsOwnAccount, At
<1> QED
  BY <1>1, <1>2, <1>3, InitInv, StepInv, PTL DEF Spec

\* A request that waited under a grant goes out only while that grant stands:
\* verifyReserved refuses it once the grant was revoked, expired or renewed.
LEMMA LaunchIsVerified ==
    ASSUME IInv, [Next]_gatewayvars, NEW r \in Requests,
           req[r].session, At(r, "verify"), At(r, "fetch")'
    PROVE  req[r].grant \notin ended
<1>1. req \in [Requests -> RequestRecord]
  BY DEF IInv, Typed
<1>2. req'[r] # req[r] /\ req'[r].pc = "fetch" /\ req[r].pc = "verify"
  BY DEF At
<1>3. CASE Verify(r)
  <2>1. Verified(r)
    BY <1>1, <1>2, <1>3 DEF Verify, Leave, Goes, RequestRecord
  <2> QED
    BY <2>1 DEF IInv, Endings, Verified
<1>4. ASSUME NEW q \in Requests, q # r,
             RequestStep(q) \/ Abort(q) \/ (\E s \in BOOLEAN : Arrive(q, s))
      PROVE  FALSE
  BY <1>1, <1>2, <1>4 DEF Arrive, RequestStep, Begin, Refresh, RefreshFails, EnsureReady,
     StartContainer, PortsReady, Verify, ContainerFetch, Answer, Leave, Goes, Abort
<1>5. CASE RequestStep(r) /\ ~Verify(r)
  BY <1>2, <1>5 DEF RequestStep, Begin, Refresh, RefreshFails, EnsureReady, StartContainer,
     PortsReady, ContainerFetch, Answer, At
<1>6. CASE Abort(r) \/ (\E s \in BOOLEAN : Arrive(r, s))
  BY <1>1, <1>2, <1>6 DEF Arrive, Abort, Goes, At, RequestRecord
<1>7. CASE Evict
  BY <1>1, <1>2, <1>7 DEF Evict, At, RequestRecord
<1>8. CASE Owner \/ (\E n \in Names : CredentialAges(n)) \/ Stop \/ UNCHANGED gatewayvars
  BY <1>2, <1>8 DEF Owner, PutProviderAccount, ActivateProviderAccount, DeleteProviderAccount,
     RemapAlias, RestartForConfiguration, SetKillSwitch, AuthorizeExecution, EndExecution,
     ThenRestart, CredentialAges, Stop, gatewayvars
<1> QED
  BY <1>3, <1>4, <1>5, <1>6, <1>7, <1>8 DEF Next

\* A session's request that queued, refreshed a credential or waited for the
\* container under a grant does not begin once that grant is revoked, expired
\* or renewed: verifyReserved looks at the grant it consumed.
THEOREM RevokedGrantsStayUnused == Spec => RevokedNeverBegins
<1>1. IInv /\ [Next]_gatewayvars =>
        [\A r \in Requests :
            req[r].session /\ At(r, "verify") /\ At(r, "fetch")' => req[r].grant \notin ended]_gatewayvars
  BY LaunchIsVerified
<1> QED
  BY <1>1, InitInv, StepInv, PTL DEF Spec, RevokedNeverBegins
=============================================================================
