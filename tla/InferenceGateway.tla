-------------------------- MODULE InferenceGateway --------------------------
(***************************************************************************)
(* The inference service (services/inference): the durable object that     *)
(* forwards model requests of the signed-in owner, and of Commander's      *)
(* sessions under a grant of the owner, to one container.  The container   *)
(* is started with the owner's active provider account and is told apart   *)
(* by a fingerprint of it.                                                 *)
(*                                                                         *)
(* One organisation with one user can sign up, and one provider is         *)
(* modelled, with several named accounts.  There is one session.  Steps    *)
(* are the code between two awaits: a start lock lets one request at a     *)
(* time through them, the operator's calls are not under it.               *)
(***************************************************************************)
EXTENDS Integers, FiniteSets

CONSTANTS
    Requests,       \* requests, each sent once
    Names,          \* names of provider accounts
    Limit,          \* request_limit of a grant
    MaxGrants,      \* bound: authorizations
    MaxRevision,    \* bound: revisions of an account
    Faults,         \* the faults considered, of FaultKinds
    MaxFaults,      \* bound on their number
    NoName, NoOne

\* abort: a client gives up.  stop: the container stops by itself.  evict:
\* the object restarts.  midstart: either of the first and the last while
\* a container starts.
FaultKinds == {"abort", "stop", "evict", "midstart"}

ASSUME GatewayAssumption ==
    /\ {Limit, MaxGrants, MaxRevision, MaxFaults} \subseteq Nat
    /\ Faults \subseteq FaultKinds
    /\ NoName \notin Names /\ NoOne \notin Requests
    /\ IsFiniteSet(Requests)

VARIABLES
    killed,         \* gateway_config: the kill switch
    accounts,       \* organization_provider_accounts: of each name its
                    \* revision, 0 for none, and whether it is about to expire
    active,         \* organization_active_provider_accounts
    grant,          \* the session's row of commander_execution_grants: the
                    \* grant, its requests used, and whether it was revoked
                    \* or has expired
    fingerprint,    \* gateway_container_runtime: of the account injected
    lock,           \* startLock: the request that holds it
    req,            \* the requests
    admin,          \* the operator's call
    container,      \* the container and the account it was given
    begun,          \* history: requests begun under each grant
    ended,          \* history: grants revoked, expired or renewed
    faults          \* faults so far

tables == <<killed, accounts, active, grant, fingerprint>>
history == <<begun, ended>>
gatewayvars == <<tables, lock, req, admin, container, history, faults>>

Keys == [name : Names, revision : 1 .. MaxRevision]
NoKey == [name |-> NoName, revision |-> 0]
Stopped == [running |-> FALSE, key |-> NoKey]
Fresh == [pc |-> "new", session |-> FALSE, grant |-> 0, key |-> NoKey]

At(r, pc) == req[r].pc = pc
Goes(r, pc) == req' = [req EXCEPT ![r].pc = pc]
Calm == UNCHANGED <<admin, faults>>

-----------------------------------------------------------------------------
(* forwardEffect.                                                          *)

\* A request of the owner (fetchForAccount) or of the session
\* (fetchForSession).  The switch is read once, before it queues for the lock.
Arrive(r, session) ==
    /\ At(r, "new")
    /\ req' = [req EXCEPT ![r].pc = IF killed THEN "ended" ELSE "queued",
                          ![r].session = session]
    /\ Calm /\ UNCHANGED <<tables, lock, container, history>>

\* Mutant: a request that fails keeps the lock.
LeaveHolding(r) ==
    /\ Goes(r, "ended")
    /\ lock' = IF container.running THEN NoOne ELSE lock
\* A request that got the lock is answered, well or with an error, and the
\* lock released.
Leave(r) ==
    /\ Goes(r, "ended")
    /\ lock' = NoOne

\* publicGrant's status is "active".
Standing == grant.id # 0 /\ ~grant.over /\ grant.used < Limit

\* What the request runs with: the active account, unless there is none.
ActiveKey == IF active = NoName \/ accounts[active].revision = 0 THEN NoKey
             ELSE [name |-> active, revision |-> accounts[active].revision]

\* With the lock, a session's request consumes one of its grant's requests
\* (consume), and the active account is read (activeProviderAccounts).
Begin(r) ==
    /\ At(r, "queued") /\ lock = NoOne
    /\ IF req[r].session /\ ~Standing
       THEN Leave(r) /\ UNCHANGED grant
       ELSE /\ grant' = IF req[r].session THEN [grant EXCEPT !.used = @ + 1] ELSE grant
            /\ IF ActiveKey = NoKey
               THEN Leave(r)
               ELSE /\ lock' = r
                    /\ req' = [req EXCEPT ![r].grant = grant.id, ![r].key = ActiveKey,
                        ![r].pc = IF accounts[active].stale THEN "refresh" ELSE "ensure"]
    /\ Calm /\ UNCHANGED <<killed, accounts, active, fingerprint, container, history>>

\* put: the account of this name is written, as another revision or as new.
Put(name) == accounts' =
    [accounts EXCEPT ![name] = [revision |-> @.revision + 1, stale |-> FALSE]]

\* A credential about to expire is refreshed with the provider and written
\* back under its name, which is made the active one; whatever the operator
\* did to it in the meantime.  The active account is then read again, with no
\* await between the write and the read: it is the one just written.
Refresh(r) ==
    LET name == req[r].key.name
    IN  /\ At(r, "refresh") /\ accounts[name].revision < MaxRevision
        /\ Put(name)
        /\ active' = name
        /\ req' = [req EXCEPT ![r].pc = "ensure",
                              ![r].key.revision = accounts'[name].revision]
        /\ Calm /\ UNCHANGED <<killed, grant, fingerprint, lock, container, history>>

RefreshFails(r) ==
    /\ At(r, "refresh")
    /\ Leave(r)
    /\ Calm /\ UNCHANGED <<killed, accounts, active, grant, fingerprint, container, history>>

-----------------------------------------------------------------------------
(* The container.                                                          *)

\* Mutant: the fingerprint leaves out the revision.
FingerprintOfName(key) == key.name
\* combinedFingerprint.
Fingerprint(key) == <<key.name, key.revision>>

\* ensureContainerReady: a container with this fingerprint is used as it is,
\* another one is stopped.
EnsureReady(r) ==
    /\ At(r, "ensure")
    /\ IF container.running /\ fingerprint = Fingerprint(req[r].key)
       THEN Goes(r, "verify") /\ UNCHANGED container
       ELSE Goes(r, "start") /\ container' = Stopped
    /\ Calm /\ UNCHANGED <<tables, lock, history>>

\* startContainer: the account is the one read with the lock ...
StartContainer(r) ==
    /\ At(r, "start")
    /\ Goes(r, "ports")
    /\ container' = [running |-> TRUE, key |-> req[r].key]
    /\ Calm /\ UNCHANGED <<tables, lock, history>>

\* ... and what was injected is recorded when the ports answer.
PortsReady(r) ==
    /\ At(r, "ports")
    /\ IF container.running
       THEN /\ Goes(r, "verify")
            /\ fingerprint' = Fingerprint(req[r].key)
            /\ UNCHANGED lock
       ELSE Leave(r) /\ UNCHANGED fingerprint
    /\ Calm /\ UNCHANGED <<killed, accounts, active, grant, container, history>>

\* Mutant: a renewed grant is as good as the one consumed.
VerifiedAny(r) == ~grant.over
\* verifyReserved: the grant that was consumed still stands.
Verified(r) == grant.id = req[r].grant /\ ~grant.over

\* The grant is checked again, and the request goes out at once ...
Verify(r) ==
    /\ At(r, "verify")
    /\ IF ~req[r].session \/ Verified(r)
       THEN /\ Goes(r, "fetch")
            /\ begun' = IF req[r].session THEN [begun EXCEPT ![req[r].grant] = @ + 1] ELSE begun
            /\ UNCHANGED lock
       ELSE Leave(r) /\ UNCHANGED begun
    /\ Calm /\ UNCHANGED <<killed, accounts, active, grant, fingerprint, container, ended>>

\* ... to a container that may have been stopped by now.
ContainerFetch(r) ==
    /\ At(r, "fetch")
    /\ IF container.running
       THEN Goes(r, "served") /\ UNCHANGED lock
       ELSE Leave(r)
    /\ Calm /\ UNCHANGED <<killed, accounts, active, grant, fingerprint, container, history>>

\* The container answers, or is gone.
Answer(r) ==
    /\ At(r, "served")
    /\ Leave(r)
    /\ Calm /\ UNCHANGED <<killed, accounts, active, grant, fingerprint, container, history>>

-----------------------------------------------------------------------------
(* The owner.                                                              *)

Idle == admin = "idle"
\* What a call changed is followed by restartForConfiguration, after an await.
ThenRestart == admin' = "restart" /\ UNCHANGED <<lock, req, container, history, faults>>

PutProviderAccount(name, activate) ==
    /\ Idle /\ accounts[name].revision < MaxRevision
    /\ Put(name)
    /\ active' = IF activate THEN name ELSE active
    /\ ThenRestart /\ UNCHANGED <<killed, grant, fingerprint>>

ActivateProviderAccount(name) ==
    /\ Idle /\ accounts[name].revision # 0 /\ active # name
    /\ active' = name
    /\ ThenRestart /\ UNCHANGED <<killed, accounts, grant, fingerprint>>

\* An account that is written again after that starts at revision 1.
DeleteProviderAccount(name) ==
    /\ Idle /\ accounts[name].revision # 0
    /\ accounts' = [accounts EXCEPT ![name] = [revision |-> 0, stale |-> FALSE]]
    /\ active' = IF active = name THEN NoName ELSE active
    /\ ThenRestart /\ UNCHANGED <<killed, grant, fingerprint>>

\* Which models the aliases name, the properties do not tell apart.
RemapAlias == Idle /\ ThenRestart /\ UNCHANGED tables

\* restartForConfiguration: a running container is stopped, and the next
\* request starts another; the recorded fingerprint stays.
RestartForConfiguration ==
    /\ admin = "restart"
    /\ admin' = "idle"
    /\ container' = Stopped
    /\ UNCHANGED <<tables, lock, req, history, faults>>

SetKillSwitch ==
    /\ killed' = ~killed
    /\ UNCHANGED <<accounts, active, grant, fingerprint, lock, req, admin,
                   container, history, faults>>

\* authorize: the session's row is replaced by a new grant, unused.
AuthorizeExecution ==
    /\ grant.id < MaxGrants
    /\ grant' = [id |-> grant.id + 1, used |-> 0, over |-> FALSE]
    /\ ended' = ended \cup {grant.id}
    /\ Calm /\ UNCHANGED <<killed, accounts, active, fingerprint, lock, req,
                           container, begun>>

\* The owner revokes the grant, or its time is over.
EndExecution ==
    /\ grant.id # 0 /\ ~grant.over
    /\ grant' = [grant EXCEPT !.over = TRUE]
    /\ ended' = ended \cup {grant.id}
    /\ Calm /\ UNCHANGED <<killed, accounts, active, fingerprint, lock, req,
                           container, begun>>

-----------------------------------------------------------------------------
(* Time and faults.                                                        *)

CredentialAges(name) ==
    /\ accounts[name].revision \in 1 .. MaxRevision - 1 /\ ~accounts[name].stale
    /\ accounts' = [accounts EXCEPT ![name].stale = TRUE]
    /\ Calm /\ UNCHANGED <<killed, active, grant, fingerprint, lock, req,
                           container, history>>

Fault(kind) ==
    /\ kind \in Faults /\ faults < MaxFaults
    /\ faults' = faults + 1
\* A start that is under way goes on without the request that began it.
Starting(r) == At(r, "ports")
Interruptible(r) == ~Starting(r) \/ "midstart" \in Faults

\* The client's signal interrupts the request wherever it waits.
Abort(r) ==
    /\ Fault("abort")
    /\ req[r].pc \notin {"new", "ended"} /\ Interruptible(r)
    /\ Goes(r, "ended")
    /\ lock' = IF lock = r THEN NoOne ELSE lock
    /\ UNCHANGED <<tables, admin, container, history>>

\* onStop, onError, onActivityExpired: each keeps the recorded fingerprint.
Stop ==
    /\ Fault("stop")
    /\ container.running
    /\ container' = Stopped
    /\ UNCHANGED <<tables, lock, req, admin, history>>

\* The object restarts: requests and calls are gone, the tables stay and the
\* container keeps running.
Evict ==
    /\ Fault("evict")
    /\ \A r \in Requests : Interruptible(r)
    /\ req' = [r \in Requests |-> IF At(r, "new") THEN req[r] ELSE [req[r] EXCEPT !.pc = "ended"]]
    /\ lock' = NoOne /\ admin' = "idle"
    /\ UNCHANGED <<tables, container, history>>

-----------------------------------------------------------------------------
Init ==
    /\ killed = FALSE
    /\ accounts = [n \in Names |-> [revision |-> 0, stale |-> FALSE]]
    /\ active = NoName
    /\ grant = [id |-> 0, used |-> 0, over |-> FALSE]
    /\ fingerprint = <<NoName, 0>>
    /\ lock = NoOne /\ req = [r \in Requests |-> Fresh]
    /\ admin = "idle" /\ container = Stopped
    /\ begun = [g \in 1 .. MaxGrants |-> 0] /\ ended = {} /\ faults = 0

RequestStep(r) ==
    \/ Begin(r) \/ Refresh(r) \/ RefreshFails(r)
    \/ EnsureReady(r) \/ StartContainer(r) \/ PortsReady(r)
    \/ Verify(r) \/ ContainerFetch(r) \/ Answer(r)

Owner ==
    \/ \E n \in Names : \/ \E activate \in BOOLEAN : PutProviderAccount(n, activate)
                        \/ ActivateProviderAccount(n) \/ DeleteProviderAccount(n)
    \/ RemapAlias \/ RestartForConfiguration \/ SetKillSwitch
    \/ AuthorizeExecution \/ EndExecution

Next ==
    \/ \E r \in Requests : \/ \E session \in BOOLEAN : Arrive(r, session)
                          \/ RequestStep(r) \/ Abort(r)
    \/ Owner
    \/ \E n \in Names : CredentialAges(n)
    \/ Stop \/ Evict

Spec == Init /\ [][Next]_gatewayvars

-----------------------------------------------------------------------------
(* Properties.                                                             *)

\* Every variable has its type.
GatewayTypeOK ==
    /\ killed \in BOOLEAN
    /\ accounts \in [Names -> [revision : 0 .. MaxRevision, stale : BOOLEAN]]
    /\ active \in Names \cup {NoName}
    /\ grant \in [id : 0 .. MaxGrants, used : 0 .. Limit, over : BOOLEAN]
    /\ lock \in Requests \cup {NoOne}
    /\ \A r \in Requests : req[r].grant \in 0 .. MaxGrants /\ req[r].key \in Keys \cup {NoKey}
    /\ admin \in {"idle", "restart"}
    /\ container \in [running : BOOLEAN, key : Keys \cup {NoKey}]
    /\ begun \in [1 .. MaxGrants -> 0 .. Cardinality(Requests)]
    /\ ended \subseteq 0 .. MaxGrants
    /\ faults \in 0 .. MaxFaults

\* A request is served by a container that was given the account the request
\* read, in the same revision, whatever accounts are written, activated and
\* deleted meanwhile and however often the container is started and stopped:
\* the recorded fingerprint never vouches for another.
RunsOwnAccount == \A r \in Requests :
    At(r, "served") /\ container.running => container.key = req[r].key

\* A session's request that queued, refreshed a credential or waited for the
\* container under a grant does not begin once that grant is revoked, expired
\* or renewed.
RevokedNeverBegins == [][\A r \in Requests :
    req[r].session /\ At(r, "verify") /\ At(r, "fetch")' => req[r].grant \notin ended]_gatewayvars

\* No more requests begin under one grant than its limit, however they queue,
\* fail and are given up.
WithinLimit == \A g \in 1 .. MaxGrants : begun[g] <= Limit

\* The lock belongs to the one request that is past the queue, and to nobody
\* once that request ended, failed or was interrupted at any await: requests
\* that queue can always go on.
LockIsLeft == \A r \in Requests :
    lock = r <=> req[r].pc \notin {"new", "queued", "ended"}

\* Types, the limit and the lock, which every reachable state has.
GatewayInv == GatewayTypeOK /\ WithinLimit /\ LockIsLeft
=============================================================================
