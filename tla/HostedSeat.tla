----------------------------- MODULE HostedSeat -----------------------------
(***************************************************************************)
(* A hosted seat (apps/maskirovka-seat): the durable object that queues    *)
(* requests, keeps one encrypted subscription account, and starts and      *)
(* stops the container that serves them; and the container, which rotates  *)
(* the account's refresh token and offers the new one back with its        *)
(* answers until the object has saved it.                                  *)
(*                                                                         *)
(* A credential is an account and the number of its rotation.  The         *)
(* provider accepts only the newest.  A fingerprint is the credential it   *)
(* is computed from.  Steps are the code between two awaits: decrypting,   *)
(* encrypting and hashing are awaits during which other calls proceed.     *)
(***************************************************************************)
EXTENDS Integers, Sequences, FiniteSets, SequencesExt

CONSTANTS
    Requests,       \* requests, each sent once
    Accounts,       \* accounts an operator provisions, each once
    Concurrency,    \* SEAT_CONCURRENCY
    MaxQueue,       \* SEAT_MAX_QUEUE
    MaxRotations,   \* bound on the rotations of an account
    Faults,         \* the faults considered, of FaultKinds
    MaxFaults,      \* bound on their number
    NoCred          \* no credential

\* abort: a client gives up.  stop: the container stops by itself.  evict:
\* the object restarts.  overlap: the operator changes the account while a
\* checkpoint is being saved.  short: a token is rotated again before the
\* container heard that the rotation before was saved.
FaultKinds == {"abort", "stop", "evict", "overlap", "short"}
Cred == [account : Accounts, rotation : 0 .. MaxRotations]

ASSUME SeatAssumption ==
    /\ Concurrency \in Nat \ {0} /\ MaxQueue \in Nat
    /\ MaxRotations \in Nat /\ MaxFaults \in Nat
    /\ Faults \subseteq FaultKinds
    /\ IsFiniteSet(Requests) /\ NoCred \notin Cred

VARIABLES
    stored,         \* seat_provider_account: the credential, or NoCred
    fingerprint,    \* seat_container_runtime: of the credential injected
    lifecycle,      \* seat_lifecycle: its status
    killed,         \* seat_controls: the kill switch
    governor,       \* SeatInvocationGovernor: active, admitted, waiting
    req,            \* the requests
    admin,          \* the operator's call to change the account
    used,           \* accounts provisioned so far
    container,      \* the container: running, its credential, and the
                    \* fingerprint it knows to be saved
    handlers,       \* what is handled in the container: a request, and the
                    \* fingerprint it named
    newest,         \* the provider's newest rotation of each account
    faults          \* faults so far

object == <<stored, fingerprint, lifecycle, killed>>
outside == <<container, handlers, newest>>
seatvars == <<object, governor, req, admin, used, outside, faults>>

Status == {"ok", "failed"}
Degraded == "degraded"      \* provider_auth_failed, _exhausted, ...

Nobody == [pc |-> "new", auth |-> NoCred, offer |-> NoCred, base |-> NoCred,
           seen |-> NoCred, status |-> "ok"]
Gone == [Nobody EXCEPT !.pc = "ended"]
Stopped == [running |-> FALSE, env |-> NoCred, saved |-> NoCred]

Under(states) == {r \in Requests : req[r].pc \in states}
At(r, pc) == req[r].pc = pc
Go(r, record) == req' = [req EXCEPT ![r] = record]
Same == UNCHANGED <<admin, used, faults>>

-----------------------------------------------------------------------------
(* The governor.                                                           *)

\* A request that finds the queue full is refused; another waits for a permit.
Arrive(r) ==
    /\ At(r, "new")
    /\ IF governor.admitted >= Concurrency + MaxQueue
       THEN Go(r, Gone) /\ UNCHANGED governor
       ELSE /\ Go(r, [Nobody EXCEPT !.pc = "queued"])
            /\ governor' = [governor EXCEPT !.admitted = @ + 1,
                                            !.waiting = Append(@, r)]
    /\ Same /\ UNCHANGED <<object, outside>>

\* Mutants: a request that ends keeps its permit; or its place in the queue.
LeftHolding(r) == [governor EXCEPT !.admitted = @ - 1, !.waiting = RemoveFirst(@, r)]
LeftKeeping(r) == [governor EXCEPT
    !.active = IF At(r, "queued") THEN @ ELSE @ - 1,
    !.waiting = RemoveFirst(@, r)]

\* The releases of acquireUseRelease, which run however a request ends.
Left(r) == [governor EXCEPT
    !.active = IF At(r, "queued") THEN @ ELSE @ - 1,
    !.admitted = @ - 1,
    !.waiting = RemoveFirst(@, r)]
End(r) == Go(r, Gone) /\ governor' = Left(r)

Permitted(active) == active < Concurrency

\* fetchEffect begins when the permit is there: the switch and the account
\* are read now, however long the request has waited.
Begin(r) ==
    /\ At(r, "queued")
    /\ Permitted(governor.active) /\ Head(governor.waiting) = r
    /\ IF killed \/ stored = NoCred
       THEN /\ Go(r, Gone)
            /\ governor' = Left(r)
       ELSE /\ Go(r, [req[r] EXCEPT !.pc = "ready", !.auth = stored])
            /\ governor' = [governor EXCEPT !.active = @ + 1, !.waiting = Tail(@)]
    /\ Same /\ UNCHANGED <<object, outside>>

-----------------------------------------------------------------------------
(* The container.                                                          *)

\* A container that stops forgets its credential, saved or not.
StopContainer == container' = Stopped /\ handlers' = {}

\* Mutant: a running container is taken as it is.
InjectedAny(c, auth) == c.running
\* ensureContainerReady, under the start lock: a running container must have
\* been given this credential; one with another is stopped first.
Injected(c, auth) == c.running /\ fingerprint = auth

EnsureReady(r) ==
    /\ At(r, "ready")
    /\ Under({"start", "ports"}) = {}
    /\ IF Injected(container, req[r].auth)
       THEN /\ Go(r, [req[r] EXCEPT !.pc = "fetch"])
            /\ UNCHANGED <<lifecycle, outside>>
       ELSE /\ Go(r, [req[r] EXCEPT !.pc = "start"])
            /\ IF container.running
               THEN StopContainer /\ lifecycle' = "restarting_auth"
               ELSE UNCHANGED <<container, handlers, lifecycle>>
            /\ UNCHANGED newest
    /\ UNCHANGED <<stored, fingerprint, killed, governor, admin, used, faults>>

\* startContainer: the container gets the credential the request read ...
StartContainer(r) ==
    /\ At(r, "start")
    /\ Go(r, [req[r] EXCEPT !.pc = "ports"])
    /\ container' = [running |-> TRUE, env |-> req[r].auth, saved |-> req[r].auth]
    /\ lifecycle' = "starting"
    /\ Same /\ UNCHANGED <<stored, fingerprint, killed, governor, handlers, newest>>

\* ... and when its port answers, what it was given is recorded.  A start that
\* fails ends the request.
PortsReady(r) ==
    /\ At(r, "ports")
    /\ IF container.running
       THEN /\ Go(r, [req[r] EXCEPT !.pc = "fetch"])
            /\ fingerprint' = req[r].auth
            /\ lifecycle' = "running"
            /\ UNCHANGED governor
       ELSE End(r) /\ UNCHANGED <<fingerprint, lifecycle>>
    /\ Same /\ UNCHANGED <<stored, killed, outside>>

\* containerFetch: the request goes to the container, with the fingerprint of
\* the credential it read; or the container is gone.
ContainerFetch(r) ==
    /\ At(r, "fetch")
    /\ IF container.running
       THEN /\ Go(r, [req[r] EXCEPT !.pc = "served"])
            /\ handlers' = handlers \cup {[request |-> r, base |-> req[r].auth]}
            /\ UNCHANGED <<lifecycle, governor>>
       ELSE /\ End(r)
            /\ lifecycle' = "disconnected"
            /\ UNCHANGED handlers
    /\ UNCHANGED <<stored, fingerprint, killed, container, newest, admin, used,
                   faults>>

\* The container went away while it handled the request.
Disconnected(r) ==
    /\ At(r, "served") /\ \A h \in handlers : h.request # r
    /\ End(r)
    /\ lifecycle' = "disconnected"
    /\ Same /\ UNCHANGED <<stored, fingerprint, killed, outside>>

\* subscriptionCredential: a handler finds the token about to expire and has
\* it replaced by the provider; two that do so at once differ from this only
\* in that the second one's exchange fails.
Rotate ==
    /\ handlers # {}
    /\ container.env.rotation = newest[container.env.account]
    /\ container.env.rotation < MaxRotations
    /\ container.env = container.saved \/ "short" \in Faults
    /\ container' = [container EXCEPT !.env.rotation = @ + 1]
    /\ newest' = [newest EXCEPT ![container.env.account] = @ + 1]
    /\ Same /\ UNCHANGED <<object, governor, req, handlers>>

\* checkpointAfterRotation: what the container offers with an answer to a
\* request that named base, and what it then knows to be saved.
\* Mutant: a rotation is offered once.
OfferedOnce(base) ==
    IF container.env = base THEN [offer |-> NoCred, saved |-> base]
    ELSE IF base = container.saved THEN [offer |-> container.env, saved |-> container.env]
    ELSE [offer |-> NoCred, saved |-> container.saved]
Offered(base) ==
    IF container.env = base THEN [offer |-> NoCred, saved |-> base]
    ELSE IF base = container.saved THEN [offer |-> container.env, saved |-> container.saved]
    ELSE [offer |-> NoCred, saved |-> container.saved]

\* A handler answers, well or with the provider's failure.  A client that
\* gave up hears nothing of it.
ContainerAnswer(r, status) == \E h \in handlers :
    /\ h.request = r
    /\ handlers' = handlers \ {h}
    /\ container' = [container EXCEPT !.saved = Offered(h.base).saved]
    /\ IF At(r, "served")
       THEN Go(r, [req[r] EXCEPT !.pc = "answered", !.status = status,
                   !.offer = Offered(h.base).offer, !.base = h.base])
       ELSE UNCHANGED req
    /\ Same /\ UNCHANGED <<object, governor, newest>>

-----------------------------------------------------------------------------
(* persistCheckpoint.  Every step of it reads or writes the row as it is    *)
(* then; the account may be changed between any two.                       *)

Rejected(r) ==
    /\ Go(r, [req[r] EXCEPT !.pc = "finish"])
    /\ lifecycle' = "checkpoint_error"
    /\ UNCHANGED <<stored, fingerprint>>

\* The row is read ...
ReadStored(r) ==
    /\ At(r, "answered")
    /\ IF req[r].offer = NoCred
       THEN Go(r, [req[r] EXCEPT !.pc = "finish"]) /\ UNCHANGED object
       ELSE IF stored = NoCred
       THEN Rejected(r) /\ UNCHANGED killed
       ELSE Go(r, [req[r] EXCEPT !.pc = "compare", !.seen = stored]) /\ UNCHANGED object
    /\ Same /\ UNCHANGED <<governor, outside>>

\* Mutant: whatever is stored is replaced.
BasedAlways(seen, base) == TRUE
\* ... and must be what the container was given.
Based(seen, base) == seen = base

CompareBase(r) ==
    LET me == req[r]
    IN  /\ At(r, "compare")
        /\ \/ /\ me.seen = me.offer
              /\ Go(r, [me EXCEPT !.pc = "finish"])
              /\ fingerprint' = me.seen
              /\ UNCHANGED <<stored, lifecycle>>
           \/ /\ me.seen # me.offer /\ ~Based(me.seen, me.base)
              /\ Rejected(r)
           \/ /\ me.seen # me.offer /\ Based(me.seen, me.base)
              /\ Go(r, [me EXCEPT !.pc = "checkpoint"])
              /\ UNCHANGED <<stored, fingerprint, lifecycle>>
        /\ Same /\ UNCHANGED <<killed, governor, outside>>

\* checkpointAuth reads the row again, to keep its bootstrap fingerprint ...
ReadAgain(r) ==
    /\ At(r, "checkpoint")
    /\ IF stored = NoCred THEN Rejected(r)
       ELSE /\ Go(r, [req[r] EXCEPT !.pc = IF stored = req[r].offer THEN "record" ELSE "encrypt"])
            /\ UNCHANGED <<stored, fingerprint, lifecycle>>
    /\ Same /\ UNCHANGED <<killed, governor, outside>>

\* ... encrypts, and writes, whatever the row holds by then ...
WriteCheckpoint(r) ==
    /\ At(r, "encrypt")
    /\ Go(r, [req[r] EXCEPT !.pc = "record"])
    /\ stored' = req[r].offer
    /\ Same /\ UNCHANGED <<fingerprint, lifecycle, killed, governor, outside>>

\* ... and records what the container now runs with.
RecordInjected(r) ==
    /\ At(r, "record")
    /\ Go(r, [req[r] EXCEPT !.pc = "finish"])
    /\ fingerprint' = req[r].offer
    /\ Same /\ UNCHANGED <<stored, lifecycle, killed, governor, outside>>

\* providerLifecycleTransition.  A request that names no dialect, and an
\* answer that is neither a success nor the provider's failure, leave the
\* lifecycle as it is.
Transition(status) ==
    {lifecycle} \cup
    IF status = "failed" THEN {Degraded}
    ELSE IF lifecycle = Degraded THEN {"running"} ELSE {}

\* The answer goes to the client.
Finish(r) ==
    /\ At(r, "finish")
    /\ End(r)
    /\ lifecycle' \in Transition(req[r].status)
    /\ Same /\ UNCHANGED <<stored, fingerprint, killed, outside>>

-----------------------------------------------------------------------------
(* The operator.  Changes of the account are let into the saving of a      *)
(* checkpoint only by the fault "overlap".                                 *)

Saving == {"compare", "checkpoint", "encrypt", "record"}
MayChange == Under(Saving) = {} \/ "overlap" \in Faults

\* putProviderAccount encrypts a new account's credential and writes it ...
PutAccount(a) ==
    /\ admin = "idle" /\ a \notin used
    /\ MayChange
    /\ stored' = [account |-> a, rotation |-> newest[a]]
    /\ used' = used \cup {a}
    /\ admin' = "restart"
    /\ UNCHANGED <<fingerprint, lifecycle, killed, governor, req, outside, faults>>

\* deleteProviderAccount removes it ...
DeleteAccount ==
    /\ admin = "idle" /\ stored # NoCred
    /\ MayChange
    /\ stored' = NoCred
    /\ admin' = "restart"
    /\ UNCHANGED <<fingerprint, lifecycle, killed, governor, req, outside, used, faults>>

\* ... and each then stops a container that is running.
RestartForAccount ==
    /\ admin = "restart"
    /\ admin' = "idle"
    /\ IF container.running
       THEN StopContainer /\ lifecycle' = "restarting_auth"
       ELSE UNCHANGED <<container, handlers, lifecycle>>
    /\ UNCHANGED <<stored, fingerprint, killed, governor, req, used, newest, faults>>

SetKillSwitch(enabled) ==
    /\ killed # enabled
    /\ killed' = enabled
    /\ UNCHANGED <<stored, fingerprint, lifecycle, governor, req, admin, used, outside,
                   faults>>

-----------------------------------------------------------------------------
(* Faults.                                                                 *)

Fault(kind) ==
    /\ kind \in Faults /\ faults < MaxFaults
    /\ faults' = faults + 1

\* The client's signal interrupts the request wherever it waits; a handler
\* in the container is not stopped by that.
Abort(r) ==
    /\ Fault("abort")
    /\ req[r].pc \notin {"new", "ended"}
    /\ End(r)
    /\ UNCHANGED <<object, outside, admin, used>>

\* onStop, onError and onActivityExpired.
Stop ==
    /\ Fault("stop")
    /\ container.running
    /\ StopContainer
    /\ lifecycle' = "stopped"
    /\ UNCHANGED <<stored, fingerprint, killed, governor, req, newest, admin, used>>

\* The object restarts: what it had in memory is gone, its tables stay and
\* the container keeps running.
Evict ==
    /\ Fault("evict")
    /\ req' = [r \in Requests |-> IF At(r, "new") THEN req[r] ELSE Gone]
    /\ governor' = [active |-> 0, admitted |-> 0, waiting |-> <<>>]
    /\ admin' = "idle"
    /\ UNCHANGED <<object, outside, used>>

-----------------------------------------------------------------------------
Init ==
    /\ stored = NoCred /\ fingerprint = NoCred
    /\ lifecycle = "none" /\ killed = FALSE
    /\ governor = [active |-> 0, admitted |-> 0, waiting |-> <<>>]
    /\ req = [r \in Requests |-> Nobody]
    /\ admin = "idle" /\ used = {}
    /\ container = Stopped /\ handlers = {}
    /\ newest = [a \in Accounts |-> 0]
    /\ faults = 0

RequestStep(r) ==
    \/ Begin(r)
    \/ EnsureReady(r) \/ StartContainer(r) \/ PortsReady(r)
    \/ ContainerFetch(r) \/ Disconnected(r)
    \/ \E status \in Status : ContainerAnswer(r, status)
    \/ ReadStored(r) \/ CompareBase(r) \/ ReadAgain(r)
    \/ WriteCheckpoint(r) \/ RecordInjected(r) \/ Finish(r)

Next ==
    \/ \E r \in Requests : Arrive(r) \/ RequestStep(r) \/ Abort(r)
    \/ Rotate
    \/ \E a \in Accounts : PutAccount(a)
    \/ DeleteAccount \/ RestartForAccount
    \/ \E enabled \in BOOLEAN : SetKillSwitch(enabled)
    \/ Stop \/ Evict

Spec == Init /\ [][Next]_seatvars
\* The object's fibers and the container's handlers go on.
FairSpec == Spec /\ \A r \in Requests : WF_seatvars(RequestStep(r))

-----------------------------------------------------------------------------
(* Properties.                                                             *)

\* Every variable has its type.
SeatTypeOK ==
    /\ stored \in Cred \cup {NoCred} /\ fingerprint \in Cred \cup {NoCred}
    /\ lifecycle \in {"none", "starting", "running", "stopped", "restarting_auth", "disconnected",
                      "checkpoint_error", Degraded}
    /\ killed \in BOOLEAN
    /\ governor.active \in 0 .. Concurrency
    /\ governor.admitted \in 0 .. Concurrency + MaxQueue
    /\ governor.waiting \in Seq(Requests)
    /\ \A r \in Requests : req[r].auth \in Cred \cup {NoCred} /\ req[r].offer \in Cred \cup {NoCred}
    /\ admin \in {"idle", "restart"} /\ used \subseteq Accounts
    /\ container.running <=> container.env \in Cred
    /\ handlers \subseteq [request : Requests, base : Cred]
    /\ newest \in [Accounts -> 0 .. MaxRotations]

\* The governor's books: whoever ends, fails or is interrupted at any await
\* gives back exactly what it held, so the queue's limit stays what it is.
AdmittedAreCounted ==
    /\ governor.admitted = Cardinality({r \in Requests : req[r].pc \notin {"new", "ended"}})
    /\ governor.active = governor.admitted - Len(governor.waiting)
    /\ \A r \in Requests : At(r, "queued") <=> r \in Range(governor.waiting)

\* Types and the governor's books, which every reachable state has.
SeatInv == SeatTypeOK /\ AdmittedAreCounted

\* What a handler in the container runs with is the account its request was
\* admitted with, whatever was provisioned, deleted, started or interrupted
\* in between: the fingerprint recorded never vouches for another account.
ServedByOwnAccount == \A h \in handlers : container.env.account = h.base.account

\* A rotated credential the object has not saved is offered with every answer
\* until it is: whatever responses are lost, the container knows the one that
\* is stored to be the last one saved.
RotationIsOffered ==
    container.running /\ stored # NoCred /\ container.env.account = stored.account
        /\ container.env # stored
    => container.saved = stored

\* A checkpoint replaces an older rotation of the same account, and nothing
\* else: a late response cannot overwrite a newly provisioned account, nor
\* bring back a deleted one.
CheckpointsAreNewer == [][\A r \in Requests : WriteCheckpoint(r) =>
    /\ stored # NoCred
    /\ stored.account = stored'.account
    /\ stored.rotation <= stored'.rotation]_seatvars

\* Every request that was admitted is answered or dropped in the end, though
\* others are interrupted and the container stops.
RequestsEnd == \A r \in Requests : At(r, "queued") ~> At(r, "ended")
=============================================================================
