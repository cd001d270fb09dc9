-------------------------- MODULE HostedSeatProofs --------------------------
(***************************************************************************)
(* Theorems about the hosted seat, for any number of requests, accounts    *)
(* and rotations, and any length of the queue.                             *)
(***************************************************************************)
EXTENDS HostedSeat, FiniteSetTheorems, SequenceTheorems, TLAPS

(* The queue of the governor. *)

Distinct(s) == \A i, j \in 1 .. Len(s) : s[i] = s[j] => i = j

LEMMA RangeIs ==
    ASSUME NEW S, NEW s \in Seq(S)
    PROVE  \A x : x \in Range(s) <=> \E i \in 1 .. Len(s) : s[i] = x
BY DEF Range

LEMMA AppendQueue ==
    ASSUME NEW S, NEW s \in Seq(S), Distinct(s), NEW r \in S, r \notin Range(s)
    PROVE  /\ Append(s, r) \in Seq(S) /\ Distinct(Append(s, r))
           /\ Len(Append(s, r)) = Len(s) + 1
           /\ \A x : x \in Range(Append(s, r)) <=> x = r \/ x \in Range(s)
<1> DEFINE t == Append(s, r)
<1>1. /\ t \in Seq(S) /\ Len(t) = Len(s) + 1 /\ Len(s) \in Nat
      /\ \A i \in 1 .. Len(s) : t[i] = s[i]
      /\ t[Len(s) + 1] = r
  BY AppendProperties, LenProperties
<1>2. \A x : x \in Range(t) <=> \E i \in 1 .. Len(t) : t[i] = x
  BY <1>1, RangeIs
<1>3. \A x : x \in Range(s) <=> \E i \in 1 .. Len(s) : s[i] = x
  BY RangeIs
<1> HIDE DEF t
<1>4. Distinct(t)
  BY <1>1, <1>3 DEF Distinct
<1>5. ASSUME NEW x
      PROVE  x \in Range(t) <=> x = r \/ x \in Range(s)
  BY <1>1, <1>2, <1>3
<1> QED
  BY <1>1, <1>4, <1>5 DEF t

LEMMA TailQueue ==
    ASSUME NEW S, NEW s \in Seq(S), Distinct(s), s # <<>>
    PROVE  /\ Tail(s) \in Seq(S) /\ Distinct(Tail(s))
           /\ Len(Tail(s)) = Len(s) - 1
           /\ Head(s) \in Range(s)
           /\ \A x : x \in Range(Tail(s)) <=> x \in Range(s) /\ x # Head(s)
<1> DEFINE t == Tail(s)
<1>1. /\ t \in Seq(S) /\ Len(t) = Len(s) - 1 /\ Len(s) \in Nat /\ Len(s) >= 1
      /\ \A i \in 1 .. Len(t) : t[i] = s[i + 1]
      /\ Head(s) = s[1]
  BY HeadTailProperties, LenProperties, EmptySeq
<1>2. \A x : x \in Range(t) <=> \E i \in 1 .. Len(t) : t[i] = x
  BY <1>1, RangeIs
<1>3. \A x : x \in Range(s) <=> \E i \in 1 .. Len(s) : s[i] = x
  BY RangeIs
<1> HIDE DEF t
<1>4. Distinct(t)
  BY <1>1 DEF Distinct
<1>5. ASSUME NEW x
      PROVE  x \in Range(t) <=> x \in Range(s) /\ x # Head(s)
  <2>1. ASSUME x \in Range(t)
        PROVE  x \in Range(s) /\ x # Head(s)
    BY <1>1, <1>2, <1>3, <2>1 DEF Distinct
  <2>2. ASSUME x \in Range(s), x # Head(s)
        PROVE  x \in Range(t)
    <3>1. PICK i \in 1 .. Len(s) : s[i] = x
      BY <1>3, <2>2
    <3>2. i - 1 \in 1 .. Len(t) /\ t[i - 1] = x
      BY <1>1, <2>2, <3>1
    <3> QED
      BY <1>2, <3>2
  <2> QED
    BY <2>1, <2>2
<1>6. Head(s) \in Range(s)
  BY <1>1, <1>3
<1> QED
  BY <1>1, <1>4, <1>5, <1>6 DEF t

LEMMA RemoveQueue ==
    ASSUME NEW S, NEW s \in Seq(S), Distinct(s), NEW r
    PROVE  /\ RemoveFirst(s, r) \in Seq(S) /\ Distinct(RemoveFirst(s, r))
           /\ Len(RemoveFirst(s, r)) = IF r \in Range(s) THEN Len(s) - 1 ELSE Len(s)
           /\ r \notin Range(s) => RemoveFirst(s, r) = s
           /\ \A x : x \in Range(RemoveFirst(s, r)) <=> x \in Range(s) /\ x # r
<1>1. \A x : x \in Range(s) <=> \E i \in 1 .. Len(s) : s[i] = x
  BY RangeIs
<1>2. CASE r \notin Range(s)
  BY <1>1, <1>2 DEF RemoveFirst
<1>3. CASE r \in Range(s)
  <2>1. PICK i \in 1 .. Len(s) : s[i] = r
    BY <1>1, <1>3
  <2>2. RemoveFirst(s, r) = SubSeq(s, 1, i - 1) \o SubSeq(s, i + 1, Len(s))
    <3>1. {j \in 1 .. Len(s) : s[j] = r} = {i}
      BY <2>1 DEF Distinct
    <3>2. Min({i}) = i
      BY DEF Min
    <3>3. SelectInSeq(s, LAMBDA v : v = r) = i
      BY <3>1, <3>2 DEF SelectInSeq
    <3> QED
      BY <2>1, <3>3 DEF RemoveFirst, RemoveAt
  <2> DEFINE t == RemoveFirst(s, r)
  <2>3. /\ t \in Seq(S) /\ Len(t) = Len(s) - 1 /\ Len(s) \in Nat
        /\ \A k \in 1 .. Len(t) : t[k] = IF k < i THEN s[k] ELSE s[k + 1]
    <3> DEFINE a == SubSeq(s, 1, i - 1)
               b == SubSeq(s, i + 1, Len(s))
    <3>1. Len(s) \in Nat /\ 1 \in 1 .. Len(s) + 1 /\ i - 1 \in 1 - 1 .. Len(s)
          /\ i + 1 \in 1 .. Len(s) + 1 /\ Len(s) \in (i + 1) - 1 .. Len(s)
      BY <2>1, LenProperties
    <3>2. /\ a \in Seq(S) /\ Len(a) = i - 1
          /\ \A k \in 1 .. i - 1 : a[k] = s[k]
      BY <2>1, <3>1, SubSeqProperties
    <3>3. /\ b \in Seq(S) /\ Len(b) = Len(s) - i
          /\ \A k \in 1 .. Len(s) - i : b[k] = s[i + k]
      BY <2>1, <3>1, SubSeqProperties
    <3> HIDE DEF a, b
    <3>4. /\ a \o b \in Seq(S) /\ Len(a \o b) = Len(s) - 1
          /\ \A k \in 1 .. Len(s) - 1 : (a \o b)[k] = IF k <= i - 1 THEN a[k] ELSE b[k - (i - 1)]
      <4>1. /\ a \o b \in Seq(S) /\ Len(a \o b) = Len(a) + Len(b)
            /\ \A k \in 1 .. Len(a) + Len(b) :
                 (a \o b)[k] = IF k <= Len(a) THEN a[k] ELSE b[k - Len(a)]
        BY <3>2, <3>3, ConcatProperties
      <4>2. Len(a) + Len(b) = Len(s) - 1
        BY <2>1, <3>1, <3>2, <3>3
      <4> QED
        BY <3>2, <4>1, <4>2
    <3>5. t = a \o b
      BY <2>2 DEF a, b
    <3> HIDE DEF t
    <3>6. ASSUME NEW k \in 1 .. Len(t)
          PROVE  t[k] = IF k < i THEN s[k] ELSE s[k + 1]
      <4>1. CASE k < i
        BY <2>1, <3>1, <3>2, <3>4, <3>5, <4>1
      <4>2. CASE ~(k < i)
        <5>1. k - (i - 1) \in 1 .. Len(s) - i /\ i + (k - (i - 1)) = k + 1
          BY <2>1, <3>1, <3>4, <3>5, <4>2
        <5>2. t[k] = b[k - (i - 1)]
          <6>1. k \in 1 .. Len(s) - 1 /\ ~(k <= i - 1)
            BY <2>1, <3>1, <3>4, <3>5, <4>2
          <6> QED
            BY <3>4, <3>5, <6>1
        <5> QED
          BY <3>3, <4>2, <5>1, <5>2
      <4> QED
        BY <4>1, <4>2
    <3> QED
      BY <3>1, <3>4, <3>5, <3>6
  <2>4. \A x : x \in Range(t) <=> \E k \in 1 .. Len(t) : t[k] = x
    BY <2>3, RangeIs
  <2> HIDE DEF t
  <2>5. Distinct(t)
    <3> SUFFICES ASSUME NEW k \in 1 .. Len(t), NEW l \in 1 .. Len(t), t[k] = t[l]
                 PROVE  k = l
      BY DEF Distinct
    <3>1. k \in 1 .. Len(s) /\ k + 1 \in 1 .. Len(s) /\ l \in 1 .. Len(s) /\ l + 1 \in 1 .. Len(s)
      BY <2>3
    <3> QED
      BY <2>1, <2>3, <3>1 DEF Distinct
  <2>6. ASSUME NEW x
        PROVE  x \in Range(t) <=> x \in Range(s) /\ x # r
    <3>1. ASSUME x \in Range(t)
          PROVE  x \in Range(s) /\ x # r
      BY <1>1, <2>1, <2>3, <2>4, <3>1 DEF Distinct
    <3>2. ASSUME x \in Range(s), x # r
          PROVE  x \in Range(t)
      <4>1. PICK k \in 1 .. Len(s) : s[k] = x
        BY <1>1, <3>2
      <4>2. k # i
        BY <2>1, <3>2, <4>1
      <4>3. CASE k < i
        <5>1. k \in 1 .. Len(t) /\ t[k] = x
          BY <2>1, <2>3, <4>1, <4>3
        <5> QED
          BY <2>4, <5>1
      <4>4. CASE k > i
        <5>1. k - 1 \in 1 .. Len(t) /\ t[k - 1] = x
          <6>1. k - 1 \in 1 .. Len(t) /\ ~(k - 1 < i) /\ (k - 1) + 1 = k
            BY <2>1, <2>3, <4>1, <4>4
          <6> QED
            BY <2>3, <4>1, <6>1
        <5> QED
          BY <2>4, <5>1
      <4> QED
        BY <2>1, <4>1, <4>2, <4>3, <4>4
    <3> QED
      BY <3>1, <3>2
  <2> QED
    BY <1>3, <2>3, <2>5, <2>6 DEF t
<1> QED
  BY <1>2, <1>3
-----------------------------------------------------------------------------
(* Types.                                                                  *)

Away == {"new", "queued", "ended"}
States == Away \cup {"ready", "start", "ports", "fetch", "served", "answered", "finish"} \cup Saving
MaybeCred == Cred \cup {NoCred}
RequestRecord == [pc : States, auth : MaybeCred, offer : MaybeCred, base : MaybeCred,
                  seen : MaybeCred, status : Status]
Lifecycles == {"none", "starting", "running", "stopped", "restarting_auth", "disconnected",
               "checkpoint_error", Degraded}

\* What a request knows once it is past the queue, answered, and being saved.
Knows(m) ==
    /\ m.pc \notin Away => m.auth \in Cred
    /\ m.pc \in {"answered"} \cup Saving => m.base \in Cred
    /\ m.pc \in Saving => m.offer \in Cred
    /\ m.pc = "compare" => m.seen \in Cred

Typed ==
    /\ stored \in MaybeCred /\ fingerprint \in MaybeCred
    /\ lifecycle \in Lifecycles /\ killed \in BOOLEAN
    /\ governor \in [active : Int, admitted : Int, waiting : Seq(Requests)]
    /\ Distinct(governor.waiting)
    /\ req \in [Requests -> RequestRecord]
    /\ \A r \in Requests : Knows(req[r])
    /\ admin \in {"idle", "restart"} /\ used \subseteq Accounts
    /\ container \in [running : BOOLEAN, env : MaybeCred, saved : MaybeCred]
    /\ IF container.running THEN container.env \in Cred /\ container.saved \in Cred
                            ELSE container.env = NoCred /\ handlers = {}
    /\ handlers \subseteq [request : Requests, base : Cred]
    /\ newest \in [Accounts -> 0 .. MaxRotations]

ReqTyped == req \in [Requests -> RequestRecord] /\ \A r \in Requests : Knows(req[r])
GovernorTyped == /\ governor \in [active : Int, admitted : Int, waiting : Seq(Requests)]
                 /\ Distinct(governor.waiting)
ContainerTyped ==
    /\ container \in [running : BOOLEAN, env : MaybeCred, saved : MaybeCred]
    /\ IF container.running THEN container.env \in Cred /\ container.saved \in Cred
                            ELSE container.env = NoCred /\ handlers = {}
    /\ handlers \subseteq [request : Requests, base : Cred]

LEMMA GoneType == Nobody \in RequestRecord /\ Gone \in RequestRecord /\ Gone.pc = "ended"
                  /\ Gone = [pc |-> "ended", auth |-> NoCred, offer |-> NoCred, base |-> NoCred,
                             seen |-> NoCred, status |-> "ok"]
                  /\ Knows(Nobody) /\ Knows(Gone)
BY DEF Nobody, Gone, RequestRecord, MaybeCred, States, Away, Saving, Status, Knows

\* A request goes on as another record.
LEMMA GoTyped ==
    ASSUME Typed, NEW r \in Requests, NEW m \in RequestRecord, Knows(m), Go(r, m)
    PROVE  ReqTyped' /\ req'[r] = m /\ \A q \in Requests \ {r} : req'[q] = req[q]
BY DEF Typed, Go, ReqTyped

\* A request leaves the governor with what it held.
LEMMA LeftIs ==
    ASSUME Typed, NEW r \in Requests
    PROVE  /\ Left(r).active = IF At(r, "queued") THEN governor.active ELSE governor.active - 1
           /\ Left(r).admitted = governor.admitted - 1
           /\ Left(r).waiting = RemoveFirst(governor.waiting, r)
           /\ Left(r) \in [active : Int, admitted : Int, waiting : Seq(Requests)]
           /\ Distinct(Left(r).waiting)
<1>1. /\ governor \in [active : Int, admitted : Int, waiting : Seq(Requests)]
      /\ Distinct(governor.waiting)
  BY DEF Typed
<1>2. PICK w \in Seq(Requests) : w = RemoveFirst(governor.waiting, r) /\ Distinct(w)
  BY <1>1, RemoveQueue
<1>3. PICK a \in Int : a = IF At(r, "queued") THEN governor.active ELSE governor.active - 1
  BY <1>1
<1>4. PICK b \in Int : b = governor.admitted - 1
  BY <1>1
<1> DEFINE g == [governor EXCEPT !.active = a, !.admitted = b, !.waiting = w]
<1>5. Left(r) = g
  BY <1>2, <1>3, <1>4 DEF Left
<1>6. /\ g \in [active : Int, admitted : Int, waiting : Seq(Requests)]
      /\ g.active = a /\ g.admitted = b /\ g.waiting = w
  BY <1>1
<1> HIDE DEF g
<1> QED
  BY <1>2, <1>3, <1>4, <1>5, <1>6

LEMMA EndTyped ==
    ASSUME Typed, NEW r \in Requests, End(r)
    PROVE  /\ ReqTyped' /\ GovernorTyped'
           /\ req'[r].pc = "ended" /\ \A q \in Requests \ {r} : req'[q] = req[q]
BY GoTyped, GoneType, LeftIs DEF End, GovernorTyped

LEMMA StoppedTyped ==
    ASSUME StopContainer
    PROVE  ContainerTyped'
BY DEF StopContainer, Stopped, ContainerTyped, MaybeCred

LEMMA TypedInit == Init => Typed
<1> SUFFICES ASSUME Init
             PROVE  Typed
  OBVIOUS
<1>1. ReqTyped
  BY GoneType DEF Init, ReqTyped
<1>2. GovernorTyped
  BY DEF Init, GovernorTyped, Distinct
<1>3. ContainerTyped
  BY DEF Init, ContainerTyped, Stopped, MaybeCred
<1>4. newest \in [Accounts -> 0 .. MaxRotations]
  BY SeatAssumption DEF Init
<1> QED
  BY <1>1, <1>2, <1>3, <1>4
       DEF ContainerTyped, GovernorTyped, ReqTyped, Typed, Init, MaybeCred, Lifecycles

LEMMA ArriveTyped ==
    ASSUME Typed, NEW r \in Requests, Arrive(r)
    PROVE  /\ ReqTyped' /\ (\A q \in Requests \ {r} : req'[q] = req[q])
           /\ \/ req'[r].pc = "ended" /\ UNCHANGED governor
              \/ /\ req'[r].pc = "queued"
                 /\ governor.admitted < Concurrency + MaxQueue
                 /\ governor' = [governor EXCEPT !.admitted = governor.admitted + 1,
                                                 !.waiting = Append(governor.waiting, r)]
<1>1. CASE governor.admitted >= Concurrency + MaxQueue
  BY <1>1, GoTyped, GoneType DEF Arrive
<1>2. CASE ~(governor.admitted >= Concurrency + MaxQueue)
  <2> DEFINE m == [Nobody EXCEPT !.pc = "queued"]
  <2>1. m \in RequestRecord /\ Knows(m) /\ m.pc = "queued"
    BY GoneType DEF RequestRecord, States, Away, Knows, Saving
  <2>2. Go(r, m) /\ governor' = [governor EXCEPT !.admitted = governor.admitted + 1,
                                                 !.waiting = Append(governor.waiting, r)]
    BY <1>2 DEF Arrive
  <2>3. governor.admitted < Concurrency + MaxQueue
    BY <1>2, SeatAssumption DEF Typed
  <2> QED
    BY <2>1, <2>2, <2>3, GoTyped
<1> QED
  BY <1>1, <1>2

LEMMA BeginTyped ==
    ASSUME Typed, NEW r \in Requests, Begin(r)
    PROVE  \/ End(r)
           \/ /\ ReqTyped' /\ req'[r].pc = "ready" /\ req'[r].auth = stored /\ stored \in Cred
              /\ \A q \in Requests \ {r} : req'[q] = req[q]
              /\ governor' = [governor EXCEPT !.active = governor.active + 1,
                                              !.waiting = Tail(governor.waiting)]
<1>1. CASE killed \/ stored = NoCred
  BY <1>1 DEF Begin, End
<1>2. CASE ~(killed \/ stored = NoCred)
  <2> DEFINE m == [req[r] EXCEPT !.pc = "ready", !.auth = stored]
  <2>1. stored \in Cred /\ req[r] \in RequestRecord
    BY <1>2 DEF Typed, MaybeCred
  <2>2. m \in RequestRecord /\ m.pc = "ready" /\ m.auth = stored
    BY <2>1 DEF RequestRecord, States, MaybeCred
  <2>3. Knows(m)
    BY <2>1, <2>2 DEF Knows, Saving
  <2>4. Go(r, m) /\ governor' = [governor EXCEPT !.active = governor.active + 1,
                                              !.waiting = Tail(governor.waiting)]
    BY <1>2 DEF Begin
  <2> QED
    BY <2>1, <2>2, <2>3, <2>4, GoTyped
<1> QED
  BY <1>1, <1>2

\* A request goes on with what it knows.
Moved(r, pc) == [req[r] EXCEPT !.pc = pc]

LEMMA MovedIs ==
    ASSUME Typed, NEW r \in Requests, NEW pc \in States
    PROVE  /\ Moved(r, pc) \in RequestRecord /\ Moved(r, pc).pc = pc
           /\ Moved(r, pc).auth = req[r].auth /\ Moved(r, pc).offer = req[r].offer
           /\ Moved(r, pc).base = req[r].base /\ Moved(r, pc).seen = req[r].seen
           /\ Moved(r, pc).status = req[r].status
<1>1. req[r] \in RequestRecord
  BY DEF Typed
<1> QED
  BY <1>1 DEF Moved, RequestRecord

LEMMA MovedTyped ==
    ASSUME Typed, NEW r \in Requests, NEW pc \in States, Go(r, Moved(r, pc)),
           req[r].pc \notin Away,
           pc \in Saving => req[r].pc \in Saving /\ pc # "compare",
           pc # "answered"
    PROVE  /\ ReqTyped' /\ req'[r] = Moved(r, pc)
           /\ \A q \in Requests \ {r} : req'[q] = req[q]
<1>1. Knows(req[r])
  BY DEF Typed
<1>2. Knows(Moved(r, pc))
  <2> DEFINE m == Moved(r, pc)
  <2>1. m.pc = pc /\ m.auth = req[r].auth /\ m.offer = req[r].offer /\ m.base = req[r].base
    BY MovedIs
  <2> HIDE DEF m
  <2>2. Knows(m)
    BY <1>1, <2>1 DEF Knows, Saving
  <2> QED
    BY <2>2 DEF m
<1> QED
  BY <1>2, MovedIs, GoTyped

LEMMA EnsureTyped ==
    ASSUME Typed, NEW r \in Requests, EnsureReady(r)
    PROVE  /\ Typed' /\ \A q \in Requests \ {r} : req'[q] = req[q]
           /\ \/ /\ Injected(container, req[r].auth) /\ req'[r] = Moved(r, "fetch")
                 /\ UNCHANGED <<container, handlers>>
              \/ /\ req'[r] = Moved(r, "start") /\ ~container'.running
<1>1. /\ req[r].pc = "ready" /\ "ready" \notin Away /\ {"fetch", "start"} \subseteq States
      /\ {"fetch", "start"} \cap Saving = {} /\ "restarting_auth" \in Lifecycles
  BY DEF EnsureReady, At, Away, States, Saving, Lifecycles
<1>2. CASE Injected(container, req[r].auth)
  <2>1. Go(r, Moved(r, "fetch")) /\ UNCHANGED <<lifecycle, outside>>
    BY <1>2 DEF EnsureReady, Moved
  <2>2. ReqTyped' /\ req'[r] = Moved(r, "fetch") /\ \A q \in Requests \ {r} : req'[q] = req[q]
    BY <1>1, <2>1, MovedTyped
  <2>3. UNCHANGED <<stored, fingerprint, killed, governor, admin, used, lifecycle, container,
                    handlers, newest>>
    BY <2>1 DEF EnsureReady, outside
  <2> QED
    BY <1>2, <2>2, <2>3
       DEF ReqTyped, Typed, GovernorTyped, ContainerTyped
<1>3. CASE ~Injected(container, req[r].auth)
  <2>1. /\ Go(r, Moved(r, "start")) /\ UNCHANGED newest
        /\ \/ StopContainer /\ lifecycle' = "restarting_auth"
           \/ ~container.running /\ UNCHANGED <<container, handlers, lifecycle>>
    BY <1>3 DEF EnsureReady, Moved
  <2>2. ReqTyped' /\ req'[r] = Moved(r, "start") /\ \A q \in Requests \ {r} : req'[q] = req[q]
    BY <1>1, <2>1, MovedTyped
  <2>3. ContainerTyped' /\ lifecycle' \in Lifecycles /\ ~container'.running
    BY <1>1, <2>1, StoppedTyped
       DEF GovernorTyped, ReqTyped, Typed, ContainerTyped, StopContainer, Stopped
  <2>4. UNCHANGED <<stored, fingerprint, killed, governor, admin, used, newest>>
    BY <2>1 DEF EnsureReady
  <2> QED
    BY <2>2, <2>3, <2>4
       DEF ContainerTyped, ReqTyped, Typed, GovernorTyped
<1> QED
  BY <1>2, <1>3

LEMMA StartTyped ==
    ASSUME Typed, NEW r \in Requests, StartContainer(r)
    PROVE  /\ Typed' /\ req'[r] = Moved(r, "ports")
           /\ \A q \in Requests \ {r} : req'[q] = req[q]
<1>1. /\ req[r].pc = "start" /\ "start" \notin Away /\ "ports" \in States \ Saving
      /\ "starting" \in Lifecycles
  BY DEF StartContainer, At, Away, States, Saving, Lifecycles
<1>2. ReqTyped' /\ req'[r] = Moved(r, "ports") /\ \A q \in Requests \ {r} : req'[q] = req[q]
  BY <1>1, MovedTyped DEF StartContainer, Moved
<1>3. req[r].auth \in Cred /\ req[r].auth \in MaybeCred
  BY <1>1 DEF Typed, Knows, MaybeCred
<1>4. ContainerTyped'
  <2>1. handlers \subseteq [request : Requests, base : Cred]
    BY DEF Typed
  <2> QED
    BY <1>3, <2>1 DEF StartContainer, ContainerTyped
<1>5. UNCHANGED <<stored, fingerprint, killed, governor, admin, used, newest>>
      /\ lifecycle' \in Lifecycles
  BY <1>1 DEF StartContainer, Same
<1> QED
  BY <1>2, <1>4, <1>5
       DEF ContainerTyped, ReqTyped, Typed, GovernorTyped

LEMMA PortsTyped ==
    ASSUME Typed, NEW r \in Requests, PortsReady(r)
    PROVE  /\ Typed' /\ \A q \in Requests \ {r} : req'[q] = req[q]
           /\ \/ End(r) /\ ~container.running /\ UNCHANGED fingerprint
              \/ /\ req'[r] = Moved(r, "fetch") /\ UNCHANGED governor /\ container.running
                 /\ fingerprint' = req[r].auth
<1>1. /\ req[r].pc = "ports" /\ "ports" \notin Away /\ "fetch" \in States \ Saving
      /\ "running" \in Lifecycles
  BY DEF PortsReady, At, Away, States, Saving, Lifecycles
<1>2. UNCHANGED <<stored, killed, container, handlers, newest, admin, used>>
  BY DEF PortsReady, Same, outside
<1>3. CASE container.running
  <2>1. ReqTyped' /\ req'[r] = Moved(r, "fetch") /\ \A q \in Requests \ {r} : req'[q] = req[q]
    BY <1>1, <1>3, MovedTyped DEF PortsReady, Moved
  <2>2. fingerprint' = req[r].auth /\ req[r].auth \in MaybeCred /\ lifecycle' \in Lifecycles
        /\ UNCHANGED governor
    BY <1>1, <1>3 DEF PortsReady, Typed, RequestRecord
  <2> QED
    BY <1>2, <1>3, <2>1, <2>2
       DEF ReqTyped, Typed, GovernorTyped, ContainerTyped
<1>4. CASE ~container.running
  <2>1. End(r) /\ UNCHANGED <<fingerprint, lifecycle>>
    BY <1>4 DEF PortsReady
  <2> QED
    BY <1>2, <1>4, <2>1, EndTyped
       DEF GovernorTyped, ReqTyped, Typed, ContainerTyped
<1> QED
  BY <1>3, <1>4

LEMMA FetchTyped ==
    ASSUME Typed, NEW r \in Requests, ContainerFetch(r)
    PROVE  /\ Typed' /\ \A q \in Requests \ {r} : req'[q] = req[q]
           /\ \/ End(r) /\ UNCHANGED handlers
              \/ /\ req'[r] = Moved(r, "served") /\ UNCHANGED governor /\ container.running
                 /\ handlers' = handlers \cup {[request |-> r, base |-> req[r].auth]}
<1>1. /\ req[r].pc = "fetch" /\ "fetch" \notin Away /\ "served" \in States \ Saving
      /\ "disconnected" \in Lifecycles
  BY DEF ContainerFetch, At, Away, States, Saving, Lifecycles
<1>2. UNCHANGED <<stored, fingerprint, killed, container, newest, admin, used>>
  BY DEF ContainerFetch
<1>3. CASE container.running
  <2>1. ReqTyped' /\ req'[r] = Moved(r, "served") /\ \A q \in Requests \ {r} : req'[q] = req[q]
    BY <1>1, <1>3, MovedTyped DEF ContainerFetch, Moved
  <2>2. req[r].auth \in Cred
    BY <1>1 DEF Typed, Knows
  <2>3. handlers' = handlers \cup {[request |-> r, base |-> req[r].auth]}
        /\ UNCHANGED <<lifecycle, governor>>
    BY <1>3 DEF ContainerFetch
  <2>4. ContainerTyped'
    BY <1>2, <1>3, <2>2, <2>3 DEF Typed, ContainerTyped
  <2> QED
    BY <1>2, <1>3, <2>1, <2>3, <2>4
       DEF ContainerTyped, ReqTyped, Typed, GovernorTyped
<1>4. CASE ~container.running
  <2>1. End(r) /\ UNCHANGED handlers /\ lifecycle' \in Lifecycles
    BY <1>1, <1>4 DEF ContainerFetch
  <2> QED
    BY <1>2, <2>1, EndTyped
       DEF GovernorTyped, ReqTyped, Typed, ContainerTyped
<1> QED
  BY <1>3, <1>4

LEMMA OfferedIs ==
    ASSUME NEW base \in Cred, container.env \in Cred, container.saved \in Cred
    PROVE  /\ Offered(base).offer \in MaybeCred /\ Offered(base).saved \in Cred
           /\ Offered(base).saved \in {base, container.saved}
           /\ Offered(base).saved = IF container.env = base THEN base ELSE container.saved
           /\ Offered(base).offer # NoCred =>
                /\ Offered(base).offer = container.env /\ base = container.saved
                /\ base # container.env
BY DEF Offered, MaybeCred

LEMMA AnswerTyped ==
    ASSUME Typed, NEW r \in Requests, NEW status \in Status, NEW h \in handlers,
           h.request = r,
           handlers' = handlers \ {h},
           container' = [container EXCEPT !.saved = Offered(h.base).saved],
           IF At(r, "served")
           THEN Go(r, [req[r] EXCEPT !.pc = "answered", !.status = status,
                       !.offer = Offered(h.base).offer, !.base = h.base])
           ELSE UNCHANGED req,
           Same, UNCHANGED <<object, governor, newest>>
    PROVE  /\ Typed' /\ \A q \in Requests \ {r} : req'[q] = req[q]
           /\ h.base \in Cred /\ container.running
           /\ container.env \in Cred /\ container.saved \in Cred
           /\ container'.running /\ container'.env = container.env
           /\ container'.saved = Offered(h.base).saved
           /\ \/ ~At(r, "served") /\ UNCHANGED req
              \/ /\ At(r, "served") /\ req'[r].pc = "answered" /\ req'[r].auth = req[r].auth
                 /\ req'[r].offer = Offered(h.base).offer /\ req'[r].base = h.base
<1>1. /\ h.base \in Cred /\ container.running
      /\ container.env \in Cred /\ container.saved \in Cred
      /\ container \in [running : BOOLEAN, env : MaybeCred, saved : MaybeCred]
  BY DEF Typed
<1>2. Offered(h.base).offer \in MaybeCred /\ Offered(h.base).saved \in Cred
  BY <1>1, OfferedIs
<1>3. PICK c \in Cred : c = Offered(h.base).saved
  BY <1>2
<1>4. /\ container' = [container EXCEPT !.saved = c] /\ c \in MaybeCred
      /\ container' \in [running : BOOLEAN, env : MaybeCred, saved : MaybeCred]
      /\ container'.running = container.running
      /\ container'.env = container.env /\ container'.saved = c
  BY <1>1, <1>3 DEF MaybeCred
<1>5. ContainerTyped'
  BY <1>1, <1>4 DEF Typed, ContainerTyped
<1>6. CASE At(r, "served")
  <2> DEFINE m == [req[r] EXCEPT !.pc = "answered", !.status = status,
                       !.offer = Offered(h.base).offer, !.base = h.base]
  <2>1. req[r] \in RequestRecord /\ "answered" \in States \ Saving /\ h.base \in MaybeCred
    BY <1>1 DEF Typed, States, Saving, MaybeCred
  <2>2. m \in RequestRecord /\ m.pc = "answered" /\ m.auth = req[r].auth
        /\ m.offer = Offered(h.base).offer /\ m.base = h.base
    BY <1>2, <2>1 DEF RequestRecord
  <2>3. Knows(m)
    BY <1>1, <1>6, <2>1, <2>2 DEF Typed, Knows, At, Away
  <2>4. Go(r, m)
    BY <1>6
  <2> HIDE DEF m
  <2>5. ReqTyped' /\ req'[r] = m /\ \A q \in Requests \ {r} : req'[q] = req[q]
    BY <2>2, <2>3, <2>4, GoTyped
  <2>6. Typed'
    BY <1>5, <2>5
       DEF ContainerTyped, ReqTyped, Typed, Same, object, GovernorTyped
  <2> QED
    BY <1>1, <1>3, <1>4, <1>6, <2>2, <2>5, <2>6
<1>7. CASE ~At(r, "served")
  <2>1. UNCHANGED req
    BY <1>7
  <2>2. ReqTyped' /\ Typed'
    BY <1>5, <2>1
       DEF ContainerTyped, Typed, Same, object, GovernorTyped, ReqTyped
  <2> QED
    BY <1>1, <1>3, <1>4, <1>7, <2>1, <2>2
<1> QED
  BY <1>6, <1>7

LEMMA EndingTyped ==
    ASSUME Typed, NEW r \in Requests, Disconnected(r) \/ Finish(r)
    PROVE  /\ Typed' /\ End(r) /\ UNCHANGED <<stored, fingerprint, outside, used>>
<1>1. End(r) /\ UNCHANGED <<stored, fingerprint, killed, outside, admin, used>>
  BY DEF Disconnected, Finish, Same
<1>2. lifecycle' \in Lifecycles
  <2>1. lifecycle \in Lifecycles /\ {Degraded, "running", "disconnected"} \subseteq Lifecycles
    BY DEF Typed, Lifecycles
  <2> QED
    BY <2>1 DEF Disconnected, Finish, Transition
<1>3. ReqTyped' /\ GovernorTyped'
  BY <1>1, EndTyped
<1> QED
  BY <1>1, <1>2, <1>3
     DEF Typed, ReqTyped, GovernorTyped, ContainerTyped, outside

\* Saving a checkpoint: the steps that only read the row and move on.
LEMMA SavingMoves ==
    ASSUME Typed, NEW r \in Requests, NEW pc \in {"checkpoint", "encrypt", "record", "finish"},
           req[r].pc \in Saving \/ (req[r].pc = "answered" /\ pc = "finish"),
           Go(r, Moved(r, pc)),
           stored' \in MaybeCred, fingerprint' \in MaybeCred,
           lifecycle' \in {lifecycle, "checkpoint_error"},
           UNCHANGED <<killed, governor, outside, admin, used>>
    PROVE  /\ Typed' /\ req'[r] = Moved(r, pc)
           /\ \A q \in Requests \ {r} : req'[q] = req[q]
<1>1. pc \in States /\ req[r].pc \notin Away /\ (pc \in Saving => req[r].pc \in Saving)
      /\ pc # "compare" /\ pc # "answered"
  BY DEF States, Saving, Away
<1>2. ReqTyped' /\ req'[r] = Moved(r, pc) /\ \A q \in Requests \ {r} : req'[q] = req[q]
  BY <1>1, MovedTyped
<1>3. lifecycle' \in Lifecycles
  BY DEF Typed, Lifecycles
<1> QED
  BY <1>2, <1>3
     DEF Typed, ReqTyped, GovernorTyped, ContainerTyped, outside

LEMMA ReadStoredTyped ==
    ASSUME Typed, NEW r \in Requests, ReadStored(r)
    PROVE  /\ Typed' /\ UNCHANGED <<stored, fingerprint, governor, outside, used>>
           /\ \A q \in Requests \ {r} : req'[q] = req[q]
           /\ \/ req'[r] = Moved(r, "finish")
              \/ /\ req'[r].pc = "compare" /\ req'[r].auth = req[r].auth
                 /\ req'[r].offer = req[r].offer /\ req'[r].base = req[r].base
                 /\ req'[r].seen = stored /\ stored # NoCred /\ req[r].offer # NoCred
<1>1. req[r].pc = "answered" /\ UNCHANGED <<stored, fingerprint, killed, governor, outside, admin, used>>
      /\ stored \in MaybeCred /\ fingerprint \in MaybeCred
  BY DEF ReadStored, Same, At, Rejected, object, Typed
<1>2. CASE req[r].offer = NoCred
  <2>1. Go(r, Moved(r, "finish")) /\ UNCHANGED lifecycle
    BY <1>2 DEF ReadStored, Moved, object
  <2> QED
    BY <1>1, <2>1, SavingMoves
<1>3. CASE req[r].offer # NoCred /\ stored = NoCred
  <2>1. Go(r, Moved(r, "finish")) /\ lifecycle' = "checkpoint_error"
    BY <1>3 DEF ReadStored, Rejected, Moved
  <2> QED
    BY <1>1, <2>1, SavingMoves
<1>4. CASE req[r].offer # NoCred /\ stored # NoCred
  <2> DEFINE m == [req[r] EXCEPT !.pc = "compare", !.seen = stored]
  <2>1. req[r] \in RequestRecord /\ "compare" \in States /\ Knows(req[r])
        /\ stored \in Cred /\ req[r].offer \in Cred
    BY <1>1, <1>4 DEF Typed, RequestRecord, MaybeCred, States, Saving
  <2>2. m \in RequestRecord /\ m.pc = "compare" /\ m.auth = req[r].auth /\ m.offer = req[r].offer
        /\ m.base = req[r].base /\ m.seen = stored
    BY <1>1, <2>1 DEF RequestRecord
  <2>3. Knows(m)
    BY <1>1, <2>1, <2>2 DEF Knows, Away
  <2>4. Go(r, m) /\ UNCHANGED lifecycle
    BY <1>4 DEF ReadStored, object
  <2> HIDE DEF m
  <2>5. ReqTyped' /\ req'[r] = m /\ \A q \in Requests \ {r} : req'[q] = req[q]
    BY <2>2, <2>3, <2>4, GoTyped
  <2>6. Typed'
    BY <1>1, <2>4, <2>5
       DEF Typed, ReqTyped, GovernorTyped, ContainerTyped, outside
  <2> QED
    BY <1>1, <1>4, <2>2, <2>5, <2>6
<1> QED
  BY <1>2, <1>3, <1>4

LEMMA CompareTyped ==
    ASSUME Typed, NEW r \in Requests, CompareBase(r)
    PROVE  /\ Typed' /\ UNCHANGED <<stored, governor, outside, used>>
           /\ \A q \in Requests \ {r} : req'[q] = req[q]
           /\ \/ req'[r] = Moved(r, "finish") /\ UNCHANGED fingerprint
              \/ /\ req'[r] = Moved(r, "finish") /\ fingerprint' = req[r].seen
                 /\ req[r].seen = req[r].offer
              \/ /\ req'[r] = Moved(r, "checkpoint") /\ UNCHANGED fingerprint
                 /\ req[r].seen = req[r].base
<1>1. req[r].pc = "compare" /\ req[r].pc \in Saving /\ UNCHANGED <<stored, killed, governor, outside, admin, used>>
      /\ stored \in MaybeCred /\ fingerprint \in MaybeCred /\ req[r].seen \in MaybeCred
  BY DEF CompareBase, Same, At, Rejected, Typed, Saving, RequestRecord
<1>2. CASE req[r].seen = req[r].offer
  <2>1. Go(r, Moved(r, "finish")) /\ UNCHANGED lifecycle /\ fingerprint' = req[r].seen
    BY <1>2 DEF CompareBase, Moved
  <2> QED
    BY <1>1, <1>2, <2>1, SavingMoves
<1>3. CASE req[r].seen # req[r].offer /\ ~Based(req[r].seen, req[r].base)
  <2>1. Go(r, Moved(r, "finish")) /\ lifecycle' = "checkpoint_error" /\ UNCHANGED fingerprint
    BY <1>3 DEF CompareBase, Moved, Rejected
  <2> QED
    BY <1>1, <2>1, SavingMoves
<1>4. CASE req[r].seen # req[r].offer /\ Based(req[r].seen, req[r].base)
  <2>1. Go(r, Moved(r, "checkpoint")) /\ UNCHANGED <<lifecycle, fingerprint>>
    BY <1>4 DEF CompareBase, Moved
  <2> QED
    BY <1>1, <1>4, <2>1, SavingMoves DEF Based
<1> QED
  BY <1>2, <1>3, <1>4

LEMMA ReadAgainTyped ==
    ASSUME Typed, NEW r \in Requests, ReadAgain(r)
    PROVE  /\ Typed' /\ UNCHANGED <<stored, fingerprint, governor, outside, used>>
           /\ \A q \in Requests \ {r} : req'[q] = req[q]
           /\ \/ req'[r] = Moved(r, "finish")
              \/ req'[r] = Moved(r, "record") /\ stored = req[r].offer
              \/ req'[r] = Moved(r, "encrypt")
<1>1. /\ req[r].pc \in Saving /\ UNCHANGED <<stored, fingerprint, killed, governor, outside, admin, used>>
      /\ stored \in MaybeCred /\ fingerprint \in MaybeCred
  BY DEF ReadAgain, Same, At, Rejected, Typed, Saving
<1>2. CASE stored = NoCred
  <2>1. Go(r, Moved(r, "finish")) /\ lifecycle' = "checkpoint_error"
    BY <1>2 DEF ReadAgain, Moved, Rejected
  <2> QED
    BY <1>1, <2>1, SavingMoves
<1>3. CASE stored # NoCred /\ stored = req[r].offer
  <2>1. Go(r, Moved(r, "record")) /\ UNCHANGED lifecycle
    BY <1>3 DEF ReadAgain, Moved
  <2> QED
    BY <1>1, <1>3, <2>1, SavingMoves
<1>4. CASE stored # NoCred /\ stored # req[r].offer
  <2>1. Go(r, Moved(r, "encrypt")) /\ UNCHANGED lifecycle
    BY <1>4 DEF ReadAgain, Moved
  <2> QED
    BY <1>1, <2>1, SavingMoves
<1> QED
  BY <1>2, <1>3, <1>4

LEMMA WriteTyped ==
    ASSUME Typed, NEW r \in Requests, WriteCheckpoint(r)
    PROVE  /\ Typed' /\ UNCHANGED <<fingerprint, governor, outside, used>>
           /\ stored' = req[r].offer /\ req[r].offer \in Cred
           /\ \A q \in Requests \ {r} : req'[q] = req[q]
           /\ req'[r] = Moved(r, "record")
<1>1. /\ req[r].pc \in Saving /\ fingerprint \in MaybeCred
      /\ UNCHANGED <<fingerprint, lifecycle, killed, governor, outside, admin, used>>
  BY DEF WriteCheckpoint, Same, At, Typed, Saving
<1>2. stored' = req[r].offer /\ req[r].offer \in Cred /\ req[r].offer \in MaybeCred
      /\ Go(r, Moved(r, "record"))
  BY <1>1 DEF WriteCheckpoint, Typed, Knows, MaybeCred, Moved
<1> QED
  BY <1>1, <1>2, SavingMoves

LEMMA RecordTyped ==
    ASSUME Typed, NEW r \in Requests, RecordInjected(r)
    PROVE  /\ Typed' /\ UNCHANGED <<stored, governor, outside, used>>
           /\ fingerprint' = req[r].offer /\ req[r].offer \in Cred
           /\ \A q \in Requests \ {r} : req'[q] = req[q]
           /\ req'[r] = Moved(r, "finish")
<1>1. /\ req[r].pc \in Saving /\ stored \in MaybeCred
      /\ UNCHANGED <<stored, lifecycle, killed, governor, outside, admin, used>>
  BY DEF RecordInjected, Same, At, Typed, Saving
<1>2. fingerprint' = req[r].offer /\ req[r].offer \in Cred /\ req[r].offer \in MaybeCred
      /\ Go(r, Moved(r, "finish"))
  BY <1>1 DEF RecordInjected, Typed, Knows, MaybeCred, Moved
<1> QED
  BY <1>1, <1>2, SavingMoves

LEMMA RotateTyped ==
    ASSUME Typed, Rotate
    PROVE  /\ Typed' /\ UNCHANGED <<object, governor, req, handlers, used>>
           /\ container.env \in Cred /\ container'.env \in Cred
           /\ container'.env.account = container.env.account
           /\ container'.env.rotation = container.env.rotation + 1
           /\ container'.saved = container.saved /\ container'.running /\ container.running
           /\ container.env = container.saved \/ "short" \in Faults
<1> DEFINE a == container.env.account
           c == [account |-> a, rotation |-> container.env.rotation + 1]
<1>1. /\ container.running /\ container.env \in Cred /\ handlers # {}
      /\ container.env = [account |-> a, rotation |-> container.env.rotation]
      /\ a \in Accounts /\ container.env.rotation \in 0 .. MaxRotations
      /\ container \in [running : BOOLEAN, env : MaybeCred, saved : MaybeCred]
  BY DEF Rotate, Typed, Cred
<1>2. c \in Cred /\ c \in MaybeCred /\ c.account = a /\ c.rotation = container.env.rotation + 1
  BY <1>1, SeatAssumption DEF Rotate, Cred, MaybeCred
<1>3. container' = [container EXCEPT !.env = c]
  <2>1. container' = [container EXCEPT !.env = [container.env EXCEPT !.rotation = container.env.rotation + 1]]
    BY DEF Rotate
  <2>2. [container.env EXCEPT !.rotation = container.env.rotation + 1] = c
    BY <1>1
  <2> QED
    BY <2>1, <2>2
<1> HIDE DEF c
<1>4. /\ container' \in [running : BOOLEAN, env : MaybeCred, saved : MaybeCred]
      /\ container'.env = c /\ container'.saved = container.saved /\ container'.running
  BY <1>1, <1>2, <1>3
<1>5. newest' \in [Accounts -> 0 .. MaxRotations]
  <2>1. newest \in [Accounts -> 0 .. MaxRotations] /\ newest[a] + 1 \in 0 .. MaxRotations
    BY <1>1, SeatAssumption DEF Rotate, Typed
  <2>2. newest' = [newest EXCEPT ![a] = newest[a] + 1]
    BY DEF Rotate
  <2> QED
    BY <2>1, <2>2
<1>6. UNCHANGED <<stored, fingerprint, lifecycle, killed, governor, req, handlers, admin, used>>
  BY DEF Rotate, Same, object
<1>7. Typed'
  <2>1. container.saved \in Cred
    BY <1>1 DEF Typed
  <2>2. ContainerTyped'
    BY <1>1, <1>2, <1>4, <1>6, <2>1 DEF Typed, ContainerTyped
  <2> QED
    BY <1>5, <1>6, <2>2
       DEF Typed, ReqTyped, GovernorTyped, ContainerTyped
<1> QED
  BY <1>1, <1>2, <1>4, <1>6, <1>7 DEF object, Rotate

LEMMA OperatorTyped ==
    ASSUME Typed,
           \/ \E a \in Accounts : PutAccount(a)
           \/ DeleteAccount \/ RestartForAccount \/ Stop
           \/ \E enabled \in BOOLEAN : SetKillSwitch(enabled)
    PROVE  Typed' /\ UNCHANGED <<governor, req, fingerprint, newest>>
<1>1. ASSUME NEW a \in Accounts, PutAccount(a)
      PROVE  Typed' /\ UNCHANGED <<governor, req, fingerprint, newest>>
  <2>1. [account |-> a, rotation |-> newest[a]] \in MaybeCred
    BY DEF Typed, Cred, MaybeCred
  <2> QED
    BY <1>1, <2>1 DEF PutAccount, Typed, outside
<1>2. CASE DeleteAccount
  BY <1>2 DEF DeleteAccount, Typed, outside, MaybeCred
<1>3. CASE RestartForAccount \/ Stop
  <2>1. UNCHANGED <<stored, fingerprint, killed, governor, req, used, newest>>
        /\ admin' \in {"idle", "restart"} /\ lifecycle' \in Lifecycles
    BY <1>3 DEF RestartForAccount, Stop, Typed, Lifecycles
  <2>2. StopContainer \/ UNCHANGED <<container, handlers>>
    BY <1>3 DEF RestartForAccount, Stop
  <2>3. ContainerTyped'
    BY <2>2, StoppedTyped DEF Typed, ContainerTyped
  <2> QED
    BY <2>1, <2>3
       DEF Typed, ReqTyped, GovernorTyped, ContainerTyped
<1>4. ASSUME NEW enabled \in BOOLEAN, SetKillSwitch(enabled)
      PROVE  Typed' /\ UNCHANGED <<governor, req, fingerprint, newest>>
  BY <1>4 DEF SetKillSwitch, Typed, outside
<1> QED
  BY <1>1, <1>2, <1>3, <1>4

LEMMA EvictTyped ==
    ASSUME Typed, Evict
    PROVE  /\ Typed' /\ UNCHANGED <<object, outside, used>>
           /\ \A r \in Requests : req'[r].pc \in {"new", "ended"}
                                 /\ (req[r].pc # "new" => req'[r].pc = "ended")
           /\ governor' = [active |-> 0, admitted |-> 0, waiting |-> <<>>]
<1>1. ASSUME NEW r \in Requests
      PROVE  /\ req'[r] \in RequestRecord /\ Knows(req'[r])
             /\ req'[r].pc \in {"new", "ended"} /\ (req[r].pc # "new" => req'[r].pc = "ended")
  BY <1>1, GoneType DEF Evict, Typed, At
<1>2. ReqTyped'
  BY <1>1 DEF Evict, ReqTyped
<1>3. GovernorTyped'
  BY DEF Evict, GovernorTyped, Distinct
<1> QED
  BY <1>1, <1>2, <1>3
     DEF Evict, Typed, ReqTyped, GovernorTyped, ContainerTyped, object, outside

LEMMA AbortTyped ==
    ASSUME Typed, NEW r \in Requests, Abort(r)
    PROVE  /\ Typed' /\ End(r) /\ req[r].pc \notin {"new", "ended"}
           /\ UNCHANGED <<object, outside, used>>
<1>1. ReqTyped' /\ GovernorTyped'
  BY EndTyped DEF Abort
<1> QED
  BY <1>1
     DEF Abort, Typed, ReqTyped, GovernorTyped, ContainerTyped, object, outside

-----------------------------------------------------------------------------
(* The governor's books.                                                   *)

Admitted == {r \in Requests : req[r].pc \notin {"new", "ended"}}
Past == {r \in Requests : req[r].pc \notin Away}

Books ==
    /\ governor.admitted = Cardinality(Admitted) /\ governor.admitted <= Concurrency + MaxQueue
    /\ governor.active = Cardinality(Past) /\ governor.active <= Concurrency
    /\ governor.active = governor.admitted - Len(governor.waiting)
    /\ \A r \in Requests : At(r, "queued") <=> r \in Range(governor.waiting)

LEMMA BooksFinite ==
    /\ IsFiniteSet(Admitted) /\ Cardinality(Admitted) \in Nat
    /\ IsFiniteSet(Past) /\ Cardinality(Past) \in Nat
<1>1. Admitted \in SUBSET Requests /\ Past \in SUBSET Requests
  BY DEF Admitted, Past
<1> QED
  BY <1>1, SeatAssumption, FS_Subset, FS_CardinalityType

LEMMA KeepsBooks ==
    ASSUME Typed, Books, UNCHANGED governor,
           \A q \in Requests : /\ req'[q].pc \in {"new", "ended"} <=> req[q].pc \in {"new", "ended"}
                               /\ req'[q].pc = "queued" <=> req[q].pc = "queued"
    PROVE  Books' /\ GovernorTyped'
<1>1. Admitted' = Admitted /\ Past' = Past
  BY DEF Admitted, Past, Away
<1>2. GovernorTyped'
  BY DEF Typed, GovernorTyped
<1> QED
  BY <1>1, <1>2 DEF Books, At

\* A request goes on past the queue.
LEMMA GoesOnBooks ==
    ASSUME Typed, Books, UNCHANGED governor, NEW r \in Requests,
           \A q \in Requests \ {r} : req'[q] = req[q],
           req[r].pc \notin Away, req'[r].pc \notin Away
    PROVE  Books' /\ GovernorTyped'
BY KeepsBooks DEF Away

LEMMA EnqueueBooks ==
    ASSUME Typed, Books, NEW r \in Requests, At(r, "new"), req'[r].pc = "queued",
           \A q \in Requests \ {r} : req'[q] = req[q],
           governor.admitted < Concurrency + MaxQueue,
           governor' = [governor EXCEPT !.admitted = governor.admitted + 1,
                                        !.waiting = Append(governor.waiting, r)]
    PROVE  Books' /\ GovernorTyped'
<1>1. /\ governor \in [active : Int, admitted : Int, waiting : Seq(Requests)]
      /\ Distinct(governor.waiting) /\ Len(governor.waiting) \in Nat
  BY LenProperties DEF Typed
<1>2. r \notin Range(governor.waiting)
  BY DEF Books, At
<1>3. PICK w \in Seq(Requests) :
        /\ w = Append(governor.waiting, r) /\ Distinct(w) /\ Len(w) = Len(governor.waiting) + 1
        /\ \A x : x \in Range(w) <=> x = r \/ x \in Range(governor.waiting)
  <2> DEFINE s == governor.waiting
  <2>1. s \in Seq(Requests) /\ Distinct(s) /\ r \notin Range(s)
    BY <1>1, <1>2
  <2> HIDE DEF s
  <2>2. /\ Append(s, r) \in Seq(Requests) /\ Distinct(Append(s, r))
        /\ Len(Append(s, r)) = Len(s) + 1
        /\ \A x : x \in Range(Append(s, r)) <=> x = r \/ x \in Range(s)
    BY <2>1, AppendQueue
  <2> QED
    BY <2>2 DEF s
<1>4. PICK n \in Int : n = governor.admitted + 1
  BY <1>1
<1>5. /\ governor' = [governor EXCEPT !.admitted = n, !.waiting = w]
  BY <1>3, <1>4
<1>6. /\ governor' \in [active : Int, admitted : Int, waiting : Seq(Requests)]
      /\ governor'.admitted = n /\ governor'.active = governor.active /\ governor'.waiting = w
  BY <1>1, <1>5
<1>7. Admitted' = Admitted \cup {r} /\ r \notin Admitted /\ Past' = Past
  BY DEF Admitted, Past, Away, At
<1>8. Cardinality(Admitted') = Cardinality(Admitted) + 1
  BY <1>7, BooksFinite, FS_AddElement
<1>9. \A q \in Requests : At(q, "queued")' <=> q \in Range(w)
  BY <1>3 DEF Books, At
<1>10. n <= Concurrency + MaxQueue
  BY <1>1, <1>4, SeatAssumption
<1>11. governor'.active = governor'.admitted - Len(governor'.waiting)
  BY <1>1, <1>3, <1>4, <1>6 DEF Books
<1>12. governor'.admitted = Cardinality(Admitted') /\ governor'.active = Cardinality(Past')
  BY <1>4, <1>6, <1>7, <1>8 DEF Books
<1>13. GovernorTyped'
  BY <1>3, <1>6 DEF GovernorTyped
<1> QED
  BY <1>4, <1>6, <1>9, <1>10, <1>11, <1>12, <1>13 DEF Books

LEMMA AdmitBooks ==
    ASSUME Typed, Books, NEW r \in Requests, At(r, "queued"), req'[r].pc = "ready",
           \A q \in Requests \ {r} : req'[q] = req[q],
           governor.active < Concurrency, Head(governor.waiting) = r,
           governor' = [governor EXCEPT !.active = governor.active + 1,
                                        !.waiting = Tail(governor.waiting)]
    PROVE  Books' /\ GovernorTyped'
<1>1. /\ governor \in [active : Int, admitted : Int, waiting : Seq(Requests)]
      /\ Distinct(governor.waiting) /\ Len(governor.waiting) \in Nat
  BY LenProperties DEF Typed
<1>2. r \in Range(governor.waiting)
  BY DEF Books
<1>3. governor.waiting # <<>>
  BY <1>2 DEF Range
<1>4. PICK w \in Seq(Requests) :
        /\ w = Tail(governor.waiting) /\ Distinct(w) /\ Len(w) = Len(governor.waiting) - 1
        /\ \A x : x \in Range(w) <=> x \in Range(governor.waiting) /\ x # r
  BY <1>1, <1>3, TailQueue
<1>5. PICK n \in Int : n = governor.active + 1
  BY <1>1
<1>6. governor' = [governor EXCEPT !.active = n, !.waiting = w]
  BY <1>4, <1>5
<1>7. /\ governor' \in [active : Int, admitted : Int, waiting : Seq(Requests)]
      /\ governor'.admitted = governor.admitted /\ governor'.active = n /\ governor'.waiting = w
  BY <1>1, <1>6
<1>8. Past' = Past \cup {r} /\ r \notin Past /\ Admitted' = Admitted
  BY DEF Admitted, Past, Away, At
<1>9. Cardinality(Past') = Cardinality(Past) + 1
  BY <1>8, BooksFinite, FS_AddElement
<1>10. \A q \in Requests : At(q, "queued")' <=> q \in Range(w)
  BY <1>4 DEF Books, At
<1>11. n <= Concurrency
  BY <1>1, <1>5, SeatAssumption
<1> QED
  BY <1>1, <1>4, <1>5, <1>7, <1>8, <1>9, <1>10, <1>11, BooksFinite DEF Books, GovernorTyped

\* Whoever ends gives back what it held.
LEMMA EndBooks ==
    ASSUME Typed, Books, NEW r \in Requests, req[r].pc \notin {"new", "ended"}, End(r)
    PROVE  Books' /\ GovernorTyped'
<1>1. /\ governor \in [active : Int, admitted : Int, waiting : Seq(Requests)]
      /\ Distinct(governor.waiting) /\ Len(governor.waiting) \in Nat
  BY LenProperties DEF Typed
<1>2. req'[r].pc = "ended" /\ \A q \in Requests \ {r} : req'[q] = req[q]
  BY EndTyped
<1>3. /\ governor'.active = IF At(r, "queued") THEN governor.active ELSE governor.active - 1
      /\ governor'.admitted = governor.admitted - 1
      /\ governor'.waiting = RemoveFirst(governor.waiting, r)
      /\ GovernorTyped'
  BY LeftIs DEF End, GovernorTyped
<1>4. Admitted' = Admitted \ {r} /\ r \in Admitted /\ Past' = Past \ {r}
      /\ (r \in Past <=> ~At(r, "queued"))
  BY <1>2 DEF Admitted, Past, Away, At
<1>5. /\ Cardinality(Admitted') = Cardinality(Admitted) - 1
      /\ Cardinality(Past') = IF At(r, "queued") THEN Cardinality(Past) ELSE Cardinality(Past) - 1
  BY <1>4, BooksFinite, FS_RemoveElement
<1>6. /\ Len(governor'.waiting) = IF At(r, "queued") THEN Len(governor.waiting) - 1
                                                     ELSE Len(governor.waiting)
      /\ \A x : x \in Range(governor'.waiting) <=> x \in Range(governor.waiting) /\ x # r
  BY <1>1, <1>3, RemoveQueue, SMTT(40) DEF Books
<1>7. \A q \in Requests : At(q, "queued")' <=> q \in Range(governor'.waiting)
  BY <1>2, <1>6 DEF Books, At
<1>8. /\ governor'.admitted <= Concurrency + MaxQueue
      /\ governor'.active <= Concurrency
  BY <1>1, <1>3, SeatAssumption DEF Books
<1>9. governor'.admitted = Cardinality(Admitted') /\ governor'.active = Cardinality(Past')
  BY <1>3, <1>5 DEF Books
<1>10. governor'.active = governor'.admitted - Len(governor'.waiting)
  BY <1>1, <1>3, <1>6 DEF Books
<1> QED
  BY <1>3, <1>7, <1>8, <1>9, <1>10 DEF Books

\* The steps of a request past the queue.
LEMMA RunStepBooks ==
    ASSUME Typed, Books, NEW r \in Requests, RequestStep(r), ~Begin(r)
    PROVE  Typed' /\ Books'
<1> DEFINE GoesOn == /\ UNCHANGED governor /\ (\A q \in Requests \ {r} : req'[q] = req[q])
                     /\ req[r].pc \notin Away /\ req'[r].pc \notin Away
<1>1. GoesOn => Books'
  BY GoesOnBooks
<1>2. End(r) /\ req[r].pc \notin {"new", "ended"} => Books'
  BY EndBooks
<1>3. {"fetch", "start", "ports", "served", "finish", "checkpoint", "record", "encrypt"} \subseteq States \ Away
  BY DEF States, Saving, Away
<1> HIDE DEF GoesOn
<1>4. CASE EnsureReady(r)
  <2>1. req[r].pc = "ready" /\ UNCHANGED governor
    BY <1>4 DEF EnsureReady, At
  <2> QED
    BY <1>1, <1>3, <1>4, <2>1, EnsureTyped, MovedIs DEF GoesOn, Away
<1>5. CASE StartContainer(r)
  <2>1. req[r].pc = "start" /\ UNCHANGED governor
    BY <1>5 DEF StartContainer, At
  <2> QED
    BY <1>1, <1>3, <1>5, <2>1, StartTyped, MovedIs DEF GoesOn, Away
<1>6. CASE PortsReady(r)
  <2>1. req[r].pc = "ports"
    BY <1>6 DEF PortsReady, At
  <2> QED
    BY <1>1, <1>2, <1>3, <1>6, <2>1, PortsTyped, MovedIs DEF GoesOn, Away
<1>7. CASE ContainerFetch(r)
  <2>1. req[r].pc = "fetch"
    BY <1>7 DEF ContainerFetch, At
  <2> QED
    BY <1>1, <1>2, <1>3, <1>7, <2>1, FetchTyped, MovedIs DEF GoesOn, Away
<1>8. CASE Disconnected(r) \/ Finish(r)
  <2>1. req[r].pc \in {"served", "finish"}
    BY <1>8 DEF Disconnected, Finish, At
  <2> QED
    BY <1>2, <1>8, <2>1, EndingTyped
<1>9. ASSUME NEW status \in Status, ContainerAnswer(r, status)
      PROVE  Typed' /\ Books'
  <2>1. PICK h \in handlers :
          /\ h.request = r
          /\ handlers' = handlers \ {h}
          /\ container' = [container EXCEPT !.saved = Offered(h.base).saved]
          /\ IF At(r, "served")
             THEN Go(r, [req[r] EXCEPT !.pc = "answered", !.status = status,
                         !.offer = Offered(h.base).offer, !.base = h.base])
             ELSE UNCHANGED req
          /\ Same /\ UNCHANGED <<object, governor, newest>>
    BY <1>9 DEF ContainerAnswer
  <2>2. /\ Typed' /\ \A q \in Requests \ {r} : req'[q] = req[q]
        /\ \/ ~At(r, "served") /\ UNCHANGED req
           \/ /\ At(r, "served") /\ req'[r].pc = "answered" /\ req'[r].auth = req[r].auth
              /\ req'[r].offer = Offered(h.base).offer /\ req'[r].base = h.base
    BY <2>1, AnswerTyped
  <2>3. UNCHANGED governor
    BY <2>1
  <2>4. Books'
    BY <1>1, <2>2, <2>3, KeepsBooks DEF GoesOn, Away, At
  <2> QED
    BY <2>2, <2>4
<1>10. CASE ReadStored(r)
  <2>1. req[r].pc = "answered"
    BY <1>10 DEF ReadStored, At
  <2> QED
    BY <1>1, <1>3, <1>10, <2>1, ReadStoredTyped, MovedIs DEF GoesOn, Away
<1>11. CASE CompareBase(r)
  <2>1. req[r].pc = "compare"
    BY <1>11 DEF CompareBase, At
  <2> QED
    BY <1>1, <1>3, <1>11, <2>1, CompareTyped, MovedIs DEF GoesOn, Away
<1>12. CASE ReadAgain(r)
  <2>1. req[r].pc = "checkpoint"
    BY <1>12 DEF ReadAgain, At
  <2> QED
    BY <1>1, <1>3, <1>12, <2>1, ReadAgainTyped, MovedIs DEF GoesOn, Away
<1>13. CASE WriteCheckpoint(r)
  <2>1. req[r].pc = "encrypt"
    BY <1>13 DEF WriteCheckpoint, At
  <2> QED
    BY <1>1, <1>3, <1>13, <2>1, WriteTyped, MovedIs DEF GoesOn, Away
<1>14. CASE RecordInjected(r)
  <2>1. req[r].pc = "record"
    BY <1>14 DEF RecordInjected, At
  <2> QED
    BY <1>1, <1>3, <1>14, <2>1, RecordTyped, MovedIs DEF GoesOn, Away
<1> QED
  BY <1>4, <1>5, <1>6, <1>7, <1>8, <1>9, <1>10, <1>11, <1>12, <1>13, <1>14 DEF RequestStep

LEMMA BooksStep == Typed /\ Books /\ [Next]_seatvars => Typed' /\ Books'
<1> SUFFICES ASSUME Typed, Books, [Next]_seatvars
             PROVE  Typed' /\ Books'
  OBVIOUS
<1>1. ASSUME NEW r \in Requests, Arrive(r)
      PROVE  Typed' /\ Books'
  <2>1. ReqTyped' /\ UNCHANGED <<object, outside, admin, used>> /\ At(r, "new")
    BY <1>1, ArriveTyped DEF Arrive, Same
  <2>2. Books' /\ GovernorTyped'
    BY <1>1, <2>1, ArriveTyped, KeepsBooks, EnqueueBooks DEF At
  <2> QED
    BY <2>1, <2>2
       DEF Typed, ReqTyped, GovernorTyped, ContainerTyped, object, outside
<1>2. ASSUME NEW r \in Requests, Begin(r)
      PROVE  Typed' /\ Books'
  <2>1. /\ At(r, "queued") /\ governor.active < Concurrency /\ Head(governor.waiting) = r
        /\ UNCHANGED <<object, outside, admin, used>> /\ req[r].pc \notin {"new", "ended"}
    BY <1>2 DEF Begin, Permitted, Same, At
  <2>2. ReqTyped'
    BY <1>2, BeginTyped, EndTyped
  <2>3. Books' /\ GovernorTyped'
    BY <1>2, <2>1, BeginTyped, EndBooks, AdmitBooks
  <2> QED
    BY <2>1, <2>2, <2>3
       DEF Typed, ReqTyped, GovernorTyped, ContainerTyped, object, outside
<1>3. ASSUME NEW r \in Requests, RequestStep(r), ~Begin(r)
      PROVE  Typed' /\ Books'
  BY <1>3, RunStepBooks
<1>4. ASSUME NEW r \in Requests, Abort(r)
      PROVE  Typed' /\ Books'
  BY <1>4, AbortTyped, EndBooks
<1>5. CASE Rotate
  BY <1>5, RotateTyped, KeepsBooks
<1>6. CASE \/ \E a \in Accounts : PutAccount(a)
           \/ DeleteAccount \/ RestartForAccount \/ Stop
           \/ \E enabled \in BOOLEAN : SetKillSwitch(enabled)
  BY <1>6, OperatorTyped, KeepsBooks
<1>7. CASE Evict
  <2>1. Admitted' = {} /\ Past' = {}
    BY <1>7, EvictTyped DEF Admitted, Past, Away
  <2>2. Cardinality({}) = 0 /\ Len(<<>>) = 0 /\ Range(<<>>) = {}
    BY FS_EmptySet DEF Range
  <2>3. \A r \in Requests : ~At(r, "queued")'
    BY <1>7, EvictTyped DEF At
  <2>4. governor' = [active |-> 0, admitted |-> 0, waiting |-> <<>>]
    BY <1>7, EvictTyped
  <2>5. Books'
    BY <2>1, <2>2, <2>3, <2>4, SeatAssumption DEF Books
  <2> QED
    BY <1>7, <2>5, EvictTyped
<1>8. CASE UNCHANGED seatvars
  <2>1. UNCHANGED <<governor, req>> /\ Typed'
    BY <1>8 DEF seatvars, object, outside, Typed
  <2> QED
    BY <2>1, KeepsBooks
<1> QED
  BY <1>1, <1>2, <1>3, <1>4, <1>5, <1>6, <1>7, <1>8 DEF Next
-----------------------------------------------------------------------------
(* Accounts.  With one permit, one request at a time is past the queue, and *)
(* no account is provisioned twice: so an account that was replaced is not *)
(* stored again, unless by the one request that is past the queue.         *)

LEMMA OnePast ==
    ASSUME Concurrency = 1, Typed, Books, NEW r \in Past, NEW q \in Past
    PROVE  r = q
<1>1. Cardinality(Past) \in Nat /\ Cardinality(Past) <= 1 /\ IsFiniteSet(Past)
  BY BooksFinite DEF Books
<1>2. CASE Cardinality(Past) = 0
  BY <1>1, <1>2, FS_EmptySet
<1>3. CASE Cardinality(Past) = 1
  BY <1>1, <1>3, FS_Singleton
<1> QED
  BY <1>1, <1>2, <1>3

Recorded == stored # NoCred /\ fingerprint # NoCred /\ fingerprint.account = stored.account
Contained == {"ports", "fetch", "served", "answered"} \cup Saving
Unsent == {"new", "queued", "ready", "start", "ports", "fetch"}

\* A request past the queue: the recorded fingerprint is of its account only if
\* the container's credential is, and from the start of the container on it is.
Owns(m) ==
    /\ m.auth.account \in used
    /\ Recorded => m.auth.account = stored.account
    /\ container.running /\ fingerprint # NoCred /\ fingerprint.account = m.auth.account
         => container.env.account = m.auth.account
    /\ m.pc = "start" => ~container.running
    /\ m.pc \in Contained /\ container.running => container.env.account = m.auth.account
    /\ m.pc \in {"answered"} \cup Saving =>
         m.base = m.auth /\ (m.offer # NoCred => m.offer.account = m.auth.account)

\* A handler of the container was named the account it runs with.
Handled(h) ==
    /\ container.env.account = h.base.account
    /\ req[h.request].pc \notin Unsent
    /\ req[h.request].pc = "served" => h.base = req[h.request].auth

Owned ==
    /\ stored # NoCred => stored.account \in used
    /\ fingerprint # NoCred => fingerprint.account \in used
    /\ container.running => container.env.account \in used
    /\ container.running /\ Recorded => container.env.account = stored.account
    /\ \A r \in Past : Owns(req[r])
    /\ \A h \in handlers : Handled(h)

\* A request that leaves takes nothing along.
LEMMA EndOwned ==
    ASSUME Typed, Owned, NEW r \in Requests, req[r].pc \notin {"new", "ended"}, End(r),
           UNCHANGED <<stored, fingerprint, container, handlers, used>>
    PROVE  Owned'
<1>1. req'[r].pc = "ended" /\ \A q \in Requests \ {r} : req'[q] = req[q]
  BY EndTyped
<1>2. \A q \in Past' : q \in Past /\ req'[q] = req[q]
  BY <1>1 DEF Past, Away
<1>3. \A q \in Past' : Owns(req[q])'
  BY <1>2 DEF Owned, Owns, Recorded
<1>4. ASSUME NEW h \in handlers'
      PROVE  Handled(h)'
  <2>1. h \in handlers /\ Handled(h) /\ h.request \in Requests
    BY DEF Owned, Typed
  <2> QED
    BY <1>1, <2>1 DEF Handled, Unsent
<1> QED
  BY <1>3, <1>4 DEF Owned, Recorded

\* The one request that is past the queue goes on.
LEMMA GoesOnOwned ==
    ASSUME Concurrency = 1, Typed, Books, Owned, NEW r \in Past,
           \A q \in Requests \ {r} : req'[q] = req[q],
           Owns(req[r])',
           stored' # NoCred => stored'.account \in used',
           fingerprint' # NoCred => fingerprint'.account \in used',
           container'.running => container'.env.account \in used',
           container'.running /\ Recorded' => container'.env.account = stored'.account,
           \A h \in handlers' : Handled(h)'
    PROVE  Owned'
<1>1. \A q \in Past' : q = r
  <2>1. \A q \in Past : q = r
    BY OnePast
  <2> QED
    BY <2>1 DEF Past
<1>2. \A q \in Past' : Owns(req[q])'
  BY <1>1
<1> QED
  BY <1>2 DEF Owned

LEMMA RunStepOwned ==
    ASSUME Concurrency = 1, Typed, Books, Owned, NEW r \in Requests, RequestStep(r), ~Begin(r)
    PROVE  Owned'
<1> DEFINE m == req[r]
<1>1. /\ {"fetch", "start", "ports", "served", "finish", "checkpoint", "record", "encrypt"} \subseteq States \ Away
      /\ {"fetch", "start", "ports", "served", "finish"} \cap Saving = {}
  BY DEF States, Saving, Away
<1>2. m.pc \notin {"queued", "new", "ended"} => r \in Past /\ Owns(m) /\ m.auth \in Cred
  BY DEF Owned, Past, Away, Typed, Knows
<1>3. ASSUME NEW h \in handlers
      PROVE  h.request \in Requests /\ h.base \in Cred /\ Handled(h) /\ container.running
  BY DEF Typed, Owned
<1>4. CASE EnsureReady(r)
  <2>1. m.pc = "ready" /\ UNCHANGED <<stored, fingerprint, used>>
    BY <1>4 DEF EnsureReady, At
  <2>2. CASE /\ Injected(container, m.auth) /\ req'[r] = Moved(r, "fetch")
             /\ UNCHANGED <<container, handlers>>
    <3>1. container.running /\ container.env.account = m.auth.account
      BY <1>2, <2>1, <2>2, SeatAssumption DEF Injected, Owns
    <3>2. req'[r].pc = "fetch" /\ req'[r].auth = m.auth
      BY <1>1, <2>2, MovedIs
    <3>3. Owns(req[r])'
      BY <1>1, <1>2, <2>1, <2>2, <3>1, <3>2 DEF Owns, Recorded
    <3>4. \A h \in handlers : h.request # r
      BY <1>3, <2>1 DEF Handled, Unsent
    <3>5. \A h \in handlers' : Handled(h)'
      BY <1>3, <1>4, <2>2, <3>4, EnsureTyped DEF Handled
    <3> QED
      BY <1>2, <1>4, <2>1, <2>2, <3>3, <3>5, EnsureTyped, GoesOnOwned DEF Owned, Recorded
  <2>3. CASE req'[r] = Moved(r, "start") /\ ~container'.running
    <3>1. req'[r].pc = "start" /\ req'[r].auth = m.auth
      BY <1>1, <2>3, MovedIs
    <3>2. Owns(req[r])'
      BY <1>1, <1>2, <2>1, <2>3, <3>1 DEF Owns, Recorded, Contained
    <3>3. handlers' = {}
      BY <1>4, <2>3, EnsureTyped DEF Typed
    <3> QED
      BY <1>2, <1>4, <2>1, <2>3, <3>2, <3>3, EnsureTyped, GoesOnOwned DEF Owned, Recorded
  <2> QED
    BY <1>4, <2>2, <2>3, EnsureTyped
<1>5. CASE StartContainer(r)
  <2>1. /\ m.pc = "start" /\ UNCHANGED <<stored, fingerprint, used, handlers>>
        /\ container'.env = m.auth
    BY <1>5 DEF StartContainer, At, Same
  <2>2. ~container.running /\ handlers' = {}
    BY <1>2, <2>1 DEF Owns, Typed
  <2>3. req'[r].pc = "ports" /\ req'[r].auth = m.auth
    BY <1>1, <1>5, StartTyped, MovedIs
  <2>4. Owns(req[r])'
    BY <1>1, <1>2, <2>1, <2>3 DEF Owns, Recorded
  <2>5. Recorded => m.auth.account = stored.account
    BY <1>2, <2>1 DEF Owns
  <2> QED
    BY <1>2, <1>5, <2>1, <2>2, <2>4, <2>5, StartTyped, GoesOnOwned DEF Owned, Owns, Recorded
<1>6. CASE PortsReady(r)
  <2>1. m.pc = "ports" /\ UNCHANGED <<stored, container, handlers, used>>
    BY <1>6 DEF PortsReady, At, Same, outside
  <2>2. CASE End(r) /\ ~container.running /\ UNCHANGED fingerprint
    BY <2>1, <2>2, EndOwned
  <2>3. CASE req'[r] = Moved(r, "fetch") /\ container.running /\ fingerprint' = m.auth
    <3>1. req'[r].pc = "fetch" /\ req'[r].auth = m.auth
      BY <1>1, <2>3, MovedIs
    <3>2. container.env.account = m.auth.account
      BY <1>2, <2>1, <2>3 DEF Owns, Contained
    <3>3. Owns(req[r])'
      BY <1>1, <1>2, <2>1, <2>3, <3>1, <3>2 DEF Owns, Recorded
    <3>4. \A h \in handlers' : Handled(h)'
      BY <1>3, <1>6, <2>1, PortsTyped DEF Handled, Unsent
    <3> QED
      BY <1>2, <1>6, <2>1, <2>3, <3>2, <3>3, <3>4, PortsTyped, GoesOnOwned DEF Owned, Owns, Recorded
  <2> QED
    BY <1>6, <2>2, <2>3, PortsTyped
<1>7. CASE ContainerFetch(r)
  <2>1. m.pc = "fetch" /\ UNCHANGED <<stored, fingerprint, container, used>>
    BY <1>7 DEF ContainerFetch, At
  <2>2. CASE End(r) /\ UNCHANGED handlers
    BY <2>1, <2>2, EndOwned
  <2>3. CASE /\ req'[r] = Moved(r, "served") /\ container.running
             /\ handlers' = handlers \cup {[request |-> r, base |-> m.auth]}
    <3>1. req'[r].pc = "served" /\ req'[r].auth = m.auth
      BY <1>1, <2>3, MovedIs
    <3>2. container.env.account = m.auth.account
      BY <1>2, <2>1, <2>3 DEF Owns, Contained
    <3>3. Owns(req[r])'
      BY <1>1, <1>2, <2>1, <2>3, <3>1, <3>2 DEF Owns, Recorded
    <3>4. \A h \in handlers : h.request # r
      BY <1>3, <2>1 DEF Handled, Unsent
    <3>5. \A h \in handlers : Handled(h)'
      BY <1>3, <1>7, <2>1, <3>4, FetchTyped DEF Handled
    <3>6. ASSUME NEW h \in handlers'
          PROVE  Handled(h)'
      <4>1. CASE h \in handlers
        BY <3>5, <4>1
      <4>2. CASE h = [request |-> r, base |-> m.auth]
        BY <2>1, <3>1, <3>2, <4>2 DEF Handled, Unsent
      <4> QED
        BY <2>3, <4>1, <4>2
    <3> QED
      BY <1>2, <1>7, <2>1, <2>3, <3>3, <3>6, FetchTyped, GoesOnOwned DEF Owned, Recorded
  <2> QED
    BY <1>7, <2>2, <2>3, FetchTyped
<1>8. CASE Disconnected(r) \/ Finish(r)
  <2>1. req[r].pc \in {"served", "finish"}
    BY <1>8 DEF Disconnected, Finish, At
  <2> QED
    BY <1>8, <2>1, EndingTyped, EndOwned DEF outside
<1>9. ASSUME NEW status \in Status, ContainerAnswer(r, status)
      PROVE  Owned'
  <2>1. PICK h \in handlers :
          /\ h.request = r
          /\ handlers' = handlers \ {h}
          /\ container' = [container EXCEPT !.saved = Offered(h.base).saved]
          /\ IF At(r, "served")
             THEN Go(r, [req[r] EXCEPT !.pc = "answered", !.status = status,
                         !.offer = Offered(h.base).offer, !.base = h.base])
             ELSE UNCHANGED req
          /\ Same /\ UNCHANGED <<object, governor, newest>>
    BY <1>9 DEF ContainerAnswer
  <2>2. /\ Typed' /\ \A q \in Requests \ {r} : req'[q] = req[q]
        /\ h.base \in Cred /\ container.running
        /\ container.env \in Cred /\ container.saved \in Cred
        /\ container'.running /\ container'.env = container.env
        /\ \/ ~At(r, "served") /\ UNCHANGED req
           \/ /\ At(r, "served") /\ req'[r].pc = "answered" /\ req'[r].auth = req[r].auth
              /\ req'[r].offer = Offered(h.base).offer /\ req'[r].base = h.base
    BY <2>1, AnswerTyped
  <2>3. UNCHANGED <<stored, fingerprint, used>>
    BY <2>1 DEF Same, object
  <2>4. \A g \in handlers' : Handled(g)'
    BY <1>3, <2>1, <2>2 DEF Handled, Unsent, At
  <2>5. CASE ~At(r, "served") /\ UNCHANGED req
    <3>1. \A q \in Past' : Owns(req[q])'
      BY <2>2, <2>3, <2>5 DEF Owned, Owns, Past, Recorded
    <3> QED
      BY <2>2, <2>3, <2>4, <3>1 DEF Owned, Recorded
  <2>6. CASE /\ At(r, "served") /\ req'[r].pc = "answered" /\ req'[r].auth = req[r].auth
             /\ req'[r].offer = Offered(h.base).offer /\ req'[r].base = h.base
    <3>1. h.base = m.auth /\ container.env.account = m.auth.account
      BY <1>3, <2>1, <2>6 DEF Handled, At
    <3>2. req'[r].offer # NoCred => req'[r].offer = container.env
      BY <2>2, <2>6, OfferedIs
    <3>3. r \in Past /\ Owns(m)
      BY <1>2, <2>6 DEF At
    <3>4. Owns(req[r])'
      BY <2>2, <2>3, <2>6, <3>1, <3>2, <3>3 DEF Owns, Recorded
    <3> QED
      BY <2>2, <2>3, <2>4, <3>3, <3>4, GoesOnOwned DEF Owned, Recorded
  <2> QED
    BY <2>2, <2>5, <2>6
<1>10. ASSUME m.pc \in {"answered"} \cup Saving,
              \A q \in Requests \ {r} : req'[q] = req[q],
              UNCHANGED <<outside, used>>,
              stored' = stored \/ (m.offer # NoCred /\ stored' = m.offer),
              fingerprint' = fingerprint \/ (m.offer # NoCred /\ fingerprint' = m.offer),
              req'[r].pc \in Saving \cup {"finish"},
              req'[r].auth = m.auth, req'[r].offer = m.offer, req'[r].base = m.base
       PROVE  Owned'
  <2>1. r \in Past /\ Owns(m) /\ m.pc \in Contained /\ m.pc # "start"
    BY <1>2, <1>10 DEF Saving, Contained
  <2>2. /\ m.base = m.auth /\ (m.offer # NoCred => m.offer.account = m.auth.account)
        /\ m.auth.account \in used
        /\ container.running => container.env.account = m.auth.account
    BY <1>10, <2>1 DEF Owns
  <2>3. UNCHANGED <<container, handlers, used>>
    BY <1>10 DEF outside
  <2>4. /\ req'[r].pc # "start"
        /\ Recorded' => m.auth.account = stored'.account
    BY <1>10, <2>1, <2>2 DEF Owns, Recorded, Saving
  <2>5. Owns(req[r])'
    BY <1>10, <2>2, <2>3, <2>4 DEF Owns
  <2>6. \A h \in handlers' : Handled(h)'
    BY <1>3, <1>10, <2>3 DEF Handled, Unsent, Saving
  <2>7. /\ stored' # NoCred => stored'.account \in used'
        /\ fingerprint' # NoCred => fingerprint'.account \in used'
        /\ container'.running => container'.env.account \in used'
    BY <1>10, <2>2, <2>3 DEF Owned
  <2>8. container'.running /\ Recorded' => container'.env.account = stored'.account
    BY <2>2, <2>3, <2>4
  <2> QED
    BY <1>10, <2>1, <2>5, <2>6, <2>7, <2>8, GoesOnOwned
<1>11. CASE ReadStored(r)
  <2>1. m.pc = "answered"
    BY <1>11 DEF ReadStored, At
  <2> QED
    BY <1>1, <1>10, <1>11, <2>1, ReadStoredTyped, MovedIs DEF Saving
<1>12. CASE CompareBase(r)
  <2>1. m.pc = "compare" /\ m.pc \in Saving
    BY <1>12 DEF CompareBase, At, Saving
  <2>2. m.offer # NoCred
    BY <2>1, SeatAssumption DEF Typed, Knows
  <2>3. "checkpoint" \in Saving
    BY DEF Saving
  <2> QED
    BY <1>1, <1>10, <1>12, <2>1, <2>2, <2>3, CompareTyped, MovedIs
<1>13. CASE ReadAgain(r)
  <2>1. m.pc \in Saving /\ {"record", "encrypt"} \subseteq Saving
    BY <1>13 DEF ReadAgain, At, Saving
  <2> QED
    BY <1>1, <1>10, <1>13, <2>1, ReadAgainTyped, MovedIs
<1>14. CASE WriteCheckpoint(r)
  <2>1. m.pc \in Saving /\ "record" \in Saving
    BY <1>14 DEF WriteCheckpoint, At, Saving
  <2> QED
    BY <1>1, <1>10, <1>14, <2>1, WriteTyped, MovedIs, SeatAssumption
<1>15. CASE RecordInjected(r)
  <2>1. m.pc \in Saving
    BY <1>15 DEF RecordInjected, At, Saving
  <2> QED
    BY <1>1, <1>10, <1>15, <2>1, RecordTyped, MovedIs, SeatAssumption
<1> QED
  BY <1>4, <1>5, <1>6, <1>7, <1>8, <1>9, <1>11, <1>12, <1>13, <1>14, <1>15 DEF RequestStep

LEMMA BeginOwned ==
    ASSUME Typed, Owned, NEW r \in Requests, Begin(r)
    PROVE  Owned'
<1>1. req[r].pc = "queued" /\ UNCHANGED <<stored, fingerprint, container, handlers, used>>
  BY DEF Begin, Same, object, outside, At
<1>2. CASE End(r)
  BY <1>1, <1>2, EndOwned
<1>3. CASE /\ req'[r].pc = "ready" /\ req'[r].auth = stored /\ stored \in Cred
           /\ \A q \in Requests \ {r} : req'[q] = req[q]
  <2>1. stored # NoCred /\ "ready" \notin Contained /\ "ready" \notin Saving
    BY <1>3, SeatAssumption DEF Contained, Saving
  <2>2. Owns(req[r])'
    BY <1>1, <1>3, <2>1 DEF Owned, Owns, Recorded
  <2>3. ASSUME NEW q \in Past', q # r
        PROVE  Owns(req[q])'
    <3>1. q \in Past /\ req'[q] = req[q]
      BY <1>3, <2>3 DEF Past
    <3> QED
      BY <1>1, <3>1 DEF Owned, Owns, Recorded
  <2>4. ASSUME NEW h \in handlers'
        PROVE  Handled(h)'
    <3>1. h \in handlers /\ Handled(h) /\ h.request \in Requests /\ h.request # r
      BY <1>1 DEF Owned, Typed, Handled, Unsent
    <3> QED
      BY <1>1, <1>3, <3>1 DEF Handled
  <2> QED
    BY <1>1, <2>2, <2>3, <2>4 DEF Owned, Recorded
<1> QED
  BY <1>2, <1>3, BeginTyped

LEMMA OperatorOwned ==
    ASSUME Typed, Owned,
           \/ \E a \in Accounts : PutAccount(a)
           \/ DeleteAccount \/ RestartForAccount \/ Stop
           \/ \E enabled \in BOOLEAN : SetKillSwitch(enabled)
    PROVE  Owned'
<1>1. /\ UNCHANGED <<req, fingerprint>> /\ Past' = Past
      /\ UNCHANGED <<container, handlers>> \/ (container' = Stopped /\ handlers' = {})
  BY DEF PutAccount, DeleteAccount, RestartForAccount, Stop, StopContainer, SetKillSwitch, outside,
     Past
<1>2. CASE \E a \in Accounts : PutAccount(a)
  <2>1. PICK a \in Accounts : /\ a \notin used /\ used' = used \cup {a} /\ stored'.account = a
                              /\ UNCHANGED <<container, handlers>>
    BY <1>2 DEF PutAccount, outside
  <2>2. ~Recorded'
    BY <1>1, <2>1 DEF Owned, Recorded
  <2> QED
    BY <1>1, <2>1, <2>2 DEF Owned, Owns, Handled
<1>3. CASE ~(\E a \in Accounts : PutAccount(a))
  <2>1. UNCHANGED used /\ stored' \in {stored, NoCred}
    BY <1>3 DEF DeleteAccount, RestartForAccount, Stop, SetKillSwitch
  <2> QED
    BY <1>1, <2>1 DEF Owned, Owns, Handled, Recorded, Stopped
<1> QED
  BY <1>2, <1>3

LEMMA OwnedStep ==
    ASSUME Concurrency = 1, Typed, Books, Owned, [Next]_seatvars
    PROVE  Owned'
<1>1. ASSUME NEW r \in Requests, Arrive(r)
      PROVE  Owned'
  <2>1. /\ req[r].pc = "new" /\ req'[r].pc \in {"queued", "ended"}
        /\ UNCHANGED <<stored, fingerprint, container, handlers, used>>
        /\ \A q \in Requests \ {r} : req'[q] = req[q]
    BY <1>1, ArriveTyped DEF Arrive, Same, object, outside, At
  <2>2. \A q \in Past' : q \in Past /\ req'[q] = req[q]
    BY <2>1 DEF Past, Away
  <2>3. \A q \in Past' : Owns(req[q])'
    BY <2>1, <2>2 DEF Owned, Owns, Recorded
  <2>4. ASSUME NEW h \in handlers'
        PROVE  Handled(h)'
    <3>1. h \in handlers /\ Handled(h) /\ h.request \in Requests /\ h.request # r
      BY <2>1 DEF Owned, Typed, Handled, Unsent
    <3> QED
      BY <2>1, <3>1 DEF Handled
  <2> QED
    BY <2>1, <2>3, <2>4 DEF Owned, Recorded
<1>2. ASSUME NEW r \in Requests, RequestStep(r)
      PROVE  Owned'
  BY <1>2, BeginOwned, RunStepOwned
<1>3. ASSUME NEW r \in Requests, Abort(r)
      PROVE  Owned'
  BY <1>3, AbortTyped, EndOwned DEF object, outside
<1>4. CASE Rotate
  <2>1. /\ UNCHANGED <<stored, fingerprint, req, handlers, used>> /\ Past' = Past
        /\ container'.env.account = container.env.account /\ container'.running /\ container.running
    BY <1>4, RotateTyped DEF object, Past
  <2> QED
    BY <2>1 DEF Owned, Owns, Handled, Recorded
<1>5. CASE \/ \E a \in Accounts : PutAccount(a)
           \/ DeleteAccount \/ RestartForAccount \/ Stop
           \/ \E enabled \in BOOLEAN : SetKillSwitch(enabled)
  BY <1>5, OperatorOwned
<1>6. CASE Evict
  <2>1. /\ UNCHANGED <<stored, fingerprint, container, handlers, used>> /\ Past' = {}
        /\ \A r \in Requests : req[r].pc # "new" => req'[r].pc = "ended"
    BY <1>6, EvictTyped DEF object, outside, Past, Away
  <2>2. ASSUME NEW h \in handlers'
        PROVE  Handled(h)'
    <3>1. h \in handlers /\ Handled(h) /\ h.request \in Requests
      BY <2>1 DEF Owned, Typed
    <3> QED
      BY <2>1, <3>1 DEF Handled, Unsent
  <2> QED
    BY <2>1, <2>2 DEF Owned, Recorded
<1>7. CASE UNCHANGED seatvars
  <2>1. UNCHANGED <<stored, fingerprint, container, handlers, used, req>> /\ Past' = Past
    BY <1>7 DEF seatvars, object, outside, Past
  <2> QED
    BY <2>1 DEF Owned, Owns, Handled, Recorded
<1> QED
  BY <1>1, <1>2, <1>3, <1>4, <1>5, <1>6, <1>7 DEF Next
-----------------------------------------------------------------------------
(* Rotations.                                                              *)

Unsaved == {"answered", "compare", "checkpoint", "encrypt"}

\* A request past the queue, until its checkpoint is written: the row still
\* holds what it read, if it holds that account at all; and what it was offered
\* is a newer rotation, which the container runs with and knows to be unsaved.
Pending(m) ==
    /\ m.pc \notin Away \cup {"record", "finish"} /\ stored # NoCred /\ stored.account = m.auth.account
         => stored = m.auth
    /\ m.pc \in Saving => stored # NoCred
    /\ m.pc = "compare" => m.seen = stored
    /\ m.pc \in {"checkpoint", "encrypt"} => stored = m.auth
    /\ m.pc = "record" => stored = m.offer
    /\ m.pc \in Unsaved /\ m.offer # NoCred /\ stored # NoCred /\ stored.account = m.auth.account
         => /\ stored.rotation < m.offer.rotation
            /\ container.running => container.env = m.offer /\ container.saved = stored

\* The container is not behind the row, and knows it when the row is behind.
Ahead == container.running /\ stored # NoCred /\ container.env.account = stored.account =>
    /\ stored.rotation <= container.env.rotation
    /\ container.env = stored \/ container.saved = stored

\* No handler was named a rotation newer than the row's.
Behind == \A h \in handlers :
    stored # NoCred /\ stored.account = h.base.account => h.base.rotation <= stored.rotation

Offers == Ahead /\ Behind /\ \A r \in Past : Pending(req[r])

Inputs == <<stored, container, handlers>>

LEMMA EndOffers ==
    ASSUME Typed, Offers, NEW r \in Requests, req[r].pc \notin {"new", "ended"}, End(r),
           UNCHANGED Inputs
    PROVE  Offers'
<1>1. req'[r].pc = "ended" /\ \A q \in Requests \ {r} : req'[q] = req[q]
  BY EndTyped
<1>2. \A q \in Past' : q \in Past /\ req'[q] = req[q]
  BY <1>1 DEF Past, Away
<1> QED
  BY <1>2 DEF Offers, Ahead, Behind, Pending, Inputs

\* The one request that is past the queue goes on.
LEMMA GoesOnOffers ==
    ASSUME Concurrency = 1, Typed, Books, NEW r \in Past,
           \A q \in Requests \ {r} : req'[q] = req[q],
           Pending(req[r])', Ahead', Behind'
    PROVE  Offers'
<1>1. \A q \in Past : q = r
  BY OnePast
<1>2. \A q \in Past' : q = r
  BY <1>1 DEF Past
<1> QED
  BY <1>2 DEF Offers

\* A request that is being saved, or nearly so, goes on; the row changes only
\* to what was offered.
LEMMA SavingOffers ==
    ASSUME Concurrency = 1, Typed, Books, Owned, Offers, NEW r \in Requests,
           ReadStored(r) \/ CompareBase(r) \/ ReadAgain(r) \/ WriteCheckpoint(r) \/ RecordInjected(r)
    PROVE  Offers'
<1> DEFINE m == req[r]
<1>1. /\ m.pc \in {"answered"} \cup Saving /\ UNCHANGED <<container, handlers>>
      /\ \A q \in Requests \ {r} : req'[q] = req[q]
  BY ReadStoredTyped, CompareTyped, ReadAgainTyped, WriteTyped, RecordTyped
     DEF ReadStored, CompareBase, ReadAgain, WriteCheckpoint, RecordInjected, At, Saving, outside
<1>2. r \in Past /\ Owns(m) /\ Pending(m)
  BY <1>1 DEF Past, Away, Saving, Offers, Owned
<1>3. m.base = m.auth /\ (m.offer # NoCred => m.offer.account = m.auth.account)
  BY <1>1, <1>2 DEF Owns
<1>4. {"finish", "checkpoint", "record", "encrypt"} \subseteq States
  BY DEF States, Saving
<1>5. ASSUME req'[r].pc = "finish", stored' = stored
      PROVE  Offers'
  <2>1. Pending(req[r])' /\ Ahead' /\ Behind'
    BY <1>1, <1>5 DEF Pending, Saving, Unsaved, Offers, Ahead, Behind
  <2> QED
    BY <1>1, <1>2, <2>1, GoesOnOffers
<1>6. ASSUME stored' = stored, m.pc \in Unsaved,
             req'[r].auth = m.auth, req'[r].offer = m.offer,
             stored # NoCred,
             \/ req'[r].pc = "compare" /\ req'[r].seen = stored
             \/ req'[r].pc \in {"checkpoint", "encrypt"} /\ stored = m.auth
             \/ req'[r].pc = "record" /\ stored = m.offer
      PROVE  Offers'
  <2>1. Pending(req[r])'
    BY <1>1, <1>2, <1>6 DEF Pending, Saving, Unsaved, Away
  <2>2. Ahead' /\ Behind'
    BY <1>1, <1>6 DEF Offers, Ahead, Behind
  <2> QED
    BY <1>1, <1>2, <2>1, <2>2, GoesOnOffers
<1>7. CASE ReadStored(r)
  <2>1. m.pc = "answered" /\ stored' = stored /\ m.pc \in Unsaved
    BY <1>7, ReadStoredTyped DEF ReadStored, At, Unsaved
  <2> QED
    BY <1>4, <1>5, <1>6, <1>7, <2>1, ReadStoredTyped, MovedIs
<1>8. CASE CompareBase(r)
  <2>1. m.pc = "compare" /\ stored' = stored /\ m.pc \in Unsaved
    BY <1>8, CompareTyped DEF CompareBase, At, Unsaved
  <2>2. m.seen = stored /\ stored # NoCred
    BY <1>2, <2>1 DEF Pending, Saving
  <2> QED
    BY <1>3, <1>4, <1>5, <1>6, <1>8, <2>1, <2>2, CompareTyped, MovedIs
<1>9. CASE ReadAgain(r)
  <2>1. m.pc = "checkpoint" /\ stored' = stored /\ m.pc \in Unsaved
    BY <1>9, ReadAgainTyped DEF ReadAgain, At, Unsaved
  <2>2. stored = m.auth /\ stored # NoCred
    BY <1>2, <2>1 DEF Pending, Saving
  <2> QED
    BY <1>4, <1>5, <1>6, <1>9, <2>1, <2>2, ReadAgainTyped, MovedIs
<1>10. CASE WriteCheckpoint(r)
  <2>1. /\ m.pc = "encrypt" /\ stored' = m.offer /\ m.offer \in Cred /\ m.offer # NoCred
        /\ m.pc \in Unsaved
    BY <1>10, WriteTyped, SeatAssumption DEF WriteCheckpoint, At, Unsaved
  <2>2. stored = m.auth /\ stored # NoCred /\ stored \in Cred
    BY <1>2, <2>1 DEF Pending, Saving, Typed, MaybeCred
  <2>3. /\ stored.rotation < m.offer.rotation /\ stored'.account = stored.account
        /\ container.running => container.env = m.offer
    BY <1>2, <1>3, <2>1, <2>2 DEF Pending
  <2>4. req'[r].pc = "record" /\ req'[r].offer = m.offer
    BY <1>4, <1>10, WriteTyped, MovedIs
  <2>5. Pending(req[r])'
    BY <2>1, <2>4 DEF Pending, Unsaved
  <2>6. stored.rotation \in Int /\ m.offer.rotation \in Int
        /\ \A h \in handlers : h.base.rotation \in Int
    BY <2>1, <2>2 DEF Typed, Cred
  <2>7. Ahead'
    BY <1>1, <2>1, <2>3, <2>6 DEF Ahead
  <2>8. Behind'
    BY <1>1, <2>1, <2>2, <2>3, <2>6 DEF Offers, Behind
  <2> QED
    BY <1>1, <1>2, <2>5, <2>7, <2>8, GoesOnOffers
<1>11. CASE RecordInjected(r)
  <2>1. req'[r].pc = "finish" /\ stored' = stored
    BY <1>4, <1>11, RecordTyped, MovedIs
  <2> QED
    BY <1>5, <2>1
<1> QED
  BY <1>7, <1>8, <1>9, <1>10, <1>11

\* An answer offers what the row is behind of, and forgets nothing the row
\* does not hold.
LEMMA AnswerOffers ==
    ASSUME Concurrency = 1, Typed, Books, Owned, Offers, NEW r \in Requests,
           NEW status \in Status, ContainerAnswer(r, status)
    PROVE  Offers'
<1> DEFINE m == req[r]
<1>1. PICK h \in handlers :
        /\ h.request = r
        /\ handlers' = handlers \ {h}
        /\ container' = [container EXCEPT !.saved = Offered(h.base).saved]
        /\ IF At(r, "served")
           THEN Go(r, [req[r] EXCEPT !.pc = "answered", !.status = status,
                       !.offer = Offered(h.base).offer, !.base = h.base])
           ELSE UNCHANGED req
        /\ Same /\ UNCHANGED <<object, governor, newest>>
  BY DEF ContainerAnswer
<1>2. /\ \A q \in Requests \ {r} : req'[q] = req[q]
      /\ h.base \in Cred /\ container.running
      /\ container.env \in Cred /\ container.saved \in Cred
      /\ container'.running /\ container'.env = container.env
      /\ container'.saved = Offered(h.base).saved
      /\ \/ ~At(r, "served") /\ UNCHANGED req
         \/ /\ At(r, "served") /\ req'[r].pc = "answered" /\ req'[r].auth = req[r].auth
            /\ req'[r].offer = Offered(h.base).offer /\ req'[r].base = h.base
  BY <1>1, AnswerTyped
<1>3. UNCHANGED stored /\ handlers' \subseteq handlers /\ stored \in MaybeCred
  BY <1>1 DEF object, Typed
<1>4. h.base.account = container.env.account /\ Handled(h)
  BY DEF Owned, Handled
<1>5. stored # NoCred => stored \in Cred
  BY <1>3 DEF MaybeCred
<1>6. /\ container.env = [account |-> container.env.account, rotation |-> container.env.rotation]
      /\ container.env.rotation \in Int /\ h.base.rotation \in Int
      /\ stored # NoCred => /\ stored = [account |-> stored.account, rotation |-> stored.rotation]
                            /\ stored.rotation \in Int
  BY <1>2, <1>5 DEF Cred
\* Where the container runs with the row's account, it forgets no rotation.
<1>7. ASSUME stored # NoCred, container.env.account = stored.account
      PROVE  /\ container.env = stored \/ container'.saved = stored
             /\ container.saved = stored => container'.saved = stored
  <2>1. /\ stored.rotation <= container.env.rotation /\ h.base.rotation <= stored.rotation
        /\ container.env = stored \/ container.saved = stored
    BY <1>2, <1>4, <1>7 DEF Offers, Ahead, Behind
  <2>2. CASE container.env = h.base
    <3>1. container.env = stored
      BY <1>6, <1>7, <2>1, <2>2
    <3> QED
      BY <1>2, <2>2, <3>1, OfferedIs
  <2>3. CASE container.env # h.base
    <3>1. container'.saved = container.saved
      BY <1>2, <2>3, OfferedIs
    <3> QED
      BY <2>1, <3>1
  <2> QED
    BY <2>2, <2>3
<1>8. Ahead'
  BY <1>2, <1>3, <1>7 DEF Offers, Ahead
<1>9. Behind'
  BY <1>3 DEF Offers, Behind
<1>10. CASE ~At(r, "served") /\ UNCHANGED req
  <2>1. ASSUME NEW q \in Past'
        PROVE  Pending(req[q])'
    <3>1. q \in Past /\ Pending(req[q]) /\ Owns(req[q])
      BY <1>10 DEF Past, Offers, Owned
    <3>2. req[q].pc \in Unsaved /\ container.running => container.env.account = req[q].auth.account
      BY <3>1 DEF Owns, Unsaved, Contained, Saving
    <3> QED
      BY <1>2, <1>3, <1>7, <1>10, <3>1, <3>2 DEF Pending
  <2> QED
    BY <1>8, <1>9, <2>1 DEF Offers
<1>11. CASE /\ At(r, "served") /\ req'[r].pc = "answered" /\ req'[r].auth = req[r].auth
            /\ req'[r].offer = Offered(h.base).offer /\ req'[r].base = h.base
  <2>1. r \in Past /\ Pending(m) /\ h.base = m.auth
    BY <1>1, <1>4, <1>11 DEF Offers, Past, Away, At, Handled
  <2>2. stored # NoCred /\ stored.account = m.auth.account => stored = m.auth
    BY <1>11, <2>1 DEF Pending, Away, At
  <2>3. ASSUME req'[r].offer # NoCred, stored # NoCred, stored.account = m.auth.account
        PROVE  /\ stored.rotation < req'[r].offer.rotation
               /\ container'.env = req'[r].offer /\ container'.saved = stored
    <3>1. /\ req'[r].offer = container.env /\ h.base = container.saved /\ h.base # container.env
          /\ stored = m.auth /\ h.base = stored
      BY <1>2, <1>11, <2>1, <2>2, <2>3, OfferedIs
    <3>2. container.env.account = stored.account
      BY <1>4, <3>1
    <3>3. stored.rotation <= container.env.rotation
      BY <1>2, <2>3, <3>2 DEF Offers, Ahead
    <3> QED
      BY <1>2, <1>6, <1>7, <2>3, <3>1, <3>2, <3>3
  <2>4. Pending(req[r])'
    BY <1>3, <1>11, <2>2, <2>3 DEF Pending, Saving
  <2> QED
    BY <1>2, <1>8, <1>9, <2>1, <2>4, GoesOnOffers
<1> QED
  BY <1>2, <1>10, <1>11

\* The container is started with what the request read.
LEMMA RunStepOffers ==
    ASSUME Concurrency = 1, Typed, Books, Owned, Offers, NEW r \in Requests,
           RequestStep(r), ~Begin(r)
    PROVE  Offers'
<1> DEFINE m == req[r]
<1>1. /\ {"fetch", "start", "ports", "served"} \subseteq States \ Away
      /\ {"fetch", "start", "ports", "served", "ready"}
           \cap (Saving \cup Unsaved \cup Away \cup {"record", "finish"}) = {}
  BY DEF States, Saving, Away, Unsaved
<1>2. ASSUME m.pc \in {"ready", "start", "ports", "fetch"}
      PROVE  /\ r \in Past /\ Pending(m) /\ Owns(m) /\ m.auth \in Cred /\ m.auth # NoCred
             /\ stored # NoCred /\ stored.account = m.auth.account => stored = m.auth
  <2>1. r \in Past /\ m.auth \in Cred
    BY <1>2 DEF Past, Away, Typed, Knows
  <2> QED
    BY <1>1, <1>2, <2>1, SeatAssumption DEF Pending, Offers, Owned
<1>3. ASSUME m.pc \in {"ready", "start", "ports", "fetch"},
             NEW pc \in {"fetch", "start", "ports", "served"}, req'[r] = Moved(r, pc),
             stored' = stored, Ahead', Behind',
             \A q \in Requests \ {r} : req'[q] = req[q]
      PROVE  Offers'
  <2>1. req'[r].pc = pc /\ req'[r].auth = m.auth
    BY <1>1, <1>3, MovedIs
  <2>2. Pending(req[r])'
    BY <1>1, <1>2, <1>3, <2>1 DEF Pending
  <2> QED
    BY <1>2, <1>3, <2>2, GoesOnOffers
<1>4. CASE EnsureReady(r)
  <2>1. m.pc = "ready" /\ UNCHANGED stored
    BY <1>4 DEF EnsureReady, At
  <2>2. CASE req'[r] = Moved(r, "fetch") /\ UNCHANGED <<container, handlers>>
    <3>1. Ahead' /\ Behind'
      BY <2>1, <2>2 DEF Offers, Ahead, Behind
    <3> QED
      BY <1>3, <1>4, <2>1, <2>2, <3>1, EnsureTyped
  <2>3. CASE req'[r] = Moved(r, "start") /\ ~container'.running
    <3>1. handlers' = {}
      BY <1>4, <2>3, EnsureTyped DEF Typed
    <3>2. Ahead' /\ Behind'
      BY <2>3, <3>1 DEF Ahead, Behind
    <3> QED
      BY <1>3, <1>4, <2>1, <2>3, <3>2, EnsureTyped
  <2> QED
    BY <1>4, <2>2, <2>3, EnsureTyped
<1>5. CASE StartContainer(r)
  <2>1. /\ m.pc = "start" /\ UNCHANGED <<stored, handlers>>
        /\ container'.env = m.auth /\ container'.saved = m.auth
    BY <1>5 DEF StartContainer, At, Same
  <2>2. handlers' = {}
    BY <1>2, <2>1 DEF Owns, Typed
  <2>3. m.auth.rotation <= m.auth.rotation
    BY <1>2, <2>1 DEF Cred
  <2>4. Ahead' /\ Behind'
    BY <1>2, <2>1, <2>2, <2>3 DEF Ahead, Behind
  <2> QED
    BY <1>3, <1>5, <2>1, <2>4, StartTyped
<1>6. CASE PortsReady(r)
  <2>1. m.pc = "ports" /\ UNCHANGED Inputs
    BY <1>6 DEF PortsReady, At, Same, outside, Inputs
  <2>2. Ahead' /\ Behind'
    BY <2>1 DEF Offers, Ahead, Behind, Inputs
  <2> QED
    BY <1>3, <1>6, <2>1, <2>2, PortsTyped, EndOffers DEF Inputs
<1>7. CASE ContainerFetch(r)
  <2>1. m.pc = "fetch" /\ UNCHANGED <<stored, container>>
    BY <1>7 DEF ContainerFetch, At
  <2>2. CASE End(r) /\ UNCHANGED handlers
    BY <2>1, <2>2, EndOffers DEF Inputs
  <2>3. CASE /\ req'[r] = Moved(r, "served")
             /\ handlers' = handlers \cup {[request |-> r, base |-> m.auth]}
    <3>1. m.auth.rotation <= m.auth.rotation
      BY <1>2, <2>1 DEF Cred
    <3>2. Behind'
      BY <1>2, <2>1, <2>3, <3>1 DEF Offers, Behind
    <3>3. Ahead'
      BY <2>1 DEF Offers, Ahead
    <3> QED
      BY <1>3, <1>7, <2>1, <2>3, <3>2, <3>3, FetchTyped
  <2> QED
    BY <1>7, <2>2, <2>3, FetchTyped
<1>8. CASE Disconnected(r) \/ Finish(r)
  <2>1. req[r].pc \in {"served", "finish"}
    BY <1>8 DEF Disconnected, Finish, At
  <2> QED
    BY <1>8, <2>1, EndingTyped, EndOffers DEF outside, Inputs
<1> QED
  BY <1>4, <1>5, <1>6, <1>7, <1>8, AnswerOffers, SavingOffers DEF RequestStep

LEMMA BeginOffers ==
    ASSUME Typed, Offers, NEW r \in Requests, Begin(r)
    PROVE  Offers'
<1>1. req[r].pc = "queued" /\ UNCHANGED Inputs
  BY DEF Begin, Same, object, outside, At, Inputs
<1>2. CASE End(r)
  BY <1>1, <1>2, EndOffers
<1>3. CASE /\ req'[r].pc = "ready" /\ req'[r].auth = stored /\ stored \in Cred
           /\ \A q \in Requests \ {r} : req'[q] = req[q]
  <2>1. Pending(req[r])'
    BY <1>1, <1>3 DEF Pending, Saving, Unsaved, Inputs
  <2>2. ASSUME NEW q \in Past', q # r
        PROVE  Pending(req[q])'
    <3>1. q \in Past /\ req'[q] = req[q] /\ Pending(req[q])
      BY <1>3, <2>2 DEF Past, Offers
    <3> QED
      BY <1>1, <3>1 DEF Pending, Inputs
  <2>3. Ahead' /\ Behind'
    BY <1>1 DEF Offers, Ahead, Behind, Inputs
  <2> QED
    BY <2>1, <2>2, <2>3 DEF Offers
<1> QED
  BY <1>2, <1>3, BeginTyped

\* The operator provisions an account that nothing else is of, and only while
\* no checkpoint is being saved.
LEMMA OperatorOffers ==
    ASSUME "overlap" \notin Faults, Typed, Owned, Offers,
           \/ \E a \in Accounts : PutAccount(a)
           \/ DeleteAccount \/ RestartForAccount \/ Stop
           \/ \E enabled \in BOOLEAN : SetKillSwitch(enabled)
    PROVE  Offers'
<1>1. /\ UNCHANGED req /\ Past' = Past
      /\ UNCHANGED <<container, handlers>> \/ (container' = Stopped /\ handlers' = {})
  BY DEF PutAccount, DeleteAccount, RestartForAccount, Stop, StopContainer, SetKillSwitch, outside,
     Past
<1>2. ~Stopped.running
  BY DEF Stopped
<1>3. ASSUME NEW q \in Past
      PROVE  Pending(req[q]) /\ Owns(req[q])
  BY DEF Offers, Owned
<1>4. CASE UNCHANGED stored
  <2>1. \A q \in Past : Pending(req[q])'
    BY <1>1, <1>2, <1>3, <1>4 DEF Pending
  <2> QED
    BY <1>1, <1>2, <1>4, <2>1 DEF Offers, Ahead, Behind
<1>5. CASE (\E a \in Accounts : PutAccount(a)) \/ DeleteAccount
  <2>1. UNCHANGED <<container, handlers>> /\ \A q \in Past : req[q].pc \notin Saving
    BY <1>5 DEF PutAccount, DeleteAccount, MayChange, Under, Past, outside
  <2>2. stored' # NoCred => stored'.account \notin used
    BY <1>5 DEF PutAccount, DeleteAccount
  <2>3. \A q \in Past : Pending(req[q])'
    BY <1>1, <1>3, <2>1, <2>2 DEF Pending, Saving, Owns
  <2>4. Ahead'
    BY <2>1, <2>2 DEF Owned, Ahead
  <2>5. ASSUME NEW h \in handlers
        PROVE  h.base.account \in used
    BY DEF Owned, Handled, Typed
  <2>6. Behind'
    BY <2>1, <2>2, <2>5 DEF Behind
  <2> QED
    BY <1>1, <2>3, <2>4, <2>6 DEF Offers
<1>6. CASE ~((\E a \in Accounts : PutAccount(a)) \/ DeleteAccount)
  <2>1. UNCHANGED stored
    BY <1>6 DEF RestartForAccount, Stop, SetKillSwitch
  <2> QED
    BY <1>4, <2>1
<1> QED
  BY <1>5, <1>6

\* Without "short", a token is rotated when the last rotation is known to be
\* saved: then the row holds it.
LEMMA RotateOffers ==
    ASSUME "short" \notin Faults, Typed, Owned, Offers, Rotate
    PROVE  Offers'
<1>1. /\ UNCHANGED <<stored, req, handlers>> /\ Past' = Past
      /\ container.env \in Cred /\ container'.env.account = container.env.account
      /\ container'.env.rotation = container.env.rotation + 1
      /\ container'.saved = container.saved /\ container.running
      /\ container.env = container.saved
  BY RotateTyped DEF object, Past
<1>2. container.env.rotation \in Int
  BY <1>1 DEF Cred
<1>3. stored # NoCred /\ container.env.account = stored.account => container.env = stored
  BY <1>1 DEF Offers, Ahead
<1>4. Ahead' /\ Behind'
  BY <1>1, <1>2, <1>3 DEF Offers, Ahead, Behind
<1>5. ASSUME NEW q \in Past
      PROVE  Pending(req[q])'
  <2>1. Pending(req[q]) /\ Owns(req[q])
    BY DEF Offers, Owned
  <2>2. req[q].pc \in Unsaved => container.env.account = req[q].auth.account
    BY <1>1, <2>1 DEF Owns, Unsaved, Contained, Saving
  <2>3. ~(/\ req[q].pc \in Unsaved /\ req[q].offer # NoCred /\ stored # NoCred
          /\ stored.account = req[q].auth.account)
    <3> SUFFICES ASSUME req[q].pc \in Unsaved, req[q].offer # NoCred, stored # NoCred,
                        stored.account = req[q].auth.account
                 PROVE  FALSE
      OBVIOUS
    <3>1. stored.rotation < container.env.rotation
      BY <1>1, <2>1 DEF Pending
    <3> QED
      BY <1>2, <1>3, <2>2, <3>1
  <2> QED
    BY <1>1, <2>1, <2>3 DEF Pending
<1> QED
  BY <1>1, <1>4, <1>5 DEF Offers

LEMMA OffersStep ==
    ASSUME Concurrency = 1, "short" \notin Faults, "overlap" \notin Faults,
           Typed, Books, Owned, Offers, [Next]_seatvars
    PROVE  Offers'
<1>1. ASSUME NEW r \in Requests, Arrive(r)
      PROVE  Offers'
  <2>1. /\ req'[r].pc \in {"queued", "ended"} /\ UNCHANGED Inputs
        /\ \A q \in Requests \ {r} : req'[q] = req[q]
    BY <1>1, ArriveTyped DEF Arrive, Same, object, outside, Inputs
  <2>2. \A q \in Past' : q \in Past /\ req'[q] = req[q]
    BY <2>1 DEF Past, Away
  <2> QED
    BY <2>1, <2>2 DEF Offers, Ahead, Behind, Pending, Inputs
<1>2. ASSUME NEW r \in Requests, RequestStep(r)
      PROVE  Offers'
  BY <1>2, BeginOffers, RunStepOffers
<1>3. ASSUME NEW r \in Requests, Abort(r)
      PROVE  Offers'
  BY <1>3, AbortTyped, EndOffers DEF object, outside, Inputs
<1>4. CASE Rotate
  BY <1>4, RotateOffers
<1>5. CASE \/ \E a \in Accounts : PutAccount(a)
           \/ DeleteAccount \/ RestartForAccount \/ Stop
           \/ \E enabled \in BOOLEAN : SetKillSwitch(enabled)
  BY <1>5, OperatorOffers
<1>6. CASE Evict
  <2>1. UNCHANGED Inputs /\ Past' = {}
    BY <1>6, EvictTyped DEF object, outside, Past, Away, Inputs
  <2> QED
    BY <2>1 DEF Offers, Ahead, Behind, Inputs
<1>7. CASE UNCHANGED seatvars
  <2>1. UNCHANGED <<Inputs, req>> /\ Past' = Past
    BY <1>7 DEF seatvars, object, outside, Past, Inputs
  <2> QED
    BY <2>1 DEF Offers, Ahead, Behind, Pending, Inputs
<1> QED
  BY <1>1, <1>2, <1>3, <1>4, <1>5, <1>6, <1>7 DEF Next
-----------------------------------------------------------------------------
(* The theorems.                                                           *)

LEMMA SeatInit == Init => Typed /\ Books /\ Owned /\ Offers
<1> SUFFICES ASSUME Init
             PROVE  Typed /\ Books /\ Owned /\ Offers
  OBVIOUS
<1>1. \A r \in Requests : req[r].pc = "new"
  BY DEF Init, Nobody
<1>2. Admitted = {} /\ Past = {}
  BY <1>1 DEF Admitted, Past, Away
<1>3. Cardinality({}) = 0 /\ Len(<<>>) = 0 /\ Range(<<>>) = {}
  BY FS_EmptySet DEF Range
<1>4. Books
  BY <1>1, <1>2, <1>3, SeatAssumption DEF Init, Books, At
<1>5. Owned /\ Offers
  BY <1>2 DEF Init, Owned, Offers, Recorded, Stopped, Ahead, Behind
<1> QED
  BY <1>4, <1>5, TypedInit

LEMMA BooksAreSound == Typed /\ Books => SeatInv
<1> SUFFICES ASSUME Typed, Books
             PROVE  SeatInv
  OBVIOUS
<1>1. governor.active \in 0 .. Concurrency /\ governor.admitted \in 0 .. Concurrency + MaxQueue
  BY BooksFinite, SeatAssumption DEF Books
<1>2. \A r \in Requests : req[r].auth \in Cred \cup {NoCred} /\ req[r].offer \in Cred \cup {NoCred}
  BY DEF Typed, RequestRecord, MaybeCred
<1>3. container.running <=> container.env \in Cred
  BY SeatAssumption DEF Typed
<1>4. SeatTypeOK
  BY <1>1, <1>2, <1>3 DEF SeatTypeOK, Typed, MaybeCred, Lifecycles
<1>5. AdmittedAreCounted
  BY DEF Books, AdmittedAreCounted, Admitted
<1> QED
  BY <1>4, <1>5 DEF SeatInv

\* SeatInvocationGovernor, whatever the concurrency and the faults: however the
\* requests end, fail, are aborted or lost with the object, as many are admitted
\* and active as are under way and past the queue, and the queue holds exactly
\* those that wait; so neither limit is ever exceeded or eaten up.
THEOREM SeatSound == Spec => []SeatInv
<1>1. Init => Typed /\ Books
  BY SeatInit
<1>2. Typed /\ Books /\ [Next]_seatvars => (Typed /\ Books)'
  BY BooksStep
<1> QED
  BY <1>1, <1>2, BooksAreSound, PTL DEF Spec

\* ensureContainerReady and containerFetch with the one permit SEAT_CONCURRENCY
\* gives (seat-container.ts): what a handler runs with is the account its
\* request was admitted with, under every fault there is.  With two permits it
\* fails: one request restarts the container for its account between another's
\* ensureContainerReady and its fetch.
THEOREM OwnAccountServes ==
    ASSUME Concurrency = 1
    PROVE  Spec => []ServedByOwnAccount
<1> DEFINE Inv == Typed /\ Books /\ Owned
<1>1. Init => Inv
  BY SeatInit
<1>2. Inv /\ [Next]_seatvars => Inv'
  BY BooksStep, OwnedStep
<1>3. Inv => ServedByOwnAccount
  BY DEF Owned, Handled, ServedByOwnAccount
<1> QED
  BY <1>1, <1>2, <1>3, PTL DEF Spec

LEMMA OffersHold ==
    ASSUME Concurrency = 1, "short" \notin Faults, "overlap" \notin Faults
    PROVE  Spec => [](Typed /\ Books /\ Owned /\ Offers)
<1> DEFINE Inv == Typed /\ Books /\ Owned /\ Offers
<1>1. Init => Inv
  BY SeatInit
<1>2. Inv /\ [Next]_seatvars => Inv'
  BY BooksStep, OwnedStep, OffersStep
<1> QED
  BY <1>1, <1>2, PTL DEF Spec

\* checkpointAfterRotation: whatever answers are lost, to a client that gives up
\* or with an object that restarts, a container that runs with a rotation the
\* object has not saved knows the stored one to be the last saved, so that its
\* next answer offers the new one.
THEOREM RotationsAreOffered ==
    ASSUME Concurrency = 1, "short" \notin Faults, "overlap" \notin Faults
    PROVE  Spec => []RotationIsOffered
<1>1. Offers => RotationIsOffered
  BY DEF Offers, Ahead, RotationIsOffered
<1> QED
  BY <1>1, OffersHold, PTL

\* persistCheckpoint writes only over an older rotation of the same account: its
\* comparison with the row, made some awaits before, still holds when it writes.
THEOREM NewerCheckpoints ==
    ASSUME Concurrency = 1, "short" \notin Faults, "overlap" \notin Faults
    PROVE  Spec => CheckpointsAreNewer
<1>1. ASSUME Typed, Owned, Offers, NEW r \in Requests, WriteCheckpoint(r)
      PROVE  /\ stored # NoCred
             /\ stored.account = stored'.account
             /\ stored.rotation <= stored'.rotation
  <2> DEFINE m == req[r]
  <2>1. m.pc = "encrypt" /\ stored' = m.offer /\ m.offer \in Cred /\ m.offer # NoCred
    BY <1>1, WriteTyped, SeatAssumption DEF WriteCheckpoint, At
  <2>2. r \in Past /\ Owns(m) /\ Pending(m)
    BY <1>1, <2>1 DEF Past, Away, Offers, Owned
  <2>3. stored = m.auth /\ stored # NoCred /\ stored \in Cred
    BY <1>1, <2>1, <2>2 DEF Pending, Saving, Typed, MaybeCred
  <2>4. m.offer.account = m.auth.account
    BY <2>1, <2>2 DEF Owns, Saving
  <2>5. stored.rotation < m.offer.rotation
    BY <2>1, <2>2, <2>3 DEF Pending, Unsaved
  <2>6. stored.rotation \in Int /\ m.offer.rotation \in Int
    BY <2>1, <2>3 DEF Cred
  <2> QED
    BY <2>1, <2>3, <2>4, <2>5, <2>6
<1> DEFINE Newer == \A r \in Requests : WriteCheckpoint(r) =>
             /\ stored # NoCred
             /\ stored.account = stored'.account
             /\ stored.rotation <= stored'.rotation
<1>2. Typed /\ Books /\ Owned /\ Offers => Newer
  BY <1>1
<1>3. Spec => [][Newer]_seatvars
  <2>1. Typed /\ Books /\ Owned /\ Offers /\ [Next]_seatvars => [Newer]_seatvars
    BY <1>2
  <2> HIDE DEF Newer
  <2> QED
    BY <2>1, OffersHold, PTL DEF Spec
<1> QED
  BY <1>3 DEF CheckpointsAreNewer
=============================================================================
