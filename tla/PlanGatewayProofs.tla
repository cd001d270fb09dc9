-------------------------- MODULE PlanGatewayProofs --------------------------
(***************************************************************************)
(* Theorems about the gateway runtime, for any number of requests and any  *)
(* limits: reservations do not leak, governors and plans are not           *)
(* overdrawn, usage and the kill switch survive.                           *)
(***************************************************************************)
EXTENDS PlanGateway, FiniteSetTheorems, TLAPS

(* The invariant. *)

Tracker == [entries : SUBSET Usage, reservations : SUBSET Usage,
            credit : [month : Nat, used : Nat]]
Phases == {"new", "hit", "queued", "answer", "ended"} \cup Busy
Results == {"none", "hit"} \cup Reported \cup {"lost", "refused"}
Request == [pc : Phases, seat : Seats, excluded : SUBSET Seats, at : 0 .. MaxTime,
            result : Results]
Registry == [killed : BOOLEAN, alias : Aliases]

\* A request has not tried its seat, and outside attempts it has none.
Plain == {"new", "hit", "answer", "ended"}
Good(rec) ==
    /\ rec \in Request
    /\ rec.seat \notin rec.excluded
    /\ rec.pc \in Plain => rec.excluded = {} /\ rec.result = "none"
    /\ rec.result = "hit" => rec.pc = "recording" /\ rec.excluded = {}

\* A seat a request will not reserve at again.
Spent(rec, seat) == rec.pc \in {"answer", "ended"} \/ seat \in rec.excluded

\* Requests whose use of Claude may have been recorded.
Charged(rec) ==
    \/ Spent(rec, "claude")
    \/ rec.seat = "claude" /\ rec.pc \in {"recording", "refund", "releasing"}
Charges == {r \in Requests : Charged(req[r])}

\* A state of the tracker, at a time and after a number of charges.
TrackerAt(n, c, t) ==
    /\ t \in Tracker
    /\ IsFiniteSet(t.entries) /\ IsFiniteSet(t.reservations)
    /\ \A e \in t.entries \cup t.reservations : e.at <= n
    /\ t.credit.month <= MonthOf(n)
    /\ t.credit.used <= c
TrackerIs(t) == TrackerAt(now, Cardinality(Charges), t)
TrackersAre ==
    /\ TrackerIs(tracker) /\ TrackerIs(file)
    /\ \A t \in stray : TrackerIs(t)
    /\ writer.by # Nobody => TrackerIs(writer.before) /\ TrackerIs(writer.to)

\* Who holds the permit is in the midst of a change.
Changing == {"reserving", "recording", "releasing"}
WriterHas ==
    /\ writer.by \in Requests \cup {Nobody}
    /\ \A r \in Requests : req[r].pc \in Changing <=> writer.by = r

Basics ==
    /\ mode \in Modes
    /\ now \in 0 .. MaxTime
    /\ cached \in BOOLEAN
    /\ fenced \subseteq Seats
    /\ registry \in Registry /\ saved \in Registry
    /\ \A u \in updates : u.to \in Registry
    /\ req \in [Requests -> Request] /\ \A r \in Requests : Good(req[r])
    /\ \A a \in answered : a.usage \in Usage

Permits == \A s \in Seats : Cardinality(Holders(s)) <= Concurrency[s]

\* Whose reservation it is, in the tracker and in the state a failed write
\* restores.
Owning == {"reserving", "calling", "billing", "refund"}
Owned(x) == \E r \in Requests : x.id = Id(r) /\ req[r].pc \in Owning
OwnsBefore(rec) ==
    \/ rec.pc \in {"calling", "billing", "refund", "releasing"}
    \/ rec.pc = "recording" /\ rec.result # "hit"
OwnedBefore(x) == \E r \in Requests : x.id = Id(r) /\ OwnsBefore(req[r])
Ownership ==
    /\ \A x \in tracker.reservations : x.id \in stranded \/ Owned(x)
    /\ writer.by # Nobody =>
          \A x \in writer.before.reservations : x.id \in stranded \/ OwnedBefore(x)

IInv == Basics /\ WriterHas /\ Permits /\ Ownership /\ TrackersAre

-----------------------------------------------------------------------------
(* Months and trackers. *)

LEMMA MonthIs ==
    /\ \A n \in Nat : MonthOf(n) \in Nat
    /\ \A m, n \in Nat : m <= n => MonthOf(m) <= MonthOf(n)
    /\ MonthOf(0) = 0
<1> USE PlanAssumption DEF MonthOf
<1>1. \A M \in Nat \ {0}, a \in Nat : a \div M \in Nat
  OBVIOUS
<1>2. \A M \in Nat \ {0}, a, b \in Nat : a <= b => a \div M <= b \div M
  OBVIOUS
<1>3. \A M \in Nat \ {0} : 0 \div M = 0
  OBVIOUS
<1> QED
  BY <1>1, <1>2, <1>3

LEMMA TrackerLater ==
    ASSUME NEW n \in 0 .. MaxTime, NEW m \in 0 .. MaxTime, n <= m,
           NEW c \in Nat, NEW d \in Nat, c <= d,
           NEW t, TrackerAt(n, c, t)
    PROVE  TrackerAt(m, d, t)
<1> USE PlanAssumption DEF TrackerAt
<1>1. MonthOf(n) \in Nat /\ MonthOf(m) \in Nat /\ MonthOf(n) <= MonthOf(m)
  BY MonthIs
<1>2. t.credit.month \in Nat /\ t.credit.used \in Nat
  BY DEF Tracker
<1>3. \A e \in t.entries \cup t.reservations : e.at \in Nat
  BY DEF Tracker, Usage
<1>4. \A e \in t.entries \cup t.reservations : e.at <= m
  BY <1>3
<1> QED
  BY <1>1, <1>2, <1>4

LEMMA PrunedIs ==
    ASSUME NEW c \in Nat, NEW t, TrackerAt(now, c, t), now \in 0 .. MaxTime
    PROVE  /\ TrackerAt(now, c, Pruned(t))
           /\ \A e : e \in Pruned(t).entries <=> e \in t.entries /\ e.at >= now - Window
           /\ \A x : x \in Pruned(t).reservations <=> x \in t.reservations /\ x.at + Ttl > now
           /\ Pruned(t).credit = t.credit
<1>1. t \in Tracker
  BY DEF TrackerAt
<1>2. /\ Pruned(t) \in Tracker
      /\ Pruned(t).entries = {e \in t.entries : e.at >= now - Window}
      /\ Pruned(t).reservations = {x \in t.reservations : x.at + Ttl > now}
      /\ Pruned(t).credit = t.credit
  BY <1>1 DEF Pruned, Tracker
<1>3. Pruned(t).entries \in SUBSET t.entries /\ Pruned(t).reservations \in SUBSET t.reservations
  BY <1>2
<1>4. IsFiniteSet(Pruned(t).entries) /\ IsFiniteSet(Pruned(t).reservations)
  BY <1>3, FS_Subset DEF TrackerAt
<1> HIDE DEF Pruned
<1> QED
  BY <1>2, <1>3, <1>4 DEF TrackerAt

LEMMA ReservedIs ==
    ASSUME NEW c \in Nat, NEW t, TrackerAt(now, c, t), now \in 0 .. MaxTime,
           NEW r \in Requests, NEW seat \in Seats
    PROVE  /\ TrackerAt(now, c, Reserved(t, r, seat))
           /\ Reserved(t, r, seat).entries = t.entries
           /\ \E x \in Usage :
                 /\ x = [id |-> <<r, seat>>, seat |-> seat, at |-> now]
                 /\ Reserved(t, r, seat).reservations = t.reservations \cup {x}
           /\ Reserved(t, r, seat).credit = t.credit
<1> DEFINE x == [id |-> <<r, seat>>, seat |-> seat, at |-> now]
           new == Reserved(t, r, seat)
<1>1. t \in Tracker
  BY DEF TrackerAt
<1>2. x \in Usage /\ x.at = now
  BY DEF Usage
<1>3. new = [t EXCEPT !.reservations = @ \cup {x}]
  BY DEF Reserved
<1> HIDE DEF x, new
<1>4. /\ new \in Tracker
      /\ new.entries = t.entries
      /\ new.reservations = t.reservations \cup {x}
      /\ new.credit = t.credit
  BY <1>1, <1>2, <1>3 DEF Tracker
<1>5. IsFiniteSet(new.reservations)
  BY <1>4, FS_AddElement DEF TrackerAt
<1>6. now <= now
  BY PlanAssumption
<1>7. TrackerAt(now, c, new)
  BY <1>2, <1>4, <1>5, <1>6 DEF TrackerAt
<1> QED
  BY <1>2, <1>4, <1>7 DEF x, new

LEMMA WithoutIs ==
    ASSUME NEW n \in 0 .. MaxTime, NEW c \in Nat, NEW t, TrackerAt(n, c, t), NEW id
    PROVE  /\ TrackerAt(n, c, Without(t, id))
           /\ Without(t, id).entries = t.entries
           /\ \A x : x \in Without(t, id).reservations <=> x \in t.reservations /\ x.id # id
           /\ Without(t, id).credit = t.credit
<1>1. t \in Tracker
  BY DEF TrackerAt
<1>2. /\ Without(t, id) \in Tracker
      /\ Without(t, id).entries = t.entries
      /\ Without(t, id).reservations = {x \in t.reservations : x.id # id}
      /\ Without(t, id).credit = t.credit
  BY <1>1 DEF Without, Tracker
<1>3. Without(t, id).reservations \in SUBSET t.reservations
  BY <1>2
<1>4. IsFiniteSet(Without(t, id).reservations)
  BY <1>3, FS_Subset DEF TrackerAt
<1> QED
  BY <1>2, <1>3, <1>4 DEF TrackerAt

\* The usage recorded, if it is of a plan, is added to what is not yet out of
\* the window.
LEMMA RecordedIs ==
    ASSUME NEW c \in Nat, NEW t, TrackerAt(now, c, t), now \in 0 .. MaxTime,
           NEW id \in Requests \X Seats, NEW seat \in Seats
    PROVE  /\ TrackerAt(now, IF seat = "claude" THEN c + 1 ELSE c, Recorded(t, id, seat))
           /\ \E e \in Usage :
                 /\ e = [id |-> id, seat |-> seat, at |-> now]
                 /\ \A f : f \in Recorded(t, id, seat).entries <=>
                       \/ f \in t.entries /\ f.at >= now - Window
                       \/ f = e /\ seat # "api"
           /\ \A x : x \in Recorded(t, id, seat).reservations <=>
                 x \in t.reservations /\ x.at + Ttl > now
           /\ Recorded(t, id, seat).credit = IF seat = "claude"
                  THEN [month |-> MonthOf(now), used |-> UsedCredit(t) + 1] ELSE t.credit
<1> DEFINE e == [id |-> id, seat |-> seat, at |-> now]
           new == Recorded(t, id, seat)
           p == Pruned(t)
           more == IF seat = "api" THEN {} ELSE {e}
           d == IF seat = "claude" THEN c + 1 ELSE c
           credit == IF seat = "claude" THEN [month |-> MonthOf(now), used |-> UsedCredit(p) + 1]
                     ELSE p.credit
<1>1. /\ TrackerAt(now, c, p)
      /\ \A f : f \in p.entries <=> f \in t.entries /\ f.at >= now - Window
      /\ \A x : x \in p.reservations <=> x \in t.reservations /\ x.at + Ttl > now
      /\ p.credit = t.credit
  BY PrunedIs
<1>2. e \in Usage /\ e.at = now
  BY DEF Usage
<1>3. new = [p EXCEPT !.entries = IF seat = "api" THEN @ ELSE @ \cup {e}, !.credit = credit]
  BY DEF Recorded
<1>4. UsedCredit(p) = UsedCredit(t)
  BY <1>1 DEF UsedCredit
<1>5. now \in Nat /\ now <= now /\ MonthOf(now) \in Nat /\ MonthOf(now) <= MonthOf(now)
  BY MonthIs, PlanAssumption
<1>6. UsedCredit(p) \in Nat /\ UsedCredit(p) <= c
  BY <1>1 DEF UsedCredit, TrackerAt, Tracker
<1>7. /\ credit \in [month : Nat, used : Nat]
      /\ credit.month <= MonthOf(now)
      /\ credit.used <= d
  <2>1. CASE seat = "claude"
    BY <1>5, <1>6, <2>1
  <2>2. CASE seat # "claude"
    BY <1>1, <2>2 DEF TrackerAt, Tracker
  <2> QED
    BY <2>1, <2>2
<1>8. more \in SUBSET Usage /\ IsFiniteSet(more) /\ \A f \in more : f.at <= now
  BY <1>2, <1>5, FS_Singleton, FS_EmptySet
<1>9. credit = IF seat = "claude" THEN [month |-> MonthOf(now), used |-> UsedCredit(t) + 1]
               ELSE t.credit
  BY <1>1, <1>4
<1>10. new = [p EXCEPT !.entries = p.entries \cup more, !.credit = credit]
  <2>1. p \in Tracker
    BY <1>1 DEF TrackerAt
  <2>2. p.entries \cup more = IF seat = "api" THEN p.entries ELSE p.entries \cup {e}
    OBVIOUS
  <2> HIDE DEF p, more, credit, new, e
  <2> QED
    BY <1>3, <2>1, <2>2 DEF Tracker
<1> HIDE DEF e, new, p, more, credit, d
<1>11. /\ new \in Tracker
       /\ new.entries = p.entries \cup more
       /\ new.reservations = p.reservations
       /\ new.credit = credit
  BY <1>1, <1>7, <1>8, <1>10 DEF TrackerAt, Tracker
<1>12. IsFiniteSet(new.entries)
  <2>1. IsFiniteSet(p.entries)
    BY <1>1 DEF TrackerAt
  <2>2. IsFiniteSet(p.entries \cup more)
    BY <1>8, <2>1, FS_Union
  <2> QED
    BY <1>11, <2>2
<1>13. TrackerAt(now, d, new)
  BY <1>1, <1>7, <1>8, <1>11, <1>12 DEF TrackerAt
<1> QED
  BY <1>1, <1>2, <1>9, <1>11, <1>13 DEF e, new, d, more

-----------------------------------------------------------------------------
(* Requests. *)

\* What no step takes back.
Advances(old, new) ==
    /\ Good(new)
    /\ Charged(old) => Charged(new)
    /\ \A s \in Seats : Spent(old, s) => Spent(new, s)

\* Where a failed attempt leads.
Later(me) ==
    {Over} \cup {rec \in Request :
        /\ rec.pc = "queued" /\ rec.result = "none"
        /\ rec.excluded = me.excluded \cup {me.seat} /\ rec.seat \notin rec.excluded}

LEMMA OverIs ==
    /\ Good(Over) /\ Over.pc = "ended" /\ Over.result = "none"
    /\ Charged(Over) /\ \A s \in Seats : Spent(Over, s)
<1>1. Over = [pc |-> "ended", seat |-> "api", excluded |-> {}, at |-> 0, result |-> "none"]
  BY DEF Over, Unborn
<1>2. Over \in Request
  BY <1>1, PlanAssumption DEF Request, Phases, Results
<1> QED
  BY <1>1, <1>2 DEF Good, Charged, Spent, Plain

LEMMA ResolveIs ==
    ASSUME NEW fences, NEW excluded, NEW policy
    PROVE  Resolve(fences, excluded, policy) \subseteq Seats \ excluded
BY DEF Resolve, Routable

\* A request is routed to a seat that it has not tried.
LEMMA RoutedIs ==
    ASSUME NEW me \in Request, NEW seats, seats \subseteq Seats \ me.excluded
    PROVE  LET rec == Routed(me, seats)
           IN  \/ rec = Over
               \/ /\ rec \in Request
                  /\ rec.pc = "queued" /\ rec.result = "none" /\ rec.at = 0
                  /\ rec.excluded = me.excluded /\ rec.seat \notin me.excluded
<1> DEFINE s == CHOOSE s \in seats : TRUE
           rec == [me EXCEPT !.pc = "queued", !.seat = s, !.result = "none", !.at = 0]
<1>1. CASE seats = {}
  BY <1>1 DEF Routed
<1>2. CASE seats # {}
  <2>1. s \in seats
    BY <1>2
  <2>2. Routed(me, seats) = rec
    BY <1>2 DEF Routed
  <2>3. s \in Seats /\ s \notin me.excluded
    BY <2>1
  <2>4. 0 \in 0 .. MaxTime
    BY PlanAssumption
  <2> HIDE DEF s
  <2>5. /\ rec \in Request
        /\ rec.pc = "queued" /\ rec.result = "none" /\ rec.at = 0
        /\ rec.excluded = me.excluded /\ rec.seat = s
    BY <2>3, <2>4 DEF Request, Phases, Results
  <2> QED
    BY <2>2, <2>3, <2>5
<1> QED
  BY <1>1, <1>2

LEMMA OnwardIs ==
    ASSUME NEW r \in Requests, Good(req[r]), NEW retryable
    PROVE  Onward(r, retryable) \in Later(req[r])
<1> DEFINE me == req[r]
           excluded == me.excluded \cup {me.seat}
           you == [me EXCEPT !.excluded = excluded]
           seats == Resolve(fenced, excluded, "fallback")
<1>1. me \in Request
  BY DEF Good
<1>2. Onward(r, retryable) = IF ~retryable THEN Over ELSE Routed(you, seats)
  BY DEF Onward
<1>3. seats \subseteq Seats \ excluded
  BY ResolveIs
<1> HIDE DEF me, seats
<1>4. you \in Request /\ you.excluded = excluded
  BY <1>1 DEF Request
<1> HIDE DEF you
<1>5. LET rec == Routed(you, seats)
      IN  \/ rec = Over
          \/ /\ rec \in Request
             /\ rec.pc = "queued" /\ rec.result = "none" /\ rec.at = 0
             /\ rec.excluded = you.excluded /\ rec.seat \notin you.excluded
  BY <1>3, <1>4, RoutedIs
<1>6. Onward(r, retryable) \in Later(me)
  BY <1>2, <1>4, <1>5 DEF Later
<1> QED
  BY <1>6 DEF me

LEMMA LaterAdvances ==
    ASSUME NEW me, Good(me), me.pc \notin {"answer", "ended"}, NEW rec \in Later(me)
    PROVE  /\ Advances(me, rec)
           /\ rec.pc \in {"queued", "ended"} /\ Spent(rec, me.seat)
<1>1. CASE rec = Over
  BY <1>1, OverIs DEF Advances, Good, Request
<1>2. CASE rec # Over
  <2>1. /\ rec \in Request /\ rec.pc = "queued" /\ rec.result = "none"
        /\ rec.excluded = me.excluded \cup {me.seat} /\ rec.seat \notin rec.excluded
    BY <1>2 DEF Later
  <2>2. Good(rec)
    BY <2>1 DEF Good, Plain
  <2> QED
    BY <2>1, <2>2 DEF Advances, Charged, Spent
<1> QED
  BY <1>1, <1>2

\* The step of a request within an attempt.
LEMMA AttemptAdvances ==
    ASSUME NEW me, Good(me), me.pc \in Busy, me.result # "hit",
           NEW rec \in Request, rec.pc \in Busy, rec.result # "hit",
           rec.seat = me.seat, rec.excluded = me.excluded,
           \/ me.pc \notin {"recording", "refund", "releasing"}
           \/ rec.pc \in {"recording", "refund", "releasing"}
    PROVE  Advances(me, rec)
<1>1. rec.pc \notin Plain /\ me.pc \notin Plain
  BY DEF Plain, Busy
<1>2. Good(rec)
  BY <1>1 DEF Good
<1> QED
  BY <1>1, <1>2 DEF Advances, Charged, Spent, Plain

\* A step of one request leaves the others as they are.
LEMMA OneMoves ==
    ASSUME Basics, NEW r \in Requests, NEW rec, Advances(req[r], rec),
           req' = [req EXCEPT ![r] = rec]
    PROVE  /\ req' \in [Requests -> Request]
           /\ req'[r] = rec
           /\ \A q \in Requests : q # r => req'[q] = req[q]
           /\ \A q \in Requests : Advances(req[q], req'[q])
<1>1. rec \in Request
  BY DEF Advances, Good
<1>2. req \in [Requests -> Request] /\ \A q \in Requests : Good(req[q])
  BY DEF Basics
<1>3. /\ req' \in [Requests -> Request]
      /\ req'[r] = rec
      /\ \A q \in Requests : q # r => req'[q] = req[q]
  BY <1>1, <1>2
<1>4. \A q \in Requests : Advances(req[q], req[q])
  BY <1>2 DEF Advances
<1> QED
  BY <1>3, <1>4

LEMMA ChargesAre ==
    /\ IsFiniteSet(Charges) /\ Cardinality(Charges) \in Nat
    /\ Cardinality(Charges) <= Cardinality(Requests) /\ Cardinality(Requests) \in Nat
<1>1. Charges \in SUBSET Requests
  BY DEF Charges
<1> QED
  BY <1>1, FS_Subset, FS_CardinalityType, PlanAssumption

\* The number of charges never falls.
LEMMA ChargesGrow ==
    ASSUME \A q \in Requests : Advances(req[q], req'[q])
    PROVE  /\ Cardinality(Charges)' \in Nat
           /\ Cardinality(Charges) <= Cardinality(Charges)'
<1> DEFINE old == {r \in Requests : Charged(req[r])}
           new == {r \in Requests : Charged(req'[r])}
<1>1. old \in SUBSET new /\ new \in SUBSET Requests
  BY DEF Advances
<1> HIDE DEF old, new
<1>2. IsFiniteSet(new)
  BY <1>1, FS_Subset, PlanAssumption
<1>3. Cardinality(old) <= Cardinality(new) /\ Cardinality(new) \in Nat
  BY <1>1, <1>2, FS_Subset, FS_CardinalityType
<1> QED
  BY <1>3 DEF Charges, old, new

\* A state of the tracker stays one.
LEMMA TrackerStays ==
    ASSUME NEW t, TrackerIs(t), now \in 0 .. MaxTime, now' \in 0 .. MaxTime, now <= now',
           \A q \in Requests : Advances(req[q], req'[q])
    PROVE  TrackerAt(now', Cardinality(Charges)', t)
<1> DEFINE c == Cardinality(Charges)
           d == Cardinality(Charges)'
<1>1. c \in Nat /\ d \in Nat /\ c <= d
  BY ChargesAre, ChargesGrow
<1>2. TrackerAt(now, c, t)
  BY DEF TrackerIs
<1> HIDE DEF c, d
<1>3. TrackerAt(now', d, t)
  BY <1>1, <1>2, TrackerLater
<1> QED
  BY <1>3 DEF d

LEMMA PermitsStay ==
    ASSUME Permits,
           \A q \in Requests : Holds(q)' => Holds(q) /\ req'[q].seat = req[q].seat
    PROVE  Permits'
<1> SUFFICES ASSUME NEW s \in Seats PROVE Cardinality(Holders(s)') <= Concurrency[s]
  BY DEF Permits
<1> DEFINE old == Holders(s)
           new == Holders(s)'
<1>1. new \in SUBSET old /\ old \in SUBSET Requests
  BY DEF Holders
<1>2. Cardinality(old) <= Concurrency[s]
  BY DEF Permits
<1> HIDE DEF old, new
<1>3. IsFiniteSet(old) /\ IsFiniteSet(new)
  BY <1>1, FS_Subset, PlanAssumption
<1>4. /\ Cardinality(new) <= Cardinality(old)
      /\ Cardinality(new) \in Nat /\ Cardinality(old) \in Nat
  BY <1>1, <1>3, FS_Subset, FS_CardinalityType
<1>5. Concurrency[s] \in Nat
  BY PlanAssumption
<1>6. Cardinality(new) <= Concurrency[s]
  BY <1>2, <1>4, <1>5
<1> QED
  BY <1>6 DEF new

-----------------------------------------------------------------------------
(* What each step does to the request that takes it. *)

LEMMA OverAdvances ==
    ASSUME NEW me
    PROVE  Advances(me, Over)
BY OverIs DEF Advances

LEMMA ArriveIs ==
    ASSUME IInv, NEW r \in Requests, Arrive(r)
    PROVE  /\ \E rec : /\ req' = [req EXCEPT ![r] = rec] /\ Advances(req[r], rec)
                       /\ rec.pc \in {"hit", "queued", "ended"} /\ rec.result = "none"
           /\ tracker' \in {tracker, Pruned(tracker)}
           /\ fenced' \subseteq Seats
<1> DEFINE me == req[r]
<1>1. Good(me) /\ me \in Request /\ fenced \subseteq Seats
  BY DEF IInv, Basics, Good
<1>2. me.pc = "new" /\ me.excluded = {} /\ me.result = "none"
  BY <1>1 DEF Arrive, Good, Plain
<1>3. CASE Go(r, [me EXCEPT !.pc = "hit"]) /\ UNCHANGED <<tracker, fenced>>
  <2> DEFINE rec == [me EXCEPT !.pc = "hit"]
  <2>1. rec \in Request /\ rec.pc = "hit" /\ rec.seat = me.seat /\ rec.excluded = {} /\ rec.result = "none"
    BY <1>1, <1>2 DEF Request, Phases
  <2>2. Advances(me, rec)
    BY <1>2, <2>1 DEF Advances, Good, Charged, Spent
  <2> QED
    BY <1>1, <1>3, <2>1, <2>2 DEF Go
<1>4. CASE Go(r, Over) /\ UNCHANGED <<tracker, fenced>>
  <2>1. Advances(me, Over) /\ Over.pc = "ended" /\ Over.result = "none"
    BY OverIs, OverAdvances
  <2> QED
    BY <1>1, <1>4, <2>1 DEF Go
<1>5. CASE Refresh /\ Go(r, Routed(me, Resolve(fenced', {}, Policy)))
  <2> DEFINE rec == Routed(me, Resolve(fenced', {}, Policy))
  <2>1. Resolve(fenced', {}, Policy) \subseteq Seats \ me.excluded
    BY <1>2, ResolveIs
  <2>2. \/ rec = Over
        \/ /\ rec \in Request
           /\ rec.pc = "queued" /\ rec.result = "none"
           /\ rec.excluded = me.excluded /\ rec.seat \notin me.excluded
    BY <1>1, <2>1, RoutedIs
  <2> HIDE DEF rec
  <2>3. Advances(me, rec) /\ rec.pc \in {"queued", "ended"} /\ rec.result = "none"
    <3>1. CASE rec = Over
      BY <3>1, OverIs, OverAdvances
    <3>2. CASE rec # Over
      <4>1. /\ rec \in Request
            /\ rec.pc = "queued" /\ rec.result = "none"
            /\ rec.excluded = {} /\ rec.seat \notin rec.excluded
        BY <1>2, <2>2, <3>2
      <4> QED
        BY <1>2, <4>1 DEF Advances, Good, Charged, Spent, Plain
    <3> QED
      BY <3>1, <3>2
  <2>4. req' = [req EXCEPT ![r] = rec]
    BY <1>5 DEF Go, rec
  <2>5. tracker' = Pruned(tracker) /\ fenced' \subseteq Seats
    BY <1>5, PlanAssumption DEF Refresh, Exhausted
  <2> QED
    BY <2>3, <2>4, <2>5
<1> QED
  BY <1>3, <1>4, <1>5 DEF Arrive

LEMMA HitIs ==
    ASSUME IInv, NEW r \in Requests, Hit(r)
    PROVE  \E rec : /\ req' = [req EXCEPT ![r] = rec] /\ Advances(req[r], rec)
                    /\ rec.pc = "recording" /\ rec.result = "hit"
<1> DEFINE me == req[r]
           rec == [me EXCEPT !.pc = "recording", !.result = "hit"]
<1>1. Good(me) /\ me \in Request /\ me.pc = "hit"
  BY DEF IInv, Basics, Good, Hit
<1>2. me.excluded = {} /\ me.result = "none"
  BY <1>1 DEF Good, Plain
<1>3. /\ rec \in Request /\ rec.pc = "recording" /\ rec.result = "hit"
      /\ rec.seat = me.seat /\ rec.excluded = {}
  BY <1>1, <1>2 DEF Request, Phases, Busy, Results
<1>4. req' = [req EXCEPT ![r] = rec]
  BY DEF Hit, Go
<1> HIDE DEF rec
<1>5. Advances(me, rec)
  BY <1>1, <1>2, <1>3 DEF Advances, Good, Charged, Spent, Plain
<1> QED
  BY <1>3, <1>4, <1>5

\* A reservation is made, or another seat is tried.
LEMMA ReserveIs ==
    ASSUME IInv, NEW r \in Requests, Reserve(r)
    PROVE  /\ req[r].pc = "queued" /\ req[r].result # "hit" /\ Permitted(req[r].seat)
           /\ writer.by = Nobody
           /\ \/ /\ Admits(Pruned(tracker), req[r].seat)
                 /\ Change(r, Reserved(Pruned(tracker), r, req[r].seat))
                 /\ \E rec : /\ req' = [req EXCEPT ![r] = rec] /\ Advances(req[r], rec)
                             /\ rec.pc = "reserving" /\ rec.result = req[r].result
                             /\ rec.seat = req[r].seat /\ rec.at = now
                             /\ rec.excluded = req[r].excluded
              \/ /\ tracker' = Pruned(tracker) /\ UNCHANGED <<file, writer, stray>>
                 /\ \E rec : /\ req' = [req EXCEPT ![r] = rec] /\ Advances(req[r], rec)
                             /\ rec.pc \in {"queued", "ended"}
<1> DEFINE me == req[r]
           rec == [me EXCEPT !.pc = "reserving", !.at = now]
<1>1. /\ Good(me) /\ me \in Request /\ me.pc = "queued" /\ me.result # "hit"
      /\ Permitted(me.seat) /\ writer.by = Nobody /\ now \in 0 .. MaxTime
  BY DEF IInv, Basics, Good, Reserve
<1>2. CASE Admits(Pruned(tracker), me.seat)
  <2>1. /\ rec \in Request /\ rec.pc = "reserving" /\ rec.result = me.result
        /\ rec.seat = me.seat /\ rec.at = now /\ rec.excluded = me.excluded
    BY <1>1 DEF Request, Phases, Busy
  <2>2. req' = [req EXCEPT ![r] = rec] /\ Change(r, Reserved(Pruned(tracker), r, me.seat))
    BY <1>2 DEF Reserve, Go
  <2> HIDE DEF rec
  <2>3. Advances(me, rec)
    BY <1>1, <2>1 DEF Advances, Good, Charged, Spent, Plain
  <2> QED
    BY <1>1, <1>2, <2>1, <2>2, <2>3
<1>3. CASE ~Admits(Pruned(tracker), me.seat)
  <2>1. /\ tracker' = Pruned(tracker) /\ UNCHANGED <<file, writer, stray>>
        /\ req' = [req EXCEPT ![r] = Onward(r, TRUE)]
    BY <1>3 DEF Reserve, Go
  <2>2. Onward(r, TRUE) \in Later(me)
    BY <1>1, OnwardIs
  <2>3. Advances(me, Onward(r, TRUE)) /\ Onward(r, TRUE).pc \in {"queued", "ended"}
    BY <1>1, <2>2, LaterAdvances
  <2> QED
    BY <1>1, <2>1, <2>3
<1> QED
  BY <1>2, <1>3

LEMMA InvokeIs ==
    ASSUME IInv, NEW r \in Requests, Invoke(r)
    PROVE  /\ req[r].pc = "calling" /\ req[r].result # "hit"
           /\ \E rec : /\ req' = [req EXCEPT ![r] = rec] /\ Advances(req[r], rec)
                       /\ rec.pc \in {"billing", "refund"} /\ rec.result # "hit"
                       /\ rec.seat = req[r].seat /\ rec.at = req[r].at
<1> DEFINE me == req[r]
<1>1. Good(me) /\ me.pc = "calling"
  BY DEF IInv, Basics, Invoke
<1>2. me.result # "hit"
  BY <1>1 DEF Good
<1>3. PICK result \in Reported \cup {"lost", "refused"} :
        req' = [req EXCEPT ![r] = [me EXCEPT !.result = result,
                                             !.pc = IF result \in Reported THEN "billing" ELSE "refund"]]
  BY DEF Invoke, Go
<1> DEFINE pc == IF result \in Reported THEN "billing" ELSE "refund"
           rec == [me EXCEPT !.pc = pc, !.result = result]
<1>4. result \in Results /\ result # "hit" /\ pc \in Busy /\ pc \in {"billing", "refund"}
  BY DEF Results, Busy, Reported
<1>5. /\ rec \in Request /\ rec.pc = pc /\ rec.result = result
      /\ rec.seat = me.seat /\ rec.at = me.at /\ rec.excluded = me.excluded
  BY <1>1, <1>4 DEF Good, Request, Phases
<1>6. me.pc \in Busy
  BY <1>1 DEF Busy
<1>7. req' = [req EXCEPT ![r] = rec]
  BY <1>1, <1>3 DEF Good, Request
<1> HIDE DEF rec, pc
<1>8. Advances(me, rec)
  BY <1>1, <1>2, <1>4, <1>5, <1>6, AttemptAdvances
<1> QED
  BY <1>1, <1>2, <1>4, <1>5, <1>7, <1>8

LEMMA ReconcileIs ==
    ASSUME IInv, NEW r \in Requests, Reconcile(r)
    PROVE  /\ req[r].pc = "billing" /\ req[r].result # "hit" /\ writer.by = Nobody
           /\ \/ /\ Has(tracker, Id(r))
                 /\ Change(r, Reconciled(tracker, r))
                 /\ \E rec : /\ req' = [req EXCEPT ![r] = rec] /\ Advances(req[r], rec)
                             /\ rec.pc = "recording" /\ rec.result # "hit"
                             /\ rec.seat = req[r].seat /\ rec.at = req[r].at
              \/ /\ ~Has(tracker, Id(r)) /\ UNCHANGED books
                 /\ req' = [req EXCEPT ![r] = Over]
<1> DEFINE me == req[r]
           rec == [me EXCEPT !.pc = "recording"]
<1>1. Good(me) /\ me.pc = "billing" /\ writer.by = Nobody
  BY DEF IInv, Basics, Reconcile
<1>2. me.result # "hit" /\ me.result \in Results /\ me \in Request
  BY <1>1 DEF Good, Request
<1>3. CASE Has(tracker, Id(r))
  <2>1. req' = [req EXCEPT ![r] = rec] /\ Change(r, Reconciled(tracker, r))
    BY <1>3 DEF Reconcile, Go
  <2>2. /\ rec \in Request /\ rec.pc = "recording" /\ rec.result = me.result
        /\ rec.seat = me.seat /\ rec.at = me.at /\ rec.excluded = me.excluded
    BY <1>2 DEF Request, Phases, Busy
  <2>3. rec.pc \in Busy /\ me.pc \in Busy
    BY <1>1, <2>2 DEF Busy
  <2> HIDE DEF rec
  <2>4. Advances(me, rec)
    BY <1>1, <1>2, <2>2, <2>3, AttemptAdvances
  <2> QED
    BY <1>1, <1>2, <1>3, <2>1, <2>2, <2>4
<1>4. CASE ~Has(tracker, Id(r))
  BY <1>1, <1>2, <1>4 DEF Reconcile, Go
<1> QED
  BY <1>3, <1>4

LEMMA RefundIs ==
    ASSUME IInv, NEW r \in Requests, Refund(r)
    PROVE  /\ req[r].pc = "refund" /\ req[r].result # "hit" /\ writer.by = Nobody
           /\ \/ /\ Has(tracker, Id(r))
                 /\ Change(r, Without(tracker, Id(r)))
                 /\ \E rec : /\ req' = [req EXCEPT ![r] = rec] /\ Advances(req[r], rec)
                             /\ rec.pc = "releasing" /\ rec.result # "hit"
                             /\ rec.seat = req[r].seat /\ rec.at = req[r].at
              \/ /\ ~Has(tracker, Id(r)) /\ UNCHANGED books
                 /\ \E rec : /\ req' = [req EXCEPT ![r] = rec] /\ Advances(req[r], rec)
                             /\ rec.pc \in {"queued", "ended"}
<1> DEFINE me == req[r]
           rec == [me EXCEPT !.pc = "releasing"]
<1>1. Good(me) /\ me.pc = "refund" /\ writer.by = Nobody
  BY DEF IInv, Basics, Refund
<1>2. me.result # "hit" /\ me.result \in Results /\ me \in Request
  BY <1>1 DEF Good, Request
<1>3. CASE Has(tracker, Id(r))
  <2>1. req' = [req EXCEPT ![r] = rec] /\ Change(r, Without(tracker, Id(r)))
    BY <1>3 DEF Refund, Go
  <2>2. /\ rec \in Request /\ rec.pc = "releasing" /\ rec.result = me.result
        /\ rec.seat = me.seat /\ rec.at = me.at /\ rec.excluded = me.excluded
    BY <1>2 DEF Request, Phases, Busy
  <2>3. rec.pc \in Busy /\ me.pc \in Busy
    BY <1>1, <2>2 DEF Busy
  <2> HIDE DEF rec
  <2>4. Advances(me, rec)
    BY <1>1, <1>2, <2>2, <2>3, AttemptAdvances
  <2> QED
    BY <1>1, <1>2, <1>3, <2>1, <2>2, <2>4
<1>4. CASE ~Has(tracker, Id(r))
  <2> DEFINE out == Onward(r, me.result \in Retryable)
  <2>1. UNCHANGED books /\ req' = [req EXCEPT ![r] = out]
    BY <1>4 DEF Refund, Go
  <2>2. out \in Later(me)
    BY <1>1, OnwardIs
  <2>3. Advances(me, out) /\ out.pc \in {"queued", "ended"}
    BY <1>1, <2>2, LaterAdvances
  <2> QED
    BY <1>1, <1>2, <1>4, <2>1, <2>3
<1> QED
  BY <1>3, <1>4

LEMMA AnsweredAdvances ==
    ASSUME NEW me
    PROVE  LET rec == [Unborn EXCEPT !.pc = "answer"]
           IN  Advances(me, rec) /\ rec.pc = "answer" /\ \A s \in Seats : Spent(rec, s)
<1> DEFINE rec == [Unborn EXCEPT !.pc = "answer"]
<1>1. rec = [pc |-> "answer", seat |-> "api", excluded |-> {}, at |-> 0, result |-> "none"]
  BY DEF Unborn
<1>2. rec \in Request
  BY <1>1, PlanAssumption DEF Request, Phases, Results
<1>3. rec.pc = "answer" /\ rec.result = "none" /\ rec.excluded = {}
  BY <1>1
<1> HIDE DEF rec
<1>4. Good(rec)
  BY <1>2, <1>3 DEF Good
<1>5. Advances(me, rec) /\ \A s \in Seats : Spent(rec, s)
  BY <1>3, <1>4 DEF Advances, Charged, Spent
<1> QED
  BY <1>3, <1>5 DEF rec

LEMMA SavedIs ==
    ASSUME IInv, NEW r \in Requests, Saved(r)
    PROVE  /\ writer.by = r /\ Written(TRUE) /\ req[r].pc \in Changing
           /\ \E rec :
                 /\ req' = [req EXCEPT ![r] = rec] /\ Advances(req[r], rec)
                 /\ req[r].pc = "reserving" =>
                       /\ rec.pc = "calling" /\ rec.seat = req[r].seat /\ rec.at = req[r].at
                       /\ req[r].result # "hit"
                 /\ req[r].pc # "reserving" => rec.pc \in {"answer", "queued", "ended"}
                 /\ req[r].pc = "recording" /\ req[r].result # "hit" => Spent(rec, req[r].seat)
           /\ answered' = IF req[r].pc = "recording" /\ req[r].result # "hit"
                          THEN answered \cup {[usage |-> e, since |-> MonthOf(req[r].at)] :
                                                e \in {e \in writer.to.entries : e.id = Id(r)}}
                          ELSE answered
<1> DEFINE me == req[r]
<1>1. Good(me) /\ me \in Request /\ writer.by = r /\ Written(TRUE) /\ me.pc \in Changing
  BY DEF IInv, Basics, Good, WriterHas, Saved
<1>2. CASE me.pc = "reserving"
  <2> DEFINE rec == [me EXCEPT !.pc = "calling"]
  <2>1. /\ rec \in Request /\ rec.pc = "calling" /\ rec.result = me.result
        /\ rec.seat = me.seat /\ rec.at = me.at /\ rec.excluded = me.excluded
    BY <1>1 DEF Request, Phases, Busy
  <2>2. me.result # "hit"
    BY <1>1, <1>2 DEF Good
  <2>3. me.pc \in Busy /\ rec.pc \in Busy
    BY <1>2, <2>1 DEF Busy
  <2>4. req' = [req EXCEPT ![r] = rec] /\ answered' = answered
    BY <1>2 DEF Saved, Go
  <2> HIDE DEF rec
  <2>5. Advances(me, rec)
    BY <1>1, <1>2, <2>1, <2>2, <2>3, AttemptAdvances
  <2> QED
    BY <1>1, <1>2, <2>1, <2>2, <2>4, <2>5
<1>3. CASE me.pc = "recording" /\ me.result = "hit"
  <2>1. req' = [req EXCEPT ![r] = Over] /\ answered' = answered
    BY <1>3 DEF Saved, Go
  <2> QED
    BY <1>1, <1>3, <2>1, OverIs, OverAdvances
<1>4. CASE me.pc = "recording" /\ me.result # "hit"
  <2> DEFINE out == Onward(r, me.result \in Retryable)
             done == [Unborn EXCEPT !.pc = "answer"]
             rec == IF me.result = "ok" THEN done ELSE out
  <2>1. /\ req' = [req EXCEPT ![r] = rec]
        /\ answered' = answered \cup {[usage |-> e, since |-> MonthOf(me.at)] :
                                        e \in {e \in writer.to.entries : e.id = Id(r)}}
    BY <1>4 DEF Saved, Go
  <2>2. me.seat \in Seats
    BY <1>1 DEF Request
  <2>3. Advances(me, rec) /\ rec.pc \in {"answer", "queued", "ended"} /\ Spent(rec, me.seat)
    <3>1. CASE me.result = "ok"
      <4>1. Advances(me, done) /\ done.pc = "answer" /\ Spent(done, me.seat)
        BY <2>2, AnsweredAdvances
      <4> HIDE DEF done
      <4> QED
        BY <3>1, <4>1
    <3>2. CASE me.result # "ok"
      <4>1. out \in Later(me)
        BY <1>1, OnwardIs
      <4> HIDE DEF out
      <4>2. Advances(me, out) /\ out.pc \in {"queued", "ended"} /\ Spent(out, me.seat)
        BY <1>1, <1>4, <4>1, LaterAdvances
      <4> QED
        BY <3>2, <4>2
    <3> QED
      BY <3>1, <3>2
  <2> HIDE DEF rec
  <2> QED
    BY <1>1, <1>4, <2>1, <2>3
<1>5. CASE me.pc = "releasing"
  <2> DEFINE out == Onward(r, me.result \in Retryable)
  <2>1. req' = [req EXCEPT ![r] = out] /\ answered' = answered
    BY <1>5 DEF Saved, Go
  <2>2. out \in Later(me)
    BY <1>1, OnwardIs
  <2>3. Advances(me, out) /\ out.pc \in {"queued", "ended"}
    BY <1>1, <1>5, <2>2, LaterAdvances
  <2> HIDE DEF out
  <2> QED
    BY <1>1, <1>5, <2>1, <2>3
<1> QED
  BY <1>1, <1>2, <1>3, <1>4, <1>5 DEF Changing

LEMMA SaveFailsIs ==
    ASSUME IInv, NEW r \in Requests, SaveFails(r)
    PROVE  /\ writer.by = r /\ Written(FALSE) /\ req[r].pc \in Changing
           /\ \E rec :
                 /\ req' = [req EXCEPT ![r] = rec] /\ Advances(req[r], rec)
                 /\ rec.pc \in {"refund", "queued", "ended"}
                 /\ req[r].pc = "recording" /\ req[r].result # "hit" => rec.pc = "refund"
                 /\ rec.pc = "refund" =>
                       /\ req[r].pc = "recording" /\ req[r].result # "hit"
                       /\ rec.seat = req[r].seat /\ rec.at = req[r].at /\ rec.result # "hit"
           /\ stranded' = IF req[r].pc = "releasing" THEN stranded \cup {Id(r)} ELSE stranded
<1> DEFINE me == req[r]
<1>1. /\ Good(me) /\ me \in Request /\ writer.by = r /\ Written(FALSE) /\ me.pc \in Changing
      /\ stranded' = IF me.pc = "releasing" THEN stranded \cup {Id(r)} ELSE stranded
  BY DEF IInv, Basics, Good, WriterHas, SaveFails
<1>2. CASE me.pc = "recording" /\ me.result # "hit"
           /\ Go(r, [me EXCEPT !.pc = "refund", !.result = "refused"])
  <2> DEFINE rec == [me EXCEPT !.pc = "refund", !.result = "refused"]
  <2>1. /\ rec \in Request /\ rec.pc = "refund" /\ rec.result = "refused"
        /\ rec.seat = me.seat /\ rec.at = me.at /\ rec.excluded = me.excluded
    BY <1>1 DEF Request, Phases, Busy, Results
  <2>2. me.pc \in Busy /\ rec.pc \in Busy
    BY <1>2, <2>1 DEF Busy
  <2>3. req' = [req EXCEPT ![r] = rec]
    BY <1>2 DEF Go
  <2> HIDE DEF rec
  <2>4. Advances(me, rec)
    BY <1>1, <1>2, <2>1, <2>2, AttemptAdvances
  <2> QED
    BY <1>1, <1>2, <2>1, <2>3, <2>4
<1>3. CASE ~(me.pc = "recording" /\ me.result # "hit") /\ Go(r, Over)
  BY <1>1, <1>3, OverIs, OverAdvances DEF Go
<1>4. CASE me.pc = "releasing" /\ Go(r, Onward(r, me.result \in Retryable))
  <2> DEFINE out == Onward(r, me.result \in Retryable)
  <2>1. req' = [req EXCEPT ![r] = out]
    BY <1>4 DEF Go
  <2>2. out \in Later(me)
    BY <1>1, OnwardIs
  <2>3. Advances(me, out) /\ out.pc \in {"queued", "ended"}
    BY <1>1, <1>4, <2>2, LaterAdvances
  <2> HIDE DEF out
  <2> QED
    BY <1>1, <1>4, <2>1, <2>3
<1> QED
  BY <1>2, <1>3, <1>4 DEF SaveFails

LEMMA LeaveIs ==
    ASSUME IInv, NEW r \in Requests, Leave(r)
    PROVE  /\ req[r].pc \in {"hit", "queued", "calling", "billing", "answer"}
           /\ req[r].result # "hit"
           /\ \E rec :
                 /\ req' = [req EXCEPT ![r] = rec] /\ Advances(req[r], rec)
                 /\ \/ /\ req[r].pc \in {"calling", "billing"}
                       /\ rec.pc = "refund" /\ rec.result # "hit"
                       /\ rec.seat = req[r].seat /\ rec.at = req[r].at
                    \/ req[r].pc \notin {"calling", "billing"} /\ rec.pc = "ended"
<1> DEFINE me == req[r]
<1>1. /\ Good(me) /\ me \in Request /\ me.pc \in {"hit", "queued", "calling", "billing", "answer"}
      /\ me.result # "hit"
  BY DEF IInv, Basics, Good, Leave
<1>2. CASE me.pc \in {"calling", "billing"}
  <2> DEFINE rec == [me EXCEPT !.pc = "refund", !.result = "refused"]
  <2>1. /\ rec \in Request /\ rec.pc = "refund" /\ rec.result = "refused"
        /\ rec.seat = me.seat /\ rec.at = me.at /\ rec.excluded = me.excluded
    BY <1>1 DEF Request, Phases, Busy, Results
  <2>2. me.pc \in Busy /\ rec.pc \in Busy
    BY <1>2, <2>1 DEF Busy
  <2>3. req' = [req EXCEPT ![r] = rec]
    BY <1>2 DEF Leave, Left, Go
  <2> HIDE DEF rec
  <2>4. Advances(me, rec)
    BY <1>1, <1>2, <2>1, <2>2, AttemptAdvances
  <2> QED
    BY <1>1, <1>2, <2>1, <2>3, <2>4
<1>3. CASE me.pc \notin {"calling", "billing"}
  <2>1. req' = [req EXCEPT ![r] = Over]
    BY <1>3 DEF Leave, Left, Go
  <2> QED
    BY <1>1, <1>3, <2>1, OverIs, OverAdvances
<1> QED
  BY <1>2, <1>3

LEMMA RestartIs ==
    ASSUME IInv, Restart
    PROVE  /\ req' \in [Requests -> Request]
           /\ \A q \in Requests : Advances(req[q], req'[q]) /\ req'[q].pc \in {"new", "ended"}
           /\ tracker' = Pruned(file) /\ file' \in {file, Pruned(file)}
           /\ writer'.by = Nobody /\ stray' = {}
           /\ \A x \in tracker'.reservations : x.id \in stranded'
<1>1. req' = [q \in Requests |-> IF req[q].pc = "new" THEN req[q] ELSE Over]
  BY DEF Restart
<1>2. \A q \in Requests : Good(req[q]) /\ req[q] \in Request
  BY DEF IInv, Basics, Good
<1>3. ASSUME NEW q \in Requests
      PROVE  Advances(req[q], req'[q]) /\ req'[q].pc \in {"new", "ended"} /\ req'[q] \in Request
  <2>1. CASE req[q].pc = "new"
    BY <1>1, <1>2, <2>1 DEF Advances
  <2>2. CASE req[q].pc # "new"
    <3>1. req'[q] = Over
      BY <1>1, <2>2
    <3> QED
      BY <3>1, OverIs, OverAdvances DEF Good
  <2> QED
    BY <2>1, <2>2
<1>4. req' \in [Requests -> Request]
  BY <1>1, <1>3
<1>5. /\ tracker' = Pruned(file) /\ file' \in {file, Pruned(file)}
      /\ writer'.by = Nobody /\ stray' = {}
  BY DEF Restart, Loaded, Free
<1>6. TrackerAt(now, Cardinality(Charges), file) /\ Cardinality(Charges) \in Nat /\ now \in 0 .. MaxTime
  BY ChargesAre DEF IInv, Basics, TrackersAre, TrackerIs
<1>7. Pruned(file).reservations \subseteq file.reservations
  BY <1>6, PrunedIs
<1>8. \A x \in tracker'.reservations : x.id \in stranded'
  BY <1>5, <1>7 DEF Restart
<1> QED
  BY <1>3, <1>4, <1>5, <1>8

-----------------------------------------------------------------------------
(* Each step keeps the invariant. *)

LEMMA OwnershipStays ==
    ASSUME Ownership, writer' = writer, stranded \subseteq stranded',
           tracker'.reservations \subseteq tracker.reservations,
           \A q \in Requests : req[q].pc \in Owning /\ Has(tracker, Id(q)) =>
               req'[q].pc \in Owning /\ req'[q].seat = req[q].seat,
           writer.by # Nobody => \A q \in Requests : OwnsBefore(req[q]) =>
               OwnsBefore(req'[q]) /\ req'[q].seat = req[q].seat
    PROVE  Ownership'
<1>1. ASSUME NEW x \in tracker'.reservations PROVE x.id \in stranded' \/ Owned(x)'
  <2>1. x \in tracker.reservations
    OBVIOUS
  <2>2. CASE x.id \in stranded
    BY <2>2
  <2>3. CASE Owned(x)
    <3>1. PICK q \in Requests : x.id = Id(q) /\ req[q].pc \in Owning
      BY <2>3 DEF Owned
    <3>2. Has(tracker, Id(q))
      BY <2>1, <3>1 DEF Has
    <3>3. req'[q].pc \in Owning /\ req'[q].seat = req[q].seat
      BY <3>1, <3>2
    <3> QED
      BY <3>1, <3>3 DEF Owned, Id
  <2> QED
    BY <2>1, <2>2, <2>3 DEF Ownership
<1>2. ASSUME writer.by # Nobody, NEW x \in writer.before.reservations
      PROVE  x.id \in stranded' \/ OwnedBefore(x)'
  <2>1. CASE x.id \in stranded
    BY <2>1
  <2>2. CASE OwnedBefore(x)
    <3>1. PICK q \in Requests : x.id = Id(q) /\ OwnsBefore(req[q])
      BY <2>2 DEF OwnedBefore
    <3>2. OwnsBefore(req'[q]) /\ req'[q].seat = req[q].seat
      BY <1>2, <3>1
    <3> QED
      BY <3>1, <3>2 DEF OwnedBefore, Id
  <2> QED
    BY <1>2, <2>1, <2>2 DEF Ownership
<1> QED
  BY <1>1, <1>2 DEF Ownership

\* A change of the tracker remembers the state before it.
LEMMA OwnershipTaken ==
    ASSUME IInv, writer.by = Nobody, NEW r \in Requests, writer' = [by |-> r, before |-> tracker, to |-> tracker'],
           stranded' = stranded,
           \A x \in tracker'.reservations :
               \/ x.id = <<r, req'[r].seat>> /\ req'[r].pc = "reserving"
               \/ x \in tracker.reservations /\ x.id # Id(r)
               \/ x \in tracker.reservations /\ req[r].pc \notin Owning,
           \A q \in Requests : q # r => req'[q] = req[q],
           req[r].pc \in Owning => OwnsBefore(req'[r]) /\ req'[r].seat = req[r].seat
    PROVE  Ownership'
<1>1. ASSUME NEW x \in tracker'.reservations PROVE x.id \in stranded' \/ Owned(x)'
  <2>1. CASE x.id = <<r, req'[r].seat>> /\ req'[r].pc = "reserving"
    BY <2>1 DEF Owned, Id, Owning
  <2>2. CASE x \in tracker.reservations /\ (x.id # Id(r) \/ req[r].pc \notin Owning)
    <3>1. x.id \in stranded \/ Owned(x)
      BY <2>2 DEF IInv, Ownership
    <3>2. CASE Owned(x)
      <4>1. PICK q \in Requests : x.id = Id(q) /\ req[q].pc \in Owning
        BY <3>2 DEF Owned
      <4>2. q # r
        BY <2>2, <4>1
      <4> QED
        BY <4>1, <4>2 DEF Owned, Id
    <3> QED
      BY <3>1, <3>2
  <2> QED
    BY <2>1, <2>2
<1>2. ASSUME NEW x \in tracker.reservations
      PROVE  x.id \in stranded' \/ OwnedBefore(x)'
  <2>1. x.id \in stranded \/ Owned(x)
    BY DEF IInv, Ownership
  <2>2. CASE Owned(x)
    <3>1. PICK q \in Requests : x.id = Id(q) /\ req[q].pc \in Owning
      BY <2>2 DEF Owned
    <3>2. req[q].pc # "reserving"
      BY PlanAssumption DEF IInv, WriterHas, Changing
    <3>3. OwnsBefore(req'[q]) /\ req'[q].seat = req[q].seat
      <4>1. CASE q = r
        BY <3>1, <4>1
      <4>2. CASE q # r
        BY <3>1, <3>2, <4>2 DEF Owning, OwnsBefore
      <4> QED
        BY <4>1, <4>2
    <3> QED
      BY <3>1, <3>3 DEF OwnedBefore, Id
  <2> QED
    BY <2>1, <2>2
<1>3. writer'.before = tracker
  OBVIOUS
<1> QED
  BY <1>1, <1>2, <1>3 DEF Ownership

\* The trackers, when one step of requests follows another and no time passes.
LEMMA TrackersStay ==
    ASSUME IInv, now' = now, \A q \in Requests : Advances(req[q], req'[q])
    PROVE  /\ Cardinality(Charges)' \in Nat
           /\ \A t : TrackerIs(t) => TrackerAt(now', Cardinality(Charges)', t)
<1>1. now \in 0 .. MaxTime
  BY DEF IInv, Basics
<1>2. now <= now'
  BY <1>1, PlanAssumption
<1> QED
  BY <1>1, <1>2, TrackerStays, ChargesGrow

LEMMA PrunedStays ==
    ASSUME IInv, NEW t, TrackerIs(t)
    PROVE  /\ TrackerIs(Pruned(t))
           /\ Pruned(t).reservations \subseteq t.reservations
<1>1. now \in 0 .. MaxTime /\ Cardinality(Charges) \in Nat
  BY ChargesAre DEF IInv, Basics
<1> QED
  BY <1>1, PrunedIs DEF TrackerIs

LEMMA ArriveKeeps ==
    ASSUME IInv, NEW r \in Requests, Arrive(r)
    PROVE  IInv'
<1>1. PICK rec : /\ req' = [req EXCEPT ![r] = rec] /\ Advances(req[r], rec)
                 /\ rec.pc \in {"hit", "queued", "ended"} /\ rec.result = "none"
  BY ArriveIs
<1>2. /\ req' \in [Requests -> Request] /\ req'[r] = rec
      /\ \A q \in Requests : q # r => req'[q] = req[q]
      /\ \A q \in Requests : Advances(req[q], req'[q])
  BY <1>1, OneMoves DEF IInv
<1>3. req[r].pc = "new" /\ tracker' \in {tracker, Pruned(tracker)} /\ fenced' \subseteq Seats
  BY ArriveIs DEF Arrive
<1>4. UNCHANGED <<mode, file, writer, stray, control, cached, now, answered, stranded>>
  BY DEF Arrive
<1>5. Basics'
  BY <1>2, <1>3, <1>4 DEF IInv, Basics, control, Advances
<1>6. WriterHas'
  BY <1>1, <1>2, <1>3, <1>4 DEF IInv, WriterHas, Changing
<1>7. Permits'
  <2>1. \A q \in Requests : Holds(q)' => Holds(q) /\ req'[q].seat = req[q].seat
    BY <1>1, <1>2 DEF Holds, Busy
  <2> QED
    BY <2>1, PermitsStay DEF IInv
<1>8. TrackerIs(tracker)' /\ tracker'.reservations \subseteq tracker.reservations
  <2>1. TrackerIs(tracker') /\ tracker'.reservations \subseteq tracker.reservations
    BY <1>3, PrunedStays DEF IInv, TrackersAre
  <2> QED
    BY <1>2, <1>4, <2>1, TrackersStay DEF TrackerIs
<1>9. Ownership'
  <2>1. \A q \in Requests : req[q].pc \in Owning =>
            req'[q].pc \in Owning /\ req'[q].seat = req[q].seat
    BY <1>2, <1>3 DEF Owning
  <2>2. \A q \in Requests : OwnsBefore(req[q]) =>
            OwnsBefore(req'[q]) /\ req'[q].seat = req[q].seat
    BY <1>2, <1>3 DEF OwnsBefore
  <2> QED
    BY <1>4, <1>8, <2>1, <2>2, OwnershipStays DEF IInv
<1>10. TrackersAre'
  BY <1>2, <1>4, <1>8, TrackersStay DEF IInv, TrackersAre, TrackerIs
<1> QED
  BY <1>5, <1>6, <1>7, <1>9, <1>10 DEF IInv

LEMMA HitKeeps ==
    ASSUME IInv, NEW r \in Requests, Hit(r)
    PROVE  IInv'
<1>1. PICK rec : /\ req' = [req EXCEPT ![r] = rec] /\ Advances(req[r], rec)
                 /\ rec.pc = "recording" /\ rec.result = "hit"
  BY HitIs
<1>2. /\ req' \in [Requests -> Request] /\ req'[r] = rec
      /\ \A q \in Requests : q # r => req'[q] = req[q]
      /\ \A q \in Requests : Advances(req[q], req'[q])
  BY <1>1, OneMoves DEF IInv
<1>3. /\ req[r].pc = "hit" /\ writer.by = Nobody
      /\ tracker' = Pruned(tracker) /\ writer' = [by |-> r, before |-> tracker, to |-> tracker']
      /\ UNCHANGED <<file, stray>>
  BY DEF Hit, Change
<1>4. UNCHANGED <<mode, control, cached, now, answered, stranded, fenced>>
  BY DEF Hit, Same
<1>5. Basics'
  BY <1>2, <1>4 DEF IInv, Basics, control, Advances
<1>6. WriterHas'
  BY <1>1, <1>2, <1>3, PlanAssumption DEF IInv, WriterHas, Changing
<1>7. Permits'
  <2>1. \A q \in Requests : Holds(q)' => Holds(q) /\ req'[q].seat = req[q].seat
    BY <1>1, <1>2 DEF Holds, Busy
  <2> QED
    BY <2>1, PermitsStay DEF IInv
<1>8. /\ TrackerIs(tracker)' /\ tracker'.reservations \subseteq tracker.reservations
      /\ TrackerIs(writer.before)'
  <2>1. /\ TrackerIs(tracker') /\ tracker'.reservations \subseteq tracker.reservations
        /\ TrackerIs(tracker)
    BY <1>3, PrunedStays DEF IInv, TrackersAre
  <2>2. writer'.before = tracker
    BY <1>3
  <2> QED
    BY <1>2, <1>4, <2>1, <2>2, TrackersStay DEF TrackerIs
<1>9. Ownership'
  <2>1. req[r].pc \notin Owning
    BY <1>3 DEF Owning
  <2> QED
    BY <1>2, <1>3, <1>4, <1>8, <2>1, OwnershipTaken
<1>10. TrackersAre'
  BY <1>2, <1>3, <1>4, <1>8, TrackersStay DEF IInv, TrackersAre, TrackerIs
<1> QED
  BY <1>5, <1>6, <1>7, <1>9, <1>10 DEF IInv

\* A permit is taken only where one is left.
LEMMA PermitTaken ==
    ASSUME Permits, NEW r \in Requests, Permitted(req[r].seat), req[r].seat \in Seats,
           req'[r].seat = req[r].seat, ~Holds(r),
           \A q \in Requests : q # r => req'[q] = req[q]
    PROVE  Permits'
<1> SUFFICES ASSUME NEW s \in Seats PROVE Cardinality(Holders(s)') <= Concurrency[s]
  BY DEF Permits
<1> DEFINE old == Holders(s)
           new == Holders(s)'
<1>1. old \in SUBSET Requests /\ r \notin old
  BY DEF Holders
<1>2. IsFiniteSet(old) /\ Cardinality(old) \in Nat
  BY <1>1, FS_Subset, FS_CardinalityType, PlanAssumption
<1>3. Concurrency[s] \in Nat
  BY PlanAssumption
<1>4. CASE s = req[r].seat
  <2>1. new \in SUBSET (old \cup {r})
    BY DEF Holders, Holds
  <2>2. Cardinality(old) < Concurrency[s]
    BY <1>4 DEF Permitted
  <2> HIDE DEF old, new
  <2>3. IsFiniteSet(old \cup {r}) /\ Cardinality(old \cup {r}) = Cardinality(old) + 1
    BY <1>1, <1>2, FS_AddElement
  <2>4. Cardinality(new) <= Cardinality(old \cup {r}) /\ Cardinality(new) \in Nat
    BY <2>1, <2>3, FS_Subset, FS_CardinalityType
  <2>5. Cardinality(new) <= Concurrency[s]
    BY <1>2, <1>3, <2>2, <2>3, <2>4
  <2> QED
    BY <2>5 DEF new
<1>5. CASE s # req[r].seat
  <2>1. new \in SUBSET old
    BY <1>5 DEF Holders, Holds
  <2>2. Cardinality(old) <= Concurrency[s]
    BY DEF Permits
  <2> HIDE DEF old, new
  <2>3. Cardinality(new) <= Cardinality(old) /\ Cardinality(new) \in Nat
    BY <1>2, <2>1, FS_Subset, FS_CardinalityType
  <2>4. Cardinality(new) <= Concurrency[s]
    BY <1>2, <1>3, <2>2, <2>3
  <2> QED
    BY <2>4 DEF new
<1> QED
  BY <1>4, <1>5

LEMMA ReserveKeeps ==
    ASSUME IInv, NEW r \in Requests, Reserve(r)
    PROVE  IInv'
<1> DEFINE p == Pruned(tracker)
           seat == req[r].seat
<1>1. /\ req[r].pc = "queued" /\ req[r].result # "hit" /\ Permitted(seat)
      /\ writer.by = Nobody /\ seat \in Seats
      /\ UNCHANGED <<mode, control, cached, now, answered, stranded, fenced>>
  BY ReserveIs DEF Reserve, Same, IInv, Basics, Request
<1>2. TrackerIs(p) /\ p.reservations \subseteq tracker.reservations /\ TrackerIs(tracker)
  BY PrunedStays DEF IInv, TrackersAre
<1>3. req[r].pc \notin Owning /\ ~OwnsBefore(req[r])
  BY <1>1 DEF Owning, OwnsBefore
<1>4. ASSUME Change(r, Reserved(p, r, seat)), NEW rec,
             req' = [req EXCEPT ![r] = rec], Advances(req[r], rec),
             rec.pc = "reserving", rec.seat = seat
      PROVE  IInv'
  <2>1. /\ req' \in [Requests -> Request] /\ req'[r] = rec
        /\ \A q \in Requests : q # r => req'[q] = req[q]
        /\ \A q \in Requests : Advances(req[q], req'[q])
    BY <1>4, OneMoves DEF IInv
  <2>2. /\ tracker' = Reserved(p, r, seat) /\ writer' = [by |-> r, before |-> tracker, to |-> tracker']
        /\ UNCHANGED <<file, stray>>
    BY <1>4 DEF Change
  <2>3. Basics'
    BY <1>1, <2>1 DEF IInv, Basics, control, Advances
  <2>4. WriterHas'
    BY <1>1, <1>4, <2>1, <2>2, PlanAssumption DEF IInv, WriterHas, Changing
  <2>5. Permits'
    <3>1. ~Holds(r)
      BY <1>1 DEF Holds, Busy
    <3> QED
      BY <1>1, <1>4, <2>1, <3>1, PermitTaken DEF IInv
  <2>6. /\ TrackerIs(tracker')
        /\ \E x : x.id = <<r, seat>> /\ tracker'.reservations = p.reservations \cup {x}
    <3> DEFINE c == Cardinality(Charges)
    <3>1. c \in Nat /\ now \in 0 .. MaxTime /\ TrackerAt(now, c, p)
      BY <1>2, ChargesAre DEF TrackerIs, IInv, Basics
    <3>2. seat \in Seats
      BY <1>1
    <3> HIDE DEF p, c, seat
    <3>3. TrackerAt(now, c, Reserved(p, r, seat))
      BY <3>1, <3>2, ReservedIs
    <3>4. PICK x \in Usage :
             /\ x = [id |-> <<r, seat>>, seat |-> seat, at |-> now]
             /\ Reserved(p, r, seat).reservations = p.reservations \cup {x}
      BY <3>1, <3>2, ReservedIs
    <3>5. x.id = <<r, seat>>
      BY <3>4
    <3> QED
      BY <2>2, <3>3, <3>4, <3>5 DEF TrackerIs, c
  <2>7. TrackerIs(tracker)' /\ TrackerIs(writer.before)'
    <3>1. writer'.before = tracker
      BY <2>2
    <3> QED
      BY <1>1, <1>2, <2>1, <2>6, <3>1, TrackersStay DEF TrackerIs
  <2>8. Ownership'
    <3>1. \A x \in tracker'.reservations :
             \/ x.id = <<r, req'[r].seat>> /\ req'[r].pc = "reserving"
             \/ x \in tracker.reservations /\ req[r].pc \notin Owning
      BY <1>2, <1>3, <1>4, <2>1, <2>6
    <3> QED
      BY <1>1, <1>3, <2>1, <2>2, <3>1, OwnershipTaken
  <2>9. TrackersAre'
    BY <1>1, <2>1, <2>2, <2>7, TrackersStay DEF IInv, TrackersAre, TrackerIs
  <2> QED
    BY <2>3, <2>4, <2>5, <2>8, <2>9 DEF IInv
<1>5. ASSUME tracker' = p, UNCHANGED <<file, writer, stray>>, NEW rec,
             req' = [req EXCEPT ![r] = rec], Advances(req[r], rec),
             rec.pc \in {"queued", "ended"}
      PROVE  IInv'
  <2>1. /\ req' \in [Requests -> Request] /\ req'[r] = rec
        /\ \A q \in Requests : q # r => req'[q] = req[q]
        /\ \A q \in Requests : Advances(req[q], req'[q])
    BY <1>5, OneMoves DEF IInv
  <2>2. Basics'
    BY <1>1, <2>1 DEF IInv, Basics, control, Advances
  <2>3. WriterHas'
    BY <1>1, <1>5, <2>1 DEF IInv, WriterHas, Changing
  <2>4. Permits'
    <3>1. \A q \in Requests : Holds(q)' => Holds(q) /\ req'[q].seat = req[q].seat
      BY <1>5, <2>1 DEF Holds, Busy
    <3> QED
      BY <3>1, PermitsStay DEF IInv
  <2>5. TrackerIs(tracker)' /\ tracker'.reservations \subseteq tracker.reservations
    BY <1>1, <1>2, <1>5, <2>1, TrackersStay DEF TrackerIs
  <2>6. Ownership'
    <3>1. \A q \in Requests : req[q].pc \in Owning =>
              req'[q].pc \in Owning /\ req'[q].seat = req[q].seat
      BY <1>3, <2>1
    <3>2. writer' = writer /\ stranded \subseteq stranded' /\ writer.by = Nobody
      BY <1>1, <1>5
    <3> QED
      BY <2>5, <3>1, <3>2, OwnershipStays DEF IInv
  <2>7. TrackersAre'
    BY <1>1, <1>5, <2>1, <2>5, TrackersStay DEF IInv, TrackersAre, TrackerIs
  <2> QED
    BY <2>2, <2>3, <2>4, <2>6, <2>7 DEF IInv
<1> QED
  BY <1>4, <1>5, ReserveIs

LEMMA InvokeKeeps ==
    ASSUME IInv, NEW r \in Requests, Invoke(r)
    PROVE  IInv'
<1>1. PICK rec : /\ req' = [req EXCEPT ![r] = rec] /\ Advances(req[r], rec)
                 /\ rec.pc \in {"billing", "refund"} /\ rec.result # "hit"
                 /\ rec.seat = req[r].seat
  BY InvokeIs
<1>2. /\ req' \in [Requests -> Request] /\ req'[r] = rec
      /\ \A q \in Requests : q # r => req'[q] = req[q]
      /\ \A q \in Requests : Advances(req[q], req'[q])
  BY <1>1, OneMoves DEF IInv
<1>3. /\ req[r].pc = "calling" /\ req[r].result # "hit"
      /\ UNCHANGED <<mode, control, cached, now, answered, stranded, fenced, tracker, file,
                     writer, stray>>
  BY InvokeIs DEF Invoke, Same, books
<1>4. Basics'
  BY <1>2, <1>3 DEF IInv, Basics, control, Advances
<1>5. WriterHas'
  BY <1>1, <1>2, <1>3 DEF IInv, WriterHas, Changing
<1>6. Permits'
  <2>1. \A q \in Requests : Holds(q)' => Holds(q) /\ req'[q].seat = req[q].seat
    BY <1>1, <1>2, <1>3 DEF Holds, Busy
  <2> QED
    BY <2>1, PermitsStay DEF IInv
<1>7. Ownership'
  <2>1. \A q \in Requests : req[q].pc \in Owning =>
            req'[q].pc \in Owning /\ req'[q].seat = req[q].seat
    BY <1>1, <1>2 DEF Owning
  <2>2. \A q \in Requests : OwnsBefore(req[q]) =>
            OwnsBefore(req'[q]) /\ req'[q].seat = req[q].seat
    BY <1>1, <1>2 DEF OwnsBefore
  <2>3. tracker'.reservations \subseteq tracker.reservations /\ stranded \subseteq stranded'
        /\ writer' = writer
    BY <1>3
  <2> QED
    BY <2>1, <2>2, <2>3, OwnershipStays DEF IInv
<1>8. TrackersAre'
  BY <1>2, <1>3, TrackersStay DEF IInv, TrackersAre, TrackerIs
<1> QED
  BY <1>4, <1>5, <1>6, <1>7, <1>8 DEF IInv

\* The usage of Claude's that is recorded is the request's first.
LEMMA Charge ==
    ASSUME IInv, NEW r \in Requests, req[r].pc = "billing", req[r].seat = "claude",
           req'[r].pc = "recording", req'[r].seat = "claude",
           \A q \in Requests : Advances(req[q], req'[q])
    PROVE  Cardinality(Charges) + 1 <= Cardinality(Charges)'
<1> DEFINE old == {q \in Requests : Charged(req[q])}
           new == {q \in Requests : Charged(req'[q])}
<1>1. ~Charged(req[r])
  BY DEF IInv, Basics, Good, Charged, Spent
<1>2. Charged(req'[r])
  BY DEF Charged
<1>3. old \cup {r} \in SUBSET new /\ new \in SUBSET Requests /\ r \notin old /\ old \in SUBSET Requests
  BY <1>1, <1>2 DEF Advances
<1> HIDE DEF old, new
<1>4. IsFiniteSet(new) /\ IsFiniteSet(old)
  BY <1>3, FS_Subset, PlanAssumption
<1>5. IsFiniteSet(old \cup {r}) /\ Cardinality(old \cup {r}) = Cardinality(old) + 1
  BY <1>3, <1>4, FS_AddElement
<1>6. Cardinality(old \cup {r}) <= Cardinality(new)
  BY <1>3, <1>4, FS_Subset
<1> QED
  BY <1>5, <1>6 DEF Charges, old, new

LEMMA ReconcileKeeps ==
    ASSUME IInv, NEW r \in Requests, Reconcile(r)
    PROVE  IInv'
<1>1. /\ req[r].pc = "billing" /\ req[r].result # "hit" /\ writer.by = Nobody
      /\ req[r].seat \in Seats /\ Good(req[r])
      /\ UNCHANGED <<mode, control, cached, now, answered, stranded, fenced>>
  BY ReconcileIs DEF Reconcile, Same, IInv, Basics, Request
<1>2. ASSUME Change(r, Reconciled(tracker, r)), NEW rec,
             req' = [req EXCEPT ![r] = rec], Advances(req[r], rec),
             rec.pc = "recording", rec.result # "hit", rec.seat = req[r].seat
      PROVE  IInv'
  <2> DEFINE id == Id(r)
             seat == req[r].seat
             w == Without(tracker, id)
             c == Cardinality(Charges)
  <2>1. /\ req' \in [Requests -> Request] /\ req'[r] = rec
        /\ \A q \in Requests : q # r => req'[q] = req[q]
        /\ \A q \in Requests : Advances(req[q], req'[q])
    BY <1>2, OneMoves DEF IInv
  <2>2. /\ tracker' = Recorded(w, id, seat) /\ writer' = [by |-> r, before |-> tracker, to |-> tracker']
        /\ UNCHANGED <<file, stray>>
    BY <1>2 DEF Change, Reconciled
  <2>3. Basics'
    BY <1>1, <2>1 DEF IInv, Basics, control, Advances
  <2>4. WriterHas'
    BY <1>1, <1>2, <2>1, <2>2, PlanAssumption DEF IInv, WriterHas, Changing
  <2>5. Permits'
    <3>1. \A q \in Requests : Holds(q)' => Holds(q) /\ req'[q].seat = req[q].seat
      BY <1>1, <1>2, <2>1 DEF Holds, Busy
    <3> QED
      BY <3>1, PermitsStay DEF IInv
  <2>6. /\ TrackerIs(tracker)'
        /\ \A x \in tracker'.reservations : x \in tracker.reservations /\ x.id # id
    <3>1. c \in Nat /\ now \in 0 .. MaxTime /\ TrackerAt(now, c, tracker)
      BY ChargesAre DEF TrackerIs, IInv, Basics, TrackersAre
    <3>2. seat \in Seats /\ id \in Requests \X Seats
      BY <1>1 DEF Id
    <3> HIDE DEF id, seat, c
    <3>3. /\ TrackerAt(now, c, w)
          /\ \A x : x \in w.reservations <=> x \in tracker.reservations /\ x.id # id
      BY <3>1, WithoutIs
    <3> HIDE DEF w
    <3>4. /\ TrackerAt(now, IF seat = "claude" THEN c + 1 ELSE c, tracker')
          /\ \A x : x \in tracker'.reservations <=> x \in w.reservations /\ x.at + Ttl > now
      BY <2>2, <3>1, <3>2, <3>3, RecordedIs
    <3>5. now' = now /\ now <= now
      BY <1>1, <3>1, PlanAssumption
    <3> DEFINE d == Cardinality(Charges)'
    <3>6. d \in Nat /\ c <= d
      BY <2>1, ChargesGrow DEF c
    <3>7. CASE seat = "claude"
      <4>1. c + 1 <= d
        BY <1>1, <1>2, <2>1, <3>7, Charge DEF c, seat
      <4>2. c + 1 \in Nat
        BY <3>1
      <4> DEFINE e == c + 1
      <4>3. TrackerAt(now, e, tracker')
        BY <3>4, <3>7
      <4>4. e \in Nat /\ e <= d
        BY <4>1, <4>2
      <4> HIDE DEF d, e
      <4>5. TrackerAt(now', d, tracker')
        BY <3>1, <3>5, <3>6, <4>3, <4>4, TrackerLater
      <4> QED
        BY <3>3, <3>4, <4>5 DEF TrackerIs, d
    <3>8. CASE seat # "claude"
      <4>1. TrackerAt(now, c, tracker')
        BY <3>4, <3>8
      <4> HIDE DEF d
      <4>2. TrackerAt(now', d, tracker')
        BY <3>1, <3>5, <3>6, <4>1, TrackerLater
      <4> QED
        BY <3>3, <3>4, <4>2 DEF TrackerIs, d
    <3> QED
      BY <3>7, <3>8
  <2>7. TrackerIs(writer.before)'
    <3>1. writer'.before = tracker
      BY <2>2
    <3> QED
      BY <1>1, <2>1, <3>1, TrackersStay DEF TrackerIs, IInv, TrackersAre
  <2>8. Ownership'
    <3>1. OwnsBefore(req'[r]) /\ req'[r].seat = req[r].seat
      BY <1>2, <2>1 DEF OwnsBefore
    <3> QED
      BY <1>1, <2>1, <2>2, <2>6, <3>1, OwnershipTaken
  <2>9. TrackersAre'
    BY <1>1, <2>1, <2>2, <2>6, <2>7, TrackersStay DEF IInv, TrackersAre, TrackerIs
  <2> QED
    BY <2>3, <2>4, <2>5, <2>8, <2>9 DEF IInv
<1>3. ASSUME ~Has(tracker, Id(r)), UNCHANGED books, req' = [req EXCEPT ![r] = Over]
      PROVE  IInv'
  <2>1. Advances(req[r], Over) /\ Over.pc = "ended"
    BY OverIs, OverAdvances
  <2>2. /\ req' \in [Requests -> Request] /\ req'[r] = Over
        /\ \A q \in Requests : q # r => req'[q] = req[q]
        /\ \A q \in Requests : Advances(req[q], req'[q])
    BY <1>3, <2>1, OneMoves DEF IInv
  <2>3. UNCHANGED <<tracker, file, writer, stray>>
    BY <1>3 DEF books
  <2>4. Basics'
    BY <1>1, <2>2 DEF IInv, Basics, control, Advances
  <2>5. WriterHas'
    BY <1>1, <2>1, <2>2, <2>3 DEF IInv, WriterHas, Changing
  <2>6. Permits'
    <3>1. \A q \in Requests : Holds(q)' => Holds(q) /\ req'[q].seat = req[q].seat
      BY <2>1, <2>2 DEF Holds, Busy
    <3> QED
      BY <3>1, PermitsStay DEF IInv
  <2>7. Ownership'
    <3>1. \A q \in Requests : req[q].pc \in Owning /\ Has(tracker, Id(q)) =>
              req'[q].pc \in Owning /\ req'[q].seat = req[q].seat
      BY <1>3, <2>2
    <3>2. /\ writer' = writer /\ stranded \subseteq stranded' /\ writer.by = Nobody
          /\ tracker'.reservations \subseteq tracker.reservations
      BY <1>1, <2>3
    <3> QED
      BY <3>1, <3>2, OwnershipStays DEF IInv
  <2>8. TrackersAre'
    BY <1>1, <2>2, <2>3, TrackersStay DEF IInv, TrackersAre, TrackerIs
  <2> QED
    BY <2>4, <2>5, <2>6, <2>7, <2>8 DEF IInv
<1> QED
  BY <1>2, <1>3, ReconcileIs

LEMMA RefundKeeps ==
    ASSUME IInv, NEW r \in Requests, Refund(r)
    PROVE  IInv'
<1>1. /\ req[r].pc = "refund" /\ req[r].result # "hit" /\ writer.by = Nobody
      /\ UNCHANGED <<mode, control, cached, now, answered, stranded, fenced>>
  BY RefundIs DEF Refund, Same
<1>2. ASSUME Change(r, Without(tracker, Id(r))), NEW rec,
             req' = [req EXCEPT ![r] = rec], Advances(req[r], rec),
             rec.pc = "releasing", rec.seat = req[r].seat
      PROVE  IInv'
  <2>1. /\ req' \in [Requests -> Request] /\ req'[r] = rec
        /\ \A q \in Requests : q # r => req'[q] = req[q]
        /\ \A q \in Requests : Advances(req[q], req'[q])
    BY <1>2, OneMoves DEF IInv
  <2>2. /\ tracker' = Without(tracker, Id(r)) /\ writer' = [by |-> r, before |-> tracker, to |-> tracker']
        /\ UNCHANGED <<file, stray>>
    BY <1>2 DEF Change
  <2>3. Basics'
    BY <1>1, <2>1 DEF IInv, Basics, control, Advances
  <2>4. WriterHas'
    BY <1>1, <1>2, <2>1, <2>2, PlanAssumption DEF IInv, WriterHas, Changing
  <2>5. Permits'
    <3>1. \A q \in Requests : Holds(q)' => Holds(q) /\ req'[q].seat = req[q].seat
      BY <1>1, <1>2, <2>1 DEF Holds, Busy
    <3> QED
      BY <3>1, PermitsStay DEF IInv
  <2>6. /\ TrackerIs(tracker')
        /\ \A x \in tracker'.reservations : x \in tracker.reservations /\ x.id # Id(r)
    <3> DEFINE c == Cardinality(Charges)
    <3>1. c \in Nat /\ now \in 0 .. MaxTime /\ TrackerAt(now, c, tracker)
      BY ChargesAre DEF TrackerIs, IInv, Basics, TrackersAre
    <3> HIDE DEF c
    <3> QED
      BY <2>2, <3>1, WithoutIs DEF TrackerIs, c
  <2>7. TrackerIs(tracker)' /\ TrackerIs(writer.before)'
    <3>1. writer'.before = tracker
      BY <2>2
    <3> QED
      BY <1>1, <2>1, <2>6, <3>1, TrackersStay DEF TrackerIs, IInv, TrackersAre
  <2>8. Ownership'
    <3>1. OwnsBefore(req'[r]) /\ req'[r].seat = req[r].seat
      BY <1>2, <2>1 DEF OwnsBefore
    <3> QED
      BY <1>1, <2>1, <2>2, <2>6, <3>1, OwnershipTaken
  <2>9. TrackersAre'
    BY <1>1, <2>1, <2>2, <2>7, TrackersStay DEF IInv, TrackersAre, TrackerIs
  <2> QED
    BY <2>3, <2>4, <2>5, <2>8, <2>9 DEF IInv
<1>3. ASSUME ~Has(tracker, Id(r)), UNCHANGED books, NEW rec,
             req' = [req EXCEPT ![r] = rec], Advances(req[r], rec),
             rec.pc \in {"queued", "ended"}
      PROVE  IInv'
  <2>1. /\ req' \in [Requests -> Request] /\ req'[r] = rec
        /\ \A q \in Requests : q # r => req'[q] = req[q]
        /\ \A q \in Requests : Advances(req[q], req'[q])
    BY <1>3, OneMoves DEF IInv
  <2>2. UNCHANGED <<tracker, file, writer, stray>>
    BY <1>3 DEF books
  <2>3. Basics'
    BY <1>1, <2>1 DEF IInv, Basics, control, Advances
  <2>4. WriterHas'
    BY <1>1, <1>3, <2>1, <2>2 DEF IInv, WriterHas, Changing
  <2>5. Permits'
    <3>1. \A q \in Requests : Holds(q)' => Holds(q) /\ req'[q].seat = req[q].seat
      BY <1>3, <2>1 DEF Holds, Busy
    <3> QED
      BY <3>1, PermitsStay DEF IInv
  <2>6. Ownership'
    <3>1. \A q \in Requests : req[q].pc \in Owning /\ Has(tracker, Id(q)) =>
              req'[q].pc \in Owning /\ req'[q].seat = req[q].seat
      BY <1>3, <2>1
    <3>2. /\ writer' = writer /\ stranded \subseteq stranded' /\ writer.by = Nobody
          /\ tracker'.reservations \subseteq tracker.reservations
      BY <1>1, <2>2
    <3> QED
      BY <3>1, <3>2, OwnershipStays DEF IInv
  <2>7. TrackersAre'
    BY <1>1, <2>1, <2>2, TrackersStay DEF IInv, TrackersAre, TrackerIs
  <2> QED
    BY <2>3, <2>4, <2>5, <2>6, <2>7 DEF IInv
<1> QED
  BY <1>2, <1>3, RefundIs

\* The end of a write: nothing that was reserved is given up, except what a
\* failed refund leaves.
LEMMA OwnershipFreed ==
    ASSUME IInv, NEW r \in Requests, writer.by = r, writer'.by = Nobody,
           stranded \subseteq stranded',
           \A q \in Requests : q # r => req'[q] = req[q],
           \/ /\ tracker' = tracker
              /\ req[r].pc \in Owning => req'[r].pc \in Owning /\ req'[r].seat = req[r].seat
           \/ /\ tracker' = writer.before
              /\ OwnsBefore(req[r]) =>
                    \/ Id(r) \in stranded'
                    \/ req'[r].pc \in Owning /\ req'[r].seat = req[r].seat
    PROVE  Ownership'
<1> SUFFICES ASSUME NEW x \in tracker'.reservations PROVE x.id \in stranded' \/ Owned(x)'
  BY DEF Ownership
<1>1. writer.by # Nobody
  BY PlanAssumption
<1>2. CASE x.id \in stranded
  BY <1>2
<1>3. ASSUME tracker' = tracker, Owned(x),
             req[r].pc \in Owning => req'[r].pc \in Owning /\ req'[r].seat = req[r].seat
      PROVE  Owned(x)'
  <2>1. PICK q \in Requests : x.id = Id(q) /\ req[q].pc \in Owning
    BY <1>3 DEF Owned
  <2>2. req'[q].pc \in Owning /\ req'[q].seat = req[q].seat
    BY <1>3, <2>1
  <2> QED
    BY <2>1, <2>2 DEF Owned, Id
<1>4. ASSUME tracker' = writer.before, OwnedBefore(x),
             OwnsBefore(req[r]) =>
                \/ Id(r) \in stranded'
                \/ req'[r].pc \in Owning /\ req'[r].seat = req[r].seat
      PROVE  x.id \in stranded' \/ Owned(x)'
  <2>1. PICK q \in Requests : x.id = Id(q) /\ OwnsBefore(req[q])
    BY <1>4 DEF OwnedBefore
  <2>2. CASE q = r
    BY <1>4, <2>1, <2>2 DEF Owned, Id
  <2>3. CASE q # r
    <3>1. req[q].pc \notin Changing
      BY <2>3 DEF IInv, WriterHas
    <3>2. req'[q].pc \in Owning /\ req'[q].seat = req[q].seat
      BY <2>1, <2>3, <3>1 DEF OwnsBefore, Changing, Owning
    <3> QED
      BY <2>1, <3>2 DEF Owned, Id
  <2> QED
    BY <2>2, <2>3
<1> QED
  BY <1>1, <1>2, <1>3, <1>4 DEF IInv, Ownership

LEMMA SavedKeeps ==
    ASSUME IInv, NEW r \in Requests, Saved(r)
    PROVE  IInv'
<1>1. PICK rec :
        /\ req' = [req EXCEPT ![r] = rec] /\ Advances(req[r], rec)
        /\ req[r].pc = "reserving" => rec.pc = "calling" /\ rec.seat = req[r].seat
                                       /\ req[r].result # "hit"
        /\ req[r].pc # "reserving" => rec.pc \in {"answer", "queued", "ended"}
  BY SavedIs
<1>2. /\ req' \in [Requests -> Request] /\ req'[r] = rec
      /\ \A q \in Requests : q # r => req'[q] = req[q]
      /\ \A q \in Requests : Advances(req[q], req'[q])
  BY <1>1, OneMoves DEF IInv
<1>3. /\ writer.by = r /\ req[r].pc \in Changing
      /\ writer'.by = Nobody /\ file' = writer.to /\ tracker' = tracker /\ stray' = stray
      /\ TrackerIs(writer.to)
      /\ UNCHANGED <<mode, fenced, control, cached, now, stranded>>
  <2>1. writer.by = r /\ req[r].pc \in Changing /\ Written(TRUE)
    BY SavedIs
  <2>2. writer'.by = Nobody /\ file' = writer.to /\ tracker' = tracker /\ stray' = stray
    BY <2>1 DEF Written, Free
  <2>3. TrackerIs(writer.to)
    BY <2>1, PlanAssumption DEF IInv, TrackersAre
  <2>4. UNCHANGED <<mode, fenced, control, cached, now, stranded>>
    BY DEF Saved
  <2> QED
    BY <2>1, <2>2, <2>3, <2>4
<1>4. \A a \in answered' : a.usage \in Usage
  <2> DEFINE more == {[usage |-> e, since |-> MonthOf(req[r].at)] :
                        e \in {e \in writer.to.entries : e.id = Id(r)}}
  <2>1. answered' \subseteq answered \cup more
    BY SavedIs
  <2>2. \A a \in more : a.usage \in writer.to.entries
    OBVIOUS
  <2>3. writer.to.entries \subseteq Usage
    BY <1>3 DEF TrackerIs, TrackerAt, Tracker
  <2> HIDE DEF more
  <2> QED
    BY <2>1, <2>2, <2>3 DEF IInv, Basics
<1>5. Basics'
  BY <1>2, <1>3, <1>4 DEF IInv, Basics, control, Advances
<1>6. WriterHas'
  BY <1>1, <1>2, <1>3, PlanAssumption DEF IInv, WriterHas, Changing
<1>7. Permits'
  <2>1. \A q \in Requests : Holds(q)' => Holds(q) /\ req'[q].seat = req[q].seat
    BY <1>1, <1>2 DEF Holds, Busy
  <2> QED
    BY <2>1, PermitsStay DEF IInv
<1>8. Ownership'
  <2>1. req[r].pc \in Owning => req'[r].pc \in Owning /\ req'[r].seat = req[r].seat
    BY <1>1, <1>2, <1>3 DEF Owning, Changing
  <2> QED
    BY <1>2, <1>3, <2>1, OwnershipFreed
<1>9. TrackersAre'
  BY <1>2, <1>3, TrackersStay DEF IInv, TrackersAre, TrackerIs
<1> QED
  BY <1>5, <1>6, <1>7, <1>8, <1>9 DEF IInv

LEMMA SaveFailsKeeps ==
    ASSUME IInv, NEW r \in Requests, SaveFails(r)
    PROVE  IInv'
<1>1. PICK rec :
        /\ req' = [req EXCEPT ![r] = rec] /\ Advances(req[r], rec)
        /\ rec.pc \in {"refund", "queued", "ended"}
        /\ req[r].pc = "recording" /\ req[r].result # "hit" => rec.pc = "refund"
        /\ rec.pc = "refund" =>
              /\ req[r].pc = "recording" /\ req[r].result # "hit"
              /\ rec.seat = req[r].seat /\ rec.at = req[r].at /\ rec.result # "hit"
  <2> HIDE DEF IInv
  <2> QED
    BY SaveFailsIs, Zenon
<1>2. /\ req' \in [Requests -> Request] /\ req'[r] = rec
      /\ \A q \in Requests : q # r => req'[q] = req[q]
      /\ \A q \in Requests : Advances(req[q], req'[q])
  BY <1>1, OneMoves DEF IInv
<1>3. /\ writer.by = r /\ req[r].pc \in Changing
      /\ writer'.by = Nobody /\ file' = file /\ tracker' = writer.before /\ stray' = stray
      /\ stranded' = IF req[r].pc = "releasing" THEN stranded \cup {Id(r)} ELSE stranded
      /\ UNCHANGED <<mode, fenced, control, cached, now, answered>>
  BY SaveFailsIs DEF SaveFails, Written, Free, Restored
<1>4. Basics'
  BY <1>2, <1>3 DEF IInv, Basics, control, Advances
<1>5. WriterHas'
  BY <1>1, <1>2, <1>3, PlanAssumption DEF IInv, WriterHas, Changing
<1>6. Permits'
  <2>1. \A q \in Requests : Holds(q)' => Holds(q) /\ req'[q].seat = req[q].seat
    BY <1>1, <1>2 DEF Holds, Busy
  <2> QED
    BY <2>1, PermitsStay DEF IInv
<1>7. Ownership'
  <2>1. OwnsBefore(req[r]) =>
            \/ Id(r) \in stranded'
            \/ req'[r].pc \in Owning /\ req'[r].seat = req[r].seat
    BY <1>1, <1>2, <1>3 DEF Owning, Changing, OwnsBefore
  <2> QED
    BY <1>2, <1>3, <2>1, OwnershipFreed
<1>8. TrackersAre'
  <2>1. TrackerIs(writer.before)
    BY <1>3, PlanAssumption DEF IInv, TrackersAre
  <2> QED
    BY <1>2, <1>3, <2>1, TrackersStay DEF IInv, TrackersAre, TrackerIs
<1> QED
  BY <1>4, <1>5, <1>6, <1>7, <1>8 DEF IInv

LEMMA LeaveKeeps ==
    ASSUME IInv, NEW r \in Requests, Leave(r)
    PROVE  IInv'
<1>1. PICK rec :
        /\ req' = [req EXCEPT ![r] = rec] /\ Advances(req[r], rec)
        /\ \/ /\ req[r].pc \in {"calling", "billing"}
              /\ rec.pc = "refund" /\ rec.seat = req[r].seat
           \/ req[r].pc \notin {"calling", "billing"} /\ rec.pc = "ended"
  BY LeaveIs
<1>2. /\ req' \in [Requests -> Request] /\ req'[r] = rec
      /\ \A q \in Requests : q # r => req'[q] = req[q]
      /\ \A q \in Requests : Advances(req[q], req'[q])
  BY <1>1, OneMoves DEF IInv
<1>3. /\ req[r].pc \in {"hit", "queued", "calling", "billing", "answer"} /\ req[r].result # "hit"
      /\ UNCHANGED <<mode, control, cached, now, answered, stranded, fenced, tracker, file,
                     writer, stray>>
  BY LeaveIs DEF Leave, books
<1>4. Basics'
  BY <1>2, <1>3 DEF IInv, Basics, control, Advances
<1>5. WriterHas'
  BY <1>1, <1>2, <1>3 DEF IInv, WriterHas, Changing
<1>6. Permits'
  <2>1. \A q \in Requests : Holds(q)' => Holds(q) /\ req'[q].seat = req[q].seat
    BY <1>1, <1>2, <1>3 DEF Holds, Busy
  <2> QED
    BY <2>1, PermitsStay DEF IInv
<1>7. Ownership'
  <2>1. \A q \in Requests : req[q].pc \in Owning =>
            req'[q].pc \in Owning /\ req'[q].seat = req[q].seat
    BY <1>1, <1>2, <1>3 DEF Owning
  <2>2. \A q \in Requests : OwnsBefore(req[q]) =>
            OwnsBefore(req'[q]) /\ req'[q].seat = req[q].seat
    BY <1>1, <1>2, <1>3 DEF OwnsBefore
  <2>3. tracker'.reservations \subseteq tracker.reservations /\ stranded \subseteq stranded'
        /\ writer' = writer
    BY <1>3
  <2> QED
    BY <2>1, <2>2, <2>3, OwnershipStays DEF IInv
<1>8. TrackersAre'
  BY <1>2, <1>3, TrackersStay DEF IInv, TrackersAre, TrackerIs
<1> QED
  BY <1>4, <1>5, <1>6, <1>7, <1>8 DEF IInv

LEMMA OvertakeKeeps ==
    ASSUME IInv, NEW r \in Requests, Overtake(r)
    PROVE  IInv'
<1>1. /\ req' = [req EXCEPT ![r] = Over] /\ Advances(req[r], Over) /\ Over.pc = "ended"
  BY OverIs, OverAdvances DEF Overtake, Go
<1>2. /\ req' \in [Requests -> Request] /\ req'[r] = Over
      /\ \A q \in Requests : q # r => req'[q] = req[q]
      /\ \A q \in Requests : Advances(req[q], req'[q])
  BY <1>1, OneMoves DEF IInv
<1>3. /\ writer.by = r /\ req[r].pc = "recording"
      /\ writer'.by = Nobody /\ stray' = stray \cup {writer.to}
      /\ TrackerIs(writer.to)
      /\ UNCHANGED <<mode, tracker, file, fenced, control, cached, now, answered, stranded>>
  BY PlanAssumption DEF Overtake, Free, IInv, TrackersAre
<1>4. Basics'
  BY <1>2, <1>3 DEF IInv, Basics, control, Advances
<1>5. WriterHas'
  BY <1>1, <1>2, <1>3, PlanAssumption DEF IInv, WriterHas, Changing
<1>6. Permits'
  <2>1. \A q \in Requests : Holds(q)' => Holds(q) /\ req'[q].seat = req[q].seat
    BY <1>1, <1>2 DEF Holds, Busy
  <2> QED
    BY <2>1, PermitsStay DEF IInv
<1>7. Ownership'
  <2>1. req[r].pc \notin Owning
    BY <1>3 DEF Owning
  <2> QED
    BY <1>2, <1>3, <2>1, OwnershipFreed
<1>8. TrackersAre'
  BY <1>2, <1>3, TrackersStay DEF IInv, TrackersAre, TrackerIs
<1> QED
  BY <1>4, <1>5, <1>6, <1>7, <1>8 DEF IInv

LEMMA AnswerKeeps ==
    ASSUME IInv, NEW r \in Requests, Answer(r)
    PROVE  IInv'
<1>1. /\ req' = [req EXCEPT ![r] = Over] /\ Advances(req[r], Over) /\ Over.pc = "ended"
  BY OverIs, OverAdvances DEF Answer, Go
<1>2. /\ req' \in [Requests -> Request] /\ req'[r] = Over
      /\ \A q \in Requests : q # r => req'[q] = req[q]
      /\ \A q \in Requests : Advances(req[q], req'[q])
  BY <1>1, OneMoves DEF IInv
<1>3. /\ req[r].pc = "answer" /\ tracker' = Pruned(tracker) /\ fenced' \subseteq Seats
      /\ cached' \in BOOLEAN
      /\ UNCHANGED <<mode, file, writer, stray, control, now, answered, stranded>>
  BY PlanAssumption DEF Answer, Refresh, Exhausted
<1>4. Basics'
  BY <1>2, <1>3 DEF IInv, Basics, control, Advances
<1>5. WriterHas'
  BY <1>1, <1>2, <1>3 DEF IInv, WriterHas, Changing
<1>6. Permits'
  <2>1. \A q \in Requests : Holds(q)' => Holds(q) /\ req'[q].seat = req[q].seat
    BY <1>1, <1>2 DEF Holds, Busy
  <2> QED
    BY <2>1, PermitsStay DEF IInv
<1>7. TrackerIs(tracker)' /\ tracker'.reservations \subseteq tracker.reservations
  <2>1. TrackerIs(tracker') /\ tracker'.reservations \subseteq tracker.reservations
    BY <1>3, PrunedStays DEF IInv, TrackersAre
  <2> QED
    BY <1>2, <1>3, <2>1, TrackersStay DEF TrackerIs
<1>8. Ownership'
  <2>1. \A q \in Requests : req[q].pc \in Owning =>
            req'[q].pc \in Owning /\ req'[q].seat = req[q].seat
    BY <1>2, <1>3 DEF Owning
  <2>2. \A q \in Requests : OwnsBefore(req[q]) =>
            OwnsBefore(req'[q]) /\ req'[q].seat = req[q].seat
    BY <1>2, <1>3 DEF OwnsBefore
  <2> QED
    BY <1>3, <1>7, <2>1, <2>2, OwnershipStays DEF IInv
<1>9. TrackersAre'
  BY <1>2, <1>3, <1>7, TrackersStay DEF IInv, TrackersAre, TrackerIs
<1> QED
  BY <1>4, <1>5, <1>6, <1>8, <1>9 DEF IInv

\* Without a step of a request.
LEMMA SameRequests ==
    ASSUME IInv, req' = req
    PROVE  /\ \A q \in Requests : Advances(req[q], req'[q])
           /\ Permits'
<1>1. \A q \in Requests : Advances(req[q], req'[q])
  BY DEF IInv, Basics, Advances
<1>2. \A q \in Requests : Holds(q)' => Holds(q) /\ req'[q].seat = req[q].seat
  BY DEF Holds
<1>3. Permits'
  BY <1>2, PermitsStay DEF IInv
<1> QED
  BY <1>1, <1>3

LEMMA HealthKeeps ==
    ASSUME IInv, Health
    PROVE  IInv'
<1>1. /\ tracker' = Pruned(tracker) /\ fenced' \subseteq Seats
      /\ UNCHANGED <<mode, file, writer, stray, control, cached, req, now, answered, stranded>>
  BY PlanAssumption DEF Health, Refresh, Exhausted
<1>2. (\A q \in Requests : Advances(req[q], req'[q])) /\ Permits'
  BY <1>1, SameRequests
<1>3. Basics' /\ WriterHas'
  BY <1>1 DEF IInv, Basics, control, WriterHas
<1>4. TrackerIs(tracker)' /\ tracker'.reservations \subseteq tracker.reservations
  <2>1. TrackerIs(tracker') /\ tracker'.reservations \subseteq tracker.reservations
    BY <1>1, PrunedStays DEF IInv, TrackersAre
  <2> QED
    BY <1>1, <1>2, <2>1, TrackersStay DEF TrackerIs
<1>5. Ownership'
  BY <1>1, <1>4, OwnershipStays DEF IInv
<1>6. TrackersAre'
  BY <1>1, <1>2, <1>4, TrackersStay DEF IInv, TrackersAre, TrackerIs
<1> QED
  BY <1>2, <1>3, <1>5, <1>6 DEF IInv

LEMMA StrayKeeps ==
    ASSUME IInv, NEW t \in stray, StrayLands(t)
    PROVE  IInv'
<1>1. /\ file' = t /\ stray' = stray \ {t}
      /\ UNCHANGED <<mode, tracker, writer, fenced, control, cached, req, now, answered, stranded>>
  BY DEF StrayLands
<1>2. (\A q \in Requests : Advances(req[q], req'[q])) /\ Permits'
  BY <1>1, SameRequests
<1>3. Basics' /\ WriterHas'
  BY <1>1 DEF IInv, Basics, control, WriterHas
<1>4. Ownership'
  BY <1>1, OwnershipStays DEF IInv
<1>5. TrackersAre'
  BY <1>1, <1>2, TrackersStay DEF IInv, TrackersAre, TrackerIs
<1> QED
  BY <1>2, <1>3, <1>4, <1>5 DEF IInv

LEMMA RestartKeeps ==
    ASSUME IInv, Restart
    PROVE  IInv'
<1>1. /\ req' \in [Requests -> Request]
      /\ \A q \in Requests : Advances(req[q], req'[q]) /\ req'[q].pc \in {"new", "ended"}
      /\ tracker' = Pruned(file) /\ file' \in {file, Pruned(file)}
      /\ writer'.by = Nobody /\ stray' = {}
      /\ \A x \in tracker'.reservations : x.id \in stranded'
  BY RestartIs
<1>2. /\ fenced' = {} /\ registry' = saved /\ updates' = {}
      /\ UNCHANGED <<mode, saved, switched, cached, now, answered>>
  BY DEF Restart
<1>3. Basics'
  BY <1>1, <1>2 DEF IInv, Basics, Advances
<1>4. WriterHas'
  BY <1>1, PlanAssumption DEF WriterHas, Changing
<1>5. Permits'
  <2>1. \A q \in Requests : Holds(q)' => Holds(q) /\ req'[q].seat = req[q].seat
    BY <1>1 DEF Holds, Busy
  <2> QED
    BY <2>1, PermitsStay DEF IInv
<1>6. Ownership'
  BY <1>1 DEF Ownership
<1>7. TrackersAre'
  <2>1. TrackerIs(file) /\ TrackerIs(Pruned(file))
    BY PrunedStays DEF IInv, TrackersAre
  <2>2. TrackerIs(file') /\ TrackerIs(tracker')
    BY <1>1, <2>1
  <2> QED
    BY <1>1, <1>2, <2>2, TrackersStay DEF TrackersAre, TrackerIs
<1> QED
  BY <1>3, <1>4, <1>5, <1>6, <1>7 DEF IInv

LEMMA TickKeeps ==
    ASSUME IInv, Tick
    PROVE  IInv'
<1>1. /\ now < MaxTime /\ now' = now + 1
      /\ UNCHANGED <<mode, books, fenced, control, cached, req, answered, stranded>>
  BY DEF Tick
<1>2. now \in 0 .. MaxTime /\ now' \in 0 .. MaxTime /\ now <= now'
  BY <1>1, PlanAssumption DEF IInv, Basics
<1>3. (\A q \in Requests : Advances(req[q], req'[q])) /\ Permits'
  BY <1>1, SameRequests
<1>4. Basics' /\ WriterHas'
  BY <1>1, <1>2 DEF IInv, Basics, control, WriterHas, books
<1>5. Ownership'
  BY <1>1, OwnershipStays DEF IInv, books
<1>6. TrackersAre'
  BY <1>1, <1>2, <1>3, TrackerStays DEF IInv, TrackersAre, TrackerIs, books
<1> QED
  BY <1>3, <1>4, <1>5, <1>6 DEF IInv

\* The operator's steps do not touch the books.
LEMMA OperatorKeeps ==
    ASSUME IInv,
           \/ \E killed \in BOOLEAN : SetKilled(killed)
           \/ \E seat \in Aliases : Remap(seat)
           \/ \E u \in updates : Persist(u) \/ PersistFails(u)
    PROVE  IInv'
<1>1. UNCHANGED <<mode, tracker, file, writer, stray, fenced, cached, req, now, answered, stranded>>
  BY DEF SetKilled, Remap, Update, Persist, PersistFails, books
<1>2. registry' \in Registry /\ saved' \in Registry /\ \A u \in updates' : u.to \in Registry
  <2>1. ASSUME NEW change \in Registry, Update(change)
        PROVE  registry' \in Registry /\ saved' \in Registry /\ \A u \in updates' : u.to \in Registry
    BY <2>1 DEF Update, IInv, Basics
  <2>2. ASSUME NEW killed \in BOOLEAN, SetKilled(killed)
        PROVE  registry' \in Registry /\ saved' \in Registry /\ \A u \in updates' : u.to \in Registry
    <3>1. [registry EXCEPT !.killed = killed] \in Registry
      BY DEF IInv, Basics, Registry
    <3> QED
      BY <2>1, <2>2, <3>1 DEF SetKilled
  <2>3. ASSUME NEW seat \in Aliases, Remap(seat)
        PROVE  registry' \in Registry /\ saved' \in Registry /\ \A u \in updates' : u.to \in Registry
    <3>1. [registry EXCEPT !.alias = seat] \in Registry
      BY DEF IInv, Basics, Registry
    <3> QED
      BY <2>1, <2>3, <3>1 DEF Remap
  <2>4. ASSUME NEW u \in updates, Persist(u) \/ PersistFails(u)
        PROVE  registry' \in Registry /\ saved' \in Registry /\ \A v \in updates' : v.to \in Registry
    BY <2>4 DEF Persist, PersistFails, Persisted, IInv, Basics
  <2> QED
    BY <2>2, <2>3, <2>4
<1>3. (\A q \in Requests : Advances(req[q], req'[q])) /\ Permits'
  BY <1>1, SameRequests
<1>4. Basics' /\ WriterHas'
  BY <1>1, <1>2 DEF IInv, Basics, WriterHas
<1>5. Ownership'
  BY <1>1, OwnershipStays DEF IInv
<1>6. TrackersAre'
  BY <1>1, <1>3, TrackersStay DEF IInv, TrackersAre, TrackerIs
<1> QED
  BY <1>3, <1>4, <1>5, <1>6 DEF IInv

LEMMA InitInv == Init => IInv
<1> SUFFICES ASSUME Init PROVE IInv
  OBVIOUS
<1>1. Unborn = [pc |-> "new", seat |-> "api", excluded |-> {}, at |-> 0, result |-> "none"]
  BY DEF Unborn
<1>2. 0 \in 0 .. MaxTime
  BY PlanAssumption
<1>3. Unborn \in Request
  BY <1>1, <1>2, PlanAssumption DEF Request, Phases, Results
<1>4. Good(Unborn) /\ Unborn.pc = "new"
  BY <1>1, <1>3 DEF Good
<1>5. req = [r \in Requests |-> Unborn] /\ \A r \in Requests : req[r] = Unborn
  BY DEF Init
<1>6. Basics
  <2>1. cached \in BOOLEAN
    BY DEF Init
  <2>2. registry \in Registry /\ saved \in Registry /\ updates = {}
    BY DEF Init, Registry
  <2>3. req \in [Requests -> Request] /\ \A r \in Requests : Good(req[r])
    BY <1>3, <1>4, <1>5
  <2>4. mode \in Modes /\ now \in 0 .. MaxTime /\ fenced = {} /\ answered = {}
    BY <1>2 DEF Init
  <2> QED
    BY <2>1, <2>2, <2>3, <2>4 DEF Basics
<1>7. WriterHas
  BY <1>4, <1>5, PlanAssumption DEF Init, WriterHas, Free, Changing
<1>8. Permits
  <2> SUFFICES ASSUME NEW s \in Seats PROVE Cardinality(Holders(s)) <= Concurrency[s]
    BY DEF Permits
  <2>1. Holders(s) = {}
    BY <1>4, <1>5 DEF Holders, Holds, Busy
  <2>2. Concurrency[s] \in Nat
    BY PlanAssumption
  <2>3. Cardinality(Holders(s)) = 0
    BY <2>1, FS_EmptySet
  <2> QED
    BY <2>2, <2>3
<1>9. InitialTracker = [entries |-> {}, reservations |-> {}, credit |-> [month |-> 0, used |-> 0]]
  BY DEF InitialTracker
<1>10. TrackerIs(InitialTracker)
  <2> DEFINE c == Cardinality(Charges)
  <2>1. c \in Nat
    BY ChargesAre
  <2>2. MonthOf(0) = 0 /\ now = 0
    BY MonthIs DEF Init
  <2>3. InitialTracker \in Tracker
    BY <1>9 DEF Tracker
  <2>4. IsFiniteSet({})
    BY FS_EmptySet
  <2> HIDE DEF c
  <2>5. TrackerAt(now, c, InitialTracker)
    BY <1>9, <2>1, <2>2, <2>3, <2>4 DEF TrackerAt
  <2> QED
    BY <2>5 DEF TrackerIs, c
<1>11. Ownership
  BY <1>9 DEF Init, Ownership, Free
<1>12. TrackersAre
  BY <1>10 DEF Init, TrackersAre, Free
<1> QED
  BY <1>6, <1>7, <1>8, <1>11, <1>12 DEF IInv

LEMMA StepInv == IInv /\ [Next]_planvars => IInv'
<1> SUFFICES ASSUME IInv, [Next]_planvars PROVE IInv'
  OBVIOUS
<1>1. CASE UNCHANGED planvars
  BY <1>1 DEF planvars, books, control, IInv, Basics, WriterHas, Permits, Holders, Holds,
              Ownership, Owned, OwnedBefore, Id, TrackersAre, TrackerIs, Charges
<1>2. ASSUME NEW r \in Requests,
             \/ Arrive(r) \/ RequestStep(r) \/ SaveFails(r) \/ Leave(r) \/ Overtake(r)
      PROVE  IInv'
  BY <1>2, ArriveKeeps, HitKeeps, ReserveKeeps, InvokeKeeps, ReconcileKeeps, RefundKeeps,
     SavedKeeps, AnswerKeeps, SaveFailsKeeps, LeaveKeeps, OvertakeKeeps DEF RequestStep
<1>3. CASE Health \/ Restart \/ Tick
  BY <1>3, HealthKeeps, RestartKeeps, TickKeeps
<1>4. CASE \E t \in stray : StrayLands(t)
  BY <1>4, StrayKeeps
<1> QED
  BY <1>1, <1>2, <1>3, <1>4, OperatorKeeps DEF Next

-----------------------------------------------------------------------------
(* What the invariant gives. *)

\* The gateway has its types, and no governor more permits out than it has.
LEMMA TypesHold == IInv => PlanTypeOK
<1> SUFFICES ASSUME IInv PROVE PlanTypeOK
  OBVIOUS
<1>1. ASSUME NEW t, TrackerIs(t) PROVE TrackerOK(t)
  <2> DEFINE c == Cardinality(Charges)
             d == Cardinality(Requests)
  <2>1. c \in Nat /\ d \in Nat /\ c <= d
    BY ChargesAre
  <2>2. /\ now \in Nat /\ MaxTime \in Nat /\ now <= MaxTime
        /\ MonthOf(now) \in Nat /\ MonthOf(MaxTime) \in Nat /\ MonthOf(now) <= MonthOf(MaxTime)
    BY MonthIs, PlanAssumption DEF IInv, Basics
  <2>3. TrackerAt(now, c, t)
    BY <1>1 DEF TrackerIs
  <2> HIDE DEF c, d
  <2>4. /\ t.entries \cup t.reservations \subseteq Usage
        /\ t.credit \in [month : Nat, used : Nat]
        /\ t.credit.month <= MonthOf(now) /\ t.credit.used <= c
    BY <2>3 DEF TrackerAt, Tracker
  <2>5. t.credit.month \in 0 .. MonthOf(MaxTime) /\ t.credit.used \in 0 .. d
    BY <2>1, <2>2, <2>4
  <2>6. t.credit \in [month : 0 .. MonthOf(MaxTime), used : 0 .. d]
    BY <2>4, <2>5
  <2> QED
    BY <2>4, <2>6 DEF TrackerOK, d
<1>2. \A t \in {tracker, file} \cup stray : TrackerOK(t)
  BY <1>1 DEF IInv, TrackersAre
<1>3. {registry, saved} \cup {u.to : u \in updates} \subseteq Control
  <2>1. Registry \subseteq Control
    BY PlanAssumption DEF Registry, Control
  <2> QED
    BY <2>1 DEF IInv, Basics
<1>4. \A r \in Requests : req[r].seat \in Seats \ req[r].excluded
  BY DEF IInv, Basics, Good, Request
<1> QED
  BY <1>2, <1>3, <1>4 DEF IInv, Basics, WriterHas, Permits, PlanTypeOK

LEMMA LeaksNothing == IInv => NothingLeaks
<1> SUFFICES ASSUME IInv, NEW x \in tracker.reservations, x.id \notin stranded
             PROVE  \E r \in Requests : x.id = Id(r) /\ Holds(r)
  BY DEF NothingLeaks
<1>1. PICK r \in Requests : x.id = Id(r) /\ req[r].pc \in Owning
  BY DEF IInv, Ownership, Owned
<1>2. req[r].result # "hit"
  BY <1>1 DEF IInv, Basics, Good, Owning
<1> QED
  BY <1>1, <1>2 DEF Holds, Busy, Owning

\* Every reachable state of the gateway has its type, and no governor gives
\* out more permits than it has, whatever fails.
THEOREM PlanTypeCorrect == PlanSpec => []PlanTypeOK
<1>1. IInv /\ [Next]_planvars => IInv'
  BY StepInv
<1> QED
  BY <1>1, InitInv, TypesHold, PTL DEF PlanSpec

\* A reservation of the plan's window belongs to a request that will give it
\* back, whatever fails, unless its refund was not written or the process died.
THEOREM ReservationsAreOwned == PlanSpec => []NothingLeaks
<1>1. IInv /\ [Next]_planvars => IInv'
  BY StepInv
<1> QED
  BY <1>1, InitInv, LeaksNothing, PTL DEF PlanSpec

-----------------------------------------------------------------------------
(* The kill switch. *)

\* With one change at a time, what is being written is what is in force.
SwitchInv ==
    /\ mode \in Modes
    /\ \A u \in updates : u.to = registry
    /\ switched \subseteq {saved.killed} /\ switched \subseteq {registry.killed}

LEMMA SwitchStep ==
    ASSUME \A m \in Modes : "race" \notin Faults[m], SwitchInv, [Next]_planvars
    PROVE  SwitchInv'
<1>1. CASE UNCHANGED <<mode, control>>
  BY <1>1 DEF SwitchInv, control
<1>2. ASSUME NEW change, Update(change)
      PROVE  /\ mode' = mode /\ registry' = change /\ saved' = saved
             /\ \A u \in updates' : u.to = change
  BY <1>2 DEF Update, SwitchInv
<1>3. ASSUME NEW killed \in BOOLEAN, SetKilled(killed) PROVE SwitchInv'
  BY <1>2, <1>3 DEF SetKilled, SwitchInv
<1>4. ASSUME NEW seat \in Aliases, Remap(seat) PROVE SwitchInv'
  <2>1. [registry EXCEPT !.alias = seat].killed = registry.killed
    OBVIOUS
  <2> QED
    BY <1>2, <1>4, <2>1 DEF Remap, SwitchInv
<1>5. ASSUME NEW u \in updates, Persist(u) PROVE SwitchInv'
  <2>1. /\ saved' = u.to /\ updates' = updates \ {u} /\ UNCHANGED <<mode, registry>>
        /\ u.to = registry
    BY <1>5 DEF Persist, Persisted, SwitchInv
  <2>2. switched' \subseteq {registry.killed}
    BY <1>5, <2>1 DEF Persist, SwitchInv
  <2> QED
    BY <2>1, <2>2 DEF SwitchInv
<1>6. ASSUME NEW u \in updates, PersistFails(u) PROVE SwitchInv'
  BY <1>6 DEF PersistFails, SwitchInv
<1>7. CASE Restart
  BY <1>7 DEF Restart, SwitchInv
<1>8. ASSUME NEW r \in Requests,
             \/ Arrive(r) \/ RequestStep(r) \/ SaveFails(r) \/ Leave(r) \/ Overtake(r)
      PROVE  UNCHANGED <<mode, control>>
  BY <1>8 DEF RequestStep, Arrive, Hit, Reserve, Invoke, Reconcile, Refund, Saved, Answer,
              SaveFails, Leave, Overtake, Same
<1>9. CASE Health \/ Tick \/ \E t \in stray : StrayLands(t)
  BY <1>1, <1>9 DEF Health, Tick, StrayLands
<1>10. CASE UNCHANGED planvars
  BY <1>1, <1>10 DEF planvars
<1> QED
  BY <1>1, <1>3, <1>4, <1>5, <1>6, <1>7, <1>8, <1>9, <1>10 DEF Next

\* The kill switch, once the operator was told it is set, is set after a
\* restart too, as long as one change is written before the next is made.
THEOREM SwitchIsKept ==
    ASSUME \A m \in Modes : "race" \notin Faults[m]
    PROVE  PlanSpec => []SwitchSurvives
<1>1. Init => SwitchInv
  BY DEF Init, SwitchInv
<1>2. SwitchInv /\ [Next]_planvars => SwitchInv'
  BY SwitchStep
<1>3. SwitchInv => SwitchSurvives
  BY DEF SwitchInv, SwitchSurvives
<1> QED
  BY <1>1, <1>2, <1>3, PTL DEF PlanSpec

-----------------------------------------------------------------------------
(* Usage is never lost. *)

\* In the mode of replay nothing is reserved and nothing is called.
Replaying ==
    /\ answered = {}
    /\ \A r \in Requests : req[r].pc \in {"new", "hit", "ended"} \/ req[r].result = "hit"

LEMMA ReplayingInit == Init => Replaying
BY DEF Init, Replaying, Unborn

LEMMA ReplayingStep ==
    ASSUME IInv, mode = "replay", Replaying, [Next]_planvars
    PROVE  Replaying' /\ mode' = mode
<1>1. ASSUME NEW r \in Requests, NEW rec, req' = [req EXCEPT ![r] = rec], answered' = answered,
             mode' = mode, rec.pc \in {"new", "hit", "ended"} \/ rec.result = "hit"
      PROVE  Replaying' /\ mode' = mode
  <2>1. \A q \in Requests : req'[q] = rec \/ req'[q] = req[q]
    BY <1>1 DEF IInv, Basics
  <2> QED
    BY <1>1, <2>1 DEF Replaying
<1>2. ASSUME NEW r \in Requests, req' = [req EXCEPT ![r] = Over], answered' = answered, mode' = mode
      PROVE  Replaying' /\ mode' = mode
  BY <1>1, <1>2, OverIs
<1>3. ASSUME NEW r \in Requests, Arrive(r) PROVE Replaying' /\ mode' = mode
  <2>1. \/ req' = [req EXCEPT ![r] = [req[r] EXCEPT !.pc = "hit"]]
        \/ req' = [req EXCEPT ![r] = Over]
    BY <1>3 DEF Arrive, Go
  <2>2. answered' = answered /\ mode' = mode /\ req[r] \in Request
    BY <1>3 DEF Arrive, IInv, Basics
  <2>3. [req[r] EXCEPT !.pc = "hit"].pc = "hit"
    BY <2>2 DEF Request
  <2> QED
    BY <1>1, <1>2, <2>1, <2>2, <2>3
<1>4. ASSUME NEW r \in Requests, Hit(r) PROVE Replaying' /\ mode' = mode
  <2>1. PICK rec : req' = [req EXCEPT ![r] = rec] /\ rec.result = "hit"
    BY <1>4, HitIs
  <2>2. answered' = answered /\ mode' = mode
    BY <1>4 DEF Hit, Same
  <2> QED
    BY <1>1, <2>1, <2>2
<1>5. ASSUME NEW r \in Requests, Reserve(r) \/ Invoke(r) \/ Reconcile(r) \/ Refund(r) \/ Answer(r)
      PROVE  FALSE
  <2>1. req[r].pc \in {"queued", "calling", "billing", "refund", "answer"}
    BY <1>5 DEF Reserve, Invoke, Reconcile, Refund, Answer
  <2> QED
    BY <2>1 DEF Replaying, IInv, Basics, Good
<1>6. ASSUME NEW r \in Requests, Saved(r) PROVE Replaying' /\ mode' = mode
  <2>1. req[r].pc \in Changing
    BY <1>6, SavedIs
  <2>2. req[r].result = "hit" /\ req[r].pc = "recording"
    BY <2>1 DEF Replaying, Changing, IInv, Basics, Good
  <2>3. req' = [req EXCEPT ![r] = Over] /\ answered' = answered /\ mode' = mode
    BY <1>6, <2>2 DEF Saved, Go
  <2> QED
    BY <1>2, <2>3
<1>7. ASSUME NEW r \in Requests, SaveFails(r) PROVE Replaying' /\ mode' = mode
  <2>1. req[r].pc \in Changing
    BY <1>7, SaveFailsIs
  <2>2. req[r].result = "hit" /\ req[r].pc = "recording"
    BY <2>1 DEF Replaying, Changing, IInv, Basics, Good
  <2>3. req' = [req EXCEPT ![r] = Over] /\ answered' = answered /\ mode' = mode
    BY <1>7, <2>2 DEF SaveFails, Go
  <2> QED
    BY <1>2, <2>3
<1>8. ASSUME NEW r \in Requests, Leave(r) PROVE Replaying' /\ mode' = mode
  <2>1. req[r].pc \notin {"calling", "billing"}
    BY DEF Replaying, IInv, Basics, Good
  <2>2. req' = [req EXCEPT ![r] = Over] /\ answered' = answered /\ mode' = mode
    BY <1>8, <2>1 DEF Leave, Left, Go
  <2> QED
    BY <1>2, <2>2
<1>9. ASSUME NEW r \in Requests, Overtake(r) PROVE Replaying' /\ mode' = mode
  BY <1>2, <1>9 DEF Overtake, Go
<1>10. CASE Restart
  <2>1. answered' = answered /\ mode' = mode /\ \A q \in Requests : req'[q].pc \in {"new", "ended"}
    BY <1>10, RestartIs DEF Restart
  <2> QED
    BY <2>1 DEF Replaying
<1>11. ASSUME UNCHANGED <<mode, req, answered>> PROVE Replaying' /\ mode' = mode
  BY <1>11 DEF Replaying
<1>12. CASE \/ Health \/ Tick
            \/ \E t \in stray : StrayLands(t)
            \/ \E killed \in BOOLEAN : SetKilled(killed)
            \/ \E seat \in Aliases : Remap(seat)
            \/ \E u \in updates : Persist(u) \/ PersistFails(u)
            \/ UNCHANGED planvars
  BY <1>11, <1>12 DEF Health, Tick, StrayLands, SetKilled, Remap, Update, Persist, PersistFails,
                      planvars
<1> QED
  BY <1>3, <1>4, <1>5, <1>6, <1>7, <1>8, <1>9, <1>10, <1>12 DEF Next, RequestStep

\* What is being written is what the tracker was when the write began; others
\* have at most pruned the tracker since.
Snapshot ==
    writer.by # Nobody =>
        /\ tracker.entries \subseteq writer.to.entries
        /\ tracker.reservations \subseteq writer.to.reservations
        /\ tracker.credit = writer.to.credit
        /\ \A e \in writer.to.entries : e.at >= now - Window => e \in tracker.entries

LEMMA SnapshotStep ==
    ASSUME IInv, Snapshot, [Next]_planvars
    PROVE  Snapshot'
<1>1. ASSUME writer'.by = Nobody PROVE Snapshot'
  BY <1>1 DEF Snapshot
<1>2. ASSUME NEW r, writer' = [by |-> r, before |-> tracker, to |-> tracker'] PROVE Snapshot'
  <2>1. writer'.to = tracker'
    BY <1>2
  <2> QED
    BY <2>1 DEF Snapshot
<1>3. ASSUME now' = now, writer' = writer, tracker' \in {tracker, Pruned(tracker)} PROVE Snapshot'
  <2>1. TrackerIs(tracker) /\ now \in 0 .. MaxTime /\ Cardinality(Charges) \in Nat
    BY ChargesAre DEF IInv, TrackersAre, Basics
  <2>2. /\ \A e : e \in Pruned(tracker).entries <=> e \in tracker.entries /\ e.at >= now - Window
        /\ \A x : x \in Pruned(tracker).reservations => x \in tracker.reservations
        /\ Pruned(tracker).credit = tracker.credit
    BY <2>1, PrunedIs DEF TrackerIs
  <2> QED
    BY <1>3, <2>2 DEF Snapshot
<1>4. ASSUME NEW r \in Requests, Arrive(r) PROVE Snapshot'
  BY <1>3, <1>4, ArriveIs DEF Arrive
<1>5. ASSUME NEW r \in Requests, Hit(r) PROVE Snapshot'
  BY <1>2, <1>5 DEF Hit, Change
<1>6. ASSUME NEW r \in Requests, Reserve(r) PROVE Snapshot'
  <2>1. \/ Change(r, Reserved(Pruned(tracker), r, req[r].seat))
        \/ tracker' = Pruned(tracker) /\ writer' = writer
    BY <1>6, ReserveIs
  <2> QED
    BY <1>2, <1>3, <1>6, <2>1 DEF Change, Reserve, Same
<1>7. ASSUME NEW r \in Requests, Reconcile(r) PROVE Snapshot'
  <2>1. Change(r, Reconciled(tracker, r)) \/ UNCHANGED books
    BY <1>7, ReconcileIs
  <2> QED
    BY <1>2, <1>3, <1>7, <2>1 DEF Change, Reconcile, Same, books
<1>8. ASSUME NEW r \in Requests, Refund(r) PROVE Snapshot'
  <2>1. Change(r, Without(tracker, Id(r))) \/ UNCHANGED books
    BY <1>8, RefundIs
  <2> QED
    BY <1>2, <1>3, <1>8, <2>1 DEF Change, Refund, Same, books
<1>9. ASSUME NEW r \in Requests, Saved(r) \/ SaveFails(r) \/ Overtake(r) PROVE Snapshot'
  <2>1. CASE Saved(r)
    BY <1>1, <2>1, SavedIs DEF Written, Free
  <2>2. CASE SaveFails(r)
    BY <1>1, <2>2 DEF SaveFails, Written, Free
  <2>3. CASE Overtake(r)
    BY <1>1, <2>3 DEF Overtake, Free
  <2> QED
    BY <1>9, <2>1, <2>2, <2>3
<1>10. ASSUME NEW r \in Requests, Invoke(r) \/ Answer(r) \/ Leave(r) PROVE Snapshot'
  BY <1>3, <1>10 DEF Invoke, Answer, Leave, Refresh, Same, books
<1>11. CASE Health \/ \E t \in stray : StrayLands(t)
  BY <1>3, <1>11 DEF Health, Refresh, StrayLands
<1>12. CASE Restart
  BY <1>1, <1>12 DEF Restart, Free
<1>13. CASE Tick
  <2>1. now' = now + 1 /\ UNCHANGED <<tracker, writer>>
    BY <1>13 DEF Tick, books
  <2>2. now \in Nat /\ writer.by # Nobody => \A e \in writer.to.entries : e.at \in Nat
    BY PlanAssumption DEF IInv, Basics, TrackersAre, TrackerIs, TrackerAt, Tracker, Usage
  <2>3. writer.by # Nobody =>
           \A e \in writer.to.entries : e.at >= now' - Window => e.at >= now - Window
    BY <2>1, <2>2, PlanAssumption DEF IInv, Basics
  <2> QED
    BY <2>1, <2>3 DEF Snapshot
<1>14. CASE \/ \E killed \in BOOLEAN : SetKilled(killed)
            \/ \E seat \in Aliases : Remap(seat)
            \/ \E u \in updates : Persist(u) \/ PersistFails(u)
            \/ UNCHANGED planvars
  BY <1>3, <1>14 DEF SetKilled, Remap, Update, Persist, PersistFails, planvars, books
<1> QED
  BY <1>4, <1>5, <1>6, <1>7, <1>8, <1>9, <1>10, <1>11, <1>12, <1>13, <1>14 DEF Next, RequestStep

\* A state of the tracker has the usage of answers given not long ago.
SavesAt(n, t, A) == \A a \in A : a.usage.at >= n - Window => a.usage \in t.entries
Saving ==
    /\ stray = {}
    /\ SavesAt(now, tracker, answered) /\ SavesAt(now, file, answered)
    /\ writer.by # Nobody => SavesAt(now, writer.before, answered)
UsageInv == IF mode = "replay" THEN Replaying ELSE Saving

LEMMA PrunedSaves ==
    ASSUME IInv, NEW t, TrackerIs(t), SavesAt(now, t, answered)
    PROVE  SavesAt(now, Pruned(t), answered)
<1>1. now \in 0 .. MaxTime /\ Cardinality(Charges) \in Nat
  BY ChargesAre DEF IInv, Basics
<1>2. \A e : e \in Pruned(t).entries <=> e \in t.entries /\ e.at >= now - Window
  BY <1>1, PrunedIs DEF TrackerIs
<1> QED
  BY <1>2 DEF SavesAt

\* A change of the tracker keeps the usage that is in the window.
LEMMA ChangesSave ==
    ASSUME IInv, SavesAt(now, tracker, answered), NEW r \in Requests
    PROVE  /\ SavesAt(now, Pruned(tracker), answered)
           /\ SavesAt(now, Reserved(Pruned(tracker), r, req[r].seat), answered)
           /\ SavesAt(now, Without(tracker, Id(r)), answered)
           /\ SavesAt(now, Reconciled(tracker, r), answered)
<1> DEFINE c == Cardinality(Charges)
           p == Pruned(tracker)
           w == Without(tracker, Id(r))
           seat == req[r].seat
<1>1. now \in 0 .. MaxTime /\ c \in Nat /\ TrackerAt(now, c, tracker) /\ TrackerIs(tracker)
  BY ChargesAre DEF IInv, Basics, TrackersAre, TrackerIs
<1>2. seat \in Seats /\ Id(r) \in Requests \X Seats
  BY DEF IInv, Basics, Request, Id
<1>3. SavesAt(now, p, answered)
  BY <1>1, PrunedSaves
<1> HIDE DEF c, p, w, seat
<1>4. TrackerAt(now, c, p)
  BY <1>1, PrunedIs DEF p
<1>5. Reserved(p, r, seat).entries = p.entries
  BY <1>1, <1>2, <1>4, ReservedIs
<1>6. TrackerAt(now, c, w) /\ w.entries = tracker.entries
  BY <1>1, WithoutIs DEF w
<1>7. \A f : f \in w.entries /\ f.at >= now - Window => f \in Recorded(w, Id(r), seat).entries
  BY <1>1, <1>2, <1>6, RecordedIs
<1>8. SavesAt(now, Reserved(p, r, seat), answered)
  BY <1>3, <1>5 DEF SavesAt
<1>9. SavesAt(now, w, answered)
  BY <1>6 DEF SavesAt
<1>10. SavesAt(now, Recorded(w, Id(r), seat), answered)
  BY <1>7, <1>9 DEF SavesAt
<1> QED
  BY <1>3, <1>8, <1>9, <1>10 DEF p, w, seat, Reconciled

LEMMA SavingStep ==
    ASSUME \A m \in Modes : "overtake" \in Faults[m] => m = "replay",
           IInv, Snapshot, mode # "replay", Saving, [Next]_planvars
    PROVE  Saving' /\ mode' = mode
<1> DEFINE Same1 == UNCHANGED <<mode, now, answered, file, stray>>
<1>0. SavesAt(now, tracker, answered) /\ SavesAt(now, file, answered) /\ stray = {}
  BY DEF Saving
<1>1. ASSUME Same1, SavesAt(now, tracker', answered),
             writer' = writer \/ writer'.before = tracker
      PROVE  Saving' /\ mode' = mode
  BY <1>0, <1>1 DEF Saving
<1>2. ASSUME NEW r \in Requests, Arrive(r) PROVE Saving' /\ mode' = mode
  <2>1. tracker' \in {tracker, Pruned(tracker)}
    BY <1>2, ArriveIs
  <2>2. SavesAt(now, tracker', answered)
    BY <1>0, <2>1, ChangesSave
  <2> QED
    BY <1>1, <1>2, <2>2 DEF Arrive
<1>3. ASSUME NEW r \in Requests, Hit(r) PROVE Saving' /\ mode' = mode
  <2>1. SavesAt(now, tracker', answered)
    BY <1>0, <1>3, ChangesSave DEF Hit, Change
  <2>2. writer'.before = tracker
    BY <1>3 DEF Hit, Change
  <2> QED
    BY <1>1, <1>3, <2>1, <2>2 DEF Hit, Change, Same
<1>4. ASSUME NEW r \in Requests, Reserve(r) PROVE Saving' /\ mode' = mode
  <2>1. /\ tracker' \in {Pruned(tracker), Reserved(Pruned(tracker), r, req[r].seat)}
        /\ writer' = writer \/ writer'.before = tracker
        /\ UNCHANGED <<file, stray>>
    BY <1>4, ReserveIs DEF Change
  <2>2. SavesAt(now, tracker', answered)
    BY <1>0, <2>1, ChangesSave
  <2> QED
    BY <1>1, <1>4, <2>1, <2>2 DEF Reserve, Same
<1>5. ASSUME NEW r \in Requests, Invoke(r) \/ Leave(r) PROVE Saving' /\ mode' = mode
  BY <1>0, <1>1, <1>5 DEF Invoke, Leave, Same, books
<1>6. ASSUME NEW r \in Requests, Reconcile(r) PROVE Saving' /\ mode' = mode
  <2>1. /\ tracker' \in {tracker, Reconciled(tracker, r)}
        /\ writer' = writer \/ writer'.before = tracker
        /\ UNCHANGED <<file, stray>>
    BY <1>6, ReconcileIs DEF Change, books
  <2>2. SavesAt(now, tracker', answered)
    BY <1>0, <2>1, ChangesSave
  <2> QED
    BY <1>1, <1>6, <2>1, <2>2 DEF Reconcile, Same
<1>7. ASSUME NEW r \in Requests, Refund(r) PROVE Saving' /\ mode' = mode
  <2>1. /\ tracker' \in {tracker, Without(tracker, Id(r))}
        /\ writer' = writer \/ writer'.before = tracker
        /\ UNCHANGED <<file, stray>>
    BY <1>7, RefundIs DEF Change, books
  <2>2. SavesAt(now, tracker', answered)
    BY <1>0, <2>1, ChangesSave
  <2> QED
    BY <1>1, <1>7, <2>1, <2>2 DEF Refund, Same
<1>8. ASSUME NEW r \in Requests, Saved(r) PROVE Saving' /\ mode' = mode
  <2> DEFINE more == {[usage |-> e, since |-> MonthOf(req[r].at)] :
                        e \in {e \in writer.to.entries : e.id = Id(r)}}
  <2>1. /\ answered' \subseteq answered \cup more /\ writer.by = r
        /\ writer'.by = Nobody /\ file' = writer.to /\ tracker' = tracker /\ stray' = stray
    BY <1>8, SavedIs DEF Written, Free
  <2>2. \A a \in more : a.usage \in writer.to.entries
    OBVIOUS
  <2>3. mode' = mode /\ now' = now
    BY <1>8 DEF Saved
  <2>4. /\ tracker.entries \subseteq writer.to.entries
        /\ \A e \in writer.to.entries : e.at >= now - Window => e \in tracker.entries
    BY <2>1, PlanAssumption DEF Snapshot
  <2> HIDE DEF more
  <2>5. SavesAt(now, tracker, answered') /\ SavesAt(now, writer.to, answered')
    BY <1>0, <2>1, <2>2, <2>4 DEF SavesAt
  <2> QED
    BY <1>0, <2>1, <2>3, <2>5 DEF Saving
<1>9. ASSUME NEW r \in Requests, SaveFails(r) PROVE Saving' /\ mode' = mode
  <2>1. /\ writer.by # Nobody /\ tracker' = writer.before /\ file' = file /\ writer'.by = Nobody
        /\ UNCHANGED <<mode, now, answered, stray>>
    BY <1>9, PlanAssumption DEF SaveFails, Written, Free, Restored
  <2> QED
    BY <1>0, <2>1 DEF Saving
<1>10. ASSUME NEW r \in Requests, Answer(r) PROVE Saving' /\ mode' = mode
  <2>1. SavesAt(now, tracker', answered)
    BY <1>0, <1>10, ChangesSave DEF Answer, Refresh
  <2> QED
    BY <1>1, <1>10, <2>1 DEF Answer
<1>11. ASSUME NEW r \in Requests, Overtake(r) PROVE FALSE
  BY <1>11 DEF Overtake, IInv, Basics
<1>12. CASE Health
  <2>1. tracker' = Pruned(tracker) /\ TrackerIs(tracker)
    BY <1>12 DEF Health, Refresh, IInv, TrackersAre
  <2>2. SavesAt(now, tracker', answered)
    BY <1>0, <2>1, PrunedSaves
  <2> QED
    BY <1>1, <1>12, <2>2 DEF Health
<1>13. CASE \E t \in stray : StrayLands(t)
  BY <1>0, <1>13
<1>14. CASE Restart
  <2>1. TrackerIs(file)
    BY DEF IInv, TrackersAre
  <2>2. SavesAt(now, Pruned(file), answered)
    BY <1>0, <2>1, PrunedSaves
  <2>3. /\ tracker' = Pruned(file) /\ file' \in {file, Pruned(file)}
        /\ writer'.by = Nobody /\ stray' = {} /\ UNCHANGED <<mode, now, answered>>
    BY <1>14, RestartIs DEF Restart
  <2> QED
    BY <1>0, <2>2, <2>3 DEF Saving
<1>15. CASE Tick
  <2>1. now' = now + 1 /\ UNCHANGED <<mode, tracker, file, writer, stray, answered>>
    BY <1>15 DEF Tick, books
  <2>2. now \in Nat /\ \A a \in answered : a.usage.at \in Nat
    BY PlanAssumption DEF IInv, Basics, Usage
  <2>3. \A a \in answered : a.usage.at >= now' - Window => a.usage.at >= now - Window
    BY <2>1, <2>2, PlanAssumption
  <2> QED
    BY <2>1, <2>3 DEF Saving, SavesAt
<1>16. CASE \/ \E killed \in BOOLEAN : SetKilled(killed)
            \/ \E seat \in Aliases : Remap(seat)
            \/ \E u \in updates : Persist(u) \/ PersistFails(u)
            \/ UNCHANGED planvars
  BY <1>0, <1>1, <1>16 DEF SetKilled, Remap, Update, Persist, PersistFails, planvars, books
<1> QED
  BY <1>2, <1>3, <1>4, <1>5, <1>6, <1>7, <1>8, <1>9, <1>10, <1>11, <1>12, <1>13, <1>14, <1>15,
     <1>16 DEF Next, RequestStep

\* What a client was answered with is in the file, whoever writes it next and
\* whatever else fails, where no write is left behind by its request.  (In
\* the mode of replay nothing is called, and writes may be.)
THEOREM UsageIsKept ==
    ASSUME \A m \in Modes : "overtake" \in Faults[m] => m = "replay"
    PROVE  PlanSpec => []UsageSurvives
<1>1. Init => IInv /\ Snapshot /\ UsageInv
  <2>1. Init => Saving
    BY DEF Init, Saving, SavesAt, Free
  <2>2. Init => Snapshot
    BY DEF Init, Snapshot, Free
  <2> QED
    BY <2>1, <2>2, InitInv, ReplayingInit DEF UsageInv
<1>2. (IInv /\ Snapshot /\ UsageInv) /\ [Next]_planvars => (IInv /\ Snapshot /\ UsageInv)'
  BY StepInv, SnapshotStep, ReplayingStep, SavingStep DEF UsageInv
<1>3. IInv /\ UsageInv => UsageSurvives
  BY DEF UsageInv, Replaying, Saving, SavesAt, UsageSurvives, Recent
<1> QED
  BY <1>1, <1>2, <1>3, PTL DEF PlanSpec

-----------------------------------------------------------------------------
(* The plans' limits. *)

LEMMA CardinalityLeast ==
    ASSUME NEW S, IsFiniteSet(S), NEW T, T \subseteq S
    PROVE  /\ IsFiniteSet(T) /\ Cardinality(T) \in Nat /\ Cardinality(S) \in Nat
           /\ Cardinality(T) <= Cardinality(S)
<1>1. T \in SUBSET S
  OBVIOUS
<1> QED
  BY <1>1, FS_Subset, FS_CardinalityType

LEMMA CardinalityOneMore ==
    ASSUME NEW S, IsFiniteSet(S), NEW x, NEW T, T \subseteq S \cup {x}
    PROVE  /\ IsFiniteSet(T) /\ Cardinality(T) \in Nat /\ Cardinality(S) \in Nat
           /\ Cardinality(T) <= Cardinality(S) + 1
<1>1. /\ IsFiniteSet(S \cup {x}) /\ Cardinality(S) \in Nat
      /\ Cardinality(S \cup {x}) = IF x \in S THEN Cardinality(S) ELSE Cardinality(S) + 1
  BY FS_AddElement, FS_CardinalityType
<1>2. /\ IsFiniteSet(T) /\ Cardinality(T) \in Nat
      /\ Cardinality(T) <= Cardinality(S \cup {x})
  BY <1>1, CardinalityLeast
<1> QED
  BY <1>1, <1>2

LEMMA CardinalityOneLess ==
    ASSUME NEW S, IsFiniteSet(S), NEW x \in S, NEW T, T \subseteq S \ {x}
    PROVE  /\ IsFiniteSet(T) /\ Cardinality(T) \in Nat /\ Cardinality(S) \in Nat
           /\ Cardinality(T) + 1 <= Cardinality(S)
<1>1. IsFiniteSet(T) /\ Cardinality(T) \in Nat /\ Cardinality(S) \in Nat
  BY CardinalityLeast, FS_CardinalityType
<1>2. x \notin T /\ T \cup {x} \subseteq S
  OBVIOUS
<1>3. IsFiniteSet(T \cup {x}) /\ Cardinality(T \cup {x}) = Cardinality(T) + 1
  BY <1>1, <1>2, FS_AddElement
<1>4. Cardinality(T \cup {x}) <= Cardinality(S)
  BY <1>2, CardinalityLeast
<1> QED
  BY <1>1, <1>3, <1>4

\* The window of Codex: its calls and its reservations.
WindowFits(t) == Cardinality(Calls(t)) + Cardinality(Open(t, "codex")) <= WindowCalls

\* The month of Claude, for a set of answers: they are among what was used,
\* and those reserved in it leave room for the reservations.
MonthsAt(n, A) == {a \in A : a.usage.seat = "claude" /\ MonthOf(a.usage.at) = MonthOf(n)}
WithinAt(n, A) == {a \in MonthsAt(n, A) : a.since = MonthOf(n)}
UsedAt(n, t) == IF t.credit.month = MonthOf(n) THEN t.credit.used ELSE 0
OpenAt(n, t) == {x \in t.reservations : x.seat = "claude" /\ MonthOf(x.at) = MonthOf(n)}
CreditFits(n, t, A) ==
    /\ Cardinality(MonthsAt(n, A)) <= UsedAt(n, t)
    /\ Cardinality(WithinAt(n, A)) + Cardinality(OpenAt(n, t)) <= MonthlyCredit

LEMMA WindowIs ==
    ASSUME NEW t, IsFiniteSet(t.entries), IsFiniteSet(t.reservations)
    PROVE  /\ IsFiniteSet(Calls(t)) /\ Cardinality(Calls(t)) \in Nat
           /\ \A seat : IsFiniteSet(Open(t, seat)) /\ Cardinality(Open(t, seat)) \in Nat
           /\ \A n : IsFiniteSet(OpenAt(n, t)) /\ Cardinality(OpenAt(n, t)) \in Nat
<1>1. Calls(t) \subseteq t.entries
  BY DEF Calls
<1>2. \A seat : Open(t, seat) \subseteq t.reservations
  BY DEF Open
<1>3. \A n : OpenAt(n, t) \subseteq t.reservations
  BY DEF OpenAt
<1> QED
  BY <1>1, <1>2, <1>3, CardinalityLeast

LEMMA MonthsAre ==
    ASSUME NEW n, NEW A, IsFiniteSet(A)
    PROVE  /\ IsFiniteSet(MonthsAt(n, A)) /\ Cardinality(MonthsAt(n, A)) \in Nat
           /\ IsFiniteSet(WithinAt(n, A)) /\ Cardinality(WithinAt(n, A)) \in Nat
           /\ Cardinality(WithinAt(n, A)) <= Cardinality(MonthsAt(n, A))
<1>1. MonthsAt(n, A) \subseteq A
  BY DEF MonthsAt
<1>2. WithinAt(n, A) \subseteq MonthsAt(n, A)
  BY DEF WithinAt
<1> QED
  BY <1>1, <1>2, CardinalityLeast

\* Less of both fits as well.
LEMMA WindowLess ==
    ASSUME NEW t, IsFiniteSet(t.entries), IsFiniteSet(t.reservations), WindowFits(t),
           NEW u, u.entries \subseteq t.entries, u.reservations \subseteq t.reservations
    PROVE  WindowFits(u)
<1> DEFINE a == Cardinality(Calls(t))
           b == Cardinality(Open(t, "codex"))
           c == Cardinality(Calls(u))
           d == Cardinality(Open(u, "codex"))
<1>1. Calls(u) \subseteq Calls(t) /\ Open(u, "codex") \subseteq Open(t, "codex")
  BY DEF Calls, Open
<1>2. /\ a \in Nat /\ b \in Nat /\ c \in Nat /\ d \in Nat
      /\ c <= a /\ d <= b
  BY <1>1, WindowIs, CardinalityLeast
<1>3. a + b <= WindowCalls /\ WindowCalls \in Nat
  BY PlanAssumption DEF WindowFits
<1> HIDE DEF a, b, c, d
<1>4. c + d <= WindowCalls
  BY <1>2, <1>3
<1> QED
  BY <1>4 DEF WindowFits, c, d

LEMMA CreditLess ==
    ASSUME NEW n, NEW t, IsFiniteSet(t.entries), IsFiniteSet(t.reservations),
           NEW A, IsFiniteSet(A), CreditFits(n, t, A), UsedAt(n, t) \in Nat,
           NEW u, u.reservations \subseteq t.reservations, u.credit = t.credit,
           NEW B, B \subseteq A
    PROVE  CreditFits(n, u, B)
<1> DEFINE a == Cardinality(WithinAt(n, A))
           b == Cardinality(OpenAt(n, t))
           c == Cardinality(WithinAt(n, B))
           d == Cardinality(OpenAt(n, u))
           e == Cardinality(MonthsAt(n, A))
           f == Cardinality(MonthsAt(n, B))
           g == UsedAt(n, t)
<1>1. /\ WithinAt(n, B) \subseteq WithinAt(n, A) /\ MonthsAt(n, B) \subseteq MonthsAt(n, A)
      /\ OpenAt(n, u) \subseteq OpenAt(n, t)
  BY DEF WithinAt, MonthsAt, OpenAt
<1>2. /\ a \in Nat /\ b \in Nat /\ c \in Nat /\ d \in Nat /\ e \in Nat /\ f \in Nat
      /\ c <= a /\ d <= b /\ f <= e
  BY <1>1, WindowIs, MonthsAre, CardinalityLeast
<1>3. a + b <= MonthlyCredit /\ MonthlyCredit \in Nat /\ e <= g /\ g \in Nat
  BY PlanAssumption DEF CreditFits
<1>4. UsedAt(n, u) = g
  BY DEF UsedAt
<1> HIDE DEF a, b, c, d, e, f, g
<1>5. c + d <= MonthlyCredit /\ f <= g
  BY <1>2, <1>3
<1> QED
  BY <1>4, <1>5 DEF CreditFits, c, d, f

\* What is admitted fits once it is reserved.
LEMMA ReserveFits ==
    ASSUME NEW n, NEW t, IsFiniteSet(t.entries), IsFiniteSet(t.reservations), WindowFits(t),
           NEW A, IsFiniteSet(A), CreditFits(n, t, A), UsedAt(n, t) \in Nat,
           NEW u, u.entries = t.entries, u.credit = t.credit,
           NEW x, u.reservations \subseteq t.reservations \cup {x},
           x.seat = "codex" => Cardinality(Calls(t)) + Cardinality(Open(t, "codex")) < WindowCalls,
           x.seat = "claude" => UsedAt(n, t) + Cardinality(OpenAt(n, t)) < MonthlyCredit
    PROVE  WindowFits(u) /\ CreditFits(n, u, A)
<1> DEFINE a == Cardinality(WithinAt(n, A))
           b == Cardinality(OpenAt(n, t))
           d == Cardinality(OpenAt(n, u))
           e == Cardinality(MonthsAt(n, A))
           g == UsedAt(n, t)
           h == Cardinality(Calls(t))
           k == Cardinality(Open(t, "codex"))
           m == Cardinality(Open(u, "codex"))
<1>1. /\ a \in Nat /\ b \in Nat /\ e \in Nat /\ g \in Nat /\ h \in Nat /\ k \in Nat
      /\ a <= e /\ e <= g /\ MonthlyCredit \in Nat /\ WindowCalls \in Nat
      /\ a + b <= MonthlyCredit /\ h + k <= WindowCalls
  BY WindowIs, MonthsAre, PlanAssumption DEF CreditFits, WindowFits
<1>2. /\ x.seat = "codex" => h + k < WindowCalls
      /\ x.seat = "claude" => g + b < MonthlyCredit
  OBVIOUS
<1>3. UsedAt(n, u) = g /\ Calls(u) = Calls(t)
  BY DEF UsedAt, Calls
<1>4. d \in Nat /\ d <= b + 1 /\ (x.seat # "claude" => d <= b)
  <2>1. OpenAt(n, u) \subseteq OpenAt(n, t) \cup {x}
    BY DEF OpenAt
  <2>2. x.seat # "claude" => OpenAt(n, u) \subseteq OpenAt(n, t)
    BY DEF OpenAt
  <2> QED
    BY <2>1, <2>2, WindowIs, CardinalityLeast, CardinalityOneMore
<1>5. m \in Nat /\ m <= k + 1 /\ (x.seat # "codex" => m <= k)
  <2>1. Open(u, "codex") \subseteq Open(t, "codex") \cup {x}
    BY DEF Open
  <2>2. x.seat # "codex" => Open(u, "codex") \subseteq Open(t, "codex")
    BY DEF Open
  <2> QED
    BY <2>1, <2>2, WindowIs, CardinalityLeast, CardinalityOneMore
<1> HIDE DEF a, b, d, e, g, h, k, m
<1>6. a + d <= MonthlyCredit
  BY <1>1, <1>2, <1>4
<1>7. h + m <= WindowCalls
  BY <1>1, <1>2, <1>5
<1> QED
  BY <1>1, <1>3, <1>6, <1>7 DEF CreditFits, WindowFits, a, d, e, h, m

\* A reservation that becomes usage still fits.
LEMMA ChargeFits ==
    ASSUME NEW n, NEW t, IsFiniteSet(t.entries), IsFiniteSet(t.reservations), WindowFits(t),
           NEW A, IsFiniteSet(A), CreditFits(n, t, A), UsedAt(n, t) \in Nat,
           NEW x \in t.reservations, NEW e, e.seat = x.seat,
           NEW u, u.entries \subseteq t.entries \cup {e}, u.reservations \subseteq t.reservations \ {x},
           UsedAt(n, u) = IF x.seat = "claude" THEN UsedAt(n, t) + 1 ELSE UsedAt(n, t),
           NEW a, a.usage = e, a.since = MonthOf(x.at),
           NEW B, B \subseteq A \cup {a}
    PROVE  WindowFits(u) /\ CreditFits(n, u, B)
<1> DEFINE c == Cardinality(Calls(t))
           d == Cardinality(Calls(u))
           f == Cardinality(Open(t, "codex"))
           g == Cardinality(Open(u, "codex"))
           h == Cardinality(WithinAt(n, A))
           i == Cardinality(WithinAt(n, B))
           j == Cardinality(MonthsAt(n, A))
           k == Cardinality(MonthsAt(n, B))
           l == Cardinality(OpenAt(n, t))
           m == Cardinality(OpenAt(n, u))
           v == UsedAt(n, t)
           w == UsedAt(n, u)
<1>1. /\ c \in Nat /\ f \in Nat /\ h \in Nat /\ j \in Nat /\ l \in Nat /\ v \in Nat
      /\ c + f <= WindowCalls /\ h + l <= MonthlyCredit /\ j <= v
      /\ MonthlyCredit \in Nat /\ WindowCalls \in Nat
  BY WindowIs, MonthsAre, PlanAssumption DEF CreditFits, WindowFits
<1>2. CASE x.seat = "codex"
  <2>1. Calls(u) \subseteq Calls(t) \cup {e}
    BY DEF Calls
  <2>2. x \in Open(t, "codex") /\ Open(u, "codex") \subseteq Open(t, "codex") \ {x}
    BY <1>2 DEF Open
  <2>3. OpenAt(n, u) \subseteq OpenAt(n, t)
    BY DEF OpenAt
  <2>4. MonthsAt(n, B) \subseteq MonthsAt(n, A) /\ WithinAt(n, B) \subseteq WithinAt(n, A)
    BY <1>2 DEF MonthsAt, WithinAt
  <2>5. /\ d \in Nat /\ d <= c + 1 /\ g \in Nat /\ g + 1 <= f
        /\ m \in Nat /\ m <= l /\ k \in Nat /\ k <= j /\ i \in Nat /\ i <= h
    <3>1. d \in Nat /\ d <= c + 1
      BY <2>1, WindowIs, CardinalityOneMore, ZenonT(40)
    <3>2. g \in Nat /\ g + 1 <= f
      BY <2>2, WindowIs, CardinalityOneLess
    <3>3. m \in Nat /\ m <= l
      BY <2>3, WindowIs, CardinalityLeast
    <3>4. k \in Nat /\ k <= j /\ i \in Nat /\ i <= h
      BY <2>4, MonthsAre, CardinalityLeast
    <3> QED
      BY <3>1, <3>2, <3>3, <3>4
  <2>6. w = v
    BY <1>2
  <2> HIDE DEF c, d, f, g, h, i, j, k, l, m, v, w
  <2>7. d + g <= WindowCalls /\ i + m <= MonthlyCredit /\ k <= w
    BY <1>1, <2>5, <2>6
  <2> QED
    BY <2>7 DEF WindowFits, CreditFits, d, g, i, k, m, w
<1>3. CASE x.seat = "claude"
  <2>1. Calls(u) \subseteq Calls(t)
    BY <1>3 DEF Calls
  <2>2. Open(u, "codex") \subseteq Open(t, "codex")
    BY DEF Open
  <2>3. MonthsAt(n, B) \subseteq MonthsAt(n, A) \cup {a}
    BY DEF MonthsAt
  <2>4. /\ d \in Nat /\ d <= c /\ g \in Nat /\ g <= f /\ k \in Nat /\ k <= j + 1
    <3>1. d \in Nat /\ d <= c /\ g \in Nat /\ g <= f
      BY <2>1, <2>2, WindowIs, CardinalityLeast
    <3>2. k \in Nat /\ k <= j + 1
      BY <2>3, MonthsAre, CardinalityOneMore
    <3> QED
      BY <3>1, <3>2
  <2>5. w = v + 1
    BY <1>3
  <2>6. i \in Nat /\ m \in Nat /\ i + m <= h + l
    <3>1. CASE MonthOf(x.at) = MonthOf(n)
      <4>1. WithinAt(n, B) \subseteq WithinAt(n, A) \cup {a}
        BY DEF WithinAt, MonthsAt
      <4>2. x \in OpenAt(n, t) /\ OpenAt(n, u) \subseteq OpenAt(n, t) \ {x}
        BY <1>3, <3>1 DEF OpenAt
      <4>3. i \in Nat /\ i <= h + 1 /\ m \in Nat /\ m + 1 <= l
        BY <4>1, <4>2, WindowIs, MonthsAre, CardinalityOneMore, CardinalityOneLess
      <4> HIDE DEF h, i, l, m
      <4> QED
        BY <1>1, <4>3
    <3>2. CASE MonthOf(x.at) # MonthOf(n)
      <4>1. WithinAt(n, B) \subseteq WithinAt(n, A)
        BY <3>2 DEF WithinAt, MonthsAt
      <4>2. OpenAt(n, u) \subseteq OpenAt(n, t)
        BY DEF OpenAt
      <4>3. i \in Nat /\ i <= h /\ m \in Nat /\ m <= l
        BY <4>1, <4>2, WindowIs, MonthsAre, CardinalityLeast
      <4> HIDE DEF h, i, l, m
      <4> QED
        BY <1>1, <4>3
    <3> QED
      BY <3>1, <3>2
  <2> HIDE DEF c, d, f, g, h, i, j, k, l, m, v, w
  <2>7. d + g <= WindowCalls /\ i + m <= MonthlyCredit /\ k <= w
    BY <1>1, <2>4, <2>5, <2>6
  <2> QED
    BY <2>7 DEF WindowFits, CreditFits, d, g, i, k, m, w
<1>4. CASE x.seat \notin {"codex", "claude"}
  <2>1. Calls(u) \subseteq Calls(t) /\ Open(u, "codex") \subseteq Open(t, "codex")
    BY <1>4 DEF Calls, Open
  <2>2. OpenAt(n, u) \subseteq OpenAt(n, t)
    BY DEF OpenAt
  <2>3. MonthsAt(n, B) \subseteq MonthsAt(n, A) /\ WithinAt(n, B) \subseteq WithinAt(n, A)
    BY <1>4 DEF MonthsAt, WithinAt
  <2>4. /\ d \in Nat /\ d <= c /\ g \in Nat /\ g <= f
        /\ m \in Nat /\ m <= l /\ k \in Nat /\ k <= j /\ i \in Nat /\ i <= h
    BY <2>1, <2>2, <2>3, WindowIs, MonthsAre, CardinalityLeast
  <2>5. w = v
    BY <1>4
  <2> HIDE DEF c, d, f, g, h, i, j, k, l, m, v, w
  <2>6. d + g <= WindowCalls /\ i + m <= MonthlyCredit /\ k <= w
    BY <1>1, <2>4, <2>5
  <2> QED
    BY <2>6 DEF WindowFits, CreditFits, d, g, i, k, m, w
<1> QED
  BY <1>2, <1>3, <1>4

\* A new month starts with nothing used.
LEMMA CreditLater ==
    ASSUME NEW n \in 0 .. MaxTime, NEW m \in 0 .. MaxTime, n <= m,
           NEW c \in Nat, NEW t, TrackerAt(n, c, t), UsedAt(m, t) \in Nat,
           NEW A, \A a \in A : a.usage \in Usage /\ a.usage.at <= n, CreditFits(n, t, A)
    PROVE  CreditFits(m, t, A)
<1>1. /\ n \in Nat /\ m \in Nat
      /\ MonthOf(n) \in Nat /\ MonthOf(m) \in Nat /\ MonthOf(n) <= MonthOf(m)
  BY MonthIs, PlanAssumption
<1>2. CASE MonthOf(m) = MonthOf(n)
  <2>1. /\ MonthsAt(m, A) = MonthsAt(n, A) /\ WithinAt(m, A) = WithinAt(n, A)
        /\ UsedAt(m, t) = UsedAt(n, t) /\ OpenAt(m, t) = OpenAt(n, t)
    BY <1>2 DEF MonthsAt, WithinAt, UsedAt, OpenAt
  <2> QED
    BY <2>1 DEF CreditFits
<1>3. CASE MonthOf(m) # MonthOf(n)
  <2>1. \A i \in Nat : i <= n => MonthOf(i) # MonthOf(m)
    BY <1>1, <1>3, MonthIs
  <2>2. \A a \in A : MonthOf(a.usage.at) # MonthOf(m)
    BY <2>1, PlanAssumption DEF Usage
  <2>3. \A x \in t.reservations : MonthOf(x.at) # MonthOf(m)
    BY <2>1, PlanAssumption DEF TrackerAt, Tracker, Usage
  <2>4. MonthsAt(m, A) = {} /\ WithinAt(m, A) = {} /\ OpenAt(m, t) = {}
    BY <2>2, <2>3 DEF MonthsAt, WithinAt, OpenAt
  <2>5. /\ Cardinality(MonthsAt(m, A)) = 0 /\ Cardinality(WithinAt(m, A)) = 0
        /\ Cardinality(OpenAt(m, t)) = 0
    BY <2>4, FS_EmptySet
  <2>6. MonthlyCredit \in Nat
    BY PlanAssumption
  <2> QED
    BY <2>5, <2>6 DEF CreditFits
<1> QED
  BY <1>2, <1>3

LEMMA UsedIs ==
    ASSUME NEW n, NEW k, NEW c, NEW t, TrackerAt(k, c, t)
    PROVE  /\ UsedAt(n, t) \in Nat
           /\ IsFiniteSet(t.entries) /\ IsFiniteSet(t.reservations)
BY DEF UsedAt, TrackerAt, Tracker

-----------------------------------------------------------------------------
(* The books. *)

Recording(r) == req[r].pc = "recording" /\ req[r].result # "hit"
\* The usage that is being written, as a client will be answered with it.
PendingOf(r) == {[usage |-> e, since |-> MonthOf(req[r].at)] :
                    e \in {e \in writer.to.entries : e.id = Id(r)}}

SpentId(id) == Spent(req[id[1]], id[2])
Calling == {"calling", "billing"}
Carrying == {"reserving", "calling", "billing"}
Reservation(r) == [id |-> Id(r), seat |-> req[r].seat, at |-> req[r].at]

\* A call has its reservation, in the state a failed write restores too.
Kept ==
    /\ \A r \in Requests : req[r].pc \in Carrying =>
          Reservation(r) \in tracker.reservations /\ now < req[r].at + Ttl
    /\ writer.by # Nobody => \A r \in Requests : req[r].pc \in Calling =>
          Reservation(r) \in writer.before.reservations

Answered ==
    /\ IsFiniteSet(answered)
    /\ \A a \in answered : a.usage.at <= now /\ SpentId(a.usage.id)
    /\ \A a, b \in answered : a.usage = b.usage => a = b

\* Usage is that of seats that will not be tried again, or is being written.
Entered ==
    /\ \A e \in tracker.entries :
          SpentId(e.id) \/ \E r \in Requests : Recording(r) /\ e.id = Id(r)
    /\ \A e \in file.entries : SpentId(e.id)
    /\ writer.by # Nobody =>
          /\ \A e \in writer.before.entries : SpentId(e.id)
          /\ \A e \in writer.to.entries :
                SpentId(e.id) \/ \E r \in Requests : Recording(r) /\ e.id = Id(r)

Fits(t) == WindowFits(t) /\ CreditFits(now, t, answered)
Fitting ==
    /\ Fits(tracker) /\ Fits(file)
    /\ writer.by # Nobody => Fits(writer.before) /\ Fits(writer.to)
    /\ \A r \in Requests : Recording(r) =>
          IsFiniteSet(PendingOf(r)) /\ CreditFits(now, writer.to, answered \cup PendingOf(r))

Books == Kept /\ Answered /\ Entered /\ Fitting
BooksInv == IF mode = "replay" THEN Replaying ELSE Books

LEMMA SpentStays ==
    ASSUME \A q \in Requests : Advances(req[q], req'[q]), NEW e \in Usage, SpentId(e.id)
    PROVE  SpentId(e.id)'
<1>1. e.id[1] \in Requests /\ e.id[2] \in Seats
  BY DEF Usage
<1> QED
  BY <1>1 DEF SpentId, Advances

\* The answers that were given stay what they are.
LEMMA AnsweredStays ==
    ASSUME IInv, Answered, \A q \in Requests : Advances(req[q], req'[q]), answered' = answered,
           now' \in 0 .. MaxTime, now <= now'
    PROVE  Answered'
<1>1. ASSUME NEW a \in answered PROVE a.usage.at <= now' /\ SpentId(a.usage.id)'
  <2>1. a.usage \in Usage /\ a.usage.at <= now /\ SpentId(a.usage.id)
    BY DEF IInv, Basics, Answered
  <2>2. a.usage.at \in Nat /\ now \in Nat /\ now' \in Nat
    BY <2>1, PlanAssumption DEF Usage, IInv, Basics
  <2> QED
    BY <2>1, <2>2, SpentStays
<1> QED
  BY <1>1 DEF Answered

LEMMA TrackersHaveUsage ==
    ASSUME IInv
    PROVE  /\ tracker.entries \cup tracker.reservations \subseteq Usage
           /\ file.entries \cup file.reservations \subseteq Usage
           /\ writer.by # Nobody =>
                 /\ writer.before.entries \cup writer.before.reservations \subseteq Usage
                 /\ writer.to.entries \cup writer.to.reservations \subseteq Usage
BY DEF IInv, TrackersAre, TrackerIs, TrackerAt, Tracker

LEMMA PrunedHas ==
    ASSUME IInv, NEW t, TrackerIs(t)
    PROVE  /\ Pruned(t).entries \subseteq t.entries
           /\ \A x : x \in Pruned(t).reservations <=> x \in t.reservations /\ x.at + Ttl > now
           /\ Pruned(t).credit = t.credit
<1>1. now \in 0 .. MaxTime /\ Cardinality(Charges) \in Nat /\ TrackerAt(now, Cardinality(Charges), t)
  BY ChargesAre DEF IInv, Basics, TrackerIs
<1> QED
  BY <1>1, PrunedIs

\* Less of the tracker fits.
LEMMA FitsLess ==
    ASSUME NEW t, TrackerIs(t), Fits(t), IsFiniteSet(answered),
           NEW u, u.entries \subseteq t.entries, u.reservations \subseteq t.reservations,
           u.credit = t.credit
    PROVE  Fits(u)
<1>1. IsFiniteSet(t.entries) /\ IsFiniteSet(t.reservations) /\ UsedAt(now, t) \in Nat
  BY UsedIs DEF TrackerIs
<1>2. WindowFits(u)
  BY <1>1, WindowLess DEF Fits
<1>3. CreditFits(now, u, answered)
  BY <1>1, CreditLess DEF Fits
<1> QED
  BY <1>2, <1>3 DEF Fits

\* A step that changes the tracker by pruning it at most.
LEMMA QuietBooks ==
    ASSUME IInv, Books, \A q \in Requests : Advances(req[q], req'[q]),
           now' = now, answered' = answered, file' = file, writer' = writer,
           tracker' \in {tracker, Pruned(tracker)},
           \A q \in Requests : Recording(q) => req'[q] = req[q],
           \A q \in Requests : Recording(q)' => Recording(q),
           \A q \in Requests : req'[q].pc \in Carrying =>
               /\ req[q].pc \in Carrying
               /\ req'[q].seat = req[q].seat /\ req'[q].at = req[q].at
               /\ req'[q].pc \in Calling => req[q].pc \in Calling
    PROVE  Books'
<1>1. /\ tracker'.entries \subseteq tracker.entries
      /\ tracker'.reservations \subseteq tracker.reservations
      /\ \A x \in tracker.reservations : now < x.at + Ttl => x \in tracker'.reservations
      /\ tracker'.credit = tracker.credit
  <2>1. /\ Pruned(tracker).entries \subseteq tracker.entries
        /\ \A x : x \in Pruned(tracker).reservations <=> x \in tracker.reservations /\ x.at + Ttl > now
        /\ Pruned(tracker).credit = tracker.credit
    BY PrunedHas DEF IInv, TrackersAre
  <2>2. \A x \in tracker.reservations : now < x.at + Ttl => x.at + Ttl > now
    OBVIOUS
  <2> QED
    BY <2>1, <2>2
<1>2. Kept'
  <2>1. ASSUME NEW q \in Requests, req'[q].pc \in Carrying
        PROVE  Reservation(q)' \in tracker'.reservations /\ now' < req'[q].at + Ttl
    <3>1. Reservation(q)' = Reservation(q) /\ req'[q].at = req[q].at
      BY <2>1 DEF Reservation, Id
    <3>2. Reservation(q) \in tracker.reservations /\ now < req[q].at + Ttl
      BY <2>1 DEF Books, Kept
    <3>3. Reservation(q).at = req[q].at
      BY DEF Reservation
    <3> QED
      BY <1>1, <3>1, <3>2, <3>3
  <2>2. ASSUME writer.by # Nobody, NEW q \in Requests, req'[q].pc \in Calling
        PROVE  Reservation(q)' \in writer.before.reservations
    <3>1. Reservation(q)' = Reservation(q) /\ req[q].pc \in Calling
      BY <2>2 DEF Reservation, Id, Calling, Carrying
    <3> QED
      BY <2>2, <3>1 DEF Books, Kept
  <2> QED
    BY <2>1, <2>2 DEF Kept
<1>3. Answered'
  BY AnsweredStays, PlanAssumption DEF Books, IInv, Basics
<1>4. Entered'
  <2>1. ASSUME NEW e \in Usage,
               SpentId(e.id) \/ \E q \in Requests : Recording(q) /\ e.id = Id(q)
        PROVE  SpentId(e.id)' \/ \E q \in Requests : Recording(q)' /\ e.id = Id(q)'
    <3>1. CASE SpentId(e.id)
      BY <3>1, SpentStays
    <3>2. ASSUME NEW q \in Requests, Recording(q), e.id = Id(q)
          PROVE  Recording(q)' /\ e.id = Id(q)'
      BY <3>2 DEF Recording, Id
    <3> QED
      BY <2>1, <3>1, <3>2
  <2>2. \A e \in tracker'.entries :
           SpentId(e.id)' \/ \E q \in Requests : Recording(q)' /\ e.id = Id(q)'
    BY <1>1, <2>1, TrackersHaveUsage DEF Books, Entered
  <2>3. \A e \in file.entries : SpentId(e.id)'
    BY SpentStays, TrackersHaveUsage DEF Books, Entered
  <2>4. writer.by # Nobody => \A e \in writer.before.entries : SpentId(e.id)'
    BY SpentStays, TrackersHaveUsage DEF Books, Entered
  <2>5. writer.by # Nobody => \A e \in writer.to.entries :
           SpentId(e.id)' \/ \E q \in Requests : Recording(q)' /\ e.id = Id(q)'
    BY <2>1, TrackersHaveUsage DEF Books, Entered
  <2> QED
    BY <2>2, <2>3, <2>4, <2>5 DEF Entered
<1>5. Fitting'
  <2>1. IsFiniteSet(answered) /\ TrackerIs(tracker)
    BY DEF Books, Answered, IInv, TrackersAre
  <2>2. Fits(tracker')
    BY <1>1, <2>1, FitsLess DEF Books, Fitting
  <2>3. ASSUME NEW q \in Requests, Recording(q)'
        PROVE  Recording(q) /\ PendingOf(q)' = PendingOf(q)
    BY <2>3 DEF PendingOf, Id
  <2> QED
    BY <2>2, <2>3 DEF Books, Fitting, Fits
<1> QED
  BY <1>2, <1>3, <1>4, <1>5 DEF Books

\* A change of the tracker that records no usage.
LEMMA ChangeBooks ==
    ASSUME IInv, Books, \A q \in Requests : Advances(req[q], req'[q]),
           now' = now, answered' = answered, file' = file,
           NEW r \in Requests, writer.by = Nobody, writer' = [by |-> r, before |-> tracker, to |-> tracker'],
           \A q \in Requests : q # r => req'[q] = req[q], ~Recording(r)',
           tracker'.entries \subseteq tracker.entries, Fits(tracker'),
           \A x \in tracker.reservations :
               x.id # Id(r) /\ now < x.at + Ttl => x \in tracker'.reservations,
           req'[r].pc \notin Calling,
           req'[r].pc \in Carrying =>
               Reservation(r)' \in tracker'.reservations /\ now < req'[r].at + Ttl
    PROVE  Books'
<1>1. \A q \in Requests : ~Recording(q) /\ ~Recording(q)'
  <2>1. \A q \in Requests : req[q].pc # "recording"
    BY PlanAssumption DEF IInv, WriterHas, Changing
  <2> QED
    BY <2>1 DEF Recording
<1>2. \A e \in tracker.entries : SpentId(e.id)
  BY <1>1 DEF Books, Entered
<1>3. Kept'
  <2>1. ASSUME NEW q \in Requests, q # r, req'[q].pc \in Carrying
        PROVE  Reservation(q)' \in tracker'.reservations /\ now' < req'[q].at + Ttl
    <3>1. Reservation(q)' = Reservation(q) /\ req'[q] = req[q]
      BY <2>1 DEF Reservation, Id
    <3>2. Reservation(q) \in tracker.reservations /\ now < req[q].at + Ttl
      BY <2>1, <3>1 DEF Books, Kept
    <3>3. Reservation(q).at = req[q].at /\ Reservation(q).id # Id(r)
      BY <2>1 DEF Reservation, Id
    <3> QED
      BY <3>1, <3>2, <3>3
  <2>2. ASSUME NEW q \in Requests, req'[q].pc \in Calling
        PROVE  Reservation(q)' \in tracker.reservations
    <3>1. Reservation(q)' = Reservation(q) /\ req[q].pc \in Carrying
      BY <2>2 DEF Reservation, Id, Calling, Carrying
    <3> QED
      BY <3>1 DEF Books, Kept
  <2>3. writer'.before = tracker
    OBVIOUS
  <2> QED
    BY <2>1, <2>2, <2>3 DEF Kept
<1>4. Answered'
  BY AnsweredStays, PlanAssumption DEF Books, IInv, Basics
<1>5. Entered'
  <2>1. \A e \in tracker.entries : SpentId(e.id)'
    BY <1>2, SpentStays, TrackersHaveUsage
  <2>2. \A e \in file.entries : SpentId(e.id)'
    BY SpentStays, TrackersHaveUsage DEF Books, Entered
  <2>3. writer'.before = tracker /\ writer'.to = tracker'
    OBVIOUS
  <2> QED
    BY <2>1, <2>2, <2>3 DEF Entered
<1>6. Fitting'
  <2>1. writer'.before = tracker /\ writer'.to = tracker'
    OBVIOUS
  <2> QED
    BY <1>1, <2>1 DEF Books, Fitting, Fits
<1> QED
  BY <1>3, <1>4, <1>5, <1>6 DEF Books

\* What the checks of reserve say of the limits.
LEMMA AdmitsIs ==
    ASSUME NEW t, NEW seat, Admits(t, seat)
    PROVE  /\ seat = "codex" =>
                 Cardinality(Calls(t)) + Cardinality(Open(t, "codex")) < WindowCalls
           /\ seat = "claude" => UsedAt(now, t) + Cardinality(OpenAt(now, t)) < MonthlyCredit
<1>1. OpenAt(now, t) = {x \in Open(t, "claude") : MonthOf(x.at) = MonthOf(now)}
  BY DEF OpenAt, Open
<1> QED
  BY <1>1 DEF Admits, UsedCredit, UsedAt, OpenCredit

LEMMA ArriveBooks ==
    ASSUME IInv, Books, NEW r \in Requests, Arrive(r)
    PROVE  Books'
<1>1. PICK rec : /\ req' = [req EXCEPT ![r] = rec] /\ Advances(req[r], rec)
                 /\ rec.pc \in {"hit", "queued", "ended"} /\ rec.result = "none"
  BY ArriveIs
<1>2. /\ req'[r] = rec /\ \A q \in Requests : q # r => req'[q] = req[q]
      /\ \A q \in Requests : Advances(req[q], req'[q])
  BY <1>1, OneMoves DEF IInv
<1>3. /\ req[r].pc = "new" /\ tracker' \in {tracker, Pruned(tracker)}
      /\ UNCHANGED <<file, writer, now, answered>>
  BY ArriveIs DEF Arrive
<1>4. \A q \in Requests : Recording(q) => req'[q] = req[q]
  BY <1>2, <1>3 DEF Recording
<1>5. \A q \in Requests : Recording(q)' => Recording(q)
  BY <1>1, <1>2 DEF Recording
<1>6. \A q \in Requests : req'[q].pc \in Carrying => req'[q] = req[q]
  BY <1>1, <1>2 DEF Carrying
<1> QED
  BY <1>2, <1>3, <1>4, <1>5, <1>6, QuietBooks

LEMMA HitBooks ==
    ASSUME IInv, Books, NEW r \in Requests, Hit(r)
    PROVE  Books'
<1>1. PICK rec : /\ req' = [req EXCEPT ![r] = rec] /\ Advances(req[r], rec)
                 /\ rec.pc = "recording" /\ rec.result = "hit"
  BY HitIs
<1>2. /\ req'[r] = rec /\ \A q \in Requests : q # r => req'[q] = req[q]
      /\ \A q \in Requests : Advances(req[q], req'[q])
  BY <1>1, OneMoves DEF IInv
<1>3. /\ writer.by = Nobody /\ writer' = [by |-> r, before |-> tracker, to |-> tracker']
      /\ tracker' = Pruned(tracker) /\ UNCHANGED <<file, now, answered>>
  BY DEF Hit, Change, Same
<1>4. /\ tracker'.entries \subseteq tracker.entries
      /\ \A x : x \in tracker'.reservations <=> x \in tracker.reservations /\ x.at + Ttl > now
      /\ tracker'.credit = tracker.credit
  BY <1>3, PrunedHas DEF IInv, TrackersAre
<1>5. Fits(tracker')
  BY <1>4, FitsLess DEF Books, Fitting, Answered, IInv, TrackersAre
<1>6. \A x \in tracker.reservations : now < x.at + Ttl => x \in tracker'.reservations
  <2>1. \A x : now < x.at + Ttl => x.at + Ttl > now
    OBVIOUS
  <2> QED
    BY <1>4, <2>1
<1>7. ~Recording(r)' /\ req'[r].pc \notin Calling /\ req'[r].pc \notin Carrying
  BY <1>1, <1>2 DEF Recording, Calling, Carrying
<1> QED
  BY <1>2, <1>3, <1>4, <1>5, <1>6, <1>7, ChangeBooks

LEMMA ReserveBooks ==
    ASSUME IInv, Books, NEW r \in Requests, Reserve(r)
    PROVE  Books'
<1> DEFINE p == Pruned(tracker)
           seat == req[r].seat
<1>1. /\ req[r].pc = "queued" /\ writer.by = Nobody /\ seat \in Seats
      /\ UNCHANGED <<now, answered>> /\ now \in 0 .. MaxTime
  BY ReserveIs DEF Reserve, Same, IInv, Basics, Request
<1>2. /\ TrackerIs(p) /\ p.entries \subseteq tracker.entries
      /\ \A x : x \in p.reservations <=> x \in tracker.reservations /\ x.at + Ttl > now
      /\ p.credit = tracker.credit
  BY PrunedHas, PrunedStays DEF IInv, TrackersAre
<1>3. Fits(p)
  BY <1>2, FitsLess DEF Books, Fitting, Answered, IInv, TrackersAre
<1>4. ASSUME Admits(p, seat), Change(r, Reserved(p, r, seat)), NEW rec,
             req' = [req EXCEPT ![r] = rec], Advances(req[r], rec),
             rec.pc = "reserving", rec.seat = seat, rec.at = now
      PROVE  Books'
  <2>1. /\ req'[r] = rec /\ \A q \in Requests : q # r => req'[q] = req[q]
        /\ \A q \in Requests : Advances(req[q], req'[q])
    BY <1>4, OneMoves DEF IInv
  <2>2. /\ tracker' = Reserved(p, r, seat) /\ writer' = [by |-> r, before |-> tracker, to |-> tracker']
        /\ UNCHANGED <<file, stray>>
    BY <1>4 DEF Change
  <2> DEFINE c == Cardinality(Charges)
  <2>3. c \in Nat /\ TrackerAt(now, c, p)
    BY <1>2, ChargesAre DEF TrackerIs
  <2>4. PICK x \in Usage :
           /\ x = [id |-> <<r, seat>>, seat |-> seat, at |-> now]
           /\ tracker'.entries = p.entries /\ tracker'.credit = p.credit
           /\ tracker'.reservations = p.reservations \cup {x}
    <3> HIDE DEF p, c, seat
    <3>1. /\ Reserved(p, r, seat).entries = p.entries
          /\ Reserved(p, r, seat).credit = p.credit
      BY <1>1, <2>3, ReservedIs
    <3>2. PICK x \in Usage :
             /\ x = [id |-> <<r, seat>>, seat |-> seat, at |-> now]
             /\ Reserved(p, r, seat).reservations = p.reservations \cup {x}
      BY <1>1, <2>3, ReservedIs
    <3> QED
      BY <2>2, <3>1, <3>2
  <2>5. x.seat = seat /\ x.at = now
    BY <2>4
  <2>6. Reservation(r)' = x
    BY <1>4, <2>1, <2>4 DEF Reservation, Id
  <2>7. Fits(tracker')
    <3>1. IsFiniteSet(p.entries) /\ IsFiniteSet(p.reservations) /\ UsedAt(now, p) \in Nat
      BY <2>3, UsedIs
    <3>2. WindowFits(p) /\ CreditFits(now, p, answered) /\ IsFiniteSet(answered)
      BY <1>3 DEF Fits, Books, Answered
    <3>3. /\ x.seat = "codex" =>
                Cardinality(Calls(p)) + Cardinality(Open(p, "codex")) < WindowCalls
          /\ x.seat = "claude" => UsedAt(now, p) + Cardinality(OpenAt(now, p)) < MonthlyCredit
      BY <1>4, <2>5, AdmitsIs
    <3>4. tracker'.reservations \subseteq p.reservations \cup {x}
      BY <2>4
    <3> HIDE DEF p
    <3>5. WindowFits(tracker') /\ CreditFits(now, tracker', answered)
      BY <2>4, <3>1, <3>2, <3>3, <3>4, ReserveFits
    <3> QED
      BY <3>5 DEF Fits
  <2>8. \A y \in tracker.reservations : now < y.at + Ttl => y \in tracker'.reservations
    <3>1. \A y : now < y.at + Ttl => y.at + Ttl > now
      OBVIOUS
    <3> QED
      BY <1>2, <2>4, <3>1
  <2>9. now < req'[r].at + Ttl
    BY <1>1, <1>4, <2>1, PlanAssumption
  <2>10. ~Recording(r)' /\ req'[r].pc \notin Calling /\ Reservation(r)' \in tracker'.reservations
    BY <1>4, <2>1, <2>4, <2>6 DEF Recording, Calling
  <2>11. tracker'.entries \subseteq tracker.entries
    BY <1>2, <2>4
  <2> QED
    BY <1>1, <2>1, <2>2, <2>7, <2>8, <2>9, <2>10, <2>11, ChangeBooks
<1>5. ASSUME tracker' = p, UNCHANGED <<file, writer, stray>>, NEW rec,
             req' = [req EXCEPT ![r] = rec], Advances(req[r], rec),
             rec.pc \in {"queued", "ended"}
      PROVE  Books'
  <2>1. /\ req'[r] = rec /\ \A q \in Requests : q # r => req'[q] = req[q]
        /\ \A q \in Requests : Advances(req[q], req'[q])
    BY <1>5, OneMoves DEF IInv
  <2>2. \A q \in Requests : Recording(q) => req'[q] = req[q]
    BY <1>1, <2>1 DEF Recording
  <2>3. \A q \in Requests : Recording(q)' => Recording(q)
    BY <1>5, <2>1 DEF Recording
  <2>4. \A q \in Requests : req'[q].pc \in Carrying => req'[q] = req[q]
    BY <1>5, <2>1 DEF Carrying
  <2> QED
    BY <1>1, <1>5, <2>1, <2>2, <2>3, <2>4, QuietBooks
<1> QED
  BY <1>4, <1>5, ReserveIs

LEMMA InvokeBooks ==
    ASSUME IInv, Books, NEW r \in Requests, Invoke(r)
    PROVE  Books'
<1>1. PICK rec : /\ req' = [req EXCEPT ![r] = rec] /\ Advances(req[r], rec)
                 /\ rec.pc \in {"billing", "refund"} /\ rec.result # "hit"
                 /\ rec.seat = req[r].seat /\ rec.at = req[r].at
  BY InvokeIs
<1>2. /\ req'[r] = rec /\ \A q \in Requests : q # r => req'[q] = req[q]
      /\ \A q \in Requests : Advances(req[q], req'[q])
  BY <1>1, OneMoves DEF IInv
<1>3. req[r].pc = "calling" /\ UNCHANGED <<tracker, file, writer, now, answered>>
  BY DEF Invoke, Same, books
<1>4. \A q \in Requests : Recording(q) => req'[q] = req[q]
  BY <1>2, <1>3 DEF Recording
<1>5. \A q \in Requests : Recording(q)' => Recording(q)
  BY <1>1, <1>2 DEF Recording
<1>6. \A q \in Requests : req'[q].pc \in Carrying =>
          /\ req[q].pc \in Carrying
          /\ req'[q].seat = req[q].seat /\ req'[q].at = req[q].at
          /\ req'[q].pc \in Calling => req[q].pc \in Calling
  BY <1>1, <1>2, <1>3 DEF Carrying, Calling
<1> QED
  BY <1>2, <1>3, <1>4, <1>5, <1>6, QuietBooks

LEMMA LeaveBooks ==
    ASSUME IInv, Books, NEW r \in Requests, Leave(r)
    PROVE  Books'
<1>1. PICK rec :
        /\ req' = [req EXCEPT ![r] = rec] /\ Advances(req[r], rec)
        /\ \/ /\ req[r].pc \in {"calling", "billing"}
              /\ rec.pc = "refund" /\ rec.seat = req[r].seat
           \/ req[r].pc \notin {"calling", "billing"} /\ rec.pc = "ended"
  BY LeaveIs
<1>2. /\ req'[r] = rec /\ \A q \in Requests : q # r => req'[q] = req[q]
      /\ \A q \in Requests : Advances(req[q], req'[q])
  BY <1>1, OneMoves DEF IInv
<1>3. /\ req[r].pc \in {"hit", "queued", "calling", "billing", "answer"}
      /\ UNCHANGED <<tracker, file, writer, now, answered>>
  BY LeaveIs DEF Leave, books
<1>4. \A q \in Requests : Recording(q) => req'[q] = req[q]
  BY <1>2, <1>3 DEF Recording
<1>5. \A q \in Requests : Recording(q)' => Recording(q)
  BY <1>1, <1>2 DEF Recording
<1>6. \A q \in Requests : req'[q].pc \in Carrying => req'[q] = req[q]
  BY <1>1, <1>2 DEF Carrying
<1> QED
  BY <1>2, <1>3, <1>4, <1>5, <1>6, QuietBooks

LEMMA AnswerBooks ==
    ASSUME IInv, Books, NEW r \in Requests, Answer(r)
    PROVE  Books'
<1>1. /\ req' = [req EXCEPT ![r] = Over] /\ Advances(req[r], Over) /\ Over.pc = "ended"
  BY OverIs, OverAdvances DEF Answer, Go
<1>2. /\ req'[r] = Over /\ \A q \in Requests : q # r => req'[q] = req[q]
      /\ \A q \in Requests : Advances(req[q], req'[q])
  BY <1>1, OneMoves DEF IInv
<1>3. /\ req[r].pc = "answer" /\ tracker' = Pruned(tracker)
      /\ UNCHANGED <<file, writer, now, answered>>
  BY DEF Answer, Refresh
<1>4. \A q \in Requests : Recording(q) => req'[q] = req[q]
  BY <1>2, <1>3 DEF Recording
<1>5. \A q \in Requests : Recording(q)' => Recording(q)
  BY <1>1, <1>2 DEF Recording
<1>6. \A q \in Requests : req'[q].pc \in Carrying => req'[q] = req[q]
  BY <1>1, <1>2 DEF Carrying
<1> QED
  BY <1>2, <1>3, <1>4, <1>5, <1>6, QuietBooks

LEMMA IdleBooks ==
    ASSUME IInv, Books, UNCHANGED <<file, writer, now, answered, req>>,
           tracker' \in {tracker, Pruned(tracker)}
    PROVE  Books'
<1>1. \A q \in Requests : Advances(req[q], req'[q])
  BY SameRequests
<1>2. \A q \in Requests : Recording(q)' => Recording(q)
  BY DEF Recording
<1> QED
  BY <1>1, <1>2, QuietBooks

LEMMA RefundBooks ==
    ASSUME IInv, Books, NEW r \in Requests, Refund(r)
    PROVE  Books'
<1>1. /\ req[r].pc = "refund" /\ writer.by = Nobody /\ UNCHANGED <<now, answered>>
      /\ now \in 0 .. MaxTime
  BY RefundIs DEF Refund, Same, IInv, Basics
<1>2. ASSUME Change(r, Without(tracker, Id(r))), NEW rec,
             req' = [req EXCEPT ![r] = rec], Advances(req[r], rec), rec.pc = "releasing"
      PROVE  Books'
  <2>1. /\ req'[r] = rec /\ \A q \in Requests : q # r => req'[q] = req[q]
        /\ \A q \in Requests : Advances(req[q], req'[q])
    BY <1>2, OneMoves DEF IInv
  <2>2. /\ tracker' = Without(tracker, Id(r)) /\ writer' = [by |-> r, before |-> tracker, to |-> tracker']
        /\ UNCHANGED <<file, stray>>
    BY <1>2 DEF Change
  <2> DEFINE c == Cardinality(Charges)
  <2>3. c \in Nat /\ TrackerAt(now, c, tracker)
    BY ChargesAre DEF IInv, TrackersAre, TrackerIs
  <2>4. /\ tracker'.entries = tracker.entries /\ tracker'.credit = tracker.credit
        /\ \A x : x \in tracker'.reservations <=> x \in tracker.reservations /\ x.id # Id(r)
    <3> HIDE DEF c
    <3> QED
      BY <1>1, <2>2, <2>3, WithoutIs
  <2>5. Fits(tracker')
    BY <2>4, FitsLess DEF Books, Fitting, Answered, IInv, TrackersAre
  <2>6. ~Recording(r)' /\ req'[r].pc \notin Calling /\ req'[r].pc \notin Carrying
    BY <1>2, <2>1 DEF Recording, Calling, Carrying
  <2> QED
    BY <1>1, <2>1, <2>2, <2>4, <2>5, <2>6, ChangeBooks
<1>3. ASSUME UNCHANGED books, NEW rec, req' = [req EXCEPT ![r] = rec], Advances(req[r], rec),
             rec.pc \in {"queued", "ended"}
      PROVE  Books'
  <2>1. /\ req'[r] = rec /\ \A q \in Requests : q # r => req'[q] = req[q]
        /\ \A q \in Requests : Advances(req[q], req'[q])
    BY <1>3, OneMoves DEF IInv
  <2>2. \A q \in Requests : Recording(q) => req'[q] = req[q]
    BY <1>1, <2>1 DEF Recording
  <2>3. \A q \in Requests : Recording(q)' => Recording(q)
    BY <1>3, <2>1 DEF Recording
  <2>4. \A q \in Requests : req'[q].pc \in Carrying => req'[q] = req[q]
    BY <1>3, <2>1 DEF Carrying
  <2>5. UNCHANGED <<tracker, file, writer>>
    BY <1>3 DEF books
  <2> QED
    BY <1>1, <2>1, <2>2, <2>3, <2>4, <2>5, QuietBooks
<1> QED
  BY <1>2, <1>3, RefundIs

LEMMA ReconcileBooks ==
    ASSUME IInv, Books, NEW r \in Requests, Reconcile(r)
    PROVE  Books'
<1>1. /\ req[r].pc = "billing" /\ req[r].result # "hit" /\ writer.by = Nobody
      /\ UNCHANGED <<now, answered>> /\ now \in 0 .. MaxTime
      /\ req[r].seat \in Seats /\ req[r].seat \notin req[r].excluded
  BY ReconcileIs DEF Reconcile, Same, IInv, Basics, Good, Request
<1>2. ASSUME Change(r, Reconciled(tracker, r)), NEW rec,
             req' = [req EXCEPT ![r] = rec], Advances(req[r], rec),
             rec.pc = "recording", rec.result # "hit",
             rec.seat = req[r].seat, rec.at = req[r].at
      PROVE  Books'
  <2> DEFINE id == Id(r)
             seat == req[r].seat
             w == Without(tracker, id)
             c == Cardinality(Charges)
             x == Reservation(r)
  <2>1. /\ req'[r] = rec /\ \A q \in Requests : q # r => req'[q] = req[q]
        /\ \A q \in Requests : Advances(req[q], req'[q])
    BY <1>2, OneMoves DEF IInv
  <2>2. /\ tracker' = Recorded(w, id, seat) /\ writer' = [by |-> r, before |-> tracker, to |-> tracker']
        /\ UNCHANGED <<file, stray>>
    BY <1>2 DEF Change, Reconciled
  <2>3. \A q \in Requests : req[q].pc # "recording" /\ ~Recording(q)
    BY <1>1, PlanAssumption DEF IInv, WriterHas, Changing, Recording
  <2>4. \A q \in Requests : q # r => ~Recording(q)'
    BY <2>1, <2>3 DEF Recording
  <2>5. c \in Nat /\ TrackerAt(now, c, tracker) /\ seat \in Seats /\ id \in Requests \X Seats
    BY <1>1, ChargesAre DEF IInv, TrackersAre, TrackerIs, Id
  <2>6. /\ TrackerAt(now, c, w)
        /\ w.entries = tracker.entries /\ w.credit = tracker.credit
        /\ \A y : y \in w.reservations <=> y \in tracker.reservations /\ y.id # id
    <3> HIDE DEF c, id, seat
    <3> QED
      BY <1>1, <2>5, WithoutIs
  <2>7. PICK e \in Usage :
           /\ e = [id |-> id, seat |-> seat, at |-> now]
           /\ \A f : f \in tracker'.entries <=>
                 \/ f \in w.entries /\ f.at >= now - Window
                 \/ f = e /\ seat # "api"
    <3> HIDE DEF c, id, seat, w
    <3>1. \E e \in Usage :
             /\ e = [id |-> id, seat |-> seat, at |-> now]
             /\ \A f : f \in Recorded(w, id, seat).entries <=>
                   \/ f \in w.entries /\ f.at >= now - Window
                   \/ f = e /\ seat # "api"
      BY <1>1, <2>5, <2>6, RecordedIs, ZenonT(40)
    <3> QED
      BY <2>2, <3>1
  <2>8. /\ \A y : y \in tracker'.reservations <=> y \in w.reservations /\ y.at + Ttl > now
        /\ tracker'.credit = IF seat = "claude"
              THEN [month |-> MonthOf(now), used |-> UsedCredit(w) + 1] ELSE w.credit
    <3> HIDE DEF c, id, seat, w
    <3> QED
      BY <1>1, <2>2, <2>5, <2>6, RecordedIs
  <2>9. /\ e.id = id /\ e.seat = seat /\ e.at = now
        /\ x.id = id /\ x.seat = seat /\ x.at = req[r].at /\ x \in tracker.reservations
    BY <1>1, <2>7 DEF Reservation, Books, Kept, Carrying
  <2>10. /\ tracker'.entries \subseteq tracker.entries \cup {e}
         /\ tracker'.reservations \subseteq tracker.reservations \ {x}
    BY <2>6, <2>7, <2>8, <2>9
  <2>11. UsedAt(now, tracker') = IF x.seat = "claude" THEN UsedAt(now, tracker) + 1
                                 ELSE UsedAt(now, tracker)
    <3>1. UsedCredit(w) = UsedAt(now, tracker)
      BY <2>6 DEF UsedCredit, UsedAt
    <3> HIDE DEF w, seat, x
    <3> QED
      BY <2>6, <2>8, <2>9, <3>1 DEF UsedAt
  <2> DEFINE a == [usage |-> e, since |-> MonthOf(req[r].at)]
  <2>12. \A f \in tracker.entries : SpentId(f.id) /\ f.id # id
    <3>1. ~SpentId(id)
      BY <1>1 DEF SpentId, Spent, Id
    <3> QED
      BY <2>3, <3>1 DEF Books, Entered
  <2>13. PendingOf(r)' \subseteq {a} /\ Id(r)' = id /\ writer'.to = tracker'
    <3>1. Id(r)' = id /\ req'[r].at = req[r].at
      BY <1>2, <2>1 DEF Id
    <3>2. \A f \in tracker'.entries : f.id = id => f = e
      BY <2>10, <2>12
    <3>3. writer'.to = tracker'
      BY <2>2
    <3> QED
      BY <3>1, <3>2, <3>3 DEF PendingOf
  <2>14. /\ IsFiniteSet(PendingOf(r)') /\ Fits(tracker')
         /\ CreditFits(now, tracker', answered \cup PendingOf(r)')
    <3> DEFINE B == answered \cup PendingOf(r)'
    <3>1. /\ IsFiniteSet(tracker.entries) /\ IsFiniteSet(tracker.reservations)
          /\ UsedAt(now, tracker) \in Nat
      BY <2>5, UsedIs
    <3>2. WindowFits(tracker) /\ CreditFits(now, tracker, answered) /\ IsFiniteSet(answered)
      BY DEF Books, Fitting, Fits, Answered
    <3>3. a.usage = e /\ a.since = MonthOf(x.at) /\ e.seat = x.seat
      BY <2>9
    <3>4. B \subseteq answered \cup {a} /\ answered \subseteq answered \cup {a}
      BY <2>13
    <3>5. IsFiniteSet(PendingOf(r)')
      BY <2>13, CardinalityLeast, FS_Singleton
    <3>6. \A D : D \subseteq answered \cup {a} => WindowFits(tracker') /\ CreditFits(now, tracker', D)
      <4> HIDE DEF a, x
      <4> SUFFICES ASSUME NEW D, D \subseteq answered \cup {a}
                   PROVE  WindowFits(tracker') /\ CreditFits(now, tracker', D)
        OBVIOUS
      <4>1. PICK u : u = tracker'
        OBVIOUS
      <4>2. u.entries \subseteq tracker.entries \cup {e} /\ u.reservations \subseteq tracker.reservations \ {x}
        BY <2>10, <4>1
      <4>3. UsedAt(now, u) = IF x.seat = "claude" THEN UsedAt(now, tracker) + 1
                             ELSE UsedAt(now, tracker)
        BY <2>11, <4>1
      <4>4. WindowFits(u) /\ CreditFits(now, u, D)
        BY <2>9, <3>1, <3>2, <3>3, <4>2, <4>3, ChargeFits
      <4> QED
        BY <4>1, <4>4
    <3>7. WindowFits(tracker') /\ CreditFits(now, tracker', B) /\ CreditFits(now, tracker', answered)
      <4> HIDE DEF B, a
      <4> QED
        BY <3>4, <3>6
    <3> QED
      BY <3>5, <3>7 DEF Fits
  <2>15. Kept'
    <3>1. ASSUME NEW q \in Requests, req'[q].pc \in Carrying
          PROVE  /\ Reservation(q)' \in tracker.reservations
                 /\ Reservation(q)' \in tracker'.reservations /\ now' < req'[q].at + Ttl
      <4>1. q # r
        BY <1>2, <2>1, <3>1 DEF Carrying
      <4>2. Reservation(q)' = Reservation(q) /\ req'[q] = req[q]
        BY <2>1, <4>1 DEF Reservation, Id
      <4>3. Reservation(q) \in tracker.reservations /\ now < req[q].at + Ttl
        BY <3>1, <4>2 DEF Books, Kept
      <4>4. Reservation(q).at = req[q].at /\ Reservation(q).id # id
        BY <4>1 DEF Reservation, Id
      <4>5. req[q].at + Ttl > now
        BY <4>3
      <4> QED
        BY <1>1, <2>6, <2>8, <4>2, <4>3, <4>4, <4>5
    <3>2. writer'.before = tracker
      BY <2>2
    <3> QED
      BY <3>1, <3>2 DEF Kept, Calling, Carrying
  <2>16. Answered'
    BY <1>1, <2>1, AnsweredStays, PlanAssumption DEF Books
  <2>17. Entered'
    <3>1. \A f \in tracker.entries : SpentId(f.id)'
      BY <2>1, <2>12, SpentStays, TrackersHaveUsage
    <3>2. \A f \in file.entries : SpentId(f.id)'
      BY <2>1, SpentStays, TrackersHaveUsage DEF Books, Entered
    <3>3. Recording(r)' /\ e.id = Id(r)'
      BY <1>2, <2>1, <2>9, <2>13 DEF Recording
    <3>4. writer'.before = tracker /\ file' = file
      BY <2>2
    <3> QED
      BY <2>10, <2>13, <3>1, <3>2, <3>3, <3>4 DEF Entered
  <2>18. Fitting'
    <3>1. writer'.before = tracker /\ file' = file
      BY <2>2
    <3> QED
      BY <1>1, <2>4, <2>13, <2>14, <3>1 DEF Books, Fitting, Fits
  <2> QED
    BY <2>15, <2>16, <2>17, <2>18 DEF Books
<1>3. ASSUME UNCHANGED books, req' = [req EXCEPT ![r] = Over]
      PROVE  Books'
  <2>1. Advances(req[r], Over) /\ Over.pc = "ended"
    BY OverIs, OverAdvances
  <2>2. /\ req'[r] = Over /\ \A q \in Requests : q # r => req'[q] = req[q]
        /\ \A q \in Requests : Advances(req[q], req'[q])
    BY <1>3, <2>1, OneMoves DEF IInv
  <2>3. \A q \in Requests : Recording(q) => req'[q] = req[q]
    BY <1>1, <2>2 DEF Recording
  <2>4. \A q \in Requests : Recording(q)' => Recording(q)
    BY <2>1, <2>2 DEF Recording
  <2>5. \A q \in Requests : req'[q].pc \in Carrying => req'[q] = req[q]
    BY <2>1, <2>2 DEF Carrying
  <2>6. UNCHANGED <<tracker, file, writer>>
    BY <1>3 DEF books
  <2> QED
    BY <1>1, <2>2, <2>3, <2>4, <2>5, <2>6, QuietBooks
<1> QED
  BY <1>2, <1>3, ReconcileIs

LEMMA SavedBooks ==
    ASSUME IInv, Snapshot, Books, NEW r \in Requests, Saved(r)
    PROVE  Books'
<1>1. PICK rec :
        /\ req' = [req EXCEPT ![r] = rec] /\ Advances(req[r], rec)
        /\ req[r].pc = "reserving" =>
              /\ rec.pc = "calling" /\ rec.seat = req[r].seat /\ rec.at = req[r].at
              /\ req[r].result # "hit"
        /\ req[r].pc # "reserving" => rec.pc \in {"answer", "queued", "ended"}
        /\ req[r].pc = "recording" /\ req[r].result # "hit" => Spent(rec, req[r].seat)
  <2> HIDE DEF IInv
  <2> QED
    BY SavedIs, Zenon
<1>2. /\ req'[r] = rec /\ \A q \in Requests : q # r => req'[q] = req[q]
      /\ \A q \in Requests : Advances(req[q], req'[q])
  BY <1>1, OneMoves DEF IInv
<1>3. /\ writer.by = r /\ req[r].pc \in Changing
      /\ writer'.by = Nobody /\ file' = writer.to /\ tracker' = tracker /\ now' = now
      /\ now \in 0 .. MaxTime
  BY SavedIs DEF Saved, Written, Free, IInv, Basics
<1>4. answered' = IF Recording(r) THEN answered \cup PendingOf(r) ELSE answered
  BY SavedIs DEF Recording, PendingOf
<1>5. \A q \in Requests : (Recording(q) => q = r) /\ ~Recording(q)'
  <2>1. \A q \in Requests : Recording(q) => q = r
    BY <1>3 DEF IInv, WriterHas, Changing, Recording
  <2> QED
    BY <1>1, <1>2, <2>1 DEF Recording
<1>6. ASSUME NEW id, id = Id(r), Recording(r)
      PROVE  ~SpentId(id) /\ SpentId(id)'
  <2>1. id[1] = r /\ id[2] = req[r].seat
    BY <1>6 DEF Id
  <2>2. ~Spent(req[r], req[r].seat)
    BY <1>6 DEF Recording, Spent, IInv, Basics, Good
  <2>3. Spent(req'[r], req[r].seat)
    BY <1>1, <1>2, <1>6 DEF Recording
  <2>4. SpentId(id) <=> Spent(req[r], id[2])
    BY <2>1 DEF SpentId
  <2>5. SpentId(id)' <=> Spent(req'[r], id[2])
    BY <2>1 DEF SpentId, Spent
  <2> QED
    BY <2>1, <2>2, <2>3, <2>4, <2>5
<1>7. Kept'
  <2>1. ASSUME NEW q \in Requests, req'[q].pc \in Carrying
        PROVE  Reservation(q)' = Reservation(q) /\ req'[q].at = req[q].at /\ req[q].pc \in Carrying
    BY <1>1, <1>2, <2>1 DEF Reservation, Id, Carrying
  <2>2. \A q \in Requests : req'[q].pc \in Carrying =>
            Reservation(q)' \in tracker'.reservations /\ now' < req'[q].at + Ttl
    BY <1>3, <2>1 DEF Books, Kept
  <2> QED
    BY <1>3, <2>2 DEF Kept
<1>8. Answered'
  <2>1. ASSUME NEW a \in answered PROVE a.usage.at <= now /\ SpentId(a.usage.id) /\ SpentId(a.usage.id)'
    <3>1. a.usage \in Usage /\ a.usage.at <= now /\ SpentId(a.usage.id)
      BY DEF IInv, Basics, Books, Answered
    <3> QED
      BY <1>2, <3>1, SpentStays
  <2>2. CASE ~Recording(r)
    BY <1>3, <1>4, <2>1, <2>2 DEF Books, Answered
  <2>3. CASE Recording(r)
    <3>1. ASSUME NEW a \in PendingOf(r)
          PROVE  /\ a.usage \in writer.to.entries /\ a.usage.id = Id(r)
                 /\ a = [usage |-> a.usage, since |-> MonthOf(req[r].at)]
      BY DEF PendingOf
    <3>2. \A a \in PendingOf(r) : a.usage.at <= now /\ SpentId(a.usage.id)'
      <4> SUFFICES ASSUME NEW a \in PendingOf(r) PROVE a.usage.at <= now /\ SpentId(a.usage.id)'
        OBVIOUS
      <4>1. a.usage \in writer.to.entries /\ a.usage.id = Id(r)
        BY <3>1
      <4>2. a.usage.at <= now
        BY <1>3, <4>1, PlanAssumption DEF IInv, TrackersAre, TrackerIs, TrackerAt
      <4>3. PICK id : id = a.usage.id
        OBVIOUS
      <4>4. SpentId(id)'
        BY <1>6, <2>3, <4>1, <4>3
      <4> QED
        BY <4>2, <4>3, <4>4
    <3>3. ASSUME NEW a \in answered, NEW b \in PendingOf(r) PROVE a.usage # b.usage
      BY <1>6, <2>1, <2>3, <3>1
    <3>4. IsFiniteSet(answered \cup PendingOf(r))
      BY <2>3, FS_Union DEF Books, Answered, Fitting
    <3>5. ASSUME NEW a \in answered \cup PendingOf(r), NEW b \in answered \cup PendingOf(r),
                 a.usage = b.usage
          PROVE  a = b
      <4>1. CASE a \in answered /\ b \in answered
        BY <3>5, <4>1 DEF Books, Answered
      <4>2. CASE a \in PendingOf(r) /\ b \in PendingOf(r)
        BY <3>1, <3>5, <4>2
      <4> QED
        BY <3>3, <3>5, <4>1, <4>2
    <3>6. answered' = answered \cup PendingOf(r)
      BY <1>4, <2>3
    <3> QED
      BY <1>3, <2>1, <3>2, <3>4, <3>5, <3>6 DEF Answered
  <2> QED
    BY <2>2, <2>3
<1>9. Entered'
  <2>1. ASSUME NEW e \in tracker.entries \cup writer.to.entries PROVE SpentId(e.id)'
    <3>1. e \in Usage
      BY <1>3, PlanAssumption, TrackersHaveUsage
    <3>2. CASE SpentId(e.id)
      BY <1>2, <3>1, <3>2, SpentStays
    <3>3. CASE ~SpentId(e.id)
      <4>1. Recording(r) /\ e.id = Id(r)
        BY <1>3, <1>5, <3>3, PlanAssumption DEF Books, Entered
      <4>2. PICK id : id = e.id
        OBVIOUS
      <4>3. SpentId(id)'
        BY <1>6, <4>1, <4>2
      <4> QED
        BY <4>2, <4>3
    <3> QED
      BY <3>2, <3>3
  <2> QED
    BY <1>3, <2>1 DEF Entered
<1>10. Fitting'
  <2>1. /\ writer.by # Nobody /\ TrackerIs(writer.to)
        /\ tracker.reservations \subseteq writer.to.reservations
        /\ tracker.credit = writer.to.credit
    BY <1>3, PlanAssumption DEF Snapshot, IInv, TrackersAre
  <2>2. WindowFits(writer.to) /\ CreditFits(now, writer.to, answered')
    BY <1>4, <2>1 DEF Books, Fitting, Fits
  <2>3. /\ IsFiniteSet(writer.to.entries) /\ IsFiniteSet(writer.to.reservations)
        /\ UsedAt(now, writer.to) \in Nat
    BY <2>1, UsedIs DEF TrackerIs
  <2>4. IsFiniteSet(answered')
    BY <1>8 DEF Answered
  <2>5. WindowFits(tracker) /\ CreditFits(now, tracker, answered')
    <3>1. \A A : IsFiniteSet(A) /\ CreditFits(now, writer.to, A) => CreditFits(now, tracker, A)
      BY <2>1, <2>3, CreditLess
    <3> QED
      BY <2>2, <2>4, <3>1 DEF Books, Fitting, Fits
  <2> QED
    BY <1>3, <1>5, <2>2, <2>5 DEF Fitting, Fits
<1> QED
  BY <1>7, <1>8, <1>9, <1>10 DEF Books

LEMMA SaveFailsBooks ==
    ASSUME IInv, Books, NEW r \in Requests, SaveFails(r)
    PROVE  Books'
<1>1. PICK rec :
        /\ req' = [req EXCEPT ![r] = rec] /\ Advances(req[r], rec)
        /\ rec.pc \in {"refund", "queued", "ended"}
  BY SaveFailsIs
<1>2. /\ req'[r] = rec /\ \A q \in Requests : q # r => req'[q] = req[q]
      /\ \A q \in Requests : Advances(req[q], req'[q])
  BY <1>1, OneMoves DEF IInv
<1>3. /\ writer.by = r /\ writer.by # Nobody
      /\ writer'.by = Nobody /\ file' = file /\ tracker' = writer.before
      /\ UNCHANGED <<now, answered>> /\ now \in 0 .. MaxTime
  BY PlanAssumption DEF SaveFails, Written, Free, Restored, IInv, Basics
<1>4. \A q \in Requests : ~Recording(q)'
  <2>1. \A q \in Requests : Recording(q) => q = r
    BY <1>3 DEF IInv, WriterHas, Changing, Recording
  <2> QED
    BY <1>1, <1>2, <2>1 DEF Recording
<1>5. Kept'
  <2>1. ASSUME NEW q \in Requests, req'[q].pc \in Carrying
        PROVE  Reservation(q)' \in writer.before.reservations /\ now' < req'[q].at + Ttl
    <3>1. q # r
      BY <1>1, <1>2, <2>1 DEF Carrying
    <3>2. Reservation(q)' = Reservation(q) /\ req'[q] = req[q]
      BY <1>2, <3>1 DEF Reservation, Id
    <3>3. req[q].pc # "reserving"
      BY <1>3, <3>1 DEF IInv, WriterHas, Changing
    <3>4. req[q].pc \in Calling /\ req[q].pc \in Carrying
      BY <2>1, <3>2, <3>3 DEF Carrying, Calling
    <3> QED
      BY <1>3, <3>2, <3>4 DEF Books, Kept
  <2> QED
    BY <1>3, <2>1 DEF Kept
<1>6. Answered'
  BY <1>2, <1>3, AnsweredStays, PlanAssumption DEF Books
<1>7. Entered'
  <2>1. \A e \in writer.before.entries : SpentId(e.id)'
    BY <1>2, <1>3, SpentStays, TrackersHaveUsage DEF Books, Entered
  <2>2. \A e \in file.entries : SpentId(e.id)'
    BY <1>2, SpentStays, TrackersHaveUsage DEF Books, Entered
  <2> QED
    BY <1>3, <2>1, <2>2 DEF Entered
<1>8. Fitting'
  BY <1>3, <1>4 DEF Books, Fitting, Fits
<1> QED
  BY <1>5, <1>6, <1>7, <1>8 DEF Books

LEMMA RestartBooks ==
    ASSUME IInv, Books, Restart
    PROVE  Books'
<1>1. /\ \A q \in Requests : Advances(req[q], req'[q]) /\ req'[q].pc \in {"new", "ended"}
      /\ tracker' = Pruned(file) /\ file' \in {file, Pruned(file)}
      /\ writer'.by = Nobody
  BY RestartIs
<1>2. UNCHANGED <<now, answered>> /\ now \in 0 .. MaxTime /\ TrackerIs(file)
  BY DEF Restart, IInv, Basics, TrackersAre
<1>3. /\ Pruned(file).entries \subseteq file.entries
      /\ Pruned(file).reservations \subseteq file.reservations
      /\ Pruned(file).credit = file.credit
  BY <1>2, PrunedHas
<1>4. Fits(Pruned(file)) /\ Fits(file)
  BY <1>2, <1>3, FitsLess DEF Books, Fitting, Answered
<1>5. Kept'
  BY <1>1 DEF Kept, Carrying
<1>6. Answered'
  BY <1>1, <1>2, AnsweredStays, PlanAssumption DEF Books
<1>7. Entered'
  <2>1. \A e \in file.entries : SpentId(e.id)'
    BY <1>1, SpentStays, TrackersHaveUsage DEF Books, Entered
  <2> QED
    BY <1>1, <1>3, <2>1 DEF Entered
<1>8. Fitting'
  <2>1. \A q \in Requests : ~Recording(q)'
    BY <1>1 DEF Recording
  <2>2. Fits(tracker') /\ Fits(file')
    BY <1>1, <1>4
  <2> QED
    BY <1>1, <1>2, <2>1, <2>2 DEF Fitting, Fits
<1> QED
  BY <1>5, <1>6, <1>7, <1>8 DEF Books

\* A call does not outlast its reservation, by hypothesis.
LEMMA TickBooks ==
    ASSUME IInv, Books, Tick, "slow" \notin Faults[mode]
    PROVE  Books'
<1>1. /\ now < MaxTime /\ now' = now + 1
      /\ UNCHANGED <<tracker, file, writer, req, answered>>
      /\ \A r \in Requests : Holds(r) => now + 1 < req[r].at + Ttl
  BY DEF Tick, books
<1>2. now \in 0 .. MaxTime /\ now' \in 0 .. MaxTime /\ now <= now'
  BY <1>1, PlanAssumption DEF IInv, Basics
<1>3. \A q \in Requests : Advances(req[q], req'[q])
  BY <1>1, SameRequests
<1>4. Kept'
  <2>1. \A r \in Requests : req[r].pc \in Carrying => Holds(r)
    BY DEF IInv, Basics, Good, Carrying, Holds, Busy
  <2> QED
    BY <1>1, <2>1 DEF Books, Kept, Reservation, Id
<1>5. Answered'
  BY <1>1, <1>2, <1>3, AnsweredStays DEF Books
<1>6. Entered'
  BY <1>1 DEF Books, Entered, SpentId, Recording, Id
<1>7. Fitting'
  <2> DEFINE c == Cardinality(Charges)
  <2>1. c \in Nat
    BY ChargesAre
  <2>2. ASSUME NEW t, TrackerIs(t), NEW A, \A a \in A : a.usage \in Usage /\ a.usage.at <= now,
               CreditFits(now, t, A)
        PROVE  CreditFits(now', t, A)
    <3>1. TrackerAt(now, c, t)
      BY <2>2 DEF TrackerIs
    <3>2. UsedAt(now', t) \in Nat
      BY <3>1, UsedIs
    <3> HIDE DEF c
    <3> QED
      BY <1>2, <2>1, <2>2, <3>1, <3>2, CreditLater
  <2>3. \A a \in answered : a.usage \in Usage /\ a.usage.at <= now
    BY DEF IInv, Basics, Books, Answered
  <2>4. ASSUME writer.by # Nobody, NEW r \in Requests, NEW a \in PendingOf(r)
        PROVE  a.usage \in Usage /\ a.usage.at <= now
    <3>1. a.usage \in writer.to.entries
      BY DEF PendingOf
    <3>2. TrackerIs(writer.to)
      BY <2>4 DEF IInv, TrackersAre
    <3> QED
      BY <3>1, <3>2 DEF TrackerIs, TrackerAt, Tracker
  <2>5. ASSUME NEW t, TrackerIs(t), Fits(t) PROVE WindowFits(t) /\ CreditFits(now', t, answered)
    BY <2>2, <2>3, <2>5 DEF Fits
  <2>6. ASSUME NEW r \in Requests, Recording(r)
        PROVE  IsFiniteSet(PendingOf(r)) /\ CreditFits(now', writer.to, answered \cup PendingOf(r))
    <3>1. IsFiniteSet(PendingOf(r)) /\ CreditFits(now, writer.to, answered \cup PendingOf(r))
      BY <2>6 DEF Books, Fitting
    <3>2. writer.by # Nobody
      BY <2>6, PlanAssumption DEF Recording, IInv, WriterHas, Changing
    <3>3. \A a \in answered \cup PendingOf(r) : a.usage \in Usage /\ a.usage.at <= now
      BY <2>3, <2>4, <3>2
    <3>4. TrackerIs(writer.to)
      BY <3>2 DEF IInv, TrackersAre
    <3> QED
      BY <2>2, <3>1, <3>3, <3>4
  <2>7. /\ WindowFits(tracker) /\ CreditFits(now', tracker, answered)
        /\ WindowFits(file) /\ CreditFits(now', file, answered)
        /\ writer.by # Nobody =>
              /\ WindowFits(writer.before) /\ CreditFits(now', writer.before, answered)
              /\ WindowFits(writer.to) /\ CreditFits(now', writer.to, answered)
    BY <2>5 DEF Books, Fitting, IInv, TrackersAre
  <2>8. \A r \in Requests : PendingOf(r)' = PendingOf(r) /\ (Recording(r)' <=> Recording(r))
    BY <1>1 DEF PendingOf, Recording, Id
  <2> QED
    BY <1>1, <2>6, <2>7, <2>8 DEF Fitting, Fits
<1> QED
  BY <1>4, <1>5, <1>6, <1>7 DEF Books

LEMMA BooksStep ==
    ASSUME \A m \in Modes : Faults[m] \cap {"overtake", "slow"} # {} => m = "replay",
           IInv, Snapshot, mode # "replay", Saving, Books, [Next]_planvars
    PROVE  Books'
<1>1. mode \in Modes /\ "overtake" \notin Faults[mode] /\ "slow" \notin Faults[mode] /\ stray = {}
  BY DEF IInv, Basics, Saving
<1>2. ASSUME NEW r \in Requests, Arrive(r) \/ RequestStep(r) PROVE Books'
  BY <1>2, ArriveBooks, HitBooks, ReserveBooks, InvokeBooks, ReconcileBooks, RefundBooks,
     SavedBooks, AnswerBooks DEF RequestStep
<1>3. ASSUME NEW r \in Requests, SaveFails(r) \/ Leave(r) \/ Overtake(r) PROVE Books'
  BY <1>1, <1>3, SaveFailsBooks, LeaveBooks DEF Overtake
<1>4. CASE Health
  BY <1>4, IdleBooks DEF Health, Refresh
<1>5. CASE \/ \E killed \in BOOLEAN : SetKilled(killed)
           \/ \E seat \in Aliases : Remap(seat)
           \/ \E u \in updates : Persist(u) \/ PersistFails(u)
           \/ UNCHANGED planvars
  <2>1. UNCHANGED <<tracker, file, writer, now, answered, req>>
    BY <1>5 DEF SetKilled, Remap, Update, Persist, PersistFails, planvars, books
  <2> QED
    BY <2>1, IdleBooks
<1>6. CASE Restart \/ Tick
  BY <1>1, <1>6, RestartBooks, TickBooks
<1> QED
  BY <1>1, <1>2, <1>3, <1>4, <1>5, <1>6 DEF Next

LEMMA BooksInit == Init => Books
<1> SUFFICES ASSUME Init PROVE Books
  OBVIOUS
<1>1. /\ tracker = InitialTracker /\ file = InitialTracker /\ answered = {} /\ writer.by = Nobody
      /\ \A r \in Requests : req[r].pc = "new"
  BY DEF Init, Free, Unborn
<1>2. \A r \in Requests : ~Recording(r) /\ req[r].pc \notin Carrying
  BY <1>1 DEF Recording, Carrying
<1>3. Fits(InitialTracker)
  <2>1. /\ Calls(InitialTracker) = {} /\ Open(InitialTracker, "codex") = {}
        /\ OpenAt(now, InitialTracker) = {} /\ UsedAt(now, InitialTracker) = 0
        /\ MonthsAt(now, {}) = {} /\ WithinAt(now, {}) = {}
    BY DEF InitialTracker, Calls, Open, OpenAt, UsedAt, MonthsAt, WithinAt
  <2>2. Cardinality({}) = 0
    BY FS_EmptySet
  <2>3. WindowFits(InitialTracker)
    BY <2>1, <2>2, PlanAssumption DEF WindowFits
  <2>4. CreditFits(now, InitialTracker, {})
    BY <2>1, <2>2, PlanAssumption, SMTT(40) DEF CreditFits
  <2> QED
    BY <1>1, <2>3, <2>4 DEF Fits
<1>4. Kept /\ Answered
  BY <1>1, <1>2, FS_EmptySet DEF Kept, Answered
<1>5. Entered /\ Fitting
  BY <1>1, <1>2, <1>3 DEF Entered, Fitting, InitialTracker
<1> QED
  BY <1>4, <1>5 DEF Books

LEMMA CardinalityInto ==
    ASSUME NEW S, NEW T, IsFiniteSet(T), NEW f \in [S -> T],
           \A x, y \in S : f[x] = f[y] => x = y
    PROVE  Cardinality(S) \in Nat /\ Cardinality(T) \in Nat /\ Cardinality(S) <= Cardinality(T)
<1>1. f \in Injection(S, T)
  BY DEF Injection, IsInjective
<1> QED
  BY <1>1, FS_Injection, FS_CardinalityType

\* Where the books are kept the plans hold.
LEMMA PlansFit ==
    ASSUME IInv, mode # "replay", Saving, Books
    PROVE  PlanHolds /\ CreditHolds
<1>1. IsFiniteSet(tracker.entries) /\ IsFiniteSet(tracker.reservations) /\ IsFiniteSet(answered)
  BY UsedIs DEF IInv, TrackersAre, TrackerIs, Books, Answered
<1>2. /\ IsFiniteSet(Calls(tracker)) /\ IsFiniteSet(Open(tracker, "codex"))
      /\ IsFiniteSet(OpenAt(now, tracker)) /\ IsFiniteSet(WithinAt(now, answered))
  BY <1>1, WindowIs, MonthsAre
<1>3. WindowFits(tracker) /\ CreditFits(now, tracker, answered)
  BY DEF Books, Fitting, Fits
<1>4. \A seat : \A r \in InPlan(seat) :
        /\ r \in Requests /\ Reservation(r) \in tracker.reservations
        /\ Reservation(r).seat = seat /\ Reservation(r).at = req[r].at
        /\ Reservation(r).id[1] = r
  BY DEF InPlan, Books, Kept, Carrying, Reservation, Id
<1>5. PlanHolds
  <2> DEFINE S == InPlan("codex")
             A == {a \in answered : a.usage.seat = "codex" /\ Recent(a.usage)}
             f == [r \in S |-> Reservation(r)]
             g == [a \in A |-> a.usage]
  <2>1. f \in [S -> Open(tracker, "codex")]
    BY <1>4 DEF Open
  <2>2. \A x, y \in S : f[x] = f[y] => x = y
    BY <1>4
  <2>3. g \in [A -> Calls(tracker)]
    BY DEF Calls, Saving, SavesAt, Recent
  <2>4. \A x, y \in A : g[x] = g[y] => x = y
    BY DEF Books, Answered
  <2> HIDE DEF f, g, S, A
  <2>5. /\ Cardinality(S) \in Nat /\ Cardinality(Open(tracker, "codex")) \in Nat
        /\ Cardinality(S) <= Cardinality(Open(tracker, "codex"))
    BY <1>2, <2>1, <2>2, CardinalityInto
  <2>6. /\ Cardinality(A) \in Nat /\ Cardinality(Calls(tracker)) \in Nat
        /\ Cardinality(A) <= Cardinality(Calls(tracker))
    BY <1>2, <2>3, <2>4, CardinalityInto
  <2>7. Cardinality(S) + Cardinality(A) <= WindowCalls
    BY <1>3, <2>5, <2>6, PlanAssumption DEF WindowFits
  <2> QED
    BY <2>7 DEF PlanHolds, S, A
<1>6. CreditHolds
  <2> DEFINE S == {r \in InPlan("claude") : MonthOf(req[r].at) = MonthOf(now)}
             A == {a \in answered : a.usage.seat = "claude"
                                    /\ {a.since, MonthOf(a.usage.at)} = {MonthOf(now)}}
             f == [r \in S |-> Reservation(r)]
  <2>1. f \in [S -> OpenAt(now, tracker)]
    BY <1>4 DEF OpenAt
  <2>2. \A x, y \in S : f[x] = f[y] => x = y
    BY <1>4
  <2>3. A \subseteq WithinAt(now, answered)
    BY DEF WithinAt, MonthsAt
  <2> HIDE DEF f, S, A
  <2>4. /\ Cardinality(S) \in Nat /\ Cardinality(OpenAt(now, tracker)) \in Nat
        /\ Cardinality(S) <= Cardinality(OpenAt(now, tracker))
    BY <1>2, <2>1, <2>2, CardinalityInto
  <2>5. /\ Cardinality(A) \in Nat /\ Cardinality(WithinAt(now, answered)) \in Nat
        /\ Cardinality(A) <= Cardinality(WithinAt(now, answered))
    BY <1>2, <2>3, CardinalityLeast
  <2>6. Cardinality(S) + Cardinality(A) <= MonthlyCredit
    BY <1>3, <2>4, <2>5, PlanAssumption DEF CreditFits
  <2> QED
    BY <2>6 DEF CreditHolds, S, A
<1> QED
  BY <1>5, <1>6

LEMMA NothingPlanned ==
    ASSUME IInv, Replaying
    PROVE  PlanHolds /\ CreditHolds
<1> DEFINE A == {a \in answered : a.usage.seat = "codex" /\ Recent(a.usage)}
           B == {a \in answered : a.usage.seat = "claude"
                                  /\ {a.since, MonthOf(a.usage.at)} = {MonthOf(now)}}
           C == InPlan("codex")
           D == {r \in InPlan("claude") : MonthOf(req[r].at) = MonthOf(now)}
<1>1. \A seat : InPlan(seat) = {}
  BY DEF Replaying, InPlan, IInv, Basics, Good
<1>2. A = {} /\ B = {} /\ C = {} /\ D = {}
  BY <1>1 DEF Replaying
<1>3. (PlanHolds <=> Cardinality(C) + Cardinality(A) <= WindowCalls)
      /\ (CreditHolds <=> Cardinality(D) + Cardinality(B) <= MonthlyCredit)
  BY DEF PlanHolds, CreditHolds
<1> HIDE DEF A, B, C, D
<1>4. Cardinality(A) = 0 /\ Cardinality(B) = 0 /\ Cardinality(C) = 0 /\ Cardinality(D) = 0
  BY <1>2, FS_EmptySet
<1> QED
  BY <1>3, <1>4, PlanAssumption

\* The window of Codex and the month of Claude are never overdrawn, whatever
\* fails, is left or is restarted, where no write is left behind by its
\* request and no call outlasts its reservation.  (In the mode of replay
\* nothing is called.)
THEOREM PlanIsSound ==
    ASSUME \A m \in Modes : Faults[m] \cap {"overtake", "slow"} # {} => m = "replay"
    PROVE  PlanSpec => []PlanInv
<1> DEFINE Inv == IInv /\ Snapshot /\ UsageInv /\ BooksInv
<1>1. Init => Inv
  <2>1. Init => Saving
    BY DEF Init, Saving, SavesAt, Free
  <2>2. Init => Snapshot
    BY DEF Init, Snapshot, Free
  <2> QED
    BY <2>1, <2>2, InitInv, ReplayingInit, BooksInit DEF UsageInv, BooksInv
<1>2. Inv /\ [Next]_planvars => Inv'
  <2> SUFFICES ASSUME Inv, [Next]_planvars PROVE Inv'
    OBVIOUS
  <2>1. IInv' /\ Snapshot'
    BY StepInv, SnapshotStep
  <2>2. CASE mode = "replay"
    <3>1. Replaying' /\ mode' = mode
      BY <2>2, ReplayingStep DEF UsageInv
    <3> QED
      BY <2>1, <2>2, <3>1 DEF UsageInv, BooksInv
  <2>3. CASE mode # "replay"
    <3>1. Saving' /\ mode' = mode
      BY <2>3, SavingStep DEF UsageInv
    <3>2. Books'
      BY <2>3, BooksStep DEF UsageInv, BooksInv
    <3> QED
      BY <2>1, <2>3, <3>1, <3>2 DEF UsageInv, BooksInv
  <2> QED
    BY <2>2, <2>3
<1>3. Inv => PlanInv
  BY TypesHold, PlansFit, NothingPlanned DEF UsageInv, BooksInv, PlanInv
<1> QED
  BY <1>1, <1>2, <1>3, PTL DEF PlanSpec
=============================================================================
