----------------------- MODULE CommanderSessionProofs -----------------------
(***************************************************************************)
(* Theorems about the session object and its sergeants, for any number of  *)
(* groups, reports, ticks under way, restarts and decisions.               *)
(***************************************************************************)
EXTENDS CommanderSession, FiniteSetTheorems, SequenceTheorems, WellFoundedInduction, TLAPS

(* Numbers and lists. *)

LEMMA LeastNumber ==
    ASSUME NEW S \in SUBSET Nat, S # {}
    PROVE  \E n \in S : \A m \in S : n <= m
<1> DEFINE Less == OpToRel(<, Nat)
<1>1. IsWellFoundedOn(Less, Nat)
  BY NatLessThanWellFounded
<1>2. PICK n \in S : \A m \in S : ~(<<m, n>> \in Less)
  <2> HIDE DEF Less
  <2> QED
    BY <1>1, WFMin
<1>3. \A m \in S : ~(m < n)
  BY <1>2 DEF OpToRel
<1> QED
  BY <1>3

LEMMA ListOfSet ==
    ASSUME NEW S, IsFiniteSet(S)
    PROVE  /\ SetToSeq(S) \in Seq(S) /\ Len(SetToSeq(S)) = Cardinality(S)
           /\ Range(SetToSeq(S)) = S /\ IsInjective(SetToSeq(S))
<1> DEFINE n == Cardinality(S)
<1>1. n \in Nat /\ ExistsBijection(1..n, S)
  BY FS_CardinalityType
<1>2. \E f \in [1..n -> S] : IsInjective(f)
  BY <1>1 DEF ExistsBijection, Bijection, Injection
<1> DEFINE f == SetToSeq(S)
<1>3. f \in [1..n -> S] /\ IsInjective(f)
  BY <1>2 DEF SetToSeq
<1> HIDE DEF f
<1>4. f \in Seq(S) /\ Len(f) = n
  BY <1>1, <1>3
<1>5. f \in Surjection(1..n, S)
  <2>1. IsFiniteSet(1..n) /\ Cardinality(1..n) = n
    BY <1>1, FS_Interval
  <2>2. f \in Injection(1..n, S)
    BY <1>3 DEF Injection
  <2> QED
    BY <2>1, <2>2, FS_Injection
<1>6. Range(f) = S
  BY <1>3, <1>5 DEF Range, Surjection
<1> QED
  BY <1>3, <1>4, <1>6 DEF f
-----------------------------------------------------------------------------
(* The sergeants. *)

FiberStatus == {"none", "running", "completed", "error", "interrupted"}

\* A finished assessment is of the attempt its work ended with.
SergeantsHave ==
    /\ works \in [Works -> WorkRecord]
    /\ completed \subseteq Fibers
    /\ fibers \in [Fibers -> FiberStatus]
    /\ interrupted \subseteq Fibers
    /\ \A c \in completed :
        /\ works[c[1]].status \in {"completed", "acknowledged"}
        /\ works[c[1]].attempt = c[2]

\* A step acknowledges the works in ids, and no other.
OnlyAcknowledges(ids) ==
    \A w \in Works : works'[w].status = "acknowledged"
                        => works[w].status = "acknowledged" \/ w \in ids

LEMMA FiberIs ==
    \A f : f \in Fibers <=> /\ f = <<f[1], f[2]>> /\ f[1] \in Works
                            /\ f[2] \in 1..MaxAttempts
BY DEF Fibers

LEMMA NextIsUnused ==
    ASSUME NEW g \in Groups, Unused(g) # {}
    PROVE  NextWork(g) \in Unused(g)
<1> USE SergeantAssumption
<1> DEFINE S == {w[2] : w \in Unused(g)}
<1>1. S \in SUBSET Nat /\ S # {}
  BY DEF Unused, Works, Versions
<1>2. PICK n \in S : \A m \in S : n <= m
  BY <1>1, LeastNumber
<1>3. PICK w \in Unused(g) : n = w[2]
  BY <1>2
<1>4. \A u \in Unused(g) : w[2] <= u[2]
  BY <1>2, <1>3
<1>5. \E v \in Unused(g) : \A u \in Unused(g) : v[2] <= u[2]
  BY <1>4
<1> QED
  BY <1>5 DEF NextWork

LEMMA QueueSound ==
    ASSUME SergeantsHave, NEW G \in SUBSET Groups, QueueAssessments(G)
    PROVE  SergeantsHave' /\ OnlyAcknowledges({})
<1> USE SergeantAssumption
<1> DEFINE queued == {NextWork(g) : g \in G}
<1>1. /\ works' = [w \in Works |->
            IF w \in queued THEN [status |-> "pending", attempt |-> 1] ELSE works[w]]
      /\ \A g \in G : Unused(g) # {}
      /\ completed' = completed /\ interrupted' = interrupted
  BY DEF QueueAssessments
<1>2. PICK status \in [queued -> Started] :
        fibers' = [f \in Fibers |->
            IF f[1] \in queued /\ f[2] = 1 THEN status[f[1]] ELSE fibers[f]]
  BY DEF QueueAssessments
<1>3. \A w \in queued : w \in Works /\ works[w].status = "none"
  BY <1>1, NextIsUnused DEF Unused
<1> HIDE DEF queued
<1>4. works' \in [Works -> WorkRecord]
  <2>1. [status |-> "pending", attempt |-> 1] \in WorkRecord
    BY DEF WorkRecord
  <2> QED
    BY <1>1, <2>1 DEF SergeantsHave
<1>5. fibers' \in [Fibers -> FiberStatus]
  <2>1. Started \subseteq FiberStatus
    BY DEF Started, FiberStatus
  <2> QED
    BY <1>2, <2>1 DEF SergeantsHave
<1>6. ASSUME NEW c \in completed'
      PROVE  /\ works'[c[1]].status \in {"completed", "acknowledged"}
             /\ works'[c[1]].attempt = c[2]
  <2>1. c[1] \in Works /\ c \in completed
    BY <1>1, FiberIs DEF SergeantsHave
  <2>2. c[1] \notin queued
    BY <1>3, <2>1 DEF SergeantsHave
  <2> QED
    BY <1>1, <2>1, <2>2 DEF SergeantsHave
<1>7. OnlyAcknowledges({})
  BY <1>1 DEF OnlyAcknowledges
<1> QED
  BY <1>1, <1>4, <1>5, <1>6, <1>7 DEF SergeantsHave

LEMMA AcknowledgeSound ==
    ASSUME SergeantsHave, NEW ids, AcknowledgeAssessments(ids)
    PROVE  SergeantsHave' /\ OnlyAcknowledges(ids)
<1>1. /\ completed' = {c \in completed : c[1] \notin ids}
      /\ works' = [w \in Works |->
            IF w \in ids /\ works[w].status = "completed"
            THEN [works[w] EXCEPT !.status = "acknowledged"] ELSE works[w]]
      /\ fibers' = fibers /\ interrupted' = interrupted
  BY DEF AcknowledgeAssessments
<1>2. ASSUME NEW w \in Works
      PROVE  /\ works'[w] \in WorkRecord /\ works'[w].attempt = works[w].attempt
             /\ w \notin ids => works'[w] = works[w]
             /\ works'[w].status \in {works[w].status, "acknowledged"}
  BY <1>1 DEF SergeantsHave, WorkRecord
<1>3. works' \in [Works -> WorkRecord]
  BY <1>1, <1>2
<1>4. ASSUME NEW c \in completed'
      PROVE  /\ works'[c[1]].status \in {"completed", "acknowledged"}
             /\ works'[c[1]].attempt = c[2]
  BY <1>1, <1>2, FiberIs DEF SergeantsHave
<1>5. OnlyAcknowledges(ids)
  BY <1>2 DEF OnlyAcknowledges
<1> QED
  BY <1>1, <1>3, <1>4, <1>5 DEF SergeantsHave

LEMMA FiberSound ==
    ASSUME SergeantsHave, FiberSteps
    PROVE  SergeantsHave' /\ OnlyAcknowledges({})
<1> USE SergeantAssumption
<1>1. PICK f \in Fibers :
        CompleteQueuedAssessment(f) \/ FiberFails(f) \/ FiberRecovered(f)
  BY DEF FiberSteps
<1>2. f[1] \in Works /\ f[2] \in 1..MaxAttempts /\ works[f[1]] \in WorkRecord
  BY <1>1, FiberIs DEF SergeantsHave
<1>3. CASE CompleteQueuedAssessment(f) /\ Current(f)
  <2>1. /\ works' = [works EXCEPT ![f[1]].status = "completed"]
        /\ completed' = completed \cup {f}
        /\ fibers' = [fibers EXCEPT ![f] = "completed"] /\ interrupted' = interrupted
        /\ works[f[1]] = [status |-> "pending", attempt |-> f[2]]
    BY <1>3 DEF CompleteQueuedAssessment, Current
  <2>2. \A w \in Works :
          works'[w] = IF w = f[1] THEN [status |-> "completed", attempt |-> f[2]]
                                  ELSE works[w]
    BY <1>2, <2>1 DEF SergeantsHave
  <2>3. works' \in [Works -> WorkRecord]
    BY <1>2, <2>1 DEF SergeantsHave, WorkRecord
  <2>4. ASSUME NEW c \in completed'
        PROVE  /\ works'[c[1]].status \in {"completed", "acknowledged"}
               /\ works'[c[1]].attempt = c[2]
    <3>1. CASE c = f
      BY <3>1, <1>2, <2>2
    <3>2. CASE c \in completed
      <4>1. c[1] \in Works /\ c[1] # f[1]
        BY <3>2, <2>1, FiberIs DEF SergeantsHave
      <4> QED
        BY <3>2, <4>1, <2>2 DEF SergeantsHave
    <3> QED
      BY <2>1, <3>1, <3>2
  <2>5. OnlyAcknowledges({})
    BY <2>2 DEF OnlyAcknowledges
  <2> QED
    BY <1>1, <2>1, <2>3, <2>4, <2>5 DEF SergeantsHave, FiberStatus
<1>4. CASE (CompleteQueuedAssessment(f) /\ ~Current(f)) \/ FiberFails(f)
  BY <1>1, <1>4 DEF CompleteQueuedAssessment, FiberFails, SergeantsHave, FiberStatus,
     OnlyAcknowledges
<1>5. CASE FiberRecovered(f) /\ works[f[1]].status = "pending"
  <2>1. /\ Retry(f[1]) \in Fibers
        /\ works' = [works EXCEPT ![f[1]] = Retried(f[1])]
        /\ interrupted' = interrupted \ {f} /\ completed' = completed
    BY <1>5 DEF FiberRecovered
  <2>2. PICK status \in Started : fibers' = [fibers EXCEPT ![Retry(f[1])] = status]
    BY <1>5 DEF FiberRecovered
  <2>3. works[f[1]].attempt + 1 \in 1..MaxAttempts
    BY <2>1, FiberIs DEF Retry
  <2>4. Retried(f[1]) \in WorkRecord /\ Retried(f[1]).status = "pending"
    BY <1>2, <1>5, <2>3 DEF Retried, WorkRecord
  <2>5. /\ works' \in [Works -> WorkRecord]
        /\ \A w \in Works : works'[w] = IF w = f[1] THEN Retried(f[1]) ELSE works[w]
    BY <1>2, <2>1, <2>4 DEF SergeantsHave
  <2>6. fibers' \in [Fibers -> FiberStatus]
    BY <2>2 DEF Started, FiberStatus, SergeantsHave
  <2>7. ASSUME NEW c \in completed'
        PROVE  /\ works'[c[1]].status \in {"completed", "acknowledged"}
               /\ works'[c[1]].attempt = c[2]
    <3>1. c \in completed /\ c[1] \in Works /\ c[1] # f[1]
      BY <1>5, <2>1, FiberIs DEF SergeantsHave
    <3> QED
      BY <3>1, <2>5 DEF SergeantsHave
  <2>8. OnlyAcknowledges({})
    BY <2>4, <2>5 DEF OnlyAcknowledges
  <2> QED
    BY <2>1, <2>5, <2>6, <2>7, <2>8 DEF SergeantsHave
<1>6. CASE FiberRecovered(f) /\ works[f[1]].status # "pending"
  BY <1>6 DEF FiberRecovered, SergeantsHave, OnlyAcknowledges
<1> QED
  BY <1>1, <1>3, <1>4, <1>5, <1>6

LEMMA RestartSound ==
    ASSUME SergeantsHave, RestartSergeants
    PROVE  SergeantsHave' /\ OnlyAcknowledges({})
<1> USE SergeantAssumption
<1> DEFINE stopped == [f \in Fibers |->
                        IF fibers[f] = "running" THEN "interrupted" ELSE fibers[f]]
           waiting == {w \in Works : works[w].status = "pending"}
           again == {w \in waiting :
                    stopped[<<w, works[w].attempt>>] \in {"error", "interrupted"}}
           first == {<<w, works[w].attempt>> : w \in waiting \ again}
           launched == {Retry(w) : w \in again}
                    \cup {f \in first : stopped[f] = "none"}
<1>1. /\ \A w \in again : Retry(w) \in Fibers
      /\ works' = [w \in Works |-> IF w \in again THEN Retried(w) ELSE works[w]]
      /\ completed' = completed
  BY DEF RestartSergeants, Relaunch
<1>2. PICK status \in [launched -> Started] :
        fibers' = [f \in Fibers |-> IF f \in launched THEN status[f] ELSE stopped[f]]
  BY DEF RestartSergeants, Relaunch
<1>3. interrupted' \subseteq Fibers
  BY DEF RestartSergeants, SergeantsHave
<1>4. \A w \in again : w \in Works /\ works[w].status = "pending"
  OBVIOUS
<1>5. fibers' \in [Fibers -> FiberStatus]
  <2>1. stopped \in [Fibers -> FiberStatus] /\ Started \subseteq FiberStatus
    BY DEF SergeantsHave, FiberStatus, Started
  <2> HIDE DEF stopped, launched
  <2> QED
    BY <1>2, <2>1
<1> HIDE DEF again
<1>6. ASSUME NEW w \in again
      PROVE  Retried(w) \in WorkRecord /\ Retried(w).status = "pending"
  <2>1. works[w].attempt + 1 \in 1..MaxAttempts
    <3>1. Retry(w) \in Fibers
      BY <1>1
    <3>2. Retry(w)[2] \in 1..MaxAttempts
      BY <3>1, FiberIs
    <3> QED
      BY <3>2 DEF Retry
  <2> QED
    BY <1>4, <2>1 DEF Retried, WorkRecord, SergeantsHave
<1>7. works' \in [Works -> WorkRecord]
  BY <1>1, <1>6 DEF SergeantsHave
<1>8. ASSUME NEW c \in completed'
      PROVE  /\ works'[c[1]].status \in {"completed", "acknowledged"}
             /\ works'[c[1]].attempt = c[2]
  <2>1. c \in completed /\ c[1] \in Works /\ c[1] \notin again
    BY <1>1, <1>4, FiberIs DEF SergeantsHave
  <2> QED
    BY <1>1, <2>1 DEF SergeantsHave
<1>9. OnlyAcknowledges({})
  BY <1>1, <1>4, <1>6 DEF OnlyAcknowledges
<1> QED
  BY <1>1, <1>3, <1>5, <1>7, <1>8, <1>9 DEF SergeantsHave
-----------------------------------------------------------------------------
(* The list of processed assessments. *)

\* What Merge makes of the list p when the assessments in F are new.
Shortened(all) ==
    SubSeq(all, (IF Len(all) > KeepProcessed THEN Len(all) - KeepProcessed ELSE 0) + 1,
           Len(all))

LEMMA WorksFinite == IsFiniteSet(Works)
<1>1. IsFiniteSet(Versions)
  BY SergeantAssumption, FS_Interval DEF Versions
<1> QED
  BY <1>1, SergeantAssumption, FS_Product DEF Works

LEMMA Joined ==
    ASSUME NEW p \in Seq(Works), NEW F \in SUBSET Works
    PROVE  LET all == p \o SetToSeq(F)
           IN  /\ all \in Seq(Works) /\ Len(all) \in Nat
               /\ Range(all) = Range(p) \cup F
               /\ IsInjective(p) /\ F \cap Range(p) = {} => IsInjective(all)
<1> DEFINE q == SetToSeq(F)
           all == p \o q
<1>1. IsFiniteSet(F)
  BY WorksFinite, FS_Subset
<1>2. q \in Seq(Works) /\ Range(q) = F /\ IsInjective(q)
  BY <1>1, ListOfSet
<1> HIDE DEF q
<1>3. /\ all \in Seq(Works) /\ Len(all) = Len(p) + Len(q)
      /\ Len(p) \in Nat /\ Len(q) \in Nat
      /\ \A i \in 1 .. Len(p) + Len(q) :
            all[i] = IF i <= Len(p) THEN p[i] ELSE q[i - Len(p)]
  BY <1>2, ConcatProperties, LenProperties
<1> HIDE DEF all
<1>4. DOMAIN p = 1..Len(p) /\ DOMAIN q = 1..Len(q) /\ DOMAIN all = 1..Len(p) + Len(q)
  BY <1>2, <1>3, LenProperties
<1>5. Range(all) = Range(p) \cup F
  <2>1. ASSUME NEW x \in Range(all) PROVE x \in Range(p) \cup Range(q)
    <3>1. PICK i \in 1..Len(p) + Len(q) : x = all[i]
      BY <1>4 DEF Range
    <3>2. CASE i <= Len(p)
      BY <1>3, <1>4, <3>1, <3>2 DEF Range
    <3>3. CASE i > Len(p)
      <4>1. i - Len(p) \in 1..Len(q) /\ x = q[i - Len(p)]
        BY <1>3, <3>1, <3>3
      <4> QED
        BY <4>1, <1>4 DEF Range
    <3> QED
      BY <1>3, <3>1, <3>2, <3>3
  <2>2. ASSUME NEW x \in Range(p) PROVE x \in Range(all)
    <3>1. PICK i \in 1..Len(p) : x = p[i]
      BY <1>4, <2>2 DEF Range
    <3>2. i \in 1..Len(p) + Len(q) /\ x = all[i]
      BY <1>3, <3>1
    <3> QED
      BY <3>2, <1>4 DEF Range
  <2>3. ASSUME NEW x \in Range(q) PROVE x \in Range(all)
    <3>1. PICK i \in 1..Len(q) : x = q[i]
      BY <1>4, <2>3 DEF Range
    <3>2. i + Len(p) \in 1..Len(p) + Len(q) /\ x = all[i + Len(p)]
      BY <1>3, <3>1, SMTT(40)
    <3> QED
      BY <3>2, <1>4 DEF Range
  <2> QED
    BY <1>2, <2>1, <2>2, <2>3
<1>6. ASSUME IsInjective(p), F \cap Range(p) = {}
      PROVE  IsInjective(all)
  <2> SUFFICES ASSUME NEW i \in 1..Len(p) + Len(q), NEW j \in 1..Len(p) + Len(q),
                      all[i] = all[j], i < j
               PROVE  FALSE
    BY <1>3, <1>4 DEF IsInjective
  <2>1. CASE j <= Len(p)
    BY <2>1, <1>3, <1>4, <1>6 DEF IsInjective
  <2>2. CASE i > Len(p)
    <3>1. /\ i - Len(p) \in 1..Len(q) /\ j - Len(p) \in 1..Len(q)
          /\ q[i - Len(p)] = q[j - Len(p)]
      BY <2>2, <1>3
    <3>2. i - Len(p) = j - Len(p)
      BY <3>1, <1>2, <1>4 DEF IsInjective
    <3> QED
      BY <3>2, <1>3
  <2>3. CASE i <= Len(p) /\ j > Len(p)
    <3>1. /\ i \in 1..Len(p) /\ j - Len(p) \in 1..Len(q)
          /\ p[i] = q[j - Len(p)]
      BY <2>3, <1>3
    <3>2. p[i] \in Range(p) /\ q[j - Len(p)] \in Range(q)
      BY <3>1, <1>4 DEF Range
    <3> QED
      BY <3>1, <3>2, <1>2, <1>6
  <2> QED
    BY <2>1, <2>2, <2>3, <1>3
<1> QED
  BY <1>3, <1>5, <1>6 DEF all, q

LEMMA ShortenedIs ==
    ASSUME NEW all \in Seq(Works)
    PROVE  /\ Shortened(all) \in Seq(Works) /\ Len(Shortened(all)) <= KeepProcessed
           /\ Range(Shortened(all)) \subseteq Range(all)
           /\ IsInjective(all) /\ Cardinality(Works) <= KeepProcessed
                => Shortened(all) = all
<1> USE SessionAssumption
<1> DEFINE excess == IF Len(all) > KeepProcessed THEN Len(all) - KeepProcessed ELSE 0
           s == Shortened(all)
<1>1. Len(all) \in Nat /\ excess \in Nat /\ excess <= Len(all)
      /\ Len(all) - excess <= KeepProcessed /\ DOMAIN all = 1..Len(all)
  BY LenProperties
<1>2. \A i \in excess + 1 .. Len(all) : all[i] \in Works
  BY <1>1, ElementOfSeq
<1> HIDE DEF excess
<1>3. /\ s \in Seq(Works)
      /\ Len(s) = IF excess + 1 <= Len(all) THEN Len(all) - (excess + 1) + 1 ELSE 0
      /\ \A i \in 1 .. Len(all) - (excess + 1) + 1 : s[i] = all[(excess + 1) + i - 1]
  <2>1. s = SubSeq(all, excess + 1, Len(all))
    BY DEF Shortened, excess
  <2>2. PICK m, k : m = excess + 1 /\ k = Len(all) /\ m \in Int /\ k \in Int
    BY <1>1
  <2>3. s = SubSeq(all, m, k) /\ \A i \in m .. k : all[i] \in Works
    BY <1>2, <2>1, <2>2
  <2> HIDE DEF s
  <2> QED
    BY <2>2, <2>3, SubSeqProperties
<1> HIDE DEF s
<1> DEFINE n == Len(all)
<1>4. n \in Nat /\ excess \in 0..n /\ KeepProcessed \in Nat /\ n - excess <= KeepProcessed
  BY <1>1, SessionAssumption
<1>5. Len(s) = n - excess /\ \A i \in 1..n - excess : s[i] = all[excess + i]
  <2>1. /\ Len(s) = IF excess + 1 <= n THEN n - (excess + 1) + 1 ELSE 0
        /\ \A i \in 1 .. n - (excess + 1) + 1 : s[i] = all[(excess + 1) + i - 1]
    BY <1>3
  <2> HIDE DEF n
  <2>2. Len(s) = n - excess
    BY <1>4, <2>1
  <2>3. ASSUME NEW i \in 1..n - excess PROVE s[i] = all[excess + i]
    <3>1. i \in 1 .. n - (excess + 1) + 1 /\ (excess + 1) + i - 1 = excess + i
      BY <1>4
    <3> QED
      BY <2>1, <3>1
  <2> QED
    BY <2>2, <2>3
<1>6. DOMAIN s = 1..Len(s) /\ DOMAIN all = 1..n
  BY <1>1, <1>3, LenProperties
<1>7. Range(s) \subseteq Range(all)
  <2> SUFFICES ASSUME NEW x \in Range(s) PROVE x \in Range(all)
    OBVIOUS
  <2>1. PICK i \in 1..Len(s) : x = s[i]
    BY <1>6 DEF Range
  <2> HIDE DEF n
  <2>2. excess + i \in 1..n /\ x = all[excess + i]
    BY <1>4, <1>5, <2>1
  <2> QED
    BY <1>6, <2>2 DEF Range
<1>8. ASSUME IsInjective(all), Cardinality(Works) <= KeepProcessed
      PROVE  s = all
  <2>1. all \in Injection(1..n, Works)
    BY <1>1, <1>8, ElementOfSeq DEF Injection
  <2>2. Cardinality(1..n) <= Cardinality(Works)
    BY <2>1, WorksFinite, FS_Injection
  <2>3. Cardinality(1..n) = n
    <3> HIDE DEF n
    <3> QED
      BY <1>4, FS_Interval
  <2>4. Cardinality(Works) \in Nat
    BY WorksFinite, FS_CardinalityType
  <2>5. n <= KeepProcessed
    <3> HIDE DEF n
    <3> QED
      BY <1>4, <1>8, <2>2, <2>3, <2>4
  <2>6. ~(n > KeepProcessed)
    <3> HIDE DEF n
    <3> QED
      BY <1>4, <2>5
  <2>7. excess = 0
    BY <2>6 DEF excess
  <2>8. s = SubSeq(all, excess + 1, Len(all))
    BY DEF s, Shortened, excess
  <2>9. s = SubSeq(all, 1, Len(all))
    BY <2>7, <2>8
  <2> QED
    BY <2>9, SubSeqFull
<1>9. Len(s) <= KeepProcessed
  <2> HIDE DEF n
  <2> QED
    BY <1>4, <1>5
<1> QED
  BY <1>3, <1>7, <1>8, <1>9 DEF s
-----------------------------------------------------------------------------
(* The session object. *)

Done == orders \cup settled     \* commands that were issued

SessionHas ==
    /\ connected \in BOOLEAN /\ heard \in BOOLEAN
    /\ age \in 0..Interval /\ request \in NoTrigger..Event
    /\ version \in Nat /\ sequence \in Nat \ {0}
    /\ orders \subseteq Commands
    /\ processed \in Seq(Works) /\ Len(processed) <= KeepProcessed
    /\ known \subseteq Groups
    /\ ticks \in [Handlers -> TickRecord]
    /\ rows \subseteq 1..version /\ runs \subseteq rows
    /\ sent \subseteq Commands /\ settled \subseteq sent
    /\ request # NoTrigger => version # 0
    /\ restarts \in 0..MaxRestarts

\* The decisions still to come are those asked for: by ticks under way, by
\* the request that is pending, and by the clock while it runs.
Asking == {h \in Handlers : ticks[h].trigger # NoTrigger
                            /\ ticks[h].at \in {"drain", "merge", "queue", "decide"}}
Pending == IF heard /\ (request # NoTrigger \/ age > 0) THEN 1 ELSE 0
Quiet == ~heard => /\ sequence = 1 /\ request = NoTrigger
                   /\ \A h \in Handlers : ticks[h].at = "idle"
Bounded ==
    /\ Quiet
    /\ sequence + Cardinality(Asking) + Pending
            <= MaxDecisions + Cardinality(Handlers) + 1

\* What was taken over, and what is acknowledged, was issued.
Taken ==
    /\ Range(processed) \subseteq Done
    /\ \A h \in Handlers : ticks[h].at \in {"queue", "decide", "acknowledge"}
                                => ticks[h].drained \subseteq Done
    /\ \A w \in Works : works[w].status = "acknowledged" => w \in Done

SInv == SergeantsHave /\ SessionHas /\ Bounded /\ Taken

LEMMA AskingFinite ==
    /\ IsFiniteSet(Asking) /\ Cardinality(Asking) \in Nat
    /\ Cardinality(Asking) <= Cardinality(Handlers)
    /\ Cardinality(Handlers) \in Nat
BY SessionAssumption, FS_Subset, FS_CardinalityType DEF Asking

LEMMA SessionStarts == SessionInit => SInv
<1> USE SergeantAssumption, SessionAssumption
<1> SUFFICES ASSUME SessionInit PROVE SInv
  OBVIOUS
<1>1. SergeantsHave
  BY DEF SessionInit, SergeantInit, SergeantsHave, WorkRecord, NoWork, FiberStatus
<1>2. NoTick \in TickRecord
  BY DEF NoTick, TickRecord, NoTrigger, Event
<1>3. processed \in Seq(Works) /\ Len(processed) = 0 /\ Range(processed) = {}
  BY DEF SessionInit, Range
<1>4. SessionHas
  <2>1. ticks \in [Handlers -> TickRecord]
    BY <1>2 DEF SessionInit
  <2>2. Len(processed) <= KeepProcessed
    BY <1>3
  <2>3. /\ connected \in BOOLEAN /\ heard \in BOOLEAN /\ age \in 0..Interval
        /\ request = NoTrigger /\ version = 0 /\ sequence = 1 /\ restarts \in 0..MaxRestarts
        /\ orders = {} /\ known = {} /\ rows = {} /\ runs = {} /\ sent = {} /\ settled = {}
    <3>1. connected \in BOOLEAN /\ heard \in BOOLEAN
      BY DEF SessionInit
    <3>2. age \in 0..Interval /\ restarts \in 0..MaxRestarts
      BY DEF SessionInit, SergeantInit
    <3> QED
      BY <3>1, <3>2 DEF SessionInit
  <2> QED
    BY <1>3, <2>1, <2>2, <2>3 DEF SessionHas, NoTrigger, Event
<1>5. Bounded
  <2>1. Asking = {}
    BY DEF SessionInit, Asking, NoTick
  <2>2. Cardinality(Asking) = 0
    BY <2>1, FS_EmptySet
  <2>3. Pending = 0
    BY DEF SessionInit, Pending
  <2>4. \A h \in Handlers : ticks[h].at = "idle"
    BY DEF SessionInit, NoTick
  <2> QED
    BY <2>2, <2>3, <2>4, AskingFinite DEF Bounded, Quiet, SessionInit
<1>6. Taken
  BY <1>3 DEF SessionInit, SergeantInit, Taken, NoTick, NoWork
<1> QED
  BY <1>1, <1>4, <1>5, <1>6 DEF SInv

LEMMA SInvImplies == SInv => SessionInv /\ AssessedOnce
<1> USE SergeantAssumption, SessionAssumption
<1> SUFFICES ASSUME SInv PROVE SessionInv /\ AssessedOnce
  OBVIOUS
<1>1. SergeantTypeOK
  BY DEF SInv, SergeantsHave, SessionHas, SergeantTypeOK, FiberStatus
<1>2. sequence \in Numbers
  BY AskingFinite DEF SInv, SessionHas, Bounded, Pending, Numbers
<1>3. SessionTypeOK
  BY <1>1, <1>2 DEF SInv, SessionHas, SessionTypeOK
<1>4. AcknowledgedIsIssued
  BY DEF SInv, Taken, Done, AcknowledgedIsIssued
<1>5. AssessedOnce
  BY FiberIs DEF SInv, SergeantsHave, AssessedOnce
<1> QED
  BY <1>3, <1>4, <1>5 DEF SessionInv

LEMMA Room ==
    \A s, a, p, s2, a2, p2, m \in Nat :
        s + a + p <= m /\ a2 <= a /\ s2 + p2 <= s + p => s2 + a2 + p2 <= m
OBVIOUS

\* A step that asks for no more decisions than were asked for.
LEMMA BoundedKeeps ==
    ASSUME SInv,
           Quiet',
           Asking' \subseteq Asking, sequence' \in Nat,
           sequence' + Pending' <= sequence + Pending
    PROVE  Bounded'
<1>1. Cardinality(Asking') <= Cardinality(Asking) /\ Cardinality(Asking') \in Nat
  BY AskingFinite, FS_Subset, FS_CardinalityType
<1>2. Pending \in Nat /\ Pending' \in Nat /\ sequence \in Nat
      /\ MaxDecisions + Cardinality(Handlers) + 1 \in Nat
  BY SessionAssumption, AskingFinite DEF Pending, SInv, SessionHas
<1>3. sequence + Cardinality(Asking) + Pending
            <= MaxDecisions + Cardinality(Handlers) + 1
  BY DEF SInv, Bounded
<1> DEFINE limit == MaxDecisions + Cardinality(Handlers) + 1
           before == Cardinality(Asking)
           after == Cardinality(Asking')
<1>4. /\ limit \in Nat /\ before \in Nat /\ after \in Nat /\ after <= before
      /\ sequence + before + Pending <= limit
  BY <1>1, <1>2, <1>3, AskingFinite
<1>5. sequence' + after + Pending' <= limit
  <2> HIDE DEF limit, before, after
  <2> QED
    BY <1>2, <1>4, Room
<1> QED
  BY <1>5 DEF Bounded

\* Requests and their runs.
LEMMA RequestIs ==
    ASSUME SInv, NEW trigger \in Scheduled..Event, RequestCommanderDecision(trigger)
    PROVE  /\ request' \in NoTrigger..Event /\ request' # NoTrigger
           /\ version' \in Nat /\ version' >= version /\ version' # 0
BY DEF RequestCommanderDecision, Supersedes, SInv, SessionHas, NoTrigger, Scheduled, Event

LEMMA RowsAre ==
    ASSUME SInv, EnqueueDecisionRun, version' \in Nat \ {0}, version' >= version
    PROVE  rows' \subseteq 1..version' /\ rows \subseteq rows'
<1>1. rows \subseteq 1..version'
  BY DEF SInv, SessionHas
<1>2. version' \in 1..version'
  OBVIOUS
<1> QED
  BY <1>1, <1>2 DEF EnqueueDecisionRun

\* What was taken over stays so, when no tick moves on to its later part.
LEMMA TakenKeeps ==
    ASSUME SInv, Done \subseteq Done', processed' = processed, OnlyAcknowledges({}),
           \A h \in Handlers :
                ticks'[h].at \in {"queue", "decide", "acknowledge"} =>
                    /\ ticks[h].at \in {"queue", "decide", "acknowledge"}
                    /\ ticks'[h].drained = ticks[h].drained
    PROVE  Taken'
<1>1. Range(processed') \subseteq Done'
  BY DEF SInv, Taken
<1>2. \A w \in Works : works'[w].status = "acknowledged" => w \in Done'
  BY DEF SInv, Taken, OnlyAcknowledges
<1>3. \A h \in Handlers : ticks'[h].at \in {"queue", "decide", "acknowledge"}
                                => ticks'[h].drained \subseteq Done'
  BY DEF SInv, Taken
<1> QED
  BY <1>1, <1>2, <1>3 DEF Taken

LEMMA SergeantsRest ==
    ASSUME SInv, UNCHANGED sergeants
    PROVE  SergeantsHave' /\ OnlyAcknowledges({})
BY DEF SInv, SergeantsHave, sergeants, OnlyAcknowledges

LEMMA ScheduledKeep ==
    ASSUME SInv, ScheduledDecision  PROVE SInv'
<1> USE SessionAssumption
<1>1. /\ heard /\ age > 0 /\ RequestCommanderDecision(Scheduled) /\ EnqueueDecisionRun
      /\ UNCHANGED <<sergeants, restarts, connected, heard, age, sequence, orders,
                     processed, known, ticks, runs, game>>
  BY DEF ScheduledDecision
<1>2. /\ request' \in NoTrigger..Event /\ request' # NoTrigger
      /\ version' \in Nat /\ version' >= version /\ version' # 0
  BY <1>1, RequestIs DEF Scheduled, Event
<1>3. rows' \subseteq 1..version' /\ rows \subseteq rows'
  BY <1>1, <1>2, RowsAre
<1>4. SergeantsHave' /\ OnlyAcknowledges({})
  BY <1>1, SergeantsRest
<1>5. SessionHas'
  BY <1>1, <1>2, <1>3 DEF SInv, SessionHas, game
<1>6. Bounded'
  <2>1. Quiet'
    BY <1>1 DEF Quiet
  <2>2. Pending = 1 /\ Pending' \in Nat /\ Pending' <= 1
    BY <1>1 DEF Pending
  <2>3. Asking' = Asking
    BY <1>1 DEF Asking
  <2>4. sequence' = sequence /\ sequence \in Nat /\ sequence' \in Nat
    BY <1>1 DEF SInv, SessionHas
  <2>5. sequence' + Pending' <= sequence + Pending
    <3>1. \A n, m, k \in Nat : m <= 1 /\ k = 1 => n + m <= n + k
      OBVIOUS
    <3> QED
      BY <2>2, <2>4, <3>1
  <2> QED
    BY <2>1, <2>3, <2>4, <2>5, BoundedKeeps
<1>7. Taken'
  BY <1>1, <1>4, TakenKeeps DEF game, Done
<1> QED
  BY <1>4, <1>5, <1>6, <1>7 DEF SInv

LEMMA RunStartKeep ==
    ASSUME SInv, NEW v \in rows, RunStart(v)  PROVE SInv'
<1>1. /\ runs' \subseteq rows' /\ rows' \subseteq rows
      /\ UNCHANGED <<sergeants, restarts, connected, heard, age, request, version,
                     sequence, orders, processed, known, ticks, game>>
  <2>1. v \in rows \ runs /\ runs \subseteq rows
    BY DEF RunStart, SInv, SessionHas
  <2>2. (runs' = runs \cup {v} /\ rows' = rows) \/ (rows' = rows \ {v} /\ runs' = runs)
    BY DEF RunStart
  <2> QED
    BY <2>1, <2>2 DEF RunStart
<1>2. SergeantsHave' /\ OnlyAcknowledges({})
  BY <1>1, SergeantsRest
<1>3. SessionHas'
  BY <1>1 DEF SInv, SessionHas, game
<1>4. Bounded'
  BY <1>1 DEF SInv, Bounded, Quiet, Pending, Asking
<1>5. Taken'
  BY <1>1, <1>2, TakenKeeps DEF game, Done
<1> QED
  BY <1>2, <1>3, <1>4, <1>5 DEF SInv

\* What the commander's next decision is called.
LEMMA RunFinishIs ==
    ASSUME SInv, NEW v \in rows, RunFinish(v)
    PROVE  /\ runs' \subseteq rows' /\ rows' \subseteq rows
           /\ UNCHANGED <<sergeants, restarts, connected, heard, version, processed,
                          known, ticks, game>>
           /\ \/ UNCHANGED <<age, request, sequence, orders>>
              \/ /\ heard /\ request # NoTrigger
                 /\ age' = 0 /\ request' = NoTrigger /\ sequence' = sequence + 1
                 /\ orders' = orders \cup {<<"commander", sequence>>}
<1>1. rows' = rows \ {v} /\ runs' = runs \ {v}
  BY DEF RunFinish, Release
<1>2. runs \subseteq rows
  BY DEF SInv, SessionHas
<1> QED
  BY <1>1, <1>2 DEF RunFinish, Stale

LEMMA RunFinishKeep ==
    ASSUME SInv, NEW v \in rows, RunFinish(v)  PROVE SInv'
<1> USE SessionAssumption, SergeantAssumption
<1>1. /\ runs' \subseteq rows' /\ rows' \subseteq rows
      /\ UNCHANGED <<sergeants, restarts, connected, heard, version, processed,
                     known, ticks, game>>
  BY RunFinishIs
<1>2. SergeantsHave' /\ OnlyAcknowledges({})
  BY <1>1, SergeantsRest
<1>3. CASE UNCHANGED <<age, request, sequence, orders>>
  <2>1. SessionHas'
    BY <1>1, <1>3 DEF SInv, SessionHas, game
  <2>2. Bounded'
    BY <1>1, <1>3 DEF SInv, Bounded, Quiet, Pending, Asking
  <2>3. Taken'
    BY <1>1, <1>2, <1>3, TakenKeeps DEF game, Done
  <2> QED
    BY <1>2, <2>1, <2>2, <2>3 DEF SInv
<1>4. CASE /\ heard /\ request # NoTrigger
           /\ age' = 0 /\ request' = NoTrigger /\ sequence' = sequence + 1
           /\ orders' = orders \cup {<<"commander", sequence>>}
  <2>1. sequence \in Numbers
    BY SInvImplies DEF SessionInv, SessionTypeOK
  <2>2. orders' \subseteq Commands
    BY <1>4, <2>1 DEF Commands, SInv, SessionHas
  <2>3. SessionHas'
    BY <1>1, <1>4, <2>2 DEF SInv, SessionHas, game, NoTrigger, Event
  <2>4. Bounded'
    <3>1. Pending = 1 /\ Pending' = 0
      BY <1>4 DEF Pending
    <3>2. Asking' = Asking
      BY <1>1 DEF Asking
    <3>3. Quiet'
      BY <1>1, <1>4 DEF Quiet
    <3>4. sequence' \in Nat /\ sequence' + Pending' <= sequence + Pending
      BY <1>4, <3>1 DEF SInv, SessionHas
    <3> QED
      BY <3>2, <3>3, <3>4, BoundedKeeps
  <2>5. Taken'
    BY <1>1, <1>2, <1>4, TakenKeeps DEF game, Done
  <2> QED
    BY <1>2, <2>3, <2>4, <2>5 DEF SInv
<1> QED
  BY <1>3, <1>4, RunFinishIs

LEMMA ConnectKeep ==
    ASSUME SInv, ConnectSession \/ DisconnectSession  PROVE SInv'
<1>1. /\ connected' \in BOOLEAN
      /\ UNCHANGED <<sergeants, restarts, heard, decisions, orders, processed,
                     known, ticks, game>>
  BY DEF ConnectSession, DisconnectSession
<1>2. SergeantsHave' /\ OnlyAcknowledges({})
  BY <1>1, SergeantsRest
<1>3. SessionHas'
  BY <1>1 DEF SInv, SessionHas, game, decisions
<1>4. Bounded'
  BY <1>1 DEF SInv, Bounded, Quiet, Pending, Asking, decisions
<1>5. Taken'
  BY <1>1, <1>2, TakenKeeps DEF game, Done
<1> QED
  BY <1>2, <1>3, <1>4, <1>5 DEF SInv

LEMMA SergeantsKeep ==
    ASSUME SInv, Sergeants  PROVE SInv'
<1>1. UNCHANGED <<restarts, session, ticks, game>>
  BY DEF Sergeants
<1>2. SergeantsHave' /\ OnlyAcknowledges({})
  BY FiberSound DEF Sergeants, SInv
<1>3. SessionHas'
  BY <1>1 DEF SInv, SessionHas, game, decisions, session
<1>4. Bounded'
  BY <1>1 DEF SInv, Bounded, Quiet, Pending, Asking, decisions, session
<1>5. Taken'
  BY <1>1, <1>2, TakenKeeps DEF game, Done, session
<1> QED
  BY <1>2, <1>3, <1>4, <1>5 DEF SInv

\* One tick moves, or ends, and all others stay where they are.
Moved(h, rec) == ticks' = [ticks EXCEPT ![h] = rec]

LEMMA MovedIs ==
    ASSUME SInv, NEW h \in Handlers, NEW rec \in TickRecord, Moved(h, rec)
    PROVE  /\ ticks' \in [Handlers -> TickRecord]
           /\ \A k \in Handlers : ticks'[k] = IF k = h THEN rec ELSE ticks[k]
BY DEF SInv, SessionHas, Moved

\* A tick goes on without asking for more.
LEMMA GoesOn ==
    ASSUME SInv, NEW h \in Handlers, NEW rec \in TickRecord, Moved(h, rec),
           ticks[h].at # "idle",
           \/ rec.trigger = NoTrigger
           \/ rec.at \in {"idle", "acknowledge"}
           \/ rec.trigger = ticks[h].trigger /\ ticks[h].at \in {"drain", "merge", "queue", "decide"},
           UNCHANGED <<heard, age, request, sequence>>
    PROVE  Bounded'
<1>1. /\ ticks' \in [Handlers -> TickRecord]
      /\ \A k \in Handlers : ticks'[k] = IF k = h THEN rec ELSE ticks[k]
  BY MovedIs
<1>2. Asking' \subseteq Asking
  BY <1>1 DEF Asking
<1>3. heard
  BY DEF SInv, Bounded, Quiet
<1>4. Quiet'
  BY <1>3 DEF Quiet
<1>5. Pending' = Pending /\ Pending \in Nat
  BY DEF Pending
<1>6. sequence' \in Nat /\ sequence' + Pending' <= sequence + Pending
  BY <1>5 DEF SInv, SessionHas
<1> QED
  BY <1>2, <1>4, <1>6, BoundedKeeps

LEMMA TickKeep ==
    ASSUME SInv, NEW h \in Handlers, NEW reports \in SUBSET Groups,
           NEW trigger \in Triggers, NEW ended \in SUBSET sent,
           Tick(h, reports, trigger, ended)
    PROVE  SInv'
<1> USE SessionAssumption
<1>0. PICK ids \in SUBSET (known \cup reports) :
        ticks' = [ticks EXCEPT ![h] =
            [at |-> "drain", reports |-> reports, trigger |-> trigger,
             ids |-> ids, drained |-> {}]]
  BY DEF Tick, Latest
<1> DEFINE rec == [at |-> "drain", reports |-> reports, trigger |-> trigger,
                   ids |-> ids, drained |-> {}]
<1>1. /\ ticks[h].at = "idle" /\ connected' = TRUE /\ heard' = TRUE
      /\ orders' = orders \ ended /\ settled' = settled \cup ended
      /\ Moved(h, rec)
      /\ UNCHANGED <<sergeants, restarts, request, version, sequence, rows, runs,
                     processed, known, sent>>
  BY <1>0 DEF Tick, Moved
<1>2. age' = IF ClockRuns /\ age < Interval THEN age + 1 ELSE age
  BY DEF Tick
<1>3. trigger \in NoTrigger..Event /\ (~Asks => trigger = NoTrigger)
  BY DEF Triggers, NoTrigger, Report, Event
<1>4. rec \in TickRecord
  BY <1>3 DEF TickRecord, SInv, SessionHas
<1> HIDE DEF rec
<1>5. /\ ticks' \in [Handlers -> TickRecord]
      /\ \A k \in Handlers : ticks'[k] = IF k = h THEN rec ELSE ticks[k]
  BY <1>1, <1>4, MovedIs
<1>6. age' \in 0..Interval
  BY <1>2 DEF SInv, SessionHas
<1>7. SergeantsHave' /\ OnlyAcknowledges({})
  BY <1>1, SergeantsRest
<1>8. SessionHas'
  BY <1>1, <1>5, <1>6 DEF SInv, SessionHas
<1>9. Quiet'
  BY <1>1 DEF Quiet
<1>10. Pending' \in Nat /\ Pending' <= 1 /\ Pending \in Nat
  BY DEF Pending
<1>11. Bounded'
  <2> DEFINE limit == MaxDecisions + Cardinality(Handlers) + 1
             before == Cardinality(Asking)
             after == Cardinality(Asking')
             size == Cardinality(Handlers)
  <2>1. /\ limit = MaxDecisions + size + 1 /\ size \in Nat /\ MaxDecisions \in Nat
        /\ before \in Nat /\ before <= size /\ size # 0
        /\ sequence + before + Pending <= limit /\ sequence \in Nat /\ limit \in Nat
    <3>1. size # 0
      BY FS_EmptySet
    <3> QED
      BY <3>1, AskingFinite DEF SInv, Bounded, SessionHas
  <2>2. after \in Nat /\ after <= size
    <3>1. Asking' \subseteq Handlers
      BY DEF Asking
    <3> QED
      BY <3>1, FS_Subset, FS_CardinalityType
  <2>3. CASE Asks
    <3>1. sequence <= MaxDecisions
      BY <2>3 DEF Asks
    <3>2. sequence + after + Pending' <= limit
      <4>1. \A s, a, p, l, m, n \in Nat :
                l = m + n + 1 /\ s <= m /\ a <= n /\ p <= 1 => s + a + p <= l
        OBVIOUS
      <4> HIDE DEF limit, after, size
      <4> QED
        BY <1>10, <2>1, <2>2, <3>1, <4>1
    <3> QED
      BY <1>1, <1>9, <3>2 DEF Bounded
  <2>4. CASE ~Asks /\ heard
    <3>1. Asking' \subseteq Asking
      BY <1>1, <1>3, <1>5, <2>4 DEF Asking, rec
    <3>2. Pending' <= Pending
      <4>1. CASE request # NoTrigger \/ age > 0
        BY <4>1, <2>4, <1>10 DEF Pending
      <4>2. CASE request = NoTrigger /\ ~(age > 0)
        <5>1. age' = age /\ request' = request
          BY <4>2, <2>4, <1>1, <1>2 DEF ClockRuns
        <5> QED
          BY <4>2, <5>1 DEF Pending
      <4> QED
        BY <4>1, <4>2
    <3>3. sequence' = sequence /\ sequence' \in Nat /\ sequence \in Nat
      BY <1>1 DEF SInv, SessionHas
    <3>4. sequence' + Pending' <= sequence + Pending
      <4>1. \A n, m, k \in Nat : m <= k => n + m <= n + k
        OBVIOUS
      <4> QED
        BY <1>10, <3>2, <3>3, <4>1
    <3> QED
      BY <1>9, <3>1, <3>3, <3>4, BoundedKeeps
  <2>5. CASE ~Asks /\ ~heard
    <3>1. sequence = 1
      BY <2>5 DEF SInv, Bounded, Quiet
    <3>2. Asking' = {}
      BY <1>1, <1>3, <1>5, <2>5 DEF Asking, rec, SInv, Bounded, Quiet
    <3>3. after = 0
      BY <3>2, FS_EmptySet
    <3>4. sequence + after + Pending' <= limit
      <4>1. \A p, l, m, n \in Nat :
                l = m + n + 1 /\ n # 0 /\ p <= 1 => 1 + 0 + p <= l
        OBVIOUS
      <4> HIDE DEF limit, after, size
      <4> QED
        BY <1>10, <2>1, <3>1, <3>3, <4>1
    <3> QED
      BY <1>1, <1>9, <3>4 DEF Bounded
  <2> QED
    BY <2>3, <2>4, <2>5
<1>12. Taken'
  <2>1. Done \subseteq Done'
    BY <1>1 DEF Done
  <2> QED
    BY <1>1, <1>5, <1>7, <2>1, TakenKeeps DEF rec
<1> QED
  BY <1>7, <1>8, <1>11, <1>12 DEF SInv

LEMMA DrainKeep ==
    ASSUME SInv, NEW h \in Handlers, Drain(h)  PROVE SInv'
<1>1. PICK G \in SUBSET ticks[h].ids :
        ticks' = [ticks EXCEPT ![h].at = "merge", ![h].drained = CompletedAssessments(G)]
  BY DEF Drain
<1> DEFINE rec == [ticks[h] EXCEPT !.at = "merge", !.drained = CompletedAssessments(G)]
<1>2. /\ ticks[h].at = "drain" /\ UNCHANGED <<sergeants, restarts, session, game>>
  BY DEF Drain
<1>3. CompletedAssessments(G) \subseteq Works
  BY FiberIs DEF CompletedAssessments, SInv, SergeantsHave
<1>4. rec \in TickRecord /\ rec.at = "merge" /\ rec.trigger = ticks[h].trigger
  BY <1>3 DEF TickRecord, SInv, SessionHas
<1>5. Moved(h, rec)
  BY <1>1 DEF Moved, SInv, SessionHas
<1> HIDE DEF rec
<1>6. /\ ticks' \in [Handlers -> TickRecord]
      /\ \A k \in Handlers : ticks'[k] = IF k = h THEN rec ELSE ticks[k]
  BY <1>4, <1>5, MovedIs
<1>7. SergeantsHave' /\ OnlyAcknowledges({})
  BY <1>2, SergeantsRest
<1>8. SessionHas'
  BY <1>2, <1>6 DEF SInv, SessionHas, session, decisions, game
<1>9. Bounded'
  BY <1>2, <1>4, <1>5, GoesOn DEF session, decisions
<1>10. Taken'
  BY <1>2, <1>4, <1>6, <1>7, TakenKeeps DEF Done, session, game
<1> QED
  BY <1>7, <1>8, <1>9, <1>10 DEF SInv

\* What a merge does to the list of processed assessments.
LEMMA MergeIs ==
    ASSUME SInv, NEW h \in Handlers, Merge(h)
    PROVE  /\ ticks[h].at = "merge" /\ Fresh(h) \subseteq Works
           /\ orders' = orders \cup Fresh(h)
           /\ processed' \in Seq(Works) /\ Len(processed') <= KeepProcessed
           /\ Range(processed') \subseteq Range(processed) \cup Fresh(h)
           /\ IsInjective(processed) /\ Cardinality(Works) <= KeepProcessed =>
                /\ IsInjective(processed')
                /\ Range(processed') = Range(processed) \cup Fresh(h)
           /\ known' \subseteq Groups
           /\ UNCHANGED <<sergeants, restarts, connected, heard, decisions, game>>
           /\ Moved(h, [ticks[h] EXCEPT !.at = "queue"])
<1> DEFINE all == processed \o SetToSeq(Fresh(h))
<1>1. Fresh(h) \subseteq Works /\ processed \in Seq(Works) /\ ticks[h].ids \subseteq Groups
  BY DEF Fresh, SInv, SessionHas, TickRecord
<1>2. /\ all \in Seq(Works)
      /\ Range(all) = Range(processed) \cup Fresh(h)
      /\ IsInjective(processed) => IsInjective(all)
  <2>1. Fresh(h) \cap Range(processed) = {}
    BY DEF Fresh
  <2> QED
    BY <1>1, <2>1, Joined
<1>3. processed' = Shortened(all)
  BY DEF Merge, Shortened
<1> HIDE DEF all
<1>4. /\ processed' \in Seq(Works) /\ Len(processed') <= KeepProcessed
      /\ Range(processed') \subseteq Range(processed) \cup Fresh(h)
      /\ IsInjective(processed) /\ Cardinality(Works) <= KeepProcessed =>
            /\ IsInjective(processed')
            /\ Range(processed') = Range(processed) \cup Fresh(h)
  BY <1>2, <1>3, ShortenedIs
<1>5. Moved(h, [ticks[h] EXCEPT !.at = "queue"])
  BY DEF Merge, Goes, Moved, SInv, SessionHas
<1> QED
  BY <1>1, <1>4, <1>5 DEF Merge, KnownAfter

LEMMA MergeKeep ==
    ASSUME SInv, NEW h \in Handlers, Merge(h)  PROVE SInv'
<1> DEFINE rec == [ticks[h] EXCEPT !.at = "queue"]
<1>1. /\ ticks[h].at = "merge" /\ Fresh(h) \subseteq Works
      /\ orders' = orders \cup Fresh(h)
      /\ processed' \in Seq(Works) /\ Len(processed') <= KeepProcessed
      /\ Range(processed') \subseteq Range(processed) \cup Fresh(h)
      /\ known' \subseteq Groups
      /\ UNCHANGED <<sergeants, restarts, connected, heard, decisions, game>>
      /\ Moved(h, rec)
  BY MergeIs
<1>2. /\ rec \in TickRecord /\ rec.at = "queue" /\ rec.trigger = ticks[h].trigger
      /\ rec.drained = ticks[h].drained
  BY DEF TickRecord, SInv, SessionHas
<1> HIDE DEF rec
<1>3. /\ ticks' \in [Handlers -> TickRecord]
      /\ \A k \in Handlers : ticks'[k] = IF k = h THEN rec ELSE ticks[k]
  BY <1>1, <1>2, MovedIs
<1>4. SergeantsHave' /\ OnlyAcknowledges({})
  BY <1>1, SergeantsRest
<1>5. orders' \subseteq Commands
  BY <1>1 DEF SInv, SessionHas, Commands
<1>6. SessionHas'
  BY <1>1, <1>3, <1>5 DEF SInv, SessionHas, decisions, game
<1>7. Bounded'
  BY <1>1, <1>2, GoesOn DEF decisions
<1>8. Taken'
  <2>1. Done' = Done \cup Fresh(h)
    BY <1>1 DEF Done, game
  <2>2. Range(processed') \subseteq Done'
    BY <1>1, <2>1 DEF SInv, Taken
  <2>3. \A w \in Works : works'[w].status = "acknowledged" => w \in Done'
    BY <1>4, <2>1 DEF SInv, Taken, OnlyAcknowledges
  <2>4. ticks[h].drained \subseteq Done'
    BY <2>1 DEF SInv, Taken, Fresh
  <2>5. \A k \in Handlers : ticks'[k].at \in {"queue", "decide", "acknowledge"}
                                => ticks'[k].drained \subseteq Done'
    BY <1>2, <1>3, <2>1, <2>4 DEF SInv, Taken
  <2> QED
    BY <2>2, <2>3, <2>5 DEF Taken
<1> QED
  BY <1>4, <1>6, <1>7, <1>8 DEF SInv

LEMMA QueueKeep ==
    ASSUME SInv, NEW h \in Handlers, Queue(h)  PROVE SInv'
<1> DEFINE rec == [ticks[h] EXCEPT !.at = "decide", !.reports = {}]
<1>1. /\ ticks[h].at = "queue" /\ UNCHANGED <<restarts, session, game>>
  BY DEF Queue
<1>2. PICK G \in SUBSET ticks[h].reports : QueueAssessments(G)
  BY DEF Queue
<1>3. G \in SUBSET Groups
  BY DEF TickRecord, SInv, SessionHas
<1>4. Moved(h, rec)
  BY DEF Queue, Moved, SInv, SessionHas
<1>5. /\ rec \in TickRecord /\ rec.at = "decide" /\ rec.trigger = ticks[h].trigger
      /\ rec.drained = ticks[h].drained
  BY DEF TickRecord, SInv, SessionHas
<1> HIDE DEF rec
<1>6. /\ ticks' \in [Handlers -> TickRecord]
      /\ \A k \in Handlers : ticks'[k] = IF k = h THEN rec ELSE ticks[k]
  BY <1>4, <1>5, MovedIs
<1>7. SergeantsHave' /\ OnlyAcknowledges({})
  BY <1>2, <1>3, QueueSound DEF SInv
<1>8. SessionHas'
  BY <1>1, <1>6 DEF SInv, SessionHas, session, decisions, game
<1>9. Bounded'
  BY <1>1, <1>4, <1>5, GoesOn DEF session, decisions
<1>10. Taken'
  BY <1>1, <1>5, <1>6, <1>7, TakenKeeps DEF Done, session, game
<1> QED
  BY <1>7, <1>8, <1>9, <1>10 DEF SInv

LEMMA DecideKeep ==
    ASSUME SInv, NEW h \in Handlers, Decide(h)  PROVE SInv'
<1> USE SessionAssumption
<1> DEFINE rec == [ticks[h] EXCEPT !.at = "acknowledge"]
           trigger == IF ticks[h].trigger # NoTrigger THEN ticks[h].trigger ELSE Scheduled
<1>1. /\ ticks[h].at = "decide" /\ sent' = sent \cup orders
      /\ UNCHANGED <<sergeants, restarts, connected, heard, age, sequence, runs,
                     orders, processed, known, settled>>
  BY DEF Decide
<1>2. Moved(h, rec)
  BY DEF Decide, Goes, Moved, SInv, SessionHas
<1>3. /\ rec \in TickRecord /\ rec.at = "acknowledge" /\ rec.drained = ticks[h].drained
  BY DEF TickRecord, SInv, SessionHas
<1> HIDE DEF rec
<1>4. /\ ticks' \in [Handlers -> TickRecord]
      /\ \A k \in Handlers : ticks'[k] = IF k = h THEN rec ELSE ticks[k]
  BY <1>2, <1>3, MovedIs
<1>5. trigger \in Scheduled..Event
  BY DEF SInv, SessionHas, TickRecord, NoTrigger, Scheduled, Event
<1>6. CASE ticks[h].trigger # NoTrigger \/ age = Interval
  <2>1. RequestCommanderDecision(trigger) /\ EnqueueDecisionRun
    BY <1>6 DEF Decide
  <2> HIDE DEF trigger
  <2>2. /\ request' \in NoTrigger..Event /\ request' # NoTrigger
        /\ version' \in Nat /\ version' >= version /\ version' # 0
    BY <1>5, <2>1, RequestIs
  <2>3. rows' \subseteq 1..version' /\ rows \subseteq rows'
    BY <2>1, <2>2, RowsAre
  <2>4. SergeantsHave' /\ OnlyAcknowledges({})
    BY <1>1, SergeantsRest
  <2>5. SessionHas'
    BY <1>1, <1>4, <2>2, <2>3 DEF SInv, SessionHas
  <2>6. Taken'
    BY <1>1, <1>3, <1>4, <2>4, TakenKeeps DEF Done
  <2>7. heard
    BY <1>1 DEF SInv, Bounded, Quiet
  <2>8. Quiet'
    BY <1>1, <2>7 DEF Quiet
  <2>9. Pending' \in Nat /\ Pending' <= 1 /\ Pending \in Nat
    BY DEF Pending
  <2>10. Asking' = Asking \ {h}
    BY <1>3, <1>4 DEF Asking
  <2>11. Bounded'
    <3>1. CASE ticks[h].trigger # NoTrigger
      <4> DEFINE limit == MaxDecisions + Cardinality(Handlers) + 1
                 before == Cardinality(Asking)
                 after == Cardinality(Asking')
      <4>1. h \in Asking
        BY <1>1, <3>1 DEF Asking
      <4>2. after = before - 1 /\ after \in Nat /\ before \in Nat
        BY <2>10, <4>1, AskingFinite, FS_RemoveElement, FS_CardinalityType
      <4>3. limit \in Nat /\ sequence + before + Pending <= limit /\ sequence \in Nat
        BY AskingFinite DEF SInv, Bounded, SessionHas
      <4>4. sequence + after + Pending' <= limit
        <5>1. \A s, a, b, p, q, l \in Nat :
                s + b + p <= l /\ a = b - 1 /\ q <= 1 => s + a + q <= l
          OBVIOUS
        <5> DEFINE more == Pending'
        <5> HIDE DEF limit, before, after, more
        <5>2. more \in Nat /\ more <= 1
          BY <2>9 DEF more
        <5>3. sequence + after + more <= limit
          BY <2>9, <4>2, <4>3, <5>1, <5>2
        <5> QED
          BY <5>3 DEF more
      <4> QED
        BY <1>1, <2>8, <4>4 DEF Bounded
    <3>2. CASE age = Interval
      <4>1. Pending = 1
        BY <2>7, <3>2 DEF Pending
      <4>2. sequence' = sequence /\ sequence' \in Nat /\ sequence \in Nat
        BY <1>1 DEF SInv, SessionHas
      <4>3. sequence' + Pending' <= sequence + Pending
        <5>1. \A n, m, k \in Nat : m <= 1 /\ k = 1 => n + m <= n + k
          OBVIOUS
        <5> QED
          BY <2>9, <4>1, <4>2, <5>1
      <4> QED
        BY <2>8, <2>10, <4>2, <4>3, BoundedKeeps
    <3> QED
      BY <1>6, <3>1, <3>2
  <2> QED
    BY <2>4, <2>5, <2>6, <2>11 DEF SInv
<1>7. CASE ~(ticks[h].trigger # NoTrigger \/ age = Interval)
  <2>1. UNCHANGED <<request, version, rows>>
    BY <1>7 DEF Decide
  <2>2. SergeantsHave' /\ OnlyAcknowledges({})
    BY <1>1, SergeantsRest
  <2>3. SessionHas'
    BY <1>1, <1>4, <2>1 DEF SInv, SessionHas
  <2>4. Taken'
    BY <1>1, <1>3, <1>4, <2>2, TakenKeeps DEF Done
  <2>5. Bounded'
    BY <1>1, <1>2, <1>3, <2>1, GoesOn
  <2> QED
    BY <2>2, <2>3, <2>4, <2>5 DEF SInv
<1> QED
  BY <1>6, <1>7

\* A tick that ends.
LEMMA EndsKeep ==
    ASSUME SInv, NEW h \in Handlers, ticks[h].at # "idle",
           ticks' = [ticks EXCEPT ![h] = NoTick],
           UNCHANGED <<restarts, session, game>>,
           SergeantsHave', NEW ids \in SUBSET Done, OnlyAcknowledges(ids)
    PROVE  SInv'
<1>1. NoTick \in TickRecord /\ NoTick.at = "idle" /\ NoTick.trigger = NoTrigger
  BY DEF NoTick, TickRecord, NoTrigger, Event
<1>2. Moved(h, NoTick)
  BY DEF Moved
<1>3. /\ ticks' \in [Handlers -> TickRecord]
      /\ \A k \in Handlers : ticks'[k] = IF k = h THEN NoTick ELSE ticks[k]
  BY <1>1, <1>2, MovedIs
<1>4. SessionHas'
  BY <1>3 DEF SInv, SessionHas, session, decisions, game
<1>5. Bounded'
  BY <1>1, <1>2, GoesOn DEF session, decisions
<1>6. Taken'
  <2>1. Done' = Done /\ processed' = processed
    BY DEF Done, session, game
  <2>2. \A w \in Works : works'[w].status = "acknowledged" => w \in Done'
    BY <2>1 DEF SInv, Taken, OnlyAcknowledges
  <2>3. \A k \in Handlers : ticks'[k].at \in {"queue", "decide", "acknowledge"}
                                => ticks'[k].drained \subseteq Done'
    BY <1>1, <1>3, <2>1 DEF SInv, Taken
  <2> QED
    BY <2>1, <2>2, <2>3 DEF SInv, Taken
<1> QED
  BY <1>4, <1>5, <1>6 DEF SInv

LEMMA AcknowledgeKeep ==
    ASSUME SInv, NEW h \in Handlers, Acknowledge(h)  PROVE SInv'
<1>1. PICK G \in SUBSET ticks[h].ids :
        AcknowledgeAssessments({w \in ticks[h].drained : w[1] \in G})
  BY DEF Acknowledge
<1> DEFINE ids == {w \in ticks[h].drained : w[1] \in G}
<1>2. SergeantsHave' /\ OnlyAcknowledges(ids)
  BY <1>1, AcknowledgeSound DEF SInv
<1>3. ids \in SUBSET Done
  BY DEF Acknowledge, SInv, Taken
<1> HIDE DEF ids
<1> QED
  BY <1>2, <1>3, EndsKeep DEF Acknowledge

LEMMA SaveFailsKeep ==
    ASSUME SInv, NEW h \in Handlers, SaveFails(h)  PROVE SInv'
<1>1. SergeantsHave' /\ OnlyAcknowledges({})
  BY SergeantsRest DEF SaveFails
<1>2. {} \in SUBSET Done
  OBVIOUS
<1> QED
  BY <1>1, <1>2, EndsKeep DEF SaveFails

LEMMA RestartKeep ==
    ASSUME SInv, Restart  PROVE SInv'
<1> USE SessionAssumption, SergeantAssumption
<1>1. /\ restarts < MaxRestarts /\ restarts' = restarts + 1
      /\ ticks' = [h \in Handlers |-> NoTick] /\ runs' = {}
      /\ UNCHANGED <<connected, heard, age, request, version, sequence, orders,
                     processed, known, game>>
  BY DEF Restart
<1>2. NoTick \in TickRecord /\ NoTick.at = "idle" /\ NoTick.trigger = NoTrigger
  BY DEF NoTick, TickRecord, NoTrigger, Event
<1>3. SergeantsHave' /\ OnlyAcknowledges({})
  BY RestartSound DEF Restart, SInv
<1>4. rows' \subseteq 1..version'
  <2>1. CASE connected /\ heard /\ request # NoTrigger
    <3>1. version' \in Nat \ {0} /\ version' >= version
      BY <1>1, <2>1 DEF SInv, SessionHas
    <3> QED
      BY <2>1, <3>1, RowsAre DEF Restart
  <2>2. CASE ~(connected /\ heard /\ request # NoTrigger)
    <3>1. rows' = rows
      BY <2>2 DEF Restart
    <3> QED
      BY <1>1, <3>1 DEF SInv, SessionHas
  <2> QED
    BY <2>1, <2>2
<1>5. SessionHas'
  BY <1>1, <1>2, <1>4 DEF SInv, SessionHas, game
<1>6. Bounded'
  <2>1. Asking' = {}
    BY <1>1, <1>2 DEF Asking
  <2>2. Quiet'
    BY <1>1, <1>2 DEF SInv, Bounded, Quiet
  <2>3. Pending' = Pending /\ Pending \in Nat
    BY <1>1 DEF Pending
  <2>4. sequence' \in Nat /\ sequence' + Pending' <= sequence + Pending
    BY <1>1, <2>3 DEF SInv, SessionHas
  <2> QED
    BY <2>1, <2>2, <2>4, BoundedKeeps
<1>7. Taken'
  BY <1>1, <1>2, <1>3, TakenKeeps DEF Done, game
<1> QED
  BY <1>3, <1>5, <1>6, <1>7 DEF SInv

LEMMA SInvStep ==
    ASSUME SInv, [SessionNext]_allvars  PROVE SInv'
<1>1. CASE ConnectSession \/ DisconnectSession
  BY <1>1, ConnectKeep
<1>2. CASE Restart
  BY <1>2, RestartKeep
<1>3. CASE AnyTick
  BY <1>3, TickKeep DEF AnyTick
<1>4. CASE ScheduledDecision
  BY <1>4, ScheduledKeep
<1>5. CASE Runs
  BY <1>5, RunStartKeep, RunFinishKeep DEF Runs
<1>6. CASE Sergeants
  BY <1>6, SergeantsKeep
<1>7. CASE \E h \in Handlers : TickSteps(h)
  BY <1>7, DrainKeep, MergeKeep, QueueKeep, DecideKeep, AcknowledgeKeep, SaveFailsKeep
     DEF TickSteps
<1>8. CASE UNCHANGED allvars
  BY <1>8 DEF allvars, sergeants, session, decisions, game, SInv, SergeantsHave,
     SessionHas, Bounded, Quiet, Asking, Pending, Taken, Done
<1> QED
  BY <1>1, <1>2, <1>3, <1>4, <1>5, <1>6, <1>7, <1>8 DEF SessionNext

LEMMA SInvHolds == SessionSpec => []SInv
<1>1. SessionInit => SInv
  BY SessionStarts
<1>2. SInv /\ [SessionNext]_allvars => SInv'
  BY SInvStep
<1> QED
  BY <1>1, <1>2, PTL DEF SessionSpec

\* Sergeants and session agree on what was issued: an assessment is only
\* acknowledged once its command was (handleTick, acknowledgeAssessments).
THEOREM SessionSound == SessionSpec => []SessionInv
<1>1. SInv => SessionInv
  BY SInvImplies
<1> QED
  BY <1>1, SInvHolds, PTL

\* A report is assessed once, however many attempts restarts caused
\* (completeQueuedAssessment, onFiberRecovered, recoverPendingWork).
THEOREM ReportsAssessedOnce == SessionSpec => []AssessedOnce
<1>1. SInv => AssessedOnce
  BY SInvImplies
<1> QED
  BY <1>1, SInvHolds, PTL
-----------------------------------------------------------------------------
(* No command comes back, as long as the list of processed assessments is  *)
(* not shortened.                                                          *)

Remembered ==
    /\ IsInjective(processed)
    /\ (orders \cup sent) \cap Works \subseteq Range(processed)
    /\ \A n \in Nat : <<"commander", n>> \in orders \cup sent => n < sequence
    /\ NeverReissued

LEMMA RememberedKeeps ==
    ASSUME Remembered, UNCHANGED <<orders, sent, settled, processed, sequence>>
    PROVE  Remembered'
BY DEF Remembered, NeverReissued

LEMMA RememberedStep ==
    ASSUME "commander" \notin Groups, Cardinality(Works) <= KeepProcessed,
           SInv, Remembered, [SessionNext]_allvars
    PROVE  Remembered'
<1>1. settled \subseteq sent /\ sequence \in Nat
  BY DEF SInv, SessionHas
<1>2. ASSUME NEW n PROVE <<"commander", n>> \notin Works
  BY DEF Works
<1>3. CASE \/ ConnectSession \/ DisconnectSession \/ Restart
           \/ ScheduledDecision \/ Sergeants \/ UNCHANGED allvars
           \/ \E v \in rows : RunStart(v)
           \/ \E h \in Handlers : \/ Drain(h) \/ Queue(h) \/ Acknowledge(h)
                                  \/ SaveFails(h)
  <2>1. UNCHANGED <<orders, sent, settled, processed, sequence>>
    BY <1>3 DEF ConnectSession, DisconnectSession, Restart, ScheduledDecision, Sergeants,
       allvars, RunStart, Drain, Queue, Acknowledge, SaveFails, session, decisions, game
  <2> QED
    BY <2>1, RememberedKeeps
<1>4. CASE AnyTick
  <2>1. PICK ended \in SUBSET sent :
          /\ orders' = orders \ ended /\ settled' = settled \cup ended
          /\ UNCHANGED <<sequence, processed, sent>>
    BY <1>4 DEF AnyTick, Tick
  <2> QED
    BY <2>1 DEF Remembered, NeverReissued
<1>5. CASE \E v \in rows : RunFinish(v)
  <2>1. /\ UNCHANGED <<processed, sent, settled>>
        /\ \/ UNCHANGED <<sequence, orders>>
           \/ /\ sequence' = sequence + 1
              /\ orders' = orders \cup {<<"commander", sequence>>}
    BY <1>5, RunFinishIs DEF game
  <2>2. CASE UNCHANGED <<sequence, orders>>
    BY <2>1, <2>2, RememberedKeeps
  <2>3. CASE /\ sequence' = sequence + 1
             /\ orders' = orders \cup {<<"commander", sequence>>}
    <3>1. <<"commander", sequence>> \notin settled
      BY <1>1 DEF Remembered
    <3>2. <<"commander", sequence>> \notin Works
      BY <1>2
    <3>3. ASSUME NEW n \in Nat, <<"commander", n>> \in orders' \cup sent'
          PROVE  n < sequence'
      <4>1. CASE n = sequence
        BY <4>1, <2>3, <1>1
      <4>2. CASE <<"commander", n>> \in orders \cup sent
        BY <4>2, <2>3, <1>1 DEF Remembered
      <4> QED
        BY <4>1, <4>2, <3>3, <2>1, <2>3
    <3>4. NeverReissued'
      BY <2>1, <2>3, <3>1 DEF Remembered, NeverReissued
    <3>5. (orders' \cup sent') \cap Works \subseteq Range(processed')
      BY <2>1, <2>3, <3>2 DEF Remembered
    <3> QED
      BY <2>1, <3>3, <3>4, <3>5 DEF Remembered
  <2> QED
    BY <2>1, <2>2, <2>3
<1>6. CASE \E h \in Handlers : Merge(h)
  <2>1. PICK h \in Handlers : Merge(h)
    BY <1>6
  <2>2. /\ Fresh(h) \subseteq Works /\ orders' = orders \cup Fresh(h)
        /\ IsInjective(processed')
        /\ Range(processed') = Range(processed) \cup Fresh(h)
        /\ UNCHANGED <<sequence, sent, settled>>
    BY <2>1, MergeIs DEF Remembered, decisions, game
  <2>3. Fresh(h) \cap Range(processed) = {}
    BY DEF Fresh
  <2>4. NeverReissued'
    BY <1>1, <2>2, <2>3 DEF Remembered, NeverReissued
  <2>5. \A n \in Nat : <<"commander", n>> \in orders' \cup sent' => n < sequence'
    BY <1>2, <2>2 DEF Remembered
  <2>6. (orders' \cup sent') \cap Works \subseteq Range(processed')
    BY <2>2 DEF Remembered
  <2> QED
    BY <2>2, <2>4, <2>5, <2>6 DEF Remembered
<1>7. CASE \E h \in Handlers : Decide(h)
  <2>1. sent' = sent \cup orders /\ UNCHANGED <<sequence, orders, processed, settled>>
    BY <1>7 DEF Decide
  <2> QED
    BY <2>1 DEF Remembered, NeverReissued
<1> QED
  BY <1>3, <1>4, <1>5, <1>6, <1>7 DEF SessionNext, Runs, TickSteps

\* A command the game has ended never comes back, although ticks drain the
\* sergeants concurrently, acknowledgements get lost and everything restarts
\* (takeCompletedAssessments, processedSergeantAssessmentIds), as long as the
\* ids of all assessments fit into the list that is kept.
THEOREM CommandsStayEnded ==
    ASSUME "commander" \notin Groups, Cardinality(Works) <= KeepProcessed
    PROVE  SessionSpec => []NeverReissued
<1>1. SessionInit => Remembered
  BY DEF SessionInit, Remembered, NeverReissued, IsInjective
<1>2. SInv /\ Remembered /\ [SessionNext]_allvars => Remembered'
  BY RememberedStep
<1>3. Remembered => NeverReissued
  BY DEF Remembered
<1> QED
  BY <1>1, <1>2, <1>3, SInvHolds, PTL DEF SessionSpec
=============================================================================
