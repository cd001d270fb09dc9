------------------------- MODULE SessionExportProofs -------------------------
(***************************************************************************)
(* Theorems about the exports of a session, for any number of calls, ids,  *)
(* rows and pages.                                                         *)
(***************************************************************************)
EXTENDS SessionExport, FiniteSetTheorems, SequenceTheorems, WellFoundedInduction, TLAPS

(* Numbers. *)

LEMMA LeastNumber ==
    ASSUME NEW S \in SUBSET Nat, S # {}
    PROVE  \E n \in S : \A m \in S : n <= m
<1> DEFINE Less == OpToRel(<, Nat)
<1>1. IsWellFoundedOn(Less, Nat)
  BY NatLessThanWellFounded
<1>2. PICK n \in S : \A m \in S : ~(<<m, n>> \in Less)
  <2> HIDE DEF Less
  <2> QED
    BY <1>1, WFMin
<1>3. \A m \in S : ~(m < n)
  BY <1>2 DEF OpToRel
<1> QED
  BY <1>3

\* A bounded set of numbers has a greatest one.
LEMMA MaxIs ==
    ASSUME NEW S \in SUBSET Nat, S # {}, NEW bound \in Nat, \A n \in S : n <= bound
    PROVE  Max(S) \in S /\ \A n \in S : n <= Max(S)
<1> DEFINE Above == {b \in Nat : \A n \in S : n <= b}
<1>1. PICK top \in Above : \A b \in Above : top <= b
  <2>1. bound \in Above
    OBVIOUS
  <2>2. Above \in SUBSET Nat /\ Above # {}
    BY <2>1
  <2> HIDE DEF Above
  <2> QED
    BY <2>2, LeastNumber
<1>2. top \in S
  <2> SUFFICES ASSUME top \notin S PROVE FALSE
    OBVIOUS
  <2>1. \A n \in S : n <= top /\ n # top
    BY <1>1
  <2>2. PICK n \in S : TRUE
    OBVIOUS
  <2>3. top \in Nat /\ n \in Nat
    BY <1>1
  <2>4. top - 1 \in Nat
    BY <2>1, <2>2, <2>3
  <2>5. \A m \in S : m <= top - 1
    BY <2>1, <2>3
  <2>6. top - 1 \in Above
    BY <2>4, <2>5
  <2> QED
    BY <1>1, <2>3, <2>6
<1>3. \E x \in S : \A y \in S : x >= y
  BY <1>1, <1>2
<1> QED
  BY <1>3 DEF Max

LEMMA CeilingIs ==
    ASSUME NEW n \in Nat
    PROVE  /\ Ceiling(n) \in Nat
           /\ Ceiling(n) = 0 => n = 0
           /\ \A m \in Nat : m < n => m \div PageRows < Ceiling(n)
<1> USE ExportAssumption DEF Ceiling
<1>1. n + PageRows - 1 \in Nat
  OBVIOUS
<1>2. \A P \in Nat \ {0}, a \in Nat : a \div P \in Nat
  OBVIOUS
<1>3. \A P \in Nat \ {0}, a, b \in Nat : a < b => a \div P < (b + P - 1) \div P
  OBVIOUS
<1>4. Ceiling(n) \in Nat
  BY <1>1, <1>2
<1>5. \A m \in Nat : m < n => m \div PageRows < Ceiling(n)
  BY <1>3
<1>6. ASSUME Ceiling(n) = 0 PROVE n = 0
  <2>1. n # 0 => 0 < n
    OBVIOUS
  <2>2. 0 \div PageRows \in Nat
    BY <1>2
  <2> QED
    BY <1>4, <1>5, <1>6, <2>1, <2>2
<1> QED
  BY <1>4, <1>5, <1>6
-----------------------------------------------------------------------------
(* Pages. *)

\* The rows of a page, one table's: those next to come, up to a number.
LEMMA LeastIs ==
    ASSUME NEW S \in SUBSET Nat, IsFiniteSet(S), NEW n \in Nat \ {0}
    PROVE  /\ Least(S, n) \subseteq S
           /\ \A k \in S, j \in Least(S, n) : k <= j => k \in Least(S, n)
           /\ Cardinality(S) <= n => Least(S, n) = S
<1> DEFINE Below(k) == {j \in S : j < k}
<1>1. \A k \in S : IsFiniteSet(Below(k)) /\ Cardinality(Below(k)) \in Nat
  BY FS_Subset, FS_CardinalityType
<1>2. ASSUME NEW k \in S, NEW j \in Least(S, n), k <= j PROVE k \in Least(S, n)
  <2>0. j \in S
    BY DEF Least
  <2>1. Below(k) \subseteq Below(j)
    <3>1. ASSUME NEW i \in S, i < k PROVE i < j
      <4>1. i \in Nat /\ k \in Nat /\ j \in Nat
        BY <2>0
      <4> QED
        BY <1>2, <3>1, <4>1
    <3> QED
      BY <3>1
  <2>2. Cardinality(Below(k)) <= Cardinality(Below(j))
    BY <1>1, <2>0, <2>1, FS_Subset DEF Least
  <2>3. Cardinality(Below(j)) < n
    BY DEF Least
  <2> QED
    BY <1>1, <2>2, <2>3 DEF Least
<1>3. ASSUME Cardinality(S) <= n, NEW k \in S PROVE k \in Least(S, n)
  <2>1. Below(k) \in SUBSET S /\ Below(k) # S
    OBVIOUS
  <2>2. Cardinality(S) \in Nat
    BY FS_CardinalityType
  <2>3. Cardinality(Below(k)) <= Cardinality(S) /\ Cardinality(Below(k)) # Cardinality(S)
    BY <2>1, FS_Subset
  <2> QED
    BY <1>1, <1>3, <2>2, <2>3 DEF Least
<1> QED
  BY <1>2, <1>3 DEF Least

LEMMA RowIs ==
    /\ Tables = {"logs", "ticks"}
    /\ \A t \in Tables : RowKeys(t) \in SUBSET Nat /\ IsFiniteSet(RowKeys(t))
    /\ \A r : r \in Rows <=> r = <<r[1], r[2]>> /\ r[1] \in Tables /\ r[2] \in RowKeys(r[1])
    /\ \A t, k : <<t, k>> \in Rows <=> t \in Tables /\ k \in RowKeys(t)
<1> USE ExportAssumption
<1>1. Tables = {"logs", "ticks"}
  BY DEF Tables
<1>2. IsFiniteSet(1 .. MaxTicks) /\ IsFiniteSet(1 .. MaxLogs)
  BY FS_Interval
<1>3. \A t \in Tables : RowKeys(t) \in SUBSET Nat /\ IsFiniteSet(RowKeys(t))
  BY <1>2 DEF RowKeys
<1>4. \A r : r \in Rows <=> r = <<r[1], r[2]>> /\ r[1] \in Tables /\ r[2] \in RowKeys(r[1])
  <2> HIDE ExportAssumption
  <2>1. \A r : r \in Rows <=> \E t \in Tables : r \in {t} \X RowKeys(t)
    BY DEF Rows
  <2> QED
    BY <2>1
<1>5. \A t, k : <<t, k>> \in Rows <=> t \in Tables /\ k \in RowKeys(t)
  BY <1>4
<1> QED
  BY <1>1, <1>3, <1>4, <1>5

LEMMA RowsAreFinite == IsFiniteSet(Rows)
<1>1. \A t \in Tables : IsFiniteSet({t} \X RowKeys(t))
  BY RowIs, FS_Singleton, FS_Product
<1>2. Rows = ({"logs"} \X RowKeys("logs")) \cup ({"ticks"} \X RowKeys("ticks"))
  BY DEF Rows, Tables
<1>3. "logs" \in Tables /\ "ticks" \in Tables
  BY DEF Tables
<1> QED
  BY <1>1, <1>2, <1>3, FS_Union

\* An assembled export cut in pages: every row is on one page of the plan.
LEMMA SplitIs ==
    ASSUME NEW S \in SUBSET Rows
    PROVE  /\ SplitCount(S) \in Nat
           /\ \A i : Split(S, i) \in SUBSET Rows
           /\ \A i, j : i # j => Split(S, i) \cap Split(S, j) = {}
           /\ \A r \in S : \E i \in Nat : i < SplitCount(S) /\ r \in Split(S, i)
<1> DEFINE n == Cardinality(S)
<1> DEFINE Before(r) == {q \in S : \/ q[1] = "logs" /\ r[1] = "ticks"
                                   \/ q[1] = r[1] /\ q[2] < r[2]}
<1>1. IsFiniteSet(S) /\ n \in Nat
  BY RowsAreFinite, FS_Subset, FS_CardinalityType
<1>2. Ceiling(n) \in Nat /\ \A m \in Nat : m < n => m \div PageRows < Ceiling(n)
  BY <1>1, CeilingIs
<1>3. SplitCount(S) \in Nat /\ Ceiling(n) <= SplitCount(S)
  <2> DEFINE c == Ceiling(n)
  <2> HIDE DEF c
  <2>1. c \in Nat
    BY <1>2 DEF c
  <2>2. {1, c} \in SUBSET Nat /\ {1, c} # {} /\ c + 1 \in Nat
    BY <2>1
  <2>3. \A x \in {1, c} : x <= c + 1
    BY <2>1
  <2>4. Max({1, c}) \in {1, c} /\ \A x \in {1, c} : x <= Max({1, c})
    BY <2>2, <2>3, MaxIs
  <2> QED
    BY <2>1, <2>4 DEF SplitCount, c
<1>4. ASSUME NEW r \in S
      PROVE  \E i \in Nat : i < SplitCount(S) /\ r \in Split(S, i)
  <2>1. r[2] \in Nat
    BY RowIs
  <2>2. ~(r[1] = "logs" /\ r[1] = "ticks") /\ ~(r[2] < r[2])
    BY <2>1
  <2>3. Before(r) \in SUBSET S /\ Before(r) # S
    BY <2>2
  <2>4. Cardinality(Before(r)) \in Nat
    BY <1>1, <2>3, FS_Subset, FS_CardinalityType
  <2>5. Cardinality(Before(r)) <= n /\ Cardinality(Before(r)) # n
    BY <1>1, <2>3, FS_Subset
  <2>6. Rank(S, r) = Cardinality(Before(r))
    BY DEF Rank
  <2> HIDE DEF n, Before
  <2>7. Rank(S, r) \in Nat /\ Rank(S, r) < n
    BY <1>1, <2>4, <2>5, <2>6
  <2>8. Rank(S, r) \div PageRows < Ceiling(n)
    BY <1>2, <2>7
  <2> DEFINE i == Rank(S, r) \div PageRows
  <2>9. \A P \in Nat \ {0}, a \in Nat : a \div P \in Nat
    OBVIOUS
  <2>10. i \in Nat
    BY <2>7, <2>9, ExportAssumption
  <2>11. r \in Split(S, i)
    BY DEF Split
  <2> HIDE DEF i
  <2>12. i < Ceiling(n)
    BY <2>8 DEF i
  <2> QED
    BY <1>2, <1>3, <2>10, <2>11, <2>12
<1>5. \A i : Split(S, i) \in SUBSET Rows
  BY DEF Split
<1>6. \A i, j : i # j => Split(S, i) \cap Split(S, j) = {}
  BY DEF Split
<1> QED
  BY <1>3, <1>4, <1>5, <1>6
-----------------------------------------------------------------------------
(* The archive. *)

\* Rows have rowids that are not above the watermarks taken later: a tick's is
\* its id, and the logs' are no more than there are logs.
ArchiveHas ==
    /\ clock \in 0 .. MaxClock
    /\ rowid = [t \in Tables |-> rowid[t]]
    /\ \A t \in Tables : rowid[t] \in [RowKeys(t) -> Nat]
    /\ \A k \in RowKeys("ticks") : rowid["ticks"][k] \in {0, k}
    /\ \A k \in RowKeys("logs") : rowid["logs"][k] <= Cardinality(Stored("logs"))

LEMMA StoredIs ==
    \A t \in Tables : /\ Stored(t) \in SUBSET RowKeys(t) /\ IsFiniteSet(Stored(t))
                      /\ Cardinality(Stored(t)) \in Nat
                      /\ Cardinality(Stored(t)) <= Cardinality(RowKeys(t))
<1> SUFFICES ASSUME NEW t \in Tables
             PROVE  /\ Stored(t) \in SUBSET RowKeys(t) /\ IsFiniteSet(Stored(t))
                    /\ Cardinality(Stored(t)) \in Nat
                    /\ Cardinality(Stored(t)) <= Cardinality(RowKeys(t))
  OBVIOUS
<1>1. Stored(t) \in SUBSET RowKeys(t)
  BY DEF Stored
<1> QED
  BY <1>1, RowIs, FS_Subset, FS_CardinalityType

LEMMA RowidsAreBounded ==
    ASSUME ArchiveHas
    PROVE  \A t \in Tables : \E b \in Nat : \A k \in RowKeys(t) : rowid[t][k] <= b
<1> USE ExportAssumption
<1>1. \A k \in RowKeys("ticks") : rowid["ticks"][k] <= MaxTicks
  <2>1. RowKeys("ticks") = 1 .. MaxTicks
    BY DEF RowKeys
  <2>2. \A k \in 1 .. MaxTicks : 0 <= MaxTicks /\ k <= MaxTicks
    OBVIOUS
  <2> QED
    BY <2>1, <2>2 DEF ArchiveHas
<1>2. \E b \in Nat : \A k \in RowKeys("logs") : rowid["logs"][k] <= b
  BY StoredIs DEF ArchiveHas, Tables
<1> QED
  BY <1>1, <1>2 DEF Tables

LEMMA HighIs ==
    ASSUME ArchiveHas, NEW t \in Tables
    PROVE  /\ HighWater(t) \in Nat
           /\ \A k \in RowKeys(t) : rowid[t][k] <= HighWater(t)
           /\ HighWater(t) = 0 \/ \E k \in RowKeys(t) : HighWater(t) = rowid[t][k]
<1> DEFINE S == {rowid[t][k] : k \in RowKeys(t)} \cup {0}
<1>1. S \in SUBSET Nat /\ S # {}
  BY DEF ArchiveHas
<1>2. PICK b \in Nat : \A k \in RowKeys(t) : rowid[t][k] <= b
  BY RowidsAreBounded
<1>3. \A n \in S : n <= b
  BY <1>2
<1>4. Max(S) \in S /\ \A n \in S : n <= Max(S)
  <2> HIDE DEF S
  <2> QED
    BY <1>1, <1>3, MaxIs
<1>5. HighWater(t) = Max(S)
  BY DEF HighWater
<1>6. HighWater(t) \in S /\ \A n \in S : n <= HighWater(t)
  BY <1>4, <1>5
<1> QED
  BY <1>1, <1>6

\* What a cursor has passed.
Reached(cursor, t, k) == cursor[t].done \/ k <= cursor[t].after

\* A page takes the rows between two cursors, and leaves out none of those
\* under the watermark.
LEMMA PageIs ==
    ASSUME ArchiveHas, NEW high \in [Tables -> Nat], NEW cursor \in [Tables -> Cursor]
    PROVE  LET page == PageFromSnapshot(high, cursor)
               next == NextCursor(high, cursor)
           IN  /\ page \in SUBSET Rows
               /\ next \in [Tables -> Cursor]
               /\ \A t \in Tables : cursor[t].after <= next[t].after
               /\ \A r \in page : r[2] > cursor[r[1]].after /\ r[2] <= next[r[1]].after
               /\ \A t \in Tables : \A k \in RowKeys(t) :
                     rowid[t][k] # 0 /\ rowid[t][k] <= high[t] /\ Reached(next, t, k)
                        => Reached(cursor, t, k) \/ <<t, k>> \in page
<1> DEFINE page == PageFromSnapshot(high, cursor)
           next == NextCursor(high, cursor)
           Taken(t) == Least(Ahead(high, cursor, t), PageRows)
<1>1. ASSUME NEW t \in Tables
      PROVE  /\ Ahead(high, cursor, t) \in SUBSET RowKeys(t)
             /\ Ahead(high, cursor, t) \in SUBSET Nat
             /\ IsFiniteSet(Ahead(high, cursor, t))
  <2>1. Ahead(high, cursor, t) \in SUBSET RowKeys(t)
    BY DEF Ahead, Stored
  <2> QED
    BY <2>1, RowIs, FS_Subset
<1>2. PageRows \in Nat \ {0}
  BY ExportAssumption
<1>3. ASSUME NEW t \in Tables
      PROVE  /\ Taken(t) \in SUBSET Ahead(high, cursor, t)
             /\ \A k \in Ahead(high, cursor, t), j \in Taken(t) : k <= j => k \in Taken(t)
             /\ Cardinality(Ahead(high, cursor, t)) <= PageRows
                    => Taken(t) = Ahead(high, cursor, t)
  BY <1>1, <1>2, LeastIs
<1>4. \A t \in Tables : cursor[t].after \in Nat /\ cursor[t].done \in BOOLEAN
  BY DEF Cursor
<1>5. \A t \in Tables :
        /\ next[t].after = Max(Taken(t) \cup {cursor[t].after})
        /\ next[t].done = (Cardinality(Ahead(high, cursor, t)) <= PageRows)
        /\ next[t] = [after |-> next[t].after, done |-> next[t].done]
  BY DEF NextCursor
<1>6. next = [t \in Tables |-> next[t]]
  BY DEF NextCursor
<1>7. \A r : r \in page <=> r = <<r[1], r[2]>> /\ r[1] \in Tables /\ r[2] \in Taken(r[1])
  <2>1. \A r : r \in page <=> \E t \in Tables : r \in {t} \X Taken(t)
    BY DEF PageFromSnapshot
  <2> HIDE DEF page, Taken
  <2> QED
    BY <2>1
<1>8. ASSUME NEW t \in Tables
      PROVE  /\ next[t].after \in Nat
             /\ next[t].after \in Taken(t) \cup {cursor[t].after}
             /\ \A k \in Taken(t) \cup {cursor[t].after} : k <= next[t].after
  <2> DEFINE T == Taken(t) \cup {cursor[t].after}
  <2>1. T \in SUBSET Nat /\ T # {}
    BY <1>1, <1>3, <1>4
  <2>2. IsFiniteSet(T)
    BY <1>1, <1>3, FS_Subset, FS_AddElement
  <2>3. \E b \in Nat : \A k \in T : k <= b
    <3>1. \E b \in Nat : \A k \in RowKeys(t) : k <= b
      BY ExportAssumption DEF RowKeys, Tables
    <3>2. PICK b \in Nat : \A k \in RowKeys(t) : k <= b
      BY <3>1
    <3>3. \A k \in T : k <= b + cursor[t].after
      <4>1. \A k \in RowKeys(t) : k \in Nat /\ k <= b + cursor[t].after
        BY <1>4, <3>2, RowIs
      <4> QED
        BY <1>1, <1>3, <1>4, <4>1
    <3> QED
      BY <1>4, <3>3
  <2> HIDE DEF T
  <2>4. Max(T) \in T /\ \A k \in T : k <= Max(T)
    BY <2>1, <2>3, MaxIs
  <2> QED
    BY <1>5, <2>1, <2>4 DEF T
<1> HIDE DEF page, next, Taken
<1>9. page \in SUBSET Rows
  BY <1>1, <1>3, <1>7, RowIs
<1>10. next \in [Tables -> Cursor]
  <2>1. ASSUME NEW t \in Tables PROVE next[t].done \in BOOLEAN
    <3> DEFINE few == Cardinality(Ahead(high, cursor, t)) <= PageRows
    <3>1. next[t].done = few
      BY <1>5
    <3>2. few = TRUE \/ few = FALSE
      OBVIOUS
    <3> HIDE DEF few
    <3> QED
      BY <3>1, <3>2
  <2>2. ASSUME NEW t \in Tables PROVE next[t] \in Cursor
    <3> DEFINE a == next[t].after
               d == next[t].done
    <3>1. next[t] = [after |-> a, done |-> d]
      BY <1>5
    <3>2. a \in Nat /\ d \in BOOLEAN
      BY <1>8, <2>1
    <3> HIDE DEF a, d
    <3> QED
      BY <3>1, <3>2 DEF Cursor
  <2> QED
    BY <1>6, <2>2
<1>11. \A r \in page : r[2] > cursor[r[1]].after /\ r[2] <= next[r[1]].after
  <2>1. \A t \in Tables : \A k \in Ahead(high, cursor, t) : k > cursor[t].after
    BY DEF Ahead
  <2> QED
    BY <1>3, <1>7, <1>8, <2>1
<1>12. ASSUME NEW t \in Tables, NEW k \in RowKeys(t),
              rowid[t][k] # 0, rowid[t][k] <= high[t], Reached(next, t, k),
              ~Reached(cursor, t, k)
       PROVE  <<t, k>> \in page
  <2>1. k \in Nat /\ ~cursor[t].done /\ k > cursor[t].after
    BY <1>4, <1>12, RowIs DEF Reached
  <2>2. k \in Ahead(high, cursor, t)
    BY <1>12, <2>1 DEF Ahead, Stored
  <2>3. k \in Taken(t)
    <3>1. CASE next[t].done
      BY <1>3, <1>5, <2>2, <3>1
    <3>2. CASE k <= next[t].after
      <4>1. next[t].after # cursor[t].after
        BY <1>4, <2>1, <3>2
      <4> QED
        BY <1>3, <1>8, <2>2, <3>2, <4>1
    <3> QED
      BY <1>12, <3>1, <3>2 DEF Reached
  <2> QED
    BY <1>7, <2>3
<1> QED
  BY <1>8, <1>9, <1>10, <1>11, <1>12 DEF page, next

\* Rows, and what is stored, are never lost or changed.
Grows ==
    /\ \A t \in Tables : \A k \in RowKeys(t) :
          rowid[t][k] # 0 => rowid'[t][k] = rowid[t][k]
    /\ \A leaf \in Leaves :
          /\ reservations[leaf] # Nothing => reservations'[leaf] = reservations[leaf]
          /\ roots[leaf] # Nothing => roots'[leaf] = roots[leaf]
          /\ \A i \in 0 .. MaxPages - 1 :
                pages[leaf][i] # Nothing => pages'[leaf][i] = pages[leaf][i]

LEMMA RowSaved ==
    ASSUME ArchiveHas, NEW t \in Tables, NEW k \in RowKeys(t), NEW id \in Nat,
           rowid[t][k] = 0, rowid' = [rowid EXCEPT ![t][k] = id],
           UNCHANGED <<clock, reservations, pages, roots>>,
           t = "ticks" => id = k,
           t = "logs" => id <= Cardinality(Stored("logs")) + 1
    PROVE  ArchiveHas' /\ Grows
<1>1. /\ rowid' = [u \in Tables |-> rowid'[u]]
      /\ \A u \in Tables : rowid'[u] \in [RowKeys(u) -> Nat]
  BY DEF ArchiveHas
<1>2. \A u \in Tables : \A j \in RowKeys(u) :
        rowid'[u][j] = IF u = t /\ j = k THEN id ELSE rowid[u][j]
  BY DEF ArchiveHas
<1>3. Grows
  BY <1>2 DEF Grows
<1>4. \A j \in RowKeys("ticks") : rowid'["ticks"][j] \in {0, j}
  BY <1>2 DEF ArchiveHas, Tables
<1>5. \A j \in RowKeys("logs") : rowid'["logs"][j] <= Cardinality(Stored("logs")')
  <2> DEFINE before == Cardinality(Stored("logs"))
             now == Cardinality(Stored("logs")')
  <2>0. "logs" \in Tables
    BY DEF Tables
  <2>1. before \in Nat /\ IsFiniteSet(Stored("logs"))
    BY <2>0, StoredIs
  <2>2. CASE t = "logs" /\ id # 0
    <3>1. Stored("logs")' = Stored("logs") \cup {k} /\ k \notin Stored("logs")
      BY <1>2, <2>2 DEF Stored
    <3>2. now = before + 1
      BY <2>1, <3>1, FS_AddElement
    <3> HIDE DEF before, now
    <3>3. \A j \in RowKeys("logs") : rowid["logs"][j] \in Nat /\ rowid["logs"][j] <= before
      BY <2>0 DEF ArchiveHas, before
    <3>4. id <= before + 1
      BY <2>2 DEF before
    <3>5. \A j \in RowKeys("logs") : rowid'["logs"][j] <= now
      BY <1>2, <2>0, <2>1, <2>2, <3>2, <3>3, <3>4
    <3> QED
      BY <3>5 DEF now
  <2>3. CASE t # "logs" \/ id = 0
    <3>1. \A j \in RowKeys("logs") : rowid'["logs"][j] = rowid["logs"][j]
      BY <1>2, <2>0, <2>3
    <3>2. Stored("logs")' = Stored("logs")
      BY <3>1 DEF Stored
    <3> QED
      BY <3>1, <3>2 DEF ArchiveHas
  <2> QED
    BY <2>2, <2>3
<1> QED
  BY <1>1, <1>3, <1>4, <1>5 DEF ArchiveHas

LEMMA ArchiveStays ==
    ASSUME ArchiveHas, rowid' = rowid, clock' \in 0 .. MaxClock
    PROVE  ArchiveHas'
BY DEF ArchiveHas, Stored
-----------------------------------------------------------------------------
(* The invariant. *)

Modes == {"stream", "inline", "chunks"}
Planning == {"check", "reserve", "recheck"}
Holding == {"lease", "put", "finish", "publish"}
Phases == Planning \cup Holding \cup {"idle", "answer", "ended"}

Writing == [pc : Phases, mode : Modes, plan : Plans \cup {Nothing},
            high : [Tables -> Nat], counted : SUBSET Rows,
            cursor : [Tables -> Cursor], page : SUBSET Rows, sent : Seq(Pages),
            answer : Roots \cup {Nothing, Failed}, wrote : BOOLEAN]

\* The pages sent are numbered as the plan says, and no row is on two.
Numbered(rec) ==
    /\ rec.plan \in Plans
    /\ Len(rec.sent) <= rec.plan.count
    /\ \A i \in 1 .. Len(rec.sent) :
          rec.sent[i].index = i - 1 /\ rec.sent[i].header = rec.plan.header
Apart(rec) ==
    /\ \A i, j \in 1 .. Len(rec.sent) :
          i # j => rec.sent[i].rows \cap rec.sent[j].rows = {}
    /\ \A i \in 1 .. Len(rec.sent) : rec.sent[i].rows \cap rec.page = {}

\* What is on the pages: of an assembled export its parts, of an archive that
\* is paged through the rows the cursors have passed.
OnPage(rec, r) == \E i \in 1 .. Len(rec.sent) : r \in rec.sent[i].rows
Cuts(rec) ==
    /\ rec.plan.count = SplitCount(rec.counted)
    /\ \A i \in 1 .. Len(rec.sent) : rec.sent[i].rows = Split(rec.counted, i - 1)
Streams(rec) ==
    /\ rec.plan.count = 0 => rec.counted = {}
    /\ \A r \in Rows : OnPage(rec, r) \/ r \in rec.page => r[2] <= rec.cursor[r[1]].after
    /\ \A r \in rec.counted : Reached(rec.cursor, r[1], r[2])
                                => r \in rec.page \/ OnPage(rec, r)
Paged(rec) ==
    /\ Numbered(rec) /\ Apart(rec)
    /\ rec.mode = "inline" => rec.plan.count = 0
    /\ rec.mode = "chunks" => Cuts(rec)
    /\ rec.mode = "stream" => Streams(rec)

\* The page about to be written, and the end of paging.
PageTaken(rec) ==
    /\ rec.mode = "inline" => rec.page = rec.counted
    /\ rec.mode = "chunks" => rec.page = Split(rec.counted, Len(rec.sent))
Covers(rec) ==
    /\ rec.mode # "inline"
    /\ rec.page = {}
    /\ \A r \in rec.counted : OnPage(rec, r)

\* The rows a call counted are in the archive, under its watermarks.
Counts(rec) == \A r \in rec.counted :
    rowid[r[1]][r[2]] # 0 /\ rowid[r[1]][r[2]] <= rec.high[r[1]]

Root(rec) ==
    IF rec.mode = "inline"
    THEN [storage |-> "inline", plan |-> rec.plan,
          pages |-> << [index |-> 0, header |-> rec.plan.header, rows |-> rec.page] >>]
    ELSE [storage |-> "chunked", plan |-> rec.plan, pages |-> rec.sent]

\* What a call knows of the archive and the store in each phase.
Knows(rec) ==
    /\ Counts(rec)
    /\ rec.pc \in Planning => /\ Paged(rec) /\ rec.sent = <<>> /\ rec.page = {}
                             /\ ~rec.wrote
    /\ rec.pc = "recheck" => reservations[rec.plan.leaf] # Nothing
    /\ rec.pc \in Holding => /\ Paged(rec) /\ ~rec.wrote
                            /\ reservations[rec.plan.leaf] = rec.plan
                            /\ \A i \in 1 .. Len(rec.sent) :
                                  pages[rec.plan.leaf][i - 1] = rec.sent[i]
    /\ rec.pc \in {"lease", "put"} => PageTaken(rec)
    /\ rec.pc = "put" => rec.mode = "inline" \/ Len(rec.sent) < rec.plan.count
    /\ rec.pc \in {"finish", "publish"} => Covers(rec)
    /\ rec.pc = "publish" => Len(rec.sent) = rec.plan.count
    /\ rec.pc = "answer" => rec.wrote /\ rec.answer = Root(rec)
    /\ rec.wrote => /\ Paged(rec) /\ roots[rec.plan.leaf] = Root(rec)
                    /\ IF rec.mode = "inline" THEN PageTaken(rec) ELSE Covers(rec)
    /\ rec.pc = "idle" => rec = Idle

CallsHave == writer \in [Writers -> Writing] /\ \A w \in Writers : Knows(writer[w])

\* What is published is as its plan says, and every page of it is there.
Legible(leaf) ==
    LET root == roots[leaf]
    IN  /\ root.storage = "inline" => root.plan.count = 0 /\ Len(root.pages) = 1
        /\ root.storage = "chunked" =>
              /\ Len(root.pages) = root.plan.count
              /\ \A i \in 1 .. Len(root.pages) :
                    root.pages[i].index = i - 1 /\ pages[leaf][i - 1] = root.pages[i]
        /\ \A i \in 1 .. Len(root.pages) : root.pages[i].header = root.plan.header

StoresHave ==
    /\ reservations \in [Leaves -> Plans \cup {Nothing}]
    /\ \A leaf \in Leaves : reservations[leaf] # Nothing => reservations[leaf].leaf = leaf
    /\ pages \in [Leaves -> [0 .. MaxPages - 1 -> Pages \cup {Nothing}]]
    /\ roots \in [Leaves -> Roots \cup {Nothing}]
    /\ OnePlan
    /\ \A leaf \in Leaves : roots[leaf] # Nothing => Legible(leaf)

IInv == ArchiveHas /\ StoresHave /\ CallsHave
-----------------------------------------------------------------------------
(* Records. *)

\* What differs between two records that read and wrote the same.
SameCall(new, rec) ==
    /\ new.mode = rec.mode /\ new.plan = rec.plan /\ new.high = rec.high
    /\ new.counted = rec.counted /\ new.cursor = rec.cursor
    /\ new.page = rec.page /\ new.sent = rec.sent

LEMMA SameIs ==
    ASSUME NEW new, NEW rec, SameCall(new, rec)
    PROVE  /\ Paged(new) <=> Paged(rec)
           /\ Covers(new) <=> Covers(rec)
           /\ PageTaken(new) <=> PageTaken(rec)
           /\ Root(new) = Root(rec)
<1>1. \A r : OnPage(new, r) <=> OnPage(rec, r)
  BY DEF SameCall, OnPage
<1>2. Numbered(new) <=> Numbered(rec)
  BY DEF SameCall, Numbered
<1>3. Apart(new) <=> Apart(rec)
  BY DEF SameCall, Apart
<1>4. Cuts(new) <=> Cuts(rec)
  BY DEF SameCall, Cuts
<1>5. Streams(new) <=> Streams(rec)
  BY <1>1 DEF SameCall, Streams
<1>6. Paged(new) <=> Paged(rec)
  BY <1>2, <1>3, <1>4, <1>5 DEF SameCall, Paged
<1>7. Covers(new) <=> Covers(rec)
  BY <1>1 DEF SameCall, Covers
<1>8. PageTaken(new) <=> PageTaken(rec)
  BY DEF SameCall, PageTaken
<1>9. Root(new) = Root(rec)
  BY DEF SameCall, Root
<1> QED
  BY <1>6, <1>7, <1>8, <1>9

LEMMA PlanIs ==
    \A plan : plan \in Plans <=>
        /\ plan = [leaf |-> plan.leaf, header |-> plan.header, count |-> plan.count]
        /\ plan.leaf \in Leaves /\ plan.header \in Headers
        /\ plan.count \in Nat /\ plan.count <= MaxPages
<1>1. \A n : n \in 0 .. MaxPages <=> n \in Nat /\ n <= MaxPages
  BY ExportAssumption
<1> QED
  BY <1>1 DEF Plans

LEMMA WritingIs ==
    ASSUME NEW rec \in Writing
    PROVE  /\ rec.pc \in Phases /\ rec.mode \in Modes /\ rec.plan \in Plans \cup {Nothing}
           /\ rec.high \in [Tables -> Nat] /\ rec.counted \in SUBSET Rows
           /\ rec.cursor \in [Tables -> Cursor] /\ rec.page \in SUBSET Rows
           /\ rec.sent \in Seq(Pages) /\ Len(rec.sent) \in Nat
           /\ \A i \in 1 .. Len(rec.sent) : rec.sent[i] \in Pages
           /\ rec.answer \in Roots \cup {Nothing, Failed} /\ rec.wrote \in BOOLEAN
BY DEF Writing

LEMMA IdleIsWriting == Idle \in Writing /\ Idle.counted = {} /\ Idle.pc = "idle" /\ ~Idle.wrote
<1>1. FirstCursor \in [Tables -> Cursor] /\ [t \in Tables |-> 0] \in [Tables -> Nat]
  BY DEF FirstCursor, Cursor
<1>2. <<>> \in Seq(Pages) /\ {} \in SUBSET Rows
  OBVIOUS
<1> QED
  BY <1>1, <1>2 DEF Idle, Writing, Phases, Modes

\* What a call publishes.
LEMMA RootIs ==
    ASSUME NEW rec \in Writing, Paged(rec)
    PROVE  /\ Root(rec) \in Roots /\ Root(rec).plan = rec.plan
           /\ \/ /\ rec.mode = "inline" /\ Root(rec).storage = "inline"
                 /\ Root(rec).pages = << [index |-> 0, header |-> rec.plan.header,
                                          rows |-> rec.page] >>
              \/ /\ rec.mode # "inline" /\ Root(rec).storage = "chunked"
                 /\ Root(rec).pages = rec.sent
<1>1. rec.plan \in Plans /\ rec.plan.header \in Headers
  BY PlanIs DEF Paged, Numbered
<1>2. CASE rec.mode = "inline"
  <2> DEFINE page == [index |-> 0, header |-> rec.plan.header, rows |-> rec.page]
  <2>1. page \in Pages
    <3>1. 0 \in 0 .. MaxPages - 1
      BY ExportAssumption
    <3> QED
      BY <1>1, <3>1, WritingIs DEF Pages
  <2>2. << page >> \in Seq(Pages)
    BY <2>1
  <2>3. Root(rec) = [storage |-> "inline", plan |-> rec.plan, pages |-> << page >>]
    BY <1>2 DEF Root
  <2> HIDE DEF page
  <2>4. Root(rec) \in Roots
    BY <1>1, <2>2, <2>3 DEF Roots
  <2> QED
    BY <1>2, <2>3, <2>4 DEF page
<1>3. CASE rec.mode # "inline"
  BY <1>1, <1>3, WritingIs DEF Root, Roots
<1> QED
  BY <1>2, <1>3

\* What the next page is: the whole of a small export, a part, or the rows
\* between two cursors; and when there is none, all that was counted is sent.
LEMMA LoadedIs ==
    ASSUME ArchiveHas, NEW rec \in Writing, Paged(rec), Counts(rec), rec.page = {}
    PROVE  LET new == Loaded(rec)
           IN  /\ new \in Writing /\ Paged(new)
               /\ new.mode = rec.mode /\ new.plan = rec.plan /\ new.sent = rec.sent
               /\ new.counted = rec.counted /\ new.high = rec.high
               /\ new.answer = rec.answer /\ new.wrote = rec.wrote
               /\ \/ new.pc = "lease" /\ PageTaken(new)
                  \/ new.pc = "finish" /\ Covers(new)
<1> DEFINE new == Loaded(rec)
<1>0. rec.mode \in Modes /\ rec.sent \in Seq(Pages) /\ Len(rec.sent) \in Nat /\ Numbered(rec)
  BY WritingIs DEF Paged
<1>1. CASE rec.mode = "inline"
  <2>1. new = [rec EXCEPT !.pc = "lease", !.page = rec.counted]
    BY <1>1 DEF Loaded
  <2>2. Len(rec.sent) = 0
    BY <1>0, <1>1, PlanIs DEF Paged, Numbered
  <2>3. /\ new.mode = rec.mode /\ new.plan = rec.plan /\ new.sent = rec.sent
        /\ new.counted = rec.counted /\ new.high = rec.high
        /\ new.answer = rec.answer /\ new.wrote = rec.wrote
        /\ new.pc = "lease" /\ new.page = rec.counted /\ new \in Writing
    BY <2>1, WritingIs DEF Writing, Phases, Holding
  <2> HIDE DEF new
  <2>4. Paged(new)
    BY <1>0, <1>1, <2>2, <2>3 DEF Paged, Numbered, Apart
  <2> QED
    BY <1>1, <2>3, <2>4 DEF new, PageTaken
<1>2. CASE rec.mode # "inline" /\ AllSent(rec)
  <2>1. new = [rec EXCEPT !.pc = "finish"]
    BY <1>2 DEF Loaded
  <2>2. /\ new.mode = rec.mode /\ new.plan = rec.plan /\ new.sent = rec.sent
        /\ new.counted = rec.counted /\ new.high = rec.high /\ new.cursor = rec.cursor
        /\ new.answer = rec.answer /\ new.wrote = rec.wrote
        /\ new.pc = "finish" /\ new.page = {} /\ new \in Writing
    BY <2>1, WritingIs DEF Writing, Phases, Holding
  <2> HIDE DEF new
  <2>3. Paged(new)
    BY <2>2 DEF Paged, Numbered, Apart, Cuts, Streams, OnPage
  <2>4. ASSUME NEW r \in rec.counted PROVE OnPage(rec, r)
    <3>1. CASE rec.mode = "stream"
      <4>1. rec.plan.count # 0
        BY <2>4, <3>1 DEF Paged, Streams
      <4>2. r[1] \in Tables
        BY RowIs, WritingIs
      <4>3. rec.cursor[r[1]].done
        BY <1>2, <3>1, <4>1, <4>2 DEF AllSent
      <4> QED
        BY <3>1, <4>3 DEF Paged, Streams, Reached
    <3>2. CASE rec.mode = "chunks"
      <4>1. Len(rec.sent) = SplitCount(rec.counted)
        BY <1>2, <3>2 DEF AllSent, Paged, Cuts
      <4>2. PICK i \in Nat : i < SplitCount(rec.counted) /\ r \in Split(rec.counted, i)
        BY SplitIs, WritingIs
      <4>3. i + 1 \in 1 .. Len(rec.sent) /\ (i + 1) - 1 = i
        BY <1>0, <4>1, <4>2
      <4>4. rec.sent[i + 1].rows = Split(rec.counted, i)
        BY <3>2, <4>3 DEF Paged, Cuts
      <4> QED
        BY <4>2, <4>3, <4>4 DEF OnPage
    <3> QED
      BY <1>0, <1>2, <3>1, <3>2 DEF Modes
  <2>5. Covers(new)
    BY <1>2, <2>2, <2>4 DEF Covers, OnPage
  <2> QED
    BY <2>2, <2>3, <2>5 DEF new
<1>3. CASE rec.mode = "chunks" /\ ~AllSent(rec)
  <2> DEFINE part == Split(rec.counted, Len(rec.sent))
  <2>1. new = [rec EXCEPT !.pc = "lease", !.page = part]
    BY <1>3 DEF Loaded
  <2>2. part \in SUBSET Rows
    BY SplitIs, WritingIs
  <2> HIDE DEF part
  <2>3. /\ new.mode = rec.mode /\ new.plan = rec.plan /\ new.sent = rec.sent
        /\ new.counted = rec.counted /\ new.high = rec.high
        /\ new.answer = rec.answer /\ new.wrote = rec.wrote
        /\ new.pc = "lease" /\ new.page = part /\ new \in Writing
    BY <2>1, <2>2, WritingIs DEF Writing, Phases, Holding
  <2> HIDE DEF new
  <2>4. ASSUME NEW i \in 1 .. Len(rec.sent) PROVE rec.sent[i].rows \cap part = {}
    <3>1. rec.sent[i].rows = Split(rec.counted, i - 1)
      BY <1>3 DEF Paged, Cuts
    <3>2. i - 1 # Len(rec.sent)
      BY <1>0
    <3> QED
      BY <3>1, <3>2, SplitIs, WritingIs DEF part
  <2>5. Paged(new)
    BY <1>3, <2>3, <2>4 DEF Paged, Numbered, Apart, Cuts
  <2>6. PageTaken(new)
    BY <1>3, <2>3 DEF PageTaken, part
  <2> QED
    BY <2>3, <2>5, <2>6 DEF new
<1>4. CASE rec.mode = "stream" /\ ~AllSent(rec)
  <2> DEFINE part == PageFromSnapshot(rec.high, rec.cursor)
             next == NextCursor(rec.high, rec.cursor)
  <2>1. new = [rec EXCEPT !.pc = "lease", !.page = part, !.cursor = next]
    BY <1>4 DEF Loaded
  <2>2. /\ part \in SUBSET Rows /\ next \in [Tables -> Cursor]
        /\ \A t \in Tables : rec.cursor[t].after <= next[t].after
        /\ \A r \in part : r[2] > rec.cursor[r[1]].after /\ r[2] <= next[r[1]].after
        /\ \A t \in Tables : \A k \in RowKeys(t) :
              rowid[t][k] # 0 /\ rowid[t][k] <= rec.high[t] /\ Reached(next, t, k)
                 => Reached(rec.cursor, t, k) \/ <<t, k>> \in part
    BY PageIs, WritingIs
  <2> HIDE DEF part, next
  <2>3. /\ new.mode = rec.mode /\ new.plan = rec.plan /\ new.sent = rec.sent
        /\ new.counted = rec.counted /\ new.high = rec.high
        /\ new.answer = rec.answer /\ new.wrote = rec.wrote
        /\ new.pc = "lease" /\ new.page = part /\ new.cursor = next /\ new \in Writing
    <3>1. rec \in Writing /\ part \in SUBSET Rows /\ next \in [Tables -> Cursor]
      BY <2>2, WritingIs
    <3>2. "lease" \in Phases
      BY DEF Phases, Holding
    <3>3. new \in Writing
      BY <2>1, <3>1, <3>2 DEF Writing
    <3>4. /\ new.mode = rec.mode /\ new.plan = rec.plan /\ new.sent = rec.sent
          /\ new.counted = rec.counted /\ new.high = rec.high
          /\ new.answer = rec.answer /\ new.wrote = rec.wrote
      BY <2>1, <3>1 DEF Writing
    <3>5. new.pc = "lease" /\ new.page = part /\ new.cursor = next
      BY <2>1, <3>1 DEF Writing
    <3> QED
      BY <3>3, <3>4, <3>5
  <2> HIDE DEF new
  <2>4. \A r \in Rows : /\ r[1] \in Tables /\ r[2] \in RowKeys(r[1]) /\ r = <<r[1], r[2]>>
                        /\ r[2] \in Nat /\ rec.cursor[r[1]].after \in Nat
                        /\ next[r[1]].after \in Nat
    <3>1. \A t \in Tables : rec.cursor[t].after \in Nat /\ next[t].after \in Nat
      BY <2>2, WritingIs DEF Cursor
    <3> QED
      BY <3>1, RowIs
  <2>5. \A r \in Rows : OnPage(rec, r) => r[2] <= rec.cursor[r[1]].after
    BY <1>4 DEF Paged, Streams
  <2>6. \A r \in Rows : OnPage(rec, r) => r \notin part /\ r[2] <= next[r[1]].after
    BY <2>2, <2>4, <2>5
  <2>7. \A i \in 1 .. Len(rec.sent) : rec.sent[i].rows \cap part = {}
    BY <2>2, <2>6 DEF OnPage
  <2>8. \A r \in rec.counted : Reached(next, r[1], r[2]) => r \in part \/ OnPage(rec, r)
    <3>1. SUFFICES ASSUME NEW r \in rec.counted, Reached(next, r[1], r[2])
                   PROVE  r \in part \/ OnPage(rec, r)
      OBVIOUS
    <3>2. r \in Rows
      BY WritingIs
    <3>3. Reached(rec.cursor, r[1], r[2]) \/ r \in part
      BY <2>2, <2>4, <3>1, <3>2 DEF Counts
    <3>4. Reached(rec.cursor, r[1], r[2]) => OnPage(rec, r)
      BY <1>4 DEF Paged, Streams
    <3> QED
      BY <3>3, <3>4
  <2>9. Paged(new)
    <3>1. \A r : OnPage(new, r) <=> OnPage(rec, r)
      BY <2>3 DEF OnPage
    <3>2. Streams(new)
      BY <1>4, <2>2, <2>3, <2>6, <2>8, <3>1 DEF Paged, Streams
    <3>3. Numbered(new) /\ Apart(new)
      BY <2>3, <2>7 DEF Paged, Numbered, Apart
    <3> QED
      BY <1>4, <2>3, <3>2, <3>3 DEF Paged
  <2>10. PageTaken(new)
    BY <1>4, <2>3 DEF PageTaken
  <2> QED
    BY <2>3, <2>9, <2>10 DEF new
<1> QED
  BY <1>0, <1>1, <1>2, <1>3, <1>4 DEF Modes
-----------------------------------------------------------------------------
(* Steps. *)

\* What a call knows stays true while others go on.
LEMMA KnowledgeStays ==
    ASSUME ArchiveHas, StoresHave, CallsHave, Grows,
           NEW v \in Writers, writer'[v] = writer[v]
    PROVE  Knows(writer[v])'
<1> DEFINE rec == writer[v]
<1>1. rec \in Writing /\ Knows(rec)
  BY DEF CallsHave
<1>2. Counts(rec)'
  <2>1. \A r \in rec.counted : r[1] \in Tables /\ r[2] \in RowKeys(r[1])
    BY <1>1, RowIs, WritingIs
  <2> QED
    BY <1>1, <2>1 DEF Knows, Counts, Grows
<1>3. Paged(rec) => rec.plan \in Plans /\ rec.plan.leaf \in Leaves
  BY PlanIs DEF Paged, Numbered
<1>4. rec.pc = "recheck" => reservations'[rec.plan.leaf] # Nothing
  BY <1>1, <1>3 DEF Knows, Grows, Planning
<1>5. rec.pc \in Holding =>
        /\ reservations'[rec.plan.leaf] = rec.plan
        /\ \A i \in 1 .. Len(rec.sent) : pages'[rec.plan.leaf][i - 1] = rec.sent[i]
  <2> SUFFICES ASSUME rec.pc \in Holding
               PROVE  /\ reservations'[rec.plan.leaf] = rec.plan
                      /\ \A i \in 1 .. Len(rec.sent) :
                            pages'[rec.plan.leaf][i - 1] = rec.sent[i]
    OBVIOUS
  <2>1. /\ Paged(rec) /\ reservations[rec.plan.leaf] = rec.plan
        /\ \A i \in 1 .. Len(rec.sent) : pages[rec.plan.leaf][i - 1] = rec.sent[i]
    BY <1>1 DEF Knows
  <2>2. rec.plan # Nothing
    BY <1>3, <2>1, NothingAssumption
  <2>3. \A i \in 1 .. Len(rec.sent) : rec.sent[i] # Nothing /\ i - 1 \in 0 .. MaxPages - 1
    <3>1. \A i \in 1 .. Len(rec.sent) : rec.sent[i] # Nothing
      BY <1>1, WritingIs, NothingAssumption
    <3>2. Len(rec.sent) \in Nat /\ Len(rec.sent) <= MaxPages
      BY <1>1, <2>1, WritingIs, PlanIs, ExportAssumption DEF Paged, Numbered
    <3> QED
      BY <3>1, <3>2, ExportAssumption
  <2> QED
    BY <1>3, <2>1, <2>2, <2>3 DEF Grows
<1>6. rec.wrote => roots'[rec.plan.leaf] = Root(rec)
  <2> SUFFICES ASSUME rec.wrote PROVE roots'[rec.plan.leaf] = Root(rec)
    OBVIOUS
  <2>1. Paged(rec) /\ roots[rec.plan.leaf] = Root(rec)
    BY <1>1 DEF Knows
  <2>2. Root(rec) # Nothing
    <3>1. roots[rec.plan.leaf] # Nothing \/ Root(rec) # Nothing \/ Root(rec) = Nothing
      OBVIOUS
    <3>2. Root(rec) \in Roots
      BY <1>1, <2>1, RootIs
    <3> QED
      BY <3>2, NothingAssumption
  <2> QED
    BY <1>3, <2>1, <2>2 DEF Grows
<1> QED
  BY <1>1, <1>2, <1>4, <1>5, <1>6 DEF Knows

LEMMA OneCall ==
    ASSUME IInv, NEW w \in Writers, Grows, StoresHave', UNCHANGED <<clock, rowid>>,
           writer' = [writer EXCEPT ![w] = writer'[w]],
           writer'[w] \in Writing, Knows(writer[w])'
    PROVE  IInv'
<1>1. ArchiveHas'
  BY ArchiveStays DEF IInv, ArchiveHas
<1>2. writer' \in [Writers -> Writing]
  BY DEF IInv, CallsHave
<1>3. ASSUME NEW v \in Writers PROVE Knows(writer[v])'
  <2>1. CASE v = w
    BY <2>1
  <2>2. CASE v # w
    <3>1. writer'[v] = writer[v]
      BY <2>2 DEF IInv, CallsHave
    <3> QED
      BY <3>1, KnowledgeStays DEF IInv
  <2> QED
    BY <2>1, <2>2
<1> QED
  BY <1>1, <1>2, <1>3 DEF IInv, CallsHave

LEMMA QuietStores ==
    ASSUME StoresHave, UNCHANGED <<rowid, reservations, pages, roots>>
    PROVE  StoresHave' /\ Grows
<1>1. OnePlan'
  BY DEF StoresHave, OnePlan
<1>2. \A leaf \in Leaves : roots'[leaf] # Nothing => Legible(leaf)'
  BY DEF StoresHave, Legible
<1>3. Grows
  BY DEF Grows
<1> QED
  BY <1>1, <1>2, <1>3 DEF StoresHave

\* A call that ends has read and written what it had.
LEMMA CallEnds ==
    ASSUME IInv, NEW w \in Writers, UNCHANGED <<clock, rowid, reservations, pages, roots>>,
           writer' = [writer EXCEPT ![w] = writer'[w]],
           SameCall(writer'[w], writer[w]), writer'[w].pc = "ended",
           writer'[w].wrote = writer[w].wrote, writer'[w] \in Writing
    PROVE  IInv'
<1>1. writer[w] \in Writing /\ Knows(writer[w])
  BY DEF IInv, CallsHave
<1>2. Knows(writer[w])'
  <2> DEFINE rec == writer[w]
             new == writer'[w]
  <2>1. Counts(writer[w])'
    BY <1>1 DEF Knows, Counts, SameCall
  <2>2. /\ Paged(new) <=> Paged(rec)
        /\ Covers(new) <=> Covers(rec)
        /\ PageTaken(new) <=> PageTaken(rec)
        /\ Root(new) = Root(rec)
    BY SameIs
  <2>3. new.plan = rec.plan /\ new.mode = rec.mode
    BY DEF SameCall
  <2> QED
    BY <1>1, <2>1, <2>2, <2>3 DEF Knows, Planning, Holding
<1> QED
  BY <1>2, OneCall, QuietStores DEF IInv

LEMMA EndIs ==
    ASSUME IInv, NEW w \in Writers, UNCHANGED <<clock, rowid, reservations, pages, roots>>,
           NEW answer \in Roots \cup {Nothing, Failed},
           writer' = [writer EXCEPT ![w] = [writer[w] EXCEPT !.pc = "ended", !.answer = answer]]
    PROVE  IInv'
<1>1. writer \in [Writers -> Writing] /\ writer[w] \in Writing
  BY DEF IInv, CallsHave
<1>2. writer'[w] = [writer[w] EXCEPT !.pc = "ended", !.answer = answer]
  BY <1>1
<1>3. /\ SameCall(writer'[w], writer[w]) /\ writer'[w].pc = "ended"
      /\ writer'[w].wrote = writer[w].wrote /\ writer'[w] \in Writing
  BY <1>1, <1>2 DEF Writing, SameCall, Phases
<1>4. writer' = [writer EXCEPT ![w] = writer'[w]]
  BY <1>2
<1> QED
  BY <1>3, <1>4, CallEnds

\* A call whose phase changes, and nothing else.
LEMMA CallMoves ==
    ASSUME IInv, NEW w \in Writers, UNCHANGED <<clock, rowid, reservations, pages, roots>>,
           NEW pc \in Phases,
           writer' = [writer EXCEPT ![w] = [writer[w] EXCEPT !.pc = pc]],
           \/ writer[w].pc \in {"check", "reserve"} /\ pc = "reserve"
           \/ /\ writer[w].pc = "reserve" /\ pc = "recheck"
              /\ reservations[writer[w].plan.leaf] # Nothing
           \/ /\ writer[w].pc = "lease" /\ pc = "put"
              /\ writer[w].mode = "inline" \/ Len(writer[w].sent) < writer[w].plan.count
           \/ /\ writer[w].pc = "finish" /\ pc = "publish"
              /\ Len(writer[w].sent) = writer[w].plan.count
    PROVE  IInv'
<1> DEFINE rec == writer[w]
           new == writer'[w]
<1>1. writer \in [Writers -> Writing] /\ rec \in Writing /\ Knows(rec)
  BY DEF IInv, CallsHave
<1>2. new = [rec EXCEPT !.pc = pc]
  BY <1>1
<1>3. new \in Writing /\ SameCall(new, rec) /\ new.pc = pc /\ new.wrote = rec.wrote
  BY <1>1, <1>2 DEF Writing, SameCall
<1>4. writer' = [writer EXCEPT ![w] = new]
  BY <1>2
<1>5. /\ Paged(new) <=> Paged(rec)
      /\ Covers(new) <=> Covers(rec)
      /\ PageTaken(new) <=> PageTaken(rec)
      /\ Root(new) = Root(rec)
  BY <1>3, SameIs
<1>6. Counts(writer[w])'
  BY <1>1, <1>3 DEF Knows, Counts, SameCall
<1>7. new.plan = rec.plan /\ new.mode = rec.mode /\ new.sent = rec.sent /\ new.page = rec.page
  BY <1>3 DEF SameCall
<1>8. Knows(writer[w])'
  BY <1>1, <1>3, <1>5, <1>6, <1>7 DEF Knows, Planning, Holding
<1> QED
  BY <1>3, <1>4, <1>8, OneCall, QuietStores DEF IInv

LEMMA SaveStep ==
    ASSUME IInv,
           \/ \E k \in RowKeys("ticks") : SaveTick(k)
           \/ \E k \in RowKeys("logs") : SaveLog(k)
    PROVE  IInv'
<1>1. UNCHANGED <<clock, reservations, pages, roots, writer>>
  BY DEF SaveTick, SaveLog
<1>2. ArchiveHas' /\ Grows
  <2>1. ASSUME NEW k \in RowKeys("ticks"), SaveTick(k) PROVE ArchiveHas' /\ Grows
    <3>1. k \in Nat /\ "ticks" \in Tables
      BY RowIs DEF Tables
    <3>2. rowid["ticks"][k] = 0 /\ rowid' = [rowid EXCEPT !["ticks"][k] = k]
      BY <2>1 DEF SaveTick
    <3> QED
      BY <1>1, <3>1, <3>2, RowSaved DEF IInv
  <2>2. ASSUME NEW k \in RowKeys("logs"), SaveLog(k) PROVE ArchiveHas' /\ Grows
    <3>1. "logs" \in Tables
      BY DEF Tables
    <3>2. HighWater("logs") \in Nat /\ HighWater("logs") <= Cardinality(Stored("logs"))
      <4>1. \A j \in RowKeys("logs") : rowid["logs"][j] <= Cardinality(Stored("logs"))
        BY DEF IInv, ArchiveHas
      <4>2. Cardinality(Stored("logs")) \in Nat
        BY <3>1, StoredIs
      <4>3. 0 <= Cardinality(Stored("logs"))
        BY <4>2
      <4> QED
        BY <3>1, <4>1, <4>3, HighIs DEF IInv
    <3> DEFINE id == HighWater("logs") + 1
    <3>3. id \in Nat /\ id <= Cardinality(Stored("logs")) + 1
      BY <3>1, <3>2, StoredIs
    <3>4. rowid["logs"][k] = 0 /\ rowid' = [rowid EXCEPT !["logs"][k] = id]
      BY <2>2 DEF SaveLog
    <3> HIDE DEF id
    <3> QED
      BY <1>1, <3>1, <3>3, <3>4, RowSaved DEF IInv
  <2> QED
    BY <2>1, <2>2
<1>3. StoresHave'
  <2>1. OnePlan'
    BY <1>1 DEF IInv, StoresHave, OnePlan
  <2>2. \A leaf \in Leaves : roots'[leaf] # Nothing => Legible(leaf)'
    BY <1>1 DEF IInv, StoresHave, Legible
  <2> QED
    BY <1>1, <2>1, <2>2 DEF IInv, StoresHave
<1>4. \A v \in Writers : Knows(writer[v])'
  BY <1>1, <1>2, KnowledgeStays DEF IInv
<1> QED
  BY <1>1, <1>2, <1>3, <1>4 DEF IInv, CallsHave

LEMMA QuietStep ==
    ASSUME IInv, UNCHANGED <<rowid, reservations, pages, roots, writer>>,
           clock' \in 0 .. MaxClock
    PROVE  IInv'
<1>1. ArchiveHas' /\ StoresHave' /\ Grows
  BY ArchiveStays, QuietStores DEF IInv
<1>2. \A v \in Writers : Knows(writer[v])'
  BY <1>1, KnowledgeStays DEF IInv
<1> QED
  BY <1>1, <1>2 DEF IInv, CallsHave

LEMMA CountedIs ==
    ASSUME ArchiveHas
    PROVE  /\ Counted \in SUBSET Rows
           /\ \A r \in Counted : r[1] \in Tables /\ r[2] \in Stored(r[1])
           /\ \A r \in Counted : rowid[r[1]][r[2]] # 0 /\ rowid[r[1]][r[2]] <= HighWater(r[1])
<1>1. \A r : r \in Counted <=> r = <<r[1], r[2]>> /\ r[1] \in Tables /\ r[2] \in Stored(r[1])
  <2>1. \A r : r \in Counted <=> \E t \in Tables : r \in {t} \X Stored(t)
    BY DEF Counted
  <2> QED
    BY <2>1
<1>2. Counted \in SUBSET Rows
  BY <1>1, RowIs, StoredIs
<1>3. \A r \in Counted : rowid[r[1]][r[2]] # 0 /\ rowid[r[1]][r[2]] <= HighWater(r[1])
  BY <1>1, HighIs, StoredIs DEF Stored
<1> QED
  BY <1>1, <1>2, <1>3

\* The pages planned: none only when the archive has no rows.
LEMMA PageCountIs ==
    ASSUME ArchiveHas, NEW mode \in Modes
    PROVE  /\ PageCount(mode) \in Nat
           /\ mode = "inline" => PageCount(mode) = 0
           /\ mode = "chunks" => PageCount(mode) = SplitCount(Counted)
           /\ mode = "stream" /\ PageCount(mode) = 0 => Counted = {}
<1>1. CASE mode = "inline"
  BY <1>1 DEF PageCount
<1>2. CASE mode = "chunks"
  BY <1>2, SplitIs, CountedIs DEF PageCount
<1>3. CASE mode = "stream"
  <2> DEFINE S == {Cardinality(Stored(t)) : t \in Tables}
  <2>1. PageCount(mode) = Ceiling(Max(S))
    BY <1>3 DEF PageCount
  <2>2. S \in SUBSET Nat /\ S # {}
    BY StoredIs DEF Tables
  <2>3. \E b \in Nat : \A n \in S : n <= b
    <3> DEFINE a == Cardinality(Stored("logs"))
               b == Cardinality(Stored("ticks"))
    <3>1. a \in Nat /\ b \in Nat /\ S = {a, b}
      BY StoredIs DEF Tables
    <3> HIDE DEF a, b, S
    <3>2. a + b \in Nat /\ a <= a + b /\ b <= a + b
      BY <3>1
    <3> QED
      BY <3>1, <3>2
  <2>4. Max(S) \in S /\ \A n \in S : n <= Max(S)
    <3> HIDE DEF S
    <3> QED
      BY <2>2, <2>3, MaxIs
  <2>5. Max(S) \in Nat
    BY <2>2, <2>4
  <2>6. PageCount(mode) \in Nat /\ PageCount(mode) = 0 => Max(S) = 0
    BY <2>1, <2>5, CeilingIs
  <2>7. ASSUME Max(S) = 0 PROVE Counted = {}
    <3>1. ASSUME NEW t \in Tables PROVE Stored(t) = {}
      <4>1. Cardinality(Stored(t)) \in Nat /\ Cardinality(Stored(t)) <= 0
        BY <2>4, <2>7, StoredIs
      <4> QED
        BY <4>1, StoredIs, FS_EmptySet
    <3> QED
      BY <3>1, CountedIs
  <2> QED
    BY <1>3, <2>1, <2>5, <2>6, <2>7, CeilingIs
<1> QED
  BY <1>1, <1>2, <1>3 DEF Modes

LEMMA StartStep ==
    ASSUME IInv, NEW w \in Writers, NEW id \in Ids \cup {NoId}, NEW mode \in Modes,
           Start(w, id, mode)
    PROVE  IInv'
<1> DEFINE count == PageCount(mode)
           plan == [leaf |-> Leaf(id, clock), header |-> Header, count |-> count]
           high == [t \in Tables |-> HighWater(t)]
           counts == Counted
           new == [Idle EXCEPT !.pc = "check", !.mode = mode, !.plan = plan,
                   !.high = high, !.counted = counts]
<1>1. writer \in [Writers -> Writing] /\ writer[w].pc = "idle" /\ writer[w] = Idle
  BY DEF IInv, CallsHave, Knows, Start, Step
<1>2. UNCHANGED <<clock, rowid, reservations, pages, roots>>
  BY DEF Start, Step
<1>3. CASE TooManyPages(count)
  <2>1. writer' = [writer EXCEPT ![w] = [writer[w] EXCEPT !.pc = "ended", !.answer = Failed]]
    BY <1>1, <1>3 DEF Start, Step
  <2> QED
    BY <1>2, <2>1, EndIs
<1>4. CASE ~TooManyPages(count)
  <2>1. writer' = [writer EXCEPT ![w] = new]
    BY <1>4 DEF Start, Step
  <2>2. /\ count \in Nat
        /\ mode = "inline" => count = 0
        /\ mode = "chunks" => count = SplitCount(counts)
        /\ mode = "stream" /\ count = 0 => counts = {}
    BY PageCountIs DEF IInv
  <2>3. count <= MaxPages
    BY <1>4, <2>2, ExportAssumption DEF TooManyPages
  <2>4. Leaf(id, clock) \in Leaves
    BY ExportAssumption DEF Leaf, Leaves, IInv, ArchiveHas
  <2>5. Header \in Headers
    <3>1. "logs" \in Tables /\ Cardinality(RowKeys("logs")) = MaxLogs
      <4>1. RowKeys("logs") = 1 .. MaxLogs
        BY DEF RowKeys
      <4>2. Cardinality(1 .. MaxLogs) = MaxLogs
        BY FS_Interval, ExportAssumption
      <4> QED
        BY <4>1, <4>2 DEF Tables
    <3>2. Cardinality(Stored("logs")) \in 0 .. MaxLogs
      BY <3>1, StoredIs, ExportAssumption
    <3> QED
      BY <3>2 DEF Header, Headers, IInv, ArchiveHas
  <2>6. plan \in Plans
    BY <2>2, <2>3, <2>4, <2>5, PlanIs
  <2>7. high \in [Tables -> Nat] /\ counts \in SUBSET Rows
    BY HighIs, CountedIs DEF IInv
  <2>8. \A r \in counts : rowid[r[1]][r[2]] # 0 /\ rowid[r[1]][r[2]] <= high[r[1]]
    BY CountedIs DEF IInv
  <2> HIDE DEF count, plan, high, counts
  <2>9. /\ new.pc = "check" /\ new.mode = mode /\ new.plan = plan /\ new.high = high
        /\ new.counted = counts /\ new.cursor = FirstCursor /\ new.page = {}
        /\ new.sent = <<>> /\ ~new.wrote /\ new \in Writing
    BY <2>6, <2>7, IdleIsWriting DEF Idle, Writing, Phases, Planning
  <2> HIDE DEF new
  <2>10. plan.count = count /\ count \in Nat
    BY <2>2 DEF plan
  <2>11. Paged(new)
    <3>1. Len(new.sent) = 0 /\ \A r : ~OnPage(new, r)
      BY <2>9 DEF OnPage
    <3>2. Numbered(new) /\ Apart(new)
      BY <2>6, <2>9, <2>10, <3>1 DEF Numbered, Apart
    <3>3. ASSUME mode = "chunks" PROVE Cuts(new)
      BY <2>2, <2>9, <2>10, <3>1, <3>3 DEF Cuts
    <3>4. ASSUME mode = "stream" PROVE Streams(new)
      <4>1. \A r \in Rows : ~(OnPage(new, r) \/ r \in new.page)
        BY <2>9, <3>1
      <4>2. \A r \in new.counted : ~Reached(new.cursor, r[1], r[2])
        <5>1. \A r \in new.counted : r[1] \in Tables /\ r[2] \in Nat /\ ~(r[2] <= 0)
          BY <2>7, <2>9, RowIs, ExportAssumption DEF RowKeys
        <5>2. \A t \in Tables : new.cursor[t].after = 0 /\ new.cursor[t].done = FALSE
          BY <2>9 DEF FirstCursor
        <5> QED
          BY <5>1, <5>2 DEF Reached
      <4> QED
        BY <2>2, <2>9, <2>10, <3>4, <4>1, <4>2 DEF Streams
    <3> QED
      BY <2>2, <2>9, <2>10, <3>2, <3>3, <3>4 DEF Paged
  <2>12. writer'[w] = new
    BY <1>1, <2>1
  <2>13. Knows(writer[w])'
    BY <1>2, <2>8, <2>9, <2>11, <2>12 DEF Knows, Counts, Planning, Holding
  <2> QED
    BY <1>2, <2>1, <2>9, <2>12, <2>13, OneCall, QuietStores DEF IInv
<1> QED
  BY <1>3, <1>4

\* A call that has loaded its next page, and whose plan is the one reserved.
LEMMA CallLoads ==
    ASSUME IInv, NEW w \in Writers, Grows, StoresHave', UNCHANGED <<clock, rowid>>,
           writer' = [writer EXCEPT ![w] = writer'[w]], writer'[w] \in Writing,
           Paged(writer'[w]), ~writer'[w].wrote,
           writer'[w].counted = writer[w].counted, writer'[w].high = writer[w].high,
           \/ writer'[w].pc = "lease" /\ PageTaken(writer'[w])
           \/ writer'[w].pc = "finish" /\ Covers(writer'[w]),
           reservations'[writer'[w].plan.leaf] = writer'[w].plan,
           \A i \in 1 .. Len(writer'[w].sent) :
              pages'[writer'[w].plan.leaf][i - 1] = writer'[w].sent[i]
    PROVE  IInv'
<1>1. Knows(writer[w])
  BY DEF IInv, CallsHave
<1>2. Counts(writer[w])'
  BY <1>1 DEF Knows, Counts
<1>3. Knows(writer[w])'
  BY <1>2 DEF Knows, Planning, Holding
<1> QED
  BY <1>3, OneCall

LEMMA PublishedStep ==
    ASSUME IInv, NEW w \in Writers, UNCHANGED <<clock, rowid, reservations, pages, roots>>,
           writer[w].plan \in Plans, writer' = [writer EXCEPT ![w] = Published(w)]
    PROVE  IInv'
<1>1. roots[writer[w].plan.leaf] \in Roots \cup {Nothing, Failed}
  BY PlanIs DEF IInv, StoresHave
<1> DEFINE answer == IF writer[w].plan.leaf.id # NoId THEN roots[writer[w].plan.leaf] ELSE Failed
<1>2. answer \in Roots \cup {Nothing, Failed}
  BY <1>1
<1>3. writer' = [writer EXCEPT ![w] = [writer[w] EXCEPT !.pc = "ended", !.answer = answer]]
  BY DEF Published, End
<1> HIDE DEF answer
<1> QED
  BY <1>2, <1>3, EndIs

LEMMA CheckStep ==
    ASSUME IInv, NEW w \in Writers, Check(w)
    PROVE  IInv'
<1>1. UNCHANGED <<clock, rowid, reservations, pages, roots>> /\ writer[w].pc = "check"
  BY DEF Check, Step
<1>2. writer[w].plan \in Plans
  BY <1>1 DEF IInv, CallsHave, Knows, Planning, Paged, Numbered
<1>3. CASE roots[writer[w].plan.leaf] # Nothing
  <2>1. writer' = [writer EXCEPT ![w] = Published(w)]
    BY <1>3 DEF Check, Step
  <2> QED
    BY <1>1, <1>2, <2>1, PublishedStep
<1>4. CASE roots[writer[w].plan.leaf] = Nothing
  <2>1. writer' = [writer EXCEPT ![w] = [writer[w] EXCEPT !.pc = "reserve"]]
    BY <1>4 DEF Check, Step
  <2>2. "reserve" \in Phases
    BY DEF Phases, Planning
  <2> QED
    BY <1>1, <2>1, <2>2, CallMoves
<1> QED
  BY <1>3, <1>4

LEMMA ReserveStep ==
    ASSUME IInv, NEW w \in Writers, Reserve(w)
    PROVE  IInv'
<1> DEFINE rec == writer[w]
           leaf == rec.plan.leaf
<1>1. UNCHANGED <<clock, rowid, pages, roots>> /\ rec.pc = "reserve"
  BY DEF Reserve, Step
<1>2. /\ writer \in [Writers -> Writing] /\ rec \in Writing /\ Paged(rec) /\ Counts(rec)
      /\ rec.sent = <<>> /\ rec.page = {} /\ ~rec.wrote
  BY <1>1 DEF IInv, CallsHave, Knows, Planning
<1>3. rec.plan \in Plans /\ leaf \in Leaves /\ rec.plan # Nothing
  BY <1>2, PlanIs, NothingAssumption DEF Paged, Numbered
<1>4. CASE reservations[leaf] = Nothing
  <2> DEFINE new == Loaded(rec)
  <2>1. /\ writer' = [writer EXCEPT ![w] = new]
        /\ reservations' = [reservations EXCEPT ![leaf] = rec.plan]
    BY <1>4 DEF Reserve, Step
  <2>2. /\ new \in Writing /\ Paged(new)
        /\ new.mode = rec.mode /\ new.plan = rec.plan /\ new.sent = rec.sent
        /\ new.counted = rec.counted /\ new.high = rec.high
        /\ new.answer = rec.answer /\ new.wrote = rec.wrote
        /\ \/ new.pc = "lease" /\ PageTaken(new)
           \/ new.pc = "finish" /\ Covers(new)
    BY <1>2, LoadedIs DEF IInv
  <2> HIDE DEF new
  <2>3. writer'[w] = new /\ writer' = [writer EXCEPT ![w] = writer'[w]]
    BY <1>2, <2>1
  <2>4. /\ reservations' \in [Leaves -> Plans \cup {Nothing}]
        /\ reservations'[leaf] = rec.plan
        /\ \A l \in Leaves \ {leaf} : reservations'[l] = reservations[l]
    BY <1>3, <2>1 DEF IInv, StoresHave
  <2>5. Grows
    BY <1>1, <1>4, <2>4 DEF Grows
  <2>6. roots[leaf] = Nothing /\ \A i \in 0 .. MaxPages - 1 : pages[leaf][i] = Nothing
    <3>1. roots[leaf] # Nothing => roots[leaf].plan \in Plans
      BY <1>3 DEF IInv, StoresHave, Roots
    <3> QED
      BY <1>3, <1>4, <3>1, NothingAssumption DEF IInv, StoresHave, OnePlan
  <2>7. OnePlan'
    BY <1>1, <2>4, <2>6 DEF IInv, StoresHave, OnePlan
  <2>8. \A l \in Leaves : roots'[l] # Nothing => Legible(l)'
    BY <1>1 DEF IInv, StoresHave, Legible
  <2>9. StoresHave'
    BY <1>1, <1>3, <2>4, <2>7, <2>8 DEF IInv, StoresHave
  <2>10. Len(new.sent) = 0
    BY <1>2, <2>2
  <2> QED
    BY <1>1, <1>2, <2>2, <2>3, <2>4, <2>5, <2>9, <2>10, CallLoads
<1>5. CASE reservations[leaf] # Nothing
  <2>1. /\ writer' = [writer EXCEPT ![w] = [writer[w] EXCEPT !.pc = "recheck"]]
        /\ UNCHANGED reservations
    BY <1>5 DEF Reserve, Step
  <2>2. "recheck" \in Phases
    BY DEF Phases, Planning
  <2> QED
    BY <1>1, <1>5, <2>1, <2>2, CallMoves
<1> QED
  BY <1>4, <1>5

LEMMA FailedIs ==
    ASSUME IInv, NEW w \in Writers, UNCHANGED <<clock, rowid, reservations, pages, roots>>,
           writer' = [writer EXCEPT ![w] = End(w, Failed)]
    PROVE  IInv'
BY EndIs DEF End

LEMMA RecheckStep ==
    ASSUME IInv, NEW w \in Writers, Recheck(w)
    PROVE  IInv'
<1> DEFINE rec == writer[w]
           leaf == rec.plan.leaf
<1>1. UNCHANGED <<clock, rowid, reservations, pages, roots>> /\ rec.pc = "recheck"
  BY DEF Recheck, Step
<1>2. /\ writer \in [Writers -> Writing] /\ rec \in Writing /\ Paged(rec) /\ Counts(rec)
      /\ rec.sent = <<>> /\ rec.page = {} /\ ~rec.wrote /\ reservations[leaf] # Nothing
  BY <1>1 DEF IInv, CallsHave, Knows, Planning
<1>3. rec.plan \in Plans /\ leaf \in Leaves
  BY <1>2, PlanIs DEF Paged, Numbered
<1>4. CASE roots[leaf] # Nothing
  <2>1. writer' = [writer EXCEPT ![w] = Published(w)]
    BY <1>4 DEF Recheck, Step
  <2> QED
    BY <1>1, <1>3, <2>1, PublishedStep
<1>5. CASE roots[leaf] = Nothing /\ ~SameReservation(reservations[leaf], rec.plan)
  <2>1. writer' = [writer EXCEPT ![w] = End(w, Failed)]
    BY <1>5 DEF Recheck, Step
  <2> QED
    BY <1>1, <2>1, FailedIs
<1>6. CASE roots[leaf] = Nothing /\ SameReservation(reservations[leaf], rec.plan)
  <2> DEFINE new == Loaded(rec)
  <2>1. writer' = [writer EXCEPT ![w] = new]
    BY <1>6 DEF Recheck, Step
  <2>2. /\ new \in Writing /\ Paged(new)
        /\ new.mode = rec.mode /\ new.plan = rec.plan /\ new.sent = rec.sent
        /\ new.counted = rec.counted /\ new.high = rec.high
        /\ new.answer = rec.answer /\ new.wrote = rec.wrote
        /\ \/ new.pc = "lease" /\ PageTaken(new)
           \/ new.pc = "finish" /\ Covers(new)
    BY <1>2, LoadedIs DEF IInv
  <2> HIDE DEF new
  <2>3. writer'[w] = new /\ writer' = [writer EXCEPT ![w] = writer'[w]]
    BY <1>2, <2>1
  <2>4. reservations[leaf] = rec.plan
    <3>1. reservations[leaf] \in Plans
      BY <1>2, <1>3 DEF IInv, StoresHave
    <3> QED
      BY <1>3, <1>6, <3>1, PlanIs DEF SameReservation
  <2>5. StoresHave' /\ Grows
    BY <1>1, QuietStores DEF IInv
  <2>6. Len(new.sent) = 0
    BY <1>2, <2>2
  <2> QED
    BY <1>1, <1>2, <2>2, <2>3, <2>4, <2>5, <2>6, CallLoads
<1> QED
  BY <1>4, <1>5, <1>6

LEMMA AssertLeaseStep ==
    ASSUME IInv, NEW w \in Writers, AssertLease(w)
    PROVE  IInv'
<1> DEFINE me == writer[w]
           allowed == me.mode = "inline" \/ Len(me.sent) < me.plan.count
<1>1. UNCHANGED <<clock, rowid, reservations, pages, roots>> /\ me.pc = "lease"
  BY DEF AssertLease, Step
<1>2. CASE LeaseHolds(me.plan) /\ allowed
  <2>1. writer' = [writer EXCEPT ![w] = [writer[w] EXCEPT !.pc = "put"]]
    BY <1>2 DEF AssertLease, Step
  <2>2. "put" \in Phases
    BY DEF Phases, Holding
  <2> QED
    BY <1>1, <1>2, <2>1, <2>2, CallMoves
<1>3. CASE ~(LeaseHolds(me.plan) /\ allowed)
  <2>1. writer' = [writer EXCEPT ![w] = End(w, Failed)]
    BY <1>3 DEF AssertLease, Step
  <2> QED
    BY <1>1, <2>1, FailedIs
<1> QED
  BY <1>2, <1>3

LEMMA VerifyStep ==
    ASSUME IInv, NEW w \in Writers, Verify(w)
    PROVE  IInv'
<1> DEFINE me == writer[w]
           sound == /\ LeaseHolds(me.plan)
                    /\ Len(me.sent) = me.plan.count
                    /\ \A i \in DOMAIN me.sent :
                          ReadVerifiedPage(me.plan.leaf, me.plan.header, i - 1, me.sent[i])
<1>1. UNCHANGED <<clock, rowid, reservations, pages, roots>> /\ me.pc = "finish"
  BY DEF Verify, Step
<1>2. Step(w, "finish", IF sound THEN [me EXCEPT !.pc = "publish"] ELSE End(w, Failed))
  BY DEF Verify
<1>3. CASE sound
  <2>1. writer' = [writer EXCEPT ![w] = [writer[w] EXCEPT !.pc = "publish"]]
    BY <1>2, <1>3 DEF Step
  <2>2. "publish" \in Phases /\ Len(me.sent) = me.plan.count
    BY <1>3 DEF Phases, Holding
  <2> HIDE DEF sound
  <2> QED
    BY <1>1, <2>1, <2>2, CallMoves
<1>4. CASE ~sound
  <2>1. writer' = [writer EXCEPT ![w] = End(w, Failed)]
    BY <1>2, <1>4 DEF Step
  <2> HIDE DEF sound
  <2> QED
    BY <1>1, <2>1, FailedIs
<1> QED
  BY <1>3, <1>4

LEMMA AnswerStep ==
    ASSUME IInv, NEW w \in Writers, Answer(w)
    PROVE  IInv'
<1>1. /\ writer' = [writer EXCEPT ![w] = [writer[w] EXCEPT !.pc = "ended",
                                                         !.answer = writer[w].answer]]
      /\ UNCHANGED <<clock, rowid, reservations, pages, roots>>
  BY DEF Answer, Step, End
<1>2. writer[w].answer \in Roots \cup {Nothing, Failed}
  BY WritingIs DEF IInv, CallsHave
<1> QED
  BY <1>1, <1>2, EndIs

LEMMA FaultStep ==
    ASSUME IInv, NEW w \in Writers, Fault(w)
    PROVE  IInv'
BY FailedIs DEF Fault

\* A page that was stored is one more of the pages sent.
Sending(rec, page) == [rec EXCEPT !.sent = Append(rec.sent, page), !.page = {}]

LEMMA SendingIs ==
    ASSUME NEW rec \in Writing, Paged(rec), PageTaken(rec), rec.mode # "inline",
           Len(rec.sent) < rec.plan.count,
           NEW page, page = [index |-> Len(rec.sent), header |-> rec.plan.header,
                             rows |-> rec.page]
    PROVE  LET new == Sending(rec, page)
           IN  /\ page \in Pages /\ new \in Writing /\ Paged(new) /\ new.page = {}
               /\ new.mode = rec.mode /\ new.plan = rec.plan
               /\ new.counted = rec.counted /\ new.high = rec.high
               /\ new.answer = rec.answer /\ new.wrote = rec.wrote
               /\ Len(new.sent) = Len(rec.sent) + 1
               /\ new.sent[Len(rec.sent) + 1] = page
               /\ \A i \in 1 .. Len(rec.sent) : new.sent[i] = rec.sent[i]
<1> DEFINE n == Len(rec.sent)
           new == Sending(rec, page)
<1>1. /\ rec.plan \in Plans /\ rec.plan.header \in Headers /\ rec.plan.count \in Nat
      /\ rec.plan.count <= MaxPages /\ n \in Nat /\ n < rec.plan.count
      /\ rec.sent \in Seq(Pages) /\ rec.page \in SUBSET Rows
  BY PlanIs, WritingIs DEF Paged, Numbered
<1>2. n \in 0 .. MaxPages - 1
  BY <1>1, ExportAssumption
<1>3. page \in Pages /\ page.index = n /\ page.header = rec.plan.header /\ page.rows = rec.page
  BY <1>1, <1>2 DEF Pages
<1> DEFINE sent == Append(rec.sent, page)
<1>4. /\ sent \in Seq(Pages) /\ Len(sent) = n + 1 /\ sent[n + 1] = page
      /\ \A i \in 1 .. n : sent[i] = rec.sent[i]
  BY <1>1, <1>3
<1> HIDE DEF sent
<1>5. /\ new.mode = rec.mode /\ new.plan = rec.plan /\ new.page = {} /\ new.sent = sent
      /\ new.counted = rec.counted /\ new.high = rec.high /\ new.cursor = rec.cursor
      /\ new.answer = rec.answer /\ new.wrote = rec.wrote /\ new \in Writing
  BY <1>4, WritingIs DEF Sending, Writing, sent
<1> HIDE DEF new
<1>6. n \in Nat /\ \A i \in 1 .. n + 1 : i \in 1 .. n \/ i = n + 1
  BY <1>1
<1>7. Numbered(new)
  <2>1. \A i \in 1 .. n : rec.sent[i].index = i - 1 /\ rec.sent[i].header = rec.plan.header
    BY DEF Paged, Numbered
  <2>2. (n + 1) - 1 = n /\ n + 1 <= rec.plan.count
    BY <1>1
  <2>3. \A i \in 1 .. n + 1 : sent[i].index = i - 1 /\ sent[i].header = rec.plan.header
    BY <1>3, <1>4, <1>6, <2>1, <2>2
  <2> QED
    BY <1>1, <1>4, <1>5, <2>2, <2>3 DEF Numbered
<1>8. Apart(new)
  <2>1. /\ \A i, j \in 1 .. n : i # j => rec.sent[i].rows \cap rec.sent[j].rows = {}
        /\ \A i \in 1 .. n : rec.sent[i].rows \cap rec.page = {}
    BY DEF Paged, Apart
  <2>2. ASSUME NEW i \in 1 .. n + 1, NEW j \in 1 .. n + 1, i # j
        PROVE  sent[i].rows \cap sent[j].rows = {}
    <3>1. CASE i \in 1 .. n /\ j \in 1 .. n
      BY <1>4, <2>1, <2>2, <3>1
    <3>2. CASE i = n + 1 /\ j \in 1 .. n
      BY <1>3, <1>4, <2>1, <3>2
    <3>3. CASE i \in 1 .. n /\ j = n + 1
      BY <1>3, <1>4, <2>1, <3>3
    <3> QED
      BY <1>6, <2>2, <3>1, <3>2, <3>3
  <2> QED
    BY <1>4, <1>5, <2>2 DEF Apart
<1>9. ASSUME rec.mode = "chunks" PROVE Cuts(new)
  <2>1. /\ rec.plan.count = SplitCount(rec.counted) /\ rec.page = Split(rec.counted, n)
        /\ \A i \in 1 .. n : rec.sent[i].rows = Split(rec.counted, i - 1)
    BY <1>9 DEF Paged, Cuts, PageTaken
  <2>2. (n + 1) - 1 = n
    BY <1>1
  <2>3. \A i \in 1 .. n + 1 : sent[i].rows = Split(rec.counted, i - 1)
    BY <1>3, <1>4, <1>6, <2>1, <2>2
  <2> QED
    BY <1>4, <1>5, <2>1, <2>3 DEF Cuts
<1>10. ASSUME rec.mode = "stream" PROVE Streams(new)
  <2>1. \A r : OnPage(new, r) <=> OnPage(rec, r) \/ r \in rec.page
    <3>1. n + 1 \in 1 .. n + 1 /\ \A i \in 1 .. n : i \in 1 .. n + 1
      BY <1>6
    <3>2. ASSUME NEW r, OnPage(new, r) PROVE OnPage(rec, r) \/ r \in rec.page
      BY <1>3, <1>4, <1>5, <1>6, <3>2 DEF OnPage
    <3>3. ASSUME NEW r, OnPage(rec, r) PROVE OnPage(new, r)
      BY <1>4, <1>5, <3>1, <3>3 DEF OnPage
    <3>4. ASSUME NEW r, r \in rec.page PROVE OnPage(new, r)
      BY <1>3, <1>4, <1>5, <3>1, <3>4 DEF OnPage
    <3> QED
      BY <3>2, <3>3, <3>4
  <2>2. Streams(rec)
    BY <1>10 DEF Paged
  <2> QED
    BY <1>5, <2>1, <2>2 DEF Streams
<1>11. Paged(new)
  BY <1>5, <1>7, <1>8, <1>9, <1>10 DEF Paged
<1> QED
  BY <1>3, <1>4, <1>5, <1>11 DEF new

LEMMA PutPageStep ==
    ASSUME IInv, NEW w \in Writers, PutPage(w)
    PROVE  IInv'
<1> DEFINE me == writer[w]
           leaf == me.plan.leaf
           index == Len(me.sent)
           page == [index |-> index, header |-> me.plan.header, rows |-> me.page]
           there == pages[leaf][index]
<1>1. UNCHANGED <<clock, rowid, reservations, roots>> /\ me.pc = "put" /\ me.mode # "inline"
  BY DEF PutPage, Step
<1>2. /\ writer \in [Writers -> Writing] /\ me \in Writing /\ Paged(me) /\ Counts(me)
      /\ PageTaken(me) /\ index < me.plan.count /\ ~me.wrote
      /\ reservations[leaf] = me.plan
      /\ \A i \in 1 .. index : pages[leaf][i - 1] = me.sent[i]
  BY <1>1 DEF IInv, CallsHave, Knows, Holding
<1>3. /\ me.plan \in Plans /\ leaf \in Leaves /\ me.plan # Nothing /\ index \in Nat
      /\ index \in 0 .. MaxPages - 1 /\ me.plan.count \in Nat
  <2>1. /\ me.plan \in Plans /\ leaf \in Leaves /\ me.plan # Nothing /\ index \in Nat
        /\ me.plan.count \in Nat /\ me.plan.count <= MaxPages
    BY <1>2, PlanIs, WritingIs, NothingAssumption DEF Paged, Numbered
  <2> QED
    BY <1>2, <2>1, ExportAssumption
<1>4. CASE there \in {Nothing, page}
  <2> DEFINE mid == Sending(me, page)
             new == Loaded(mid)
  <2>1. /\ page \in Pages /\ mid \in Writing /\ Paged(mid) /\ mid.page = {}
        /\ mid.mode = me.mode /\ mid.plan = me.plan
        /\ mid.counted = me.counted /\ mid.high = me.high
        /\ mid.answer = me.answer /\ mid.wrote = me.wrote
        /\ Len(mid.sent) = index + 1 /\ mid.sent[index + 1] = page
        /\ \A i \in 1 .. index : mid.sent[i] = me.sent[i]
    <3> HIDE DEF page
    <3> QED
      BY <1>1, <1>2, SendingIs DEF page
  <2>2. /\ writer' = [writer EXCEPT ![w] = new]
        /\ pages' = IF there = Nothing THEN [pages EXCEPT ![leaf][index] = page] ELSE pages
    BY <1>4 DEF PutPage, Step, Sending
  <2>3. page.index = index /\ page.header = me.plan.header /\ page # Nothing
    BY <2>1, NothingAssumption
  <2> HIDE DEF page, mid
  <2>4. Counts(mid)
    BY <1>2, <2>1 DEF Counts
  <2>5. /\ new \in Writing /\ Paged(new)
        /\ new.plan = mid.plan /\ new.sent = mid.sent
        /\ new.counted = mid.counted /\ new.high = mid.high /\ new.wrote = mid.wrote
        /\ \/ new.pc = "lease" /\ PageTaken(new)
           \/ new.pc = "finish" /\ Covers(new)
    BY <2>1, <2>4, LoadedIs DEF IInv
  <2> HIDE DEF new
  <2>6. writer'[w] = new /\ writer' = [writer EXCEPT ![w] = writer'[w]]
    BY <1>2, <2>2
  <2>7. /\ pages' \in [Leaves -> [0 .. MaxPages - 1 -> Pages \cup {Nothing}]]
        /\ pages'[leaf][index] = page
        /\ \A l \in Leaves : \A i \in 0 .. MaxPages - 1 :
              l # leaf \/ i # index => pages'[l][i] = pages[l][i]
    <3>1. pages \in [Leaves -> [0 .. MaxPages - 1 -> Pages \cup {Nothing}]]
      BY DEF IInv, StoresHave
    <3>2. CASE there = Nothing
      <4>1. pages' = [pages EXCEPT ![leaf] = [pages[leaf] EXCEPT ![index] = page]]
        BY <1>3, <2>2, <3>1, <3>2
      <4> QED
        BY <1>3, <2>1, <3>1, <4>1
    <3>3. CASE there # Nothing
      BY <1>3, <1>4, <2>2, <3>1, <3>3
    <3> QED
      BY <3>2, <3>3
  <2>8. \A l \in Leaves : \A i \in 0 .. MaxPages - 1 :
          pages[l][i] # Nothing => pages'[l][i] = pages[l][i]
    BY <1>4, <2>7
  <2>9. Grows
    BY <1>1, <2>8 DEF Grows
  <2>10. OnePlan'
    <3>1. ASSUME NEW l \in Leaves, NEW i \in 0 .. MaxPages - 1, pages'[l][i] # Nothing
          PROVE  /\ reservations'[l] # Nothing
                 /\ i < reservations'[l].count
                 /\ pages'[l][i].header = reservations'[l].header
      <4>1. CASE l = leaf /\ i = index
        BY <1>1, <1>2, <1>3, <2>3, <2>7, <4>1
      <4>2. CASE l # leaf \/ i # index
        BY <1>1, <2>7, <3>1, <4>2 DEF IInv, StoresHave, OnePlan
      <4> QED
        BY <4>1, <4>2
    <3> QED
      BY <1>1, <3>1 DEF IInv, StoresHave, OnePlan
  <2>11. ASSUME NEW l \in Leaves, roots'[l] # Nothing PROVE Legible(l)'
    <3>1. roots'[l] = roots[l] /\ Legible(l) /\ roots[l] \in Roots
      BY <1>1, <2>11 DEF IInv, StoresHave
    <3>2. /\ roots[l].pages \in Seq(Pages) /\ roots[l].plan \in Plans
          /\ Len(roots[l].pages) \in Nat
      BY <3>1 DEF Roots
    <3>3. ASSUME roots[l].storage = "chunked", NEW i \in 1 .. Len(roots[l].pages)
          PROVE  pages'[l][i - 1] = roots[l].pages[i]
      <4>1. roots[l].plan.count \in Nat /\ roots[l].plan.count <= MaxPages
        BY <3>2, PlanIs
      <4>2. Len(roots[l].pages) = roots[l].plan.count /\ pages[l][i - 1] = roots[l].pages[i]
        BY <3>1, <3>3 DEF Legible
      <4>3. i - 1 \in 0 .. MaxPages - 1
        BY <3>2, <4>1, <4>2, ExportAssumption
      <4>4. roots[l].pages[i] # Nothing
        BY <3>2, NothingAssumption
      <4> QED
        BY <2>8, <4>2, <4>3, <4>4
    <3> QED
      BY <3>1, <3>3 DEF Legible
  <2>12. StoresHave'
    BY <1>1, <2>7, <2>10, <2>11 DEF IInv, StoresHave
  <2>13. ASSUME NEW i \in 1 .. Len(new.sent)
         PROVE  pages'[leaf][i - 1] = new.sent[i]
    <3>1. i \in 1 .. index \/ i = index + 1
      BY <1>3, <2>1, <2>5
    <3>2. CASE i \in 1 .. index
      <4>1. i - 1 \in 0 .. MaxPages - 1 /\ i - 1 # index
        BY <1>3, <3>2, ExportAssumption
      <4> QED
        BY <1>2, <1>3, <2>1, <2>5, <2>7, <3>2, <4>1
    <3>3. CASE i = index + 1
      <4>1. i - 1 = index
        BY <1>3, <3>3
      <4> QED
        BY <2>1, <2>5, <2>7, <3>3, <4>1
    <3> QED
      BY <3>1, <3>2, <3>3
  <2>14. reservations'[new.plan.leaf] = new.plan /\ new.plan.leaf = leaf /\ ~new.wrote
    BY <1>1, <1>2, <2>1, <2>5
  <2>15. new.counted = me.counted /\ new.high = me.high
    BY <2>1, <2>5
  <2> QED
    BY <1>1, <2>5, <2>6, <2>9, <2>12, <2>13, <2>14, <2>15, CallLoads
<1>5. CASE there \notin {Nothing, page}
  <2>1. /\ writer' = [writer EXCEPT ![w] = End(w, Failed)]
        /\ pages' = pages
    BY <1>5 DEF PutPage, Step
  <2> QED
    BY <1>1, <2>1, FailedIs
<1> QED
  BY <1>4, <1>5

\* writeInline and complete put the root of what the call was given or read.
Puts(w) ==
    \/ writer[w].pc = "put" /\ writer[w].mode = "inline" /\ PutRoot(w, "put", Root(writer[w]))
    \/ writer[w].pc = "publish" /\ PutRoot(w, "publish", Root(writer[w]))

LEMMA PutsIs ==
    ASSUME IInv, NEW w \in Writers, PutInline(w) \/ Complete(w)
    PROVE  Puts(w)
<1>1. CASE PutInline(w)
  <2>1. writer[w].pc = "put" /\ writer[w].mode = "inline"
    BY <1>1 DEF PutInline, PutRoot, Step
  <2>2. Root(writer[w]) = [storage |-> "inline", plan |-> writer[w].plan,
            pages |-> << [index |-> 0, header |-> writer[w].plan.header,
                          rows |-> writer[w].page] >>]
    BY <2>1 DEF Root
  <2> QED
    BY <1>1, <2>1, <2>2 DEF PutInline, Puts
<1>2. CASE Complete(w)
  <2>1. writer[w].pc = "publish"
    BY <1>2 DEF Complete, PutRoot, Step
  <2>2. writer[w].mode # "inline"
    BY <2>1 DEF IInv, CallsHave, Knows, Covers
  <2>3. Root(writer[w]) = [storage |-> "chunked", plan |-> writer[w].plan,
                           pages |-> writer[w].sent]
    BY <2>2 DEF Root
  <2> QED
    BY <1>2, <2>1, <2>3 DEF Complete, Puts
<1> QED
  BY <1>1, <1>2

\* What a root is put for, and what the put does.
LEMMA PuttingIs ==
    ASSUME IInv, NEW w \in Writers, Puts(w)
    PROVE  LET me == writer[w]
               leaf == me.plan.leaf
               root == Root(me)
           IN  /\ UNCHANGED <<clock, rowid, reservations, pages>>
               /\ writer \in [Writers -> Writing] /\ me \in Writing
               /\ Paged(me) /\ Counts(me) /\ me.pc \in {"put", "publish"} /\ ~me.wrote
               /\ me.plan \in Plans /\ leaf \in Leaves
               /\ root \in Roots /\ root.plan = me.plan
               /\ reservations[leaf] = me.plan
               /\ \A i \in 1 .. Len(me.sent) : pages[leaf][i - 1] = me.sent[i]
               /\ IF me.mode = "inline" THEN PageTaken(me) ELSE Covers(me)
               /\ me.mode # "inline" => Len(me.sent) = me.plan.count
               /\ writer' = [writer EXCEPT ![w] =
                     IF roots[leaf] \in {Nothing, root}
                     THEN [me EXCEPT !.pc = "answer", !.answer = root, !.wrote = TRUE]
                     ELSE End(w, Failed)]
               /\ roots' = IF roots[leaf] = Nothing THEN [roots EXCEPT ![leaf] = root] ELSE roots
<1> DEFINE me == writer[w]
           leaf == me.plan.leaf
           root == Root(me)
<1>1. /\ writer \in [Writers -> Writing] /\ me \in Writing /\ Paged(me) /\ Counts(me)
      /\ me.pc \in {"put", "publish"} /\ ~me.wrote /\ reservations[leaf] = me.plan
      /\ \A i \in 1 .. Len(me.sent) : pages[leaf][i - 1] = me.sent[i]
      /\ IF me.mode = "inline" THEN PageTaken(me) ELSE Covers(me)
      /\ me.mode # "inline" => Len(me.sent) = me.plan.count
  BY DEF IInv, CallsHave, Knows, Holding, Puts, Covers
<1>2. me.plan \in Plans /\ leaf \in Leaves /\ root \in Roots /\ root.plan = me.plan
  BY <1>1, PlanIs, RootIs DEF Paged, Numbered
<1>3. PutRoot(w, me.pc, root)
  BY DEF Puts
<1> HIDE DEF root
<1>4. /\ UNCHANGED <<clock, rowid, reservations, pages>>
      /\ writer' = [writer EXCEPT ![w] =
            IF roots[leaf] \in {Nothing, root}
            THEN [me EXCEPT !.pc = "answer", !.answer = root, !.wrote = TRUE]
            ELSE End(w, Failed)]
      /\ roots' = IF roots[leaf] = Nothing THEN [roots EXCEPT ![leaf] = root] ELSE roots
  BY <1>2, <1>3 DEF PutRoot, Step
<1> QED
  BY <1>1, <1>2, <1>4 DEF root

LEMMA PutRootStep ==
    ASSUME IInv, NEW w \in Writers, PutInline(w) \/ Complete(w)
    PROVE  IInv'
<1> DEFINE me == writer[w]
           leaf == me.plan.leaf
           root == Root(me)
           new == [me EXCEPT !.pc = "answer", !.answer = root, !.wrote = TRUE]
<1>1. /\ UNCHANGED <<clock, rowid, reservations, pages>>
      /\ writer \in [Writers -> Writing] /\ me \in Writing
      /\ Paged(me) /\ Counts(me) /\ me.pc \in {"put", "publish"} /\ ~me.wrote
      /\ me.plan \in Plans /\ leaf \in Leaves
      /\ root \in Roots /\ root.plan = me.plan
      /\ reservations[leaf] = me.plan
      /\ \A i \in 1 .. Len(me.sent) : pages[leaf][i - 1] = me.sent[i]
      /\ IF me.mode = "inline" THEN PageTaken(me) ELSE Covers(me)
      /\ me.mode # "inline" => Len(me.sent) = me.plan.count
      /\ writer' = [writer EXCEPT ![w] =
            IF roots[leaf] \in {Nothing, root} THEN new ELSE End(w, Failed)]
      /\ roots' = IF roots[leaf] = Nothing THEN [roots EXCEPT ![leaf] = root] ELSE roots
  BY PutsIs, PuttingIs
<1>2. CASE roots[leaf] \notin {Nothing, root}
  BY <1>1, <1>2, FailedIs
<1>3. CASE roots[leaf] \in {Nothing, root}
  <2>1. \/ /\ me.mode = "inline" /\ root.storage = "inline"
           /\ root.pages = << [index |-> 0, header |-> me.plan.header, rows |-> me.page] >>
        \/ /\ me.mode # "inline" /\ root.storage = "chunked" /\ root.pages = me.sent
    BY <1>1, RootIs
  <2> HIDE DEF root
  <2>2. writer' = [writer EXCEPT ![w] = new]
    BY <1>1, <1>3
  <2>3. /\ roots' \in [Leaves -> Roots \cup {Nothing}]
        /\ roots'[leaf] = root
        /\ \A l \in Leaves \ {leaf} : roots'[l] = roots[l]
        /\ roots[leaf] # Nothing => roots'[leaf] = roots[leaf]
    BY <1>1, <1>3 DEF IInv, StoresHave
  <2>4. Grows
    BY <1>1, <2>3 DEF Grows
  <2>5. OnePlan'
    BY <1>1, <2>3 DEF IInv, StoresHave, OnePlan
  <2>15. PICK key \in Leaves : key = leaf
    BY <1>1
  <2>6. Legible(key)'
    <3>1. CASE me.mode = "inline"
      <4> DEFINE page == [index |-> 0, header |-> me.plan.header, rows |-> me.page]
      <4>1. root.storage = "inline" /\ root.pages = << page >> /\ me.plan.count = 0
        BY <1>1, <2>1, <3>1 DEF Paged
      <4>2. page.header = me.plan.header
        OBVIOUS
      <4> HIDE DEF page
      <4>3. Len(root.pages) = 1 /\ \A i \in 1 .. Len(root.pages) : root.pages[i].header = me.plan.header
        BY <4>1, <4>2
      <4>4. roots'[key] = root /\ root.plan.count = 0 /\ root.plan.header = me.plan.header
        BY <1>1, <2>3, <2>15, <4>1
      <4>5. /\ Len(roots'[key].pages) = 1 /\ roots'[key].plan.count = 0
            /\ roots'[key].storage # "chunked"
            /\ \A i \in 1 .. Len(roots'[key].pages) :
                  roots'[key].pages[i].header = roots'[key].plan.header
        BY <4>1, <4>3, <4>4
      <4> QED
        BY <4>5 DEF Legible
    <3>2. CASE me.mode # "inline"
      <4>1. root.storage = "chunked" /\ root.pages = me.sent
        BY <2>1, <3>2
      <4>2. \A i \in 1 .. Len(me.sent) :
              me.sent[i].index = i - 1 /\ me.sent[i].header = me.plan.header
        BY <1>1 DEF Paged, Numbered
      <4>3. /\ roots'[key] = root /\ root.plan = me.plan /\ pages'[key] = pages[leaf]
            /\ Len(me.sent) = me.plan.count
        BY <1>1, <2>3, <2>15, <3>2
      <4>4. /\ roots'[key].storage # "inline"
            /\ Len(roots'[key].pages) = roots'[key].plan.count
        BY <4>1, <4>3
      <4>5. \A i \in 1 .. Len(roots'[key].pages) :
               /\ roots'[key].pages[i].index = i - 1
               /\ pages'[key][i - 1] = roots'[key].pages[i]
               /\ roots'[key].pages[i].header = roots'[key].plan.header
        BY <1>1, <4>1, <4>2, <4>3
      <4> QED
        BY <4>4, <4>5 DEF Legible
    <3> QED
      BY <3>1, <3>2
  <2>7. \A l \in Leaves : roots'[l] # Nothing => Legible(l)'
    <3>1. ASSUME NEW l \in Leaves \ {leaf}, roots'[l] # Nothing PROVE Legible(l)'
      BY <1>1, <2>3, <3>1 DEF IInv, StoresHave, Legible
    <3> QED
      BY <2>6, <2>15, <3>1
  <2>8. StoresHave'
    BY <1>1, <2>3, <2>5, <2>7 DEF IInv, StoresHave
  <2>9. new \in Writing /\ SameCall(new, me) /\ new.pc = "answer" /\ new.answer = root /\ new.wrote
    BY <1>1 DEF Writing, Phases, SameCall
  <2> HIDE DEF new
  <2>10. writer'[w] = new
    BY <1>1, <2>2
  <2>11. /\ Paged(new) <=> Paged(me)
         /\ Covers(new) <=> Covers(me)
         /\ PageTaken(new) <=> PageTaken(me)
         /\ Root(new) = root
    BY <2>9, SameIs DEF root
  <2>12. Counts(writer[w])'
    BY <1>1, <2>9, <2>10 DEF Counts, SameCall
  <2>13. new.plan = me.plan /\ new.mode = me.mode
    BY <2>9 DEF SameCall
  <2>14. Knows(writer[w])'
    BY <1>1, <2>3, <2>9, <2>10, <2>11, <2>12, <2>13 DEF Knows, Planning, Holding
  <2> QED
    BY <1>1, <2>2, <2>4, <2>8, <2>9, <2>10, <2>14, OneCall
<1> QED
  BY <1>2, <1>3
-----------------------------------------------------------------------------
(* Theorems. *)

LEMMA InitIs == Init => IInv
<1> SUFFICES ASSUME Init PROVE IInv
  OBVIOUS
<1>1. ArchiveHas
  <2>1. /\ rowid = [t \in Tables |-> rowid[t]]
        /\ \A t \in Tables : rowid[t] = [k \in RowKeys(t) |-> 0]
    BY DEF Init
  <2>2. "logs" \in Tables /\ "ticks" \in Tables
    BY DEF Tables
  <2>3. \A k \in RowKeys("logs") : rowid["logs"][k] <= Cardinality(Stored("logs"))
    <3>1. Cardinality(Stored("logs")) \in Nat
      BY <2>2, StoredIs
    <3> QED
      BY <2>1, <2>2, <3>1
  <2>4. 0 \in 0 .. MaxClock
    BY ExportAssumption
  <2> QED
    BY <2>1, <2>2, <2>3, <2>4 DEF Init, ArchiveHas
<1>2. StoresHave
  BY DEF Init, StoresHave, OnePlan
<1>3. CallsHave
  <2>1. Knows(Idle)
    BY IdleIsWriting DEF Knows, Counts, Planning, Holding
  <2> QED
    BY <2>1, IdleIsWriting DEF Init, CallsHave
<1> QED
  BY <1>1, <1>2, <1>3 DEF IInv

LEMMA StepIs == IInv /\ [Next]_exportvars => IInv'
<1> SUFFICES ASSUME IInv, [Next]_exportvars PROVE IInv'
  OBVIOUS
<1>1. CASE UNCHANGED exportvars
  <2>1. UNCHANGED <<rowid, reservations, pages, roots, writer>> /\ clock' \in 0 .. MaxClock
    BY <1>1 DEF exportvars, IInv, ArchiveHas
  <2> QED
    BY <2>1, QuietStep
<1>2. CASE TimePasses
  <2>1. UNCHANGED <<rowid, reservations, pages, roots, writer>> /\ clock' \in 0 .. MaxClock
    BY <1>2, ExportAssumption DEF TimePasses, IInv, ArchiveHas
  <2> QED
    BY <2>1, QuietStep
<1>3. CASE (\E k \in RowKeys("ticks") : SaveTick(k)) \/ (\E k \in RowKeys("logs") : SaveLog(k))
  BY <1>3, SaveStep
<1>4. ASSUME NEW w \in Writers,
             NEW id \in Ids \cup {NoId}, NEW mode \in {"stream", "inline", "chunks"},
             Start(w, id, mode)
      PROVE  IInv'
  BY <1>4, StartStep DEF Modes
<1>5. ASSUME NEW w \in Writers, WriterStep(w) PROVE IInv'
  BY <1>5, CheckStep, ReserveStep, RecheckStep, AssertLeaseStep, PutPageStep,
     PutRootStep, VerifyStep, AnswerStep DEF WriterStep
<1>6. ASSUME NEW w \in Writers, Fault(w) PROVE IInv'
  BY <1>6, FaultStep
<1> QED
  BY <1>1, <1>2, <1>3, <1>4, <1>5, <1>6 DEF Next

LEMMA Invariant == Spec => []IInv
BY InitIs, StepIs, PTL DEF Spec

LEMMA MaxOne ==
    ASSUME NEW n \in Nat
    PROVE  /\ Max({1, n}) \in Nat /\ 1 <= Max({1, n}) /\ n <= Max({1, n})
           /\ Max({1, n}) = IF n = 0 THEN 1 ELSE n
<1>1. {1, n} \in SUBSET Nat /\ {1, n} # {} /\ n + 1 \in Nat /\ \A x \in {1, n} : x <= n + 1
  OBVIOUS
<1>2. Max({1, n}) \in {1, n} /\ \A x \in {1, n} : x <= Max({1, n})
  BY <1>1, MaxIs
<1> DEFINE m == Max({1, n})
<1>3. m \in {1, n} /\ 1 <= m /\ n <= m
  BY <1>2
<1> HIDE DEF m
<1>4. m \in Nat /\ 1 <= m /\ n <= m /\ m = IF n = 0 THEN 1 ELSE n
  BY <1>3
<1> QED
  BY <1>4 DEF m

LEMMA RootsAre ==
    ASSUME StoresHave, NEW leaf \in Leaves, roots[leaf] # Nothing
    PROVE  LET root == roots[leaf]
           IN  /\ root \in Roots /\ root.plan = reservations[leaf] /\ root.plan.leaf = leaf
               /\ root.storage \in {"inline", "chunked"}
               /\ root.plan \in Plans /\ root.pages \in Seq(Pages) /\ Len(root.pages) \in Nat
               /\ DOMAIN root.pages = 1 .. Len(root.pages)
               /\ Len(root.pages) = 1 \/ Len(root.pages) = root.plan.count
               /\ root.plan.count \in Nat /\ root.plan.count <= MaxPages
<1> DEFINE root == roots[leaf]
<1>1. root \in Roots /\ Legible(leaf)
  BY DEF StoresHave
<1>2. /\ root.plan \in Plans /\ root.pages \in Seq(Pages) /\ Len(root.pages) \in Nat
      /\ DOMAIN root.pages = 1 .. Len(root.pages) /\ root.storage \in {"inline", "chunked"}
  BY <1>1 DEF Roots
<1>3. root.plan = reservations[leaf]
  BY DEF StoresHave, OnePlan
<1>4. root.plan.leaf = leaf
  BY <1>2, <1>3, NothingAssumption DEF StoresHave
<1>5. Len(root.pages) = 1 \/ Len(root.pages) = root.plan.count
  BY <1>1, <1>2 DEF Legible
<1>6. root.plan.count \in Nat /\ root.plan.count <= MaxPages
  BY <1>2, PlanIs
<1> QED
  BY <1>1, <1>2, <1>3, <1>4, <1>5, <1>6

\* Every variable has its type, and all that is stored under a key belongs to
\* the one plan that reserved it: exports of different headers or lengths,
\* under one id, never mix.
THEOREM ExportSound == Spec => []ExportInv
<1>1. IInv => ExportInv
  <2> SUFFICES ASSUME IInv PROVE ExportTypeOK /\ OnePlan
    BY DEF ExportInv
  <2>1. ASSUME NEW t \in Tables PROVE rowid[t] \in [RowKeys(t) -> RowKeys(t) \cup {0}]
    <3>1. CASE t = "ticks"
      BY <3>1 DEF IInv, ArchiveHas
    <3>2. CASE t = "logs"
      <4>1. RowKeys("logs") = 1 .. MaxLogs
        BY DEF RowKeys
      <4>2. Cardinality(RowKeys("logs")) = MaxLogs
        BY <4>1, FS_Interval, ExportAssumption
      <4>3. Cardinality(Stored("logs")) \in Nat /\ Cardinality(Stored("logs")) <= MaxLogs
        BY <3>2, <4>2, StoredIs
      <4>4. \A k \in RowKeys("logs") : /\ rowid["logs"][k] \in Nat
                                       /\ rowid["logs"][k] <= Cardinality(Stored("logs"))
        BY <3>2 DEF IInv, ArchiveHas
      <4>5. \A k \in RowKeys("logs") : rowid["logs"][k] \in 1 .. MaxLogs \cup {0}
        BY <4>3, <4>4, ExportAssumption
      <4> QED
        BY <3>2, <4>1, <4>5 DEF IInv, ArchiveHas
    <3> QED
      BY <3>1, <3>2 DEF Tables
  <2>2. \A l \in Leaves, i \in 0 .. MaxPages - 1 : pages[l][i] \in Pages \cup {Nothing}
    BY DEF IInv, StoresHave
  <2>3. ASSUME NEW l \in Leaves, roots[l] # Nothing
        PROVE  roots[l] \in Roots /\ Len(roots[l].pages) <= Max({1, MaxPages})
    <3>1. Max({1, MaxPages}) \in Nat /\ 1 <= Max({1, MaxPages}) /\ MaxPages <= Max({1, MaxPages})
      BY MaxOne, ExportAssumption
    <3>2. /\ roots[l] \in Roots
          /\ Len(roots[l].pages) = 1 \/ Len(roots[l].pages) = roots[l].plan.count
          /\ roots[l].plan.count \in Nat /\ roots[l].plan.count <= MaxPages
      BY <2>3, RootsAre DEF IInv
    <3> DEFINE m == Max({1, MaxPages})
               n == Len(roots[l].pages)
               c == roots[l].plan.count
    <3>3. m \in Nat /\ 1 <= m /\ MaxPages <= m /\ (n = 1 \/ n = c) /\ c \in Nat /\ c <= MaxPages
      BY <3>1, <3>2
    <3> HIDE DEF m, n, c
    <3>4. n <= m
      BY <3>3, ExportAssumption
    <3> QED
      BY <3>2, <3>4 DEF m, n
  <2>4. \A w \in Writers : writer[w].cursor \in [Tables -> Cursor]
    BY WritingIs DEF IInv, CallsHave
  <2> QED
    BY <2>1, <2>2, <2>3, <2>4 DEF ExportTypeOK, IInv, ArchiveHas, StoresHave
<1> QED
  BY <1>1, Invariant, PTL

\* Whatever is listed can be read back, page by page, to its end.
THEOREM ListedIsReadable == Spec => []PublishedIsReadable
<1>1. IInv => PublishedIsReadable
  <2> SUFFICES ASSUME IInv, NEW leaf \in Leaves, roots[leaf] # Nothing
               PROVE  /\ Readable(leaf)
                      /\ \A i \in 0 .. Len(roots[leaf].pages) - 1 :
                            LET page == ReadPage(leaf, i)
                            IN  /\ page.rows = roots[leaf].pages[i + 1].rows
                                /\ page.next = IF i + 1 = Len(roots[leaf].pages)
                                               THEN Nothing ELSE i + 1
    BY DEF PublishedIsReadable, Listed
  <2> DEFINE root == roots[leaf]
             n == Len(root.pages)
  <2>1. /\ root \in Roots /\ root.plan = reservations[leaf] /\ root.plan.leaf = leaf
        /\ root.storage \in {"inline", "chunked"} /\ n \in Nat
        /\ root.pages \in Seq(Pages) /\ DOMAIN root.pages = 1 .. n
    BY RootsAre DEF IInv
  <2>2. Legible(leaf)
    BY DEF IInv, StoresHave
  <2>3. Readable(leaf)
    BY <2>1, <2>2 DEF Readable, DecodeRoot, ReadVerifiedPage, Legible
  <2>4. ASSUME NEW i \in 0 .. n - 1
        PROVE  /\ ReadPage(leaf, i).rows = root.pages[i + 1].rows
               /\ ReadPage(leaf, i).next = IF i + 1 = n THEN Nothing ELSE i + 1
    <3>1. n # 0 /\ root.pages # <<>>
      BY <2>1
    <3>2. Max({1, n}) = n
      BY <2>1, <3>1, MaxOne
    <3>3. /\ ReadPage(leaf, i).rows = root.pages[i + 1].rows
          /\ ReadPage(leaf, i).next = IF i < Max({1, n}) - 1 THEN i + 1 ELSE Nothing
      BY <3>1 DEF ReadPage
    <3>4. i < n - 1 <=> i + 1 # n
      BY <2>1
    <3> QED
      BY <3>2, <3>3, <3>4
  <2> QED
    BY <2>3, <2>4
<1> QED
  BY <1>1, Invariant, PTL

\* An export holds every row the archive had when its call took the
\* watermarks, each on one page, whatever was saved while it was paging.
THEOREM PublishedIsComplete == Spec => []ExportIsComplete
<1>1. IInv => ExportIsComplete
  <2> SUFFICES ASSUME IInv, NEW w \in Writers, writer[w].wrote
               PROVE  LET root == roots[writer[w].plan.leaf]
                      IN  /\ writer[w].counted \subseteq RowsOf(root)
                          /\ \A i, j \in DOMAIN root.pages :
                                i # j => root.pages[i].rows \cap root.pages[j].rows = {}
    BY DEF ExportIsComplete
  <2> DEFINE me == writer[w]
             root == roots[me.plan.leaf]
  <2>1. /\ me \in Writing /\ Paged(me) /\ root = Root(me)
        /\ IF me.mode = "inline" THEN PageTaken(me) ELSE Covers(me)
    BY DEF IInv, CallsHave, Knows
  <2>2. \/ me.mode = "inline" /\ root.pages = << [index |-> 0, header |-> me.plan.header,
                                                 rows |-> me.page] >>
        \/ me.mode # "inline" /\ root.pages = me.sent
    BY <2>1, RootIs
  <2>3. CASE me.mode = "inline"
    <3>1. root.pages = << [index |-> 0, header |-> me.plan.header, rows |-> me.counted] >>
      BY <2>1, <2>2, <2>3 DEF PageTaken
    <3> QED
      BY <3>1 DEF RowsOf
  <2>4. CASE me.mode # "inline"
    <3>1. /\ root.pages = me.sent /\ DOMAIN me.sent = 1 .. Len(me.sent)
          /\ \A r \in me.counted : OnPage(me, r)
      BY <2>1, <2>2, <2>4, WritingIs DEF Covers
    <3>2. \A i, j \in 1 .. Len(me.sent) : i # j => me.sent[i].rows \cap me.sent[j].rows = {}
      BY <2>1 DEF Paged, Apart
    <3> QED
      BY <3>1, <3>2 DEF RowsOf, OnPage
  <2> QED
    BY <2>3, <2>4
<1> QED
  BY <1>1, Invariant, PTL
-----------------------------------------------------------------------------
(* The refinement. *)

Told == [w \in Writers |-> IF Ended(w) THEN writer[w].answer ELSE Nothing]

\* A call that ends is told that it failed, or what a key holds.
LEMMA TellIs ==
    ASSUME NEW w \in Writers, ~Ended(w),
           \A v \in Writers \ {w} : writer'[v] = writer[v],
           writer'[w].pc = "ended" =>
              \/ writer'[w].answer = Failed
              \/ \E k \in Leaves : roots'[k] # Nothing /\ writer'[w].answer = roots'[k]
    PROVE  Register!Tell \/ Told' = Told
<1>1. \A v \in Writers \ {w} : Told'[v] = Told[v]
  BY DEF Told, Ended
<1>2. CASE writer'[w].pc = "ended"
  <2>1. Told[w] = Nothing /\ Told'[w] = writer'[w].answer
    BY <1>2 DEF Told, Ended
  <2> QED
    BY <1>1, <1>2, <2>1 DEF Register!Tell, Told
<1>3. CASE writer'[w].pc # "ended"
  <2>1. Told[w] = Nothing /\ Told'[w] = Nothing
    BY <1>3 DEF Told, Ended
  <2>2. \A v \in Writers : Told'[v] = Told[v]
    BY <1>1, <2>1
  <2>3. Told = [v \in Writers |-> Told[v]] /\ Told' = [v \in Writers |-> Told'[v]]
    BY DEF Told
  <2> QED
    BY <2>2, <2>3
<1> QED
  BY <1>2, <1>3

LEMMA LoadedGoesOn ==
    ASSUME NEW rec \in Writing
    PROVE  Loaded(rec).pc \in {"lease", "finish"}
<1>1. rec.mode \in Modes
  BY WritingIs
<1>2. /\ [rec EXCEPT !.pc = "lease", !.page = rec.counted].pc = "lease"
      /\ [rec EXCEPT !.pc = "finish"].pc = "finish"
      /\ [rec EXCEPT !.pc = "lease", !.page = Split(rec.counted, Len(rec.sent))].pc = "lease"
      /\ [rec EXCEPT !.pc = "lease", !.page = PageFromSnapshot(rec.high, rec.cursor),
                     !.cursor = NextCursor(rec.high, rec.cursor)].pc = "lease"
  BY DEF Writing
<1> QED
  BY <1>1, <1>2 DEF Loaded, Modes

\* Told one of the two, when the roots stay as they are.
LEMMA PublishedTells ==
    ASSUME NEW w \in Writers, writer \in [Writers -> Writing], writer[w].plan.leaf \in Leaves,
           roots[writer[w].plan.leaf] # Nothing, roots' = roots,
           writer' = [writer EXCEPT ![w] = Published(w)]
    PROVE  \/ writer'[w].answer = Failed
           \/ \E k \in Leaves : roots'[k] # Nothing /\ writer'[w].answer = roots'[k]
<1> DEFINE answer == IF writer[w].plan.leaf.id # NoId THEN roots[writer[w].plan.leaf] ELSE Failed
<1>1. writer'[w] = [writer[w] EXCEPT !.pc = "ended", !.answer = answer]
  BY DEF Published, End
<1>2. writer'[w].answer = answer
  <2>1. writer[w] \in Writing
    OBVIOUS
  <2> HIDE DEF answer
  <2> QED
    BY <1>1, <2>1 DEF Writing
<1> QED
  BY <1>2

LEMMA EndFails ==
    ASSUME NEW w \in Writers, writer \in [Writers -> Writing],
           writer' = [writer EXCEPT ![w] = End(w, Failed)]
    PROVE  writer'[w].answer = Failed
BY DEF End, Writing

LEMMA WriterTells ==
    ASSUME IInv, NEW w \in Writers, WriterStep(w)
    PROVE  Register!Tell \/ Told' = Told
<1> DEFINE Says == writer'[w].pc = "ended" =>
              \/ writer'[w].answer = Failed
              \/ \E k \in Leaves : roots'[k] # Nothing /\ writer'[w].answer = roots'[k]
           me == writer[w]
           leaf == me.plan.leaf
<1>1. writer \in [Writers -> Writing] /\ me \in Writing /\ Knows(me)
  BY DEF IInv, CallsHave
<1>2. me.pc \in Planning \cup Holding => leaf \in Leaves
  BY <1>1, PlanIs DEF Knows, Paged, Numbered
<1>3. ASSUME NEW pc \in Phases \ {"ended"},
             writer' = [writer EXCEPT ![w] = [writer[w] EXCEPT !.pc = pc]]
      PROVE  Says
  BY <1>1, <1>3 DEF Writing
<1>4. /\ ~Ended(w)
      /\ \A v \in Writers \ {w} : writer'[v] = writer[v]
  <2>1. \E from \in Phases \ {"ended"} : \E new : Step(w, from, new)
    BY DEF WriterStep, Check, Reserve, Recheck, AssertLease, PutPage, PutInline,
           Verify, Complete, PutRoot, Answer, Phases, Planning, Holding
  <2> QED
    BY <1>1, <2>1 DEF Step, Ended
<1>5. ASSUME Check(w) \/ Recheck(w) PROVE Says
  <2>1. leaf \in Leaves /\ roots' = roots
    BY <1>2, <1>5 DEF Check, Recheck, Step, Planning
  <2>2. CASE roots[leaf] # Nothing
    <3>1. writer' = [writer EXCEPT ![w] = Published(w)]
      BY <1>5, <2>2 DEF Check, Recheck, Step
    <3> QED
      BY <1>1, <2>1, <2>2, <3>1, PublishedTells
  <2>3. CASE roots[leaf] = Nothing
    <3>1. \/ writer' = [writer EXCEPT ![w] = [writer[w] EXCEPT !.pc = "reserve"]]
          \/ writer' = [writer EXCEPT ![w] = Loaded(writer[w])]
          \/ writer' = [writer EXCEPT ![w] = End(w, Failed)]
      BY <1>5, <2>3 DEF Check, Recheck, Step
    <3> QED
      BY <1>1, <1>3, <3>1, LoadedGoesOn, EndFails DEF Phases, Planning
  <2> QED
    BY <2>2, <2>3
<1>6. ASSUME Reserve(w) PROVE Says
  <2>1. \/ writer' = [writer EXCEPT ![w] = [writer[w] EXCEPT !.pc = "recheck"]]
        \/ writer' = [writer EXCEPT ![w] = Loaded(writer[w])]
    BY <1>6 DEF Reserve, Step
  <2> QED
    BY <1>1, <1>3, <2>1, LoadedGoesOn DEF Phases, Planning
<1>7. ASSUME AssertLease(w) \/ Verify(w) PROVE Says
  <2>1. \/ writer' = [writer EXCEPT ![w] = [writer[w] EXCEPT !.pc = "put"]]
        \/ writer' = [writer EXCEPT ![w] = [writer[w] EXCEPT !.pc = "publish"]]
        \/ writer' = [writer EXCEPT ![w] = End(w, Failed)]
    BY <1>7 DEF AssertLease, Verify, Step
  <2> QED
    BY <1>1, <1>3, <2>1, EndFails DEF Phases, Holding
<1>8. ASSUME PutPage(w) PROVE Says
  <2> DEFINE page == [index |-> Len(me.sent), header |-> me.plan.header, rows |-> me.page]
  <2>1. \/ writer' = [writer EXCEPT ![w] = Loaded(Sending(me, page))]
        \/ writer' = [writer EXCEPT ![w] = End(w, Failed)]
    BY <1>8 DEF PutPage, Step, Sending
  <2>2. /\ Paged(me) /\ PageTaken(me) /\ me.mode # "inline" /\ Len(me.sent) < me.plan.count
    BY <1>1, <1>8 DEF PutPage, Step, Knows, Holding
  <2>3. Sending(me, page) \in Writing
    <3> HIDE DEF page
    <3> QED
      BY <1>1, <2>2, SendingIs DEF page
  <2>4. Loaded(Sending(me, page)).pc \in {"lease", "finish"}
    BY <2>3, LoadedGoesOn
  <2> HIDE DEF page
  <2> QED
    BY <1>1, <2>1, <2>4, EndFails
<1>9. ASSUME PutInline(w) \/ Complete(w) PROVE Says
  <2>1. writer' = [writer EXCEPT ![w] =
                     IF roots[leaf] \in {Nothing, Root(me)}
                     THEN [me EXCEPT !.pc = "answer", !.answer = Root(me), !.wrote = TRUE]
                     ELSE End(w, Failed)]
    BY <1>9, PutsIs, PuttingIs
  <2>2. [me EXCEPT !.pc = "answer", !.answer = Root(me), !.wrote = TRUE].pc = "answer"
    BY <1>1 DEF Writing
  <2> QED
    BY <1>1, <2>1, <2>2, EndFails
<1>10. ASSUME Answer(w) PROVE Says
  <2>1. me.pc = "answer" /\ roots' = roots /\ writer'[w].answer = me.answer
    BY <1>1, <1>10 DEF Answer, Step, End, Writing
  <2>2. Paged(me) /\ me.answer = Root(me) /\ roots[leaf] = Root(me)
    BY <1>1, <2>1 DEF Knows
  <2>3. leaf \in Leaves /\ Root(me) # Nothing
    BY <1>1, <2>2, PlanIs, RootIs, NothingAssumption DEF Paged, Numbered
  <2> QED
    BY <2>1, <2>2, <2>3
<1>11. Says
  BY <1>5, <1>6, <1>7, <1>8, <1>9, <1>10 DEF WriterStep
<1> QED
  BY <1>4, <1>11, TellIs

LEMMA WriterPublishes ==
    ASSUME IInv, NEW w \in Writers, WriterStep(w)
    PROVE  Register!Publish \/ roots' = roots
<1>1. CASE PutInline(w) \/ Complete(w)
  <2> DEFINE root == Root(writer[w])
             leaf == writer[w].plan.leaf
  <2>1. /\ leaf \in Leaves /\ root \in Roots
        /\ roots' = IF roots[leaf] = Nothing THEN [roots EXCEPT ![leaf] = root] ELSE roots
    BY <1>1, PutsIs, PuttingIs
  <2> HIDE DEF root
  <2>2. CASE roots[leaf] = Nothing
    <3>1. roots'[leaf] = root /\ \A other \in Leaves \ {leaf} : roots'[other] = roots[other]
      BY <2>1, <2>2 DEF IInv, StoresHave
    <3>2. root # Nothing
      BY <2>1, NothingAssumption
    <3> QED
      BY <2>1, <2>2, <3>1, <3>2 DEF Register!Publish
  <2> QED
    BY <2>1, <2>2
<1>2. CASE ~(PutInline(w) \/ Complete(w))
  BY <1>2 DEF WriterStep, Check, Reserve, Recheck, AssertLease, PutPage, Verify, Answer
<1> QED
  BY <1>1, <1>2

\* The exports are write-once registers: a key is published at most once, and
\* a call that is answered is told what its key holds, or that it failed.
THEOREM ExportsAreRegisters == Spec => RegisterSpec
<1>1. Init => Register!RegisterInit
  BY IdleIsWriting DEF Init, Register!RegisterInit, Ended
<1>2. IInv /\ [Next]_exportvars => [Register!RegisterNext]_<<roots, Told>>
  <2> SUFFICES ASSUME IInv, [Next]_exportvars
               PROVE  /\ Register!Publish \/ roots' = roots
                      /\ Register!Tell \/ Told' = Told
    BY DEF Register!RegisterNext, Told
  <2>1. CASE writer' = writer /\ roots' = roots
    BY <2>1 DEF Told, Ended
  <2>2. CASE UNCHANGED exportvars \/ TimePasses
             \/ (\E k \in RowKeys("ticks") : SaveTick(k)) \/ (\E k \in RowKeys("logs") : SaveLog(k))
    BY <2>1, <2>2 DEF exportvars, TimePasses, SaveTick, SaveLog
  <2>3. ASSUME NEW w \in Writers, WriterStep(w)
        PROVE  /\ Register!Publish \/ roots' = roots
               /\ Register!Tell \/ Told' = Told
    BY <2>3, WriterTells, WriterPublishes
  <2>4. ASSUME NEW w \in Writers, Fault(w)
        PROVE  roots' = roots /\ (Register!Tell \/ Told' = Told)
    <3>1. /\ ~Ended(w) /\ roots' = roots
          /\ \A v \in Writers \ {w} : writer'[v] = writer[v]
          /\ writer'[w].answer = Failed
      BY <2>4, EndFails DEF Fault, Ended, IInv, CallsHave
    <3> QED
      BY <3>1, TellIs
  <2>5. ASSUME NEW w \in Writers,
               NEW id \in Ids \cup {NoId}, NEW mode \in {"stream", "inline", "chunks"},
               Start(w, id, mode)
        PROVE  roots' = roots /\ (Register!Tell \/ Told' = Told)
    <3>1. writer \in [Writers -> Writing] /\ writer[w].pc = "idle" /\ roots' = roots
      BY <2>5 DEF Start, Step, IInv, CallsHave
    <3>2. \A v \in Writers \ {w} : writer'[v] = writer[v]
      BY <2>5 DEF Start, Step, IInv, CallsHave
    <3>3. writer'[w].pc = "ended" => writer'[w].answer = Failed
      <4>1. CASE TooManyPages(PageCount(mode))
        <5>1. writer'[w] = [Idle EXCEPT !.pc = "ended", !.answer = Failed]
          BY <2>5, <3>1, <4>1 DEF Start, Step
        <5> QED
          BY <5>1 DEF Idle
      <4>2. CASE ~TooManyPages(PageCount(mode))
        <5> DEFINE plan == [leaf |-> Leaf(id, clock), header |-> Header,
                            count |-> PageCount(mode)]
                   high == [t \in Tables |-> HighWater(t)]
                   counts == Counted
        <5>1. writer'[w] = [Idle EXCEPT !.pc = "check", !.mode = mode, !.plan = plan,
                                        !.high = high, !.counted = counts]
          BY <2>5, <3>1, <4>2 DEF Start, Step
        <5> HIDE DEF plan, high, counts
        <5> QED
          BY <5>1 DEF Idle
      <4> QED
        BY <4>1, <4>2
    <3> QED
      BY <3>1, <3>2, <3>3, TellIs DEF Ended
  <2> QED
    BY <2>2, <2>3, <2>4, <2>5 DEF Next
<1>3. Told = [w \in Writers |-> IF Ended(w) THEN writer[w].answer ELSE Nothing]
  BY DEF Told
<1> QED
  BY <1>1, <1>2, <1>3, Invariant, PTL DEF Spec, RegisterSpec, Register!RegisterSpec, Told
==============================================================================
