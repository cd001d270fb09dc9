---------------------------- MODULE SessionExport ----------------------------
(***************************************************************************)
(* Exports of one session to an object store: persistSessionExport of the  *)
(* session object (durable/orchestrator.ts), which pages through the       *)
(* archive (logging/session-archive-repository.ts and decision-log-        *)
(* repository.ts) while ticks and decisions are still being saved, and     *)
(* R2SessionExportRepository, which reserves a plan of pages under a key,  *)
(* writes the pages and publishes a manifest, each with a put that fails   *)
(* when the object exists.                                                 *)
(*                                                                         *)
(* Steps are the code between two awaits.  Reservations, pages and roots   *)
(* are never overwritten nor deleted, so a read of an object that is known *)
(* to exist is part of the step before it.  A digest stands for what it is *)
(* computed from: records are compared instead.  Keys are injective in the *)
(* session and the leaf, so one session and its leaves are modelled.       *)
(***************************************************************************)
EXTENDS Integers, Sequences, FiniteSets, FiniteSetsExt

CONSTANTS
    Writers,        \* calls that export, each an attempt
    Ids,            \* export ids a caller may give
    NoId,           \* no id given: the time names the key
    MaxClock,       \* bound on the clock
    MaxTicks,       \* bound on the rows of tick_history
    MaxLogs,        \* bound on the rows of decision_logs
    PageRows,       \* rows of each table a page takes
    InlineRows,     \* rows up to which write stores one object
    MaxPages,       \* #maxPages
    Nothing, Failed

ASSUME ExportAssumption ==
    /\ MaxClock \in Nat /\ MaxTicks \in Nat /\ MaxLogs \in Nat
    /\ InlineRows \in Nat
    /\ MaxPages \in Nat \ {0} /\ PageRows \in Nat \ {0}
    /\ NoId \notin Ids

VARIABLES
    clock,          \* Clock.currentTimeMillis
    rowid,          \* the rowid of each row of each table, 0 when absent
    reservations,   \* the plan reserved for each leaf, or Nothing
    pages,          \* the page objects of each leaf
    roots,          \* the manifest or inline export of each leaf, or Nothing
    writer          \* the calls under way

exportvars == <<clock, rowid, reservations, pages, roots, writer>>

Tables == {"logs", "ticks"}     \* snapshots and events are paged likewise
\* A tick's row is its id; a log's is its place in the order of their times.
RowKeys(t) == IF t = "ticks" THEN 1 .. MaxTicks ELSE 1 .. MaxLogs
Rows == UNION {{t} \X RowKeys(t) : t \in Tables}
Leaves == [id : Ids, at : {0}] \cup [id : {NoId}, at : 0 .. MaxClock]
Headers == [at : 0 .. MaxClock, cost : 0 .. MaxLogs]
Plans == [leaf : Leaves, header : Headers, count : 0 .. MaxPages]
Pages == [index : 0 .. MaxPages - 1, header : Headers, rows : SUBSET Rows]
Roots == [storage : {"inline", "chunked"}, plan : Plans, pages : Seq(Pages)]
ASSUME NothingAssumption == Nothing \notin Plans \cup Pages \cup Roots

Leaf(id, at) == [id |-> id, at |-> IF id = NoId THEN at ELSE 0]

-----------------------------------------------------------------------------
(* The archive.                                                            *)

Stored(t) == {k \in RowKeys(t) : rowid[t][k] # 0}

\* exportSnapshot: the highest rowid of a table, and the rows up to it.
HighWater(t) == Max({rowid[t][k] : k \in RowKeys(t)} \cup {0})
Counted == UNION {{t} \X Stored(t) : t \in Tables}

\* The least n of a set of numbers.
Least(S, n) == {k \in S : Cardinality({j \in S : j < k}) < n}

Cursor == [after : Nat, done : BOOLEAN]
FirstCursor == [t \in Tables |-> [after |-> 0, done |-> FALSE]]

\* pageFromSnapshot: the rows of a table after the cursor and not above the
\* watermark, and whether there are more than a page takes.
Ahead(high, cursor, t) ==
    IF cursor[t].done THEN {}
    ELSE {k \in Stored(t) : rowid[t][k] <= high[t] /\ k > cursor[t].after}
PageFromSnapshot(high, cursor) ==
    UNION {{t} \X Least(Ahead(high, cursor, t), PageRows) : t \in Tables}
\* Mutant: the cursor skips the row after the last one.
NextCursorSkips(high, cursor) == [t \in Tables |->
    LET ahead == Ahead(high, cursor, t)
    IN  [after |-> Max({k + 1 : k \in Least(ahead, PageRows)} \cup {cursor[t].after}),
         done |-> Cardinality(ahead) <= PageRows]]
NextCursor(high, cursor) == [t \in Tables |->
    LET ahead == Ahead(high, cursor, t)
    IN  [after |-> Max(Least(ahead, PageRows) \cup {cursor[t].after}),
         done |-> Cardinality(ahead) <= PageRows]]

\* saveTick inserts a tick's row under its id, and ignores a second one.  The
\* handlers of overlapping ticks save them in any order.
SaveTick(k) ==
    /\ rowid["ticks"][k] = 0
    /\ rowid' = [rowid EXCEPT !["ticks"][k] = k]
    /\ UNCHANGED <<clock, reservations, pages, roots, writer>>

\* A decision's log takes the next rowid; its time may precede another's.
SaveLog(k) ==
    /\ rowid["logs"][k] = 0
    /\ rowid' = [rowid EXCEPT !["logs"][k] = HighWater("logs") + 1]
    /\ UNCHANGED <<clock, reservations, pages, roots, writer>>

-----------------------------------------------------------------------------
(* Reading an export back.                                                 *)

\* readVerifiedPage: a page is where its descriptor says and as it says.
ReadVerifiedPage(leaf, header, index, descriptor) ==
    LET page == pages[leaf][index]
    IN  /\ page = descriptor
        /\ page.index = index
        /\ page.header = header

\* decodeInline and decodeManifest: the root belongs at its key.
DecodeRoot(leaf, root) ==
    /\ root.plan.leaf = leaf
    /\ root.storage = "chunked" => Len(root.pages) = root.plan.count
    /\ root.storage = "inline" => root.plan.count = 0 /\ Len(root.pages) = 1
    /\ \A i \in DOMAIN root.pages : root.pages[i].header = root.plan.header

\* read: all rows of an export, or that it cannot be read.
Readable(leaf) ==
    LET root == roots[leaf]
    IN  /\ DecodeRoot(leaf, root)
        /\ root.storage = "chunked" =>
              \A i \in DOMAIN root.pages :
                  ReadVerifiedPage(leaf, root.plan.header, i - 1, root.pages[i])
RowsOf(root) == UNION {root.pages[i].rows : i \in DOMAIN root.pages}

\* readPage: the page at a cursor, and the cursor after it or Nothing.  An
\* export without pages has one, which is empty.
ReadPage(leaf, cursor) ==
    LET root == roots[leaf]
        last == Max({1, Len(root.pages)}) - 1
    IN  [rows |-> IF root.pages = <<>> THEN {} ELSE root.pages[cursor + 1].rows,
         next |-> IF cursor < last THEN cursor + 1 ELSE Nothing]

\* list: the roots stored.
Listed == {leaf \in Leaves : roots[leaf] # Nothing}

-----------------------------------------------------------------------------
(* Writing one.  A call's record holds what its fiber holds: the plan of   *)
(* its lease, what exportSnapshot gave it, its cursors, the page it is     *)
(* about to write, and the descriptors of those it has written.            *)

Idle == [pc |-> "idle", mode |-> "stream", plan |-> Nothing, high |-> [t \in Tables |-> 0],
         counted |-> {}, cursor |-> FirstCursor, page |-> {}, sent |-> <<>>,
         answer |-> Nothing, wrote |-> FALSE]

Ended(w) == writer[w].pc = "ended"
Step(w, from, record) ==
    /\ writer[w].pc = from
    /\ writer' = [writer EXCEPT ![w] = record]
    /\ UNCHANGED <<clock, rowid>>
End(w, answer) == [writer[w] EXCEPT !.pc = "ended", !.answer = answer]

Ceiling(n) == (n + PageRows - 1) \div PageRows

\* The state's header: the time of the export and the costs so far.
Header == [at |-> clock, cost |-> Cardinality(Stored("logs"))]

\* splitSessionExport: the rows of an assembled export in pages, logs first.
Rank(S, r) == Cardinality({q \in S :
    \/ q[1] = "logs" /\ r[1] = "ticks"
    \/ q[1] = r[1] /\ q[2] < r[2]})
Split(S, i) == {r \in S : Rank(S, r) \div PageRows = i}
SplitCount(S) == Max({1, Ceiling(Cardinality(S))})

\* persistSessionExport takes time, header and watermarks in one step, and
\* plans for its longest table; write gets an assembled export, and stores
\* a small one as one object.
PageCount(mode) ==
    CASE mode = "stream" -> Ceiling(Max({Cardinality(Stored(t)) : t \in Tables}))
      [] mode = "chunks" -> SplitCount(Counted)
      [] mode = "inline" -> 0
Fits(mode) ==
    /\ mode = "inline" => Cardinality(Counted) <= InlineRows
    /\ mode = "chunks" => Cardinality(Counted) > InlineRows

\* begin: a plan of too many pages is refused.
TooManyPages(count) == count > MaxPages

Start(w, id, mode) ==
    /\ Fits(mode)
    /\ LET count == PageCount(mode)
           plan == [leaf |-> Leaf(id, clock), header |-> Header, count |-> count]
       IN  Step(w, "idle",
             IF TooManyPages(count)
             THEN [Idle EXCEPT !.pc = "ended", !.answer = Failed]
             ELSE [Idle EXCEPT !.pc = "check", !.mode = mode, !.plan = plan,
                   !.high = [t \in Tables |-> HighWater(t)], !.counted = Counted])
    /\ UNCHANGED <<reservations, pages, roots>>

\* The next page is read from the archive, or cut from the export given, in
\* the step in which the answer to the call before arrives.
AllSent(rec) ==
    IF rec.mode = "stream"
    THEN rec.plan.count = 0 \/ \A t \in Tables : rec.cursor[t].done
    ELSE Len(rec.sent) = rec.plan.count
Loaded(rec) ==
    CASE rec.mode = "inline" -> [rec EXCEPT !.pc = "lease", !.page = rec.counted]
      [] rec.mode # "inline" /\ AllSent(rec) -> [rec EXCEPT !.pc = "finish"]
      [] rec.mode = "chunks" /\ ~AllSent(rec) ->
            [rec EXCEPT !.pc = "lease", !.page = Split(rec.counted, Len(rec.sent))]
      [] rec.mode = "stream" /\ ~AllSent(rec) ->
            [rec EXCEPT !.pc = "lease", !.page = PageFromSnapshot(rec.high, rec.cursor),
             !.cursor = NextCursor(rec.high, rec.cursor)]

\* beginReserved finds the key published: the id's export is the answer, but
\* a key made of the time alone is another export's.
Published(w) ==
    LET plan == writer[w].plan
    IN  IF plan.leaf.id # NoId THEN End(w, roots[plan.leaf]) ELSE End(w, Failed)

Check(w) ==
    /\ Step(w, "check",
          IF roots[writer[w].plan.leaf] # Nothing THEN Published(w)
          ELSE [writer[w] EXCEPT !.pc = "reserve"])
    /\ UNCHANGED <<reservations, pages, roots>>

\* The reservation is put if there is none.
Reserve(w) ==
    LET plan == writer[w].plan
        free == reservations[plan.leaf] = Nothing
    IN  /\ Step(w, "reserve",
              IF free THEN Loaded(writer[w]) ELSE [writer[w] EXCEPT !.pc = "recheck"])
        /\ reservations' =
              IF free THEN [reservations EXCEPT ![plan.leaf] = plan] ELSE reservations
        /\ UNCHANGED <<pages, roots>>

\* Another call's reservation is shared by one with the same plan.
\* Mutant: the headers are not compared.
SamePlanLength(left, right) == left.count = right.count /\ left.leaf = right.leaf
SameReservation(left, right) ==
    left.header = right.header /\ left.count = right.count /\ left.leaf = right.leaf

Recheck(w) ==
    LET plan == writer[w].plan
    IN  /\ Step(w, "recheck",
              IF roots[plan.leaf] # Nothing THEN Published(w)
              ELSE IF SameReservation(reservations[plan.leaf], plan)
              THEN Loaded(writer[w]) ELSE End(w, Failed))
        /\ UNCHANGED <<reservations, pages, roots>>

\* assertLease: the reservation is still the lease's, nothing is published.
LeaseHolds(plan) ==
    /\ reservations[plan.leaf] # Nothing
    /\ SameReservation(reservations[plan.leaf], plan)
    /\ roots[plan.leaf] = Nothing

\* writePage refuses an index beyond the plan, after it asserted the lease.
AssertLease(w) ==
    LET me == writer[w]
        allowed == me.mode = "inline" \/ Len(me.sent) < me.plan.count
    IN  /\ Step(w, "lease", IF LeaseHolds(me.plan) /\ allowed
                            THEN [me EXCEPT !.pc = "put"] ELSE End(w, Failed))
        /\ UNCHANGED <<reservations, pages, roots>>

\* putPageIfAbsent: a page that is there must be the same.
\* Mutant: it is overwritten.
PutPageOver(w) ==
    LET me == writer[w]
        leaf == me.plan.leaf
        index == Len(me.sent)
        page == [index |-> index, header |-> me.plan.header, rows |-> me.page]
    IN  /\ me.mode # "inline"
        /\ Step(w, "put",
              Loaded([me EXCEPT !.sent = Append(me.sent, page), !.page = {}]))
        /\ pages' = [pages EXCEPT ![leaf][index] = page]
        /\ UNCHANGED <<reservations, roots>>
PutPage(w) ==
    LET me == writer[w]
        leaf == me.plan.leaf
        index == Len(me.sent)
        page == [index |-> index, header |-> me.plan.header, rows |-> me.page]
        there == pages[leaf][index]
    IN  /\ me.mode # "inline"
        /\ Step(w, "put",
              IF there \in {Nothing, page}
              THEN Loaded([me EXCEPT !.sent = Append(me.sent, page), !.page = {}])
              ELSE End(w, Failed))
        /\ pages' = IF there = Nothing THEN [pages EXCEPT ![leaf][index] = page] ELSE pages
        /\ UNCHANGED <<reservations, roots>>

\* A root is put if there is none; one that is there must be the same.
\* Mutant: it is overwritten.
PutRootOver(w, from, root) ==
    /\ Step(w, from, [writer[w] EXCEPT !.pc = "answer", !.answer = root, !.wrote = TRUE])
    /\ roots' = [roots EXCEPT ![root.plan.leaf] = root]
    /\ UNCHANGED <<reservations, pages>>
PutRoot(w, from, root) ==
    LET leaf == root.plan.leaf
        there == roots[leaf]
    IN  /\ Step(w, from,
              IF there \in {Nothing, root}
              THEN [writer[w] EXCEPT !.pc = "answer", !.answer = root, !.wrote = TRUE]
              ELSE End(w, Failed))
        /\ roots' = IF there = Nothing THEN [roots EXCEPT ![leaf] = root] ELSE roots
        /\ UNCHANGED <<reservations, pages>>

\* writeInline.
PutInline(w) ==
    /\ writer[w].mode = "inline"
    /\ PutRoot(w, "put", [storage |-> "inline", plan |-> writer[w].plan,
            pages |-> << [index |-> 0, header |-> writer[w].plan.header,
                          rows |-> writer[w].page] >>])

\* complete asserts the lease, and that every page planned was written and
\* reads back ...
Verify(w) ==
    LET me == writer[w]
    IN  /\ Step(w, "finish",
              IF /\ LeaseHolds(me.plan)
                 /\ Len(me.sent) = me.plan.count
                 /\ \A i \in DOMAIN me.sent :
                       ReadVerifiedPage(me.plan.leaf, me.plan.header, i - 1, me.sent[i])
              THEN [me EXCEPT !.pc = "publish"] ELSE End(w, Failed))
        /\ UNCHANGED <<reservations, pages, roots>>

\* ... and puts the manifest.
Complete(w) == PutRoot(w, "publish",
    [storage |-> "chunked", plan |-> writer[w].plan, pages |-> writer[w].sent])

\* The store's answer to that put arrives.
Answer(w) ==
    /\ Step(w, "answer", End(w, writer[w].answer))
    /\ UNCHANGED <<reservations, pages, roots>>

\* A call of the store fails or its answer is lost, or the object restarts:
\* the export ends, whatever it has stored stays.
Fault(w) ==
    /\ writer[w].pc \notin {"idle", "ended"}
    /\ writer' = [writer EXCEPT ![w] = End(w, Failed)]
    /\ UNCHANGED <<clock, rowid, reservations, pages, roots>>

TimePasses ==
    /\ clock < MaxClock
    /\ clock' = clock + 1
    /\ UNCHANGED <<rowid, reservations, pages, roots, writer>>

-----------------------------------------------------------------------------
Init ==
    /\ clock = 0
    /\ rowid = [t \in Tables |-> [k \in RowKeys(t) |-> 0]]
    /\ reservations = [l \in Leaves |-> Nothing]
    /\ pages = [l \in Leaves |-> [i \in 0 .. MaxPages - 1 |-> Nothing]]
    /\ roots = [l \in Leaves |-> Nothing]
    /\ writer = [w \in Writers |-> Idle]

WriterStep(w) ==
    \/ Check(w) \/ Reserve(w) \/ Recheck(w)
    \/ AssertLease(w) \/ PutPage(w) \/ PutInline(w)
    \/ Verify(w) \/ Complete(w) \/ Answer(w)

Next ==
    \/ \E k \in RowKeys("ticks") : SaveTick(k)
    \/ \E k \in RowKeys("logs") : SaveLog(k)
    \/ TimePasses
    \/ \E w \in Writers :
          \/ \E id \in Ids \cup {NoId}, mode \in {"stream", "inline", "chunks"} :
                 Start(w, id, mode)
          \/ WriterStep(w)
          \/ Fault(w)

Spec == Init /\ [][Next]_exportvars

-----------------------------------------------------------------------------
(* Properties.                                                             *)

\* Every variable has its type.  (The rows of calls and objects are those of
\* the archive; what calls hold besides is checked by the other properties.)
ExportTypeOK ==
    /\ clock \in 0 .. MaxClock
    /\ \A t \in Tables : rowid[t] \in [RowKeys(t) -> RowKeys(t) \cup {0}]
    /\ reservations \in [Leaves -> Plans \cup {Nothing}]
    /\ \A l \in Leaves, i \in 0 .. MaxPages - 1 : pages[l][i] \in Pages \cup {Nothing}
    /\ \A l \in Leaves : roots[l] # Nothing =>
          /\ roots[l] \in Roots
          /\ Len(roots[l].pages) <= Max({1, MaxPages})
    /\ \A w \in Writers : writer[w].cursor \in [Tables -> Cursor]

\* Whatever is listed can be read: its root is sound, every page is there and
\* is the one published, and following readPage's cursors from the first page
\* visits each page once and ends.
PublishedIsReadable == \A leaf \in Listed :
    /\ Readable(leaf)
    /\ \A i \in 0 .. Len(roots[leaf].pages) - 1 :
          LET page == ReadPage(leaf, i)
          IN  /\ page.rows = roots[leaf].pages[i + 1].rows
              /\ page.next = IF i + 1 = Len(roots[leaf].pages) THEN Nothing ELSE i + 1

\* An export that a call published holds every row the archive had when the
\* call took its watermarks, each of them on one page, whatever was saved
\* while it was paging.
ExportIsComplete == \A w \in Writers : writer[w].wrote =>
    LET root == roots[writer[w].plan.leaf]
    IN  /\ writer[w].counted \subseteq RowsOf(root)
        /\ \A i, j \in DOMAIN root.pages :
              i # j => root.pages[i].rows \cap root.pages[j].rows = {}

\* All that is stored under a key belongs to the one plan that reserved it:
\* exports of different headers or lengths never mix.
OnePlan == \A leaf \in Leaves :
    /\ \A i \in 0 .. MaxPages - 1 : pages[leaf][i] # Nothing =>
          /\ reservations[leaf] # Nothing
          /\ i < reservations[leaf].count
          /\ pages[leaf][i].header = reservations[leaf].header
    /\ roots[leaf] # Nothing => roots[leaf].plan = reservations[leaf]

\* Types, and one plan per key, which every reachable state has.
ExportInv == ExportTypeOK /\ OnePlan

\* The repository is a set of write-once registers, and a call that is
\* answered is told what its key holds.
Register == INSTANCE ExportRegister WITH
    Keys <- Leaves,
    register <- roots,
    told <- [w \in Writers |-> IF Ended(w) THEN writer[w].answer ELSE Nothing]
RegisterSpec == Register!RegisterSpec

\* The id is an idempotency key, and with it a retry is deterministic: a call
\* that is alone, and whose id was not published, is not refused for what an
\* earlier attempt under the same id left.  The export's time is part of its
\* header, and breaks it (README).
RetryNotRefused == [][\A w \in Writers :
    /\ Recheck(w)
    /\ writer[w].plan.leaf.id # NoId
    /\ roots[writer[w].plan.leaf] = Nothing
    /\ \A v \in Writers \ {w} : writer[v].pc \in {"idle", "ended"}
    => ~Ended(w)']_exportvars
=============================================================================
