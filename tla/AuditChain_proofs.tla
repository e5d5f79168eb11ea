-------------------------- MODULE AuditChain_proofs -------------------------
(***************************************************************************)
(* For every number of events and of writers of either isolation level:    *)
(* with one deletion job at a time and no damage from outside, the stored  *)
(* chain is the log of what was committed less a prefix, and implements    *)
(* AuditLog.  For any number of jobs and whatever was damaged, damage      *)
(* before the newest row shows.  Both need that a non-empty set of bounded *)
(* numbers has a largest element, the well-foundedness of < on Nat.        *)
(***************************************************************************)
EXTENDS AuditChain, FiniteSetTheorems, WellFoundedInduction, TLAPS

\* One deletion job at a time, nothing lost or altered from outside.
Undisturbed == MaxDamage = 0 /\ \A p, q \in Purgers : p = q

Shape ==
    /\ log \in Seq(Events)
    /\ damaged = {}
    /\ phase = [p \in Processes |-> phase[p]]
    /\ view = [w \in Writers |-> view[w]]
    /\ draft = [w \in Writers |-> draft[w]]
    /\ chosen = [p \in Purgers |-> chosen[p]]
    /\ doomed = [p \in Purgers |-> doomed[p]]
IInv == Shape /\ ChainInv

-----------------------------------------------------------------------------
(* The end of a stretch of the log.                                        *)

\* A bounded, non-empty set of natural numbers has a largest element.
LEMMA Largest ==
    ASSUME NEW n \in Nat, NEW S, S \subseteq 0 .. n, S # {}
    PROVE  \E m \in S : \A k \in S : k <= m
  <1> DEFINE T == {n - k : k \in S}
  <1>0. \A k \in S : n - k \in Nat
    OBVIOUS
  <1>1. T \subseteq Nat /\ T # {}
    <2>1. PICK k \in S : TRUE
      OBVIOUS
    <2>2. n - k \in T
      BY <2>1
    <2>3. QED
      BY <1>0, <2>2
  <1>2. PICK t \in T : \A u \in T : ~ (<<u, t>> \in OpToRel(<, Nat))
    BY <1>1, NatLessThanWellFounded, WFMin
  <1>3. \A u \in T : ~ (u < t)
    BY <1>1, <1>2 DEF OpToRel
  <1>4. PICK m \in S : t = n - m
    OBVIOUS
  <1>5. \A k \in S : n - k \in T
    OBVIOUS
  <1>6. SUFFICES ASSUME NEW k \in S PROVE k <= m
    BY <1>4
  <1>7. k \in Nat /\ m \in Nat /\ n - k \in T
    BY <1>5
  <1>8. ~ (n - k < n - m)
    BY <1>3, <1>4, <1>7
  <1>9. QED
    BY <1>7, <1>8

\* The newest of the rows of a stretch of the log is its last one.
LEMMA NewestOfStretch ==
    ASSUME NEW m \in Nat, NEW n \in Nat, m < n
    PROVE  Newest({LogRow(k) : k \in m + 1 .. n}) = {LogRow(n)}
  <1> DEFINE S == {LogRow(k) : k \in m + 1 .. n}
  <1>1. \A k \in m + 1 .. n : LogRow(k).seq = k
    BY DEF LogRow
  <1>2. LogRow(n) \in S
    OBVIOUS
  <1>3. LogRow(n) \in Newest(S)
    BY <1>1, <1>2 DEF Newest
  <1>4. \A x \in Newest(S) : x = LogRow(n)
    <2> TAKE x \in Newest(S)
    <2>1. PICK k \in m + 1 .. n : x = LogRow(k)
      BY DEF Newest
    <2>2. LogRow(n).seq <= x.seq
      BY <1>2 DEF Newest
    <2>3. k = n
      BY <2>1, <2>2, <1>1
    <2>4. QED
      BY <2>1, <2>3
  <1>5. QED
    BY <1>3, <1>4

\* ... so that what continues a stretch continues the log.
LEMMA EndOfStretch ==
    ASSUME NEW m \in Nat, NEW n \in Nat, m <= n
    PROVE  ChainEnd({LogRow(k) : k \in m + 1 .. n}, [seq |-> m, hash |-> HashAt(m)])
              = [seq |-> n, hash |-> HashAt(n)]
  <1> DEFINE S == {LogRow(k) : k \in m + 1 .. n}
  <1>1. CASE m = n
    <2>1. S = {}
      BY <1>1
    <2>2. QED
      BY <1>1, <2>1 DEF ChainEnd
  <1>2. CASE m # n
    <2>1. m < n /\ n \in m + 1 .. n /\ n # 0
      BY <1>2
    <2>2. LogRow(n) \in S
      BY <2>1
    <2>3. (CHOOSE x \in Newest(S) : TRUE) = LogRow(n)
      <3>1. Newest(S) = {LogRow(n)}
        BY <2>1, NewestOfStretch
      <3> HIDE DEF S
      <3>2. QED
        BY ONLY <3>1
    <2>4. LogRow(n).seq = n /\ LogRow(n).hash = HashAt(n)
      BY <2>1 DEF LogRow, HashAt
    <2>5. QED
      BY <2>2, <2>3, <2>4 DEF ChainEnd
  <1>3. QED
    BY <1>1, <1>2

\* While the chain is intact the trigger continues it.
LEMMA EndOfChain ==
    ASSUME log \in Seq(Events), TableIsLog
    PROVE  ChainEnd(rows, anchor) = [seq |-> Len(log), hash |-> HashAt(Len(log))]
  <1>1. Len(log) \in Nat /\ anchor.seq \in Nat /\ anchor.seq <= Len(log)
    BY DEF TableIsLog
  <1>2. /\ rows = {LogRow(k) : k \in anchor.seq + 1 .. Len(log)}
        /\ anchor = [seq |-> anchor.seq, hash |-> HashAt(anchor.seq)]
    BY DEF TableIsLog
  <1>3. QED
    BY <1>1, <1>2, EndOfStretch

\* A stretch verifies with the place before it as its anchor.
LEMMA StretchVerifies ==
    ASSUME NEW m \in Nat, NEW n \in Nat
    PROVE  Broken({LogRow(k) : k \in m + 1 .. n}, [seq |-> m, hash |-> HashAt(m)]) = {}
  <1> DEFINE S    == {LogRow(k) : k \in m + 1 .. n}
             from == [seq |-> m, hash |-> HashAt(m)]
  <1> SUFFICES ASSUME NEW k \in m + 1 .. n
               PROVE  LET x == LogRow(k) IN
                      ~ \/ x.altered
                        \/ x.seq # ChainEnd(Before(x, S), from).seq + 1
                        \/ x.prev # ChainEnd(Before(x, S), from).hash
    BY DEF Broken
  <1>1. k \in Nat /\ k - 1 \in Nat /\ m <= k - 1 /\ k <= n
    OBVIOUS
  <1>2. \A j \in m + 1 .. n : LogRow(j).seq = j
    BY DEF LogRow
  <1>3. Before(LogRow(k), S) = {LogRow(j) : j \in m + 1 .. k - 1}
    <2>1. \A j \in m + 1 .. n : LogRow(j) \in Before(LogRow(k), S) <=> j < k
      BY <1>2 DEF Before
    <2>2. Before(LogRow(k), S) \subseteq S
      BY DEF Before
    <2>3. \A j \in m + 1 .. n : j < k <=> j \in m + 1 .. k - 1
      BY <1>1
    <2>4. m + 1 .. k - 1 \subseteq m + 1 .. n
      BY <1>1
    <2>5. QED
      BY <2>1, <2>2, <2>3, <2>4
  <1>4. ChainEnd(Before(LogRow(k), S), from) = [seq |-> k - 1, hash |-> HashAt(k - 1)]
    BY <1>1, <1>3, EndOfStretch
  <1>5. LogRow(k).seq = k /\ LogRow(k).prev = HashAt(k - 1) /\ LogRow(k).altered = FALSE
    BY DEF LogRow
  <1>6. QED
    BY <1>1, <1>4, <1>5

-----------------------------------------------------------------------------
(* The steps.                                                              *)

\* A commit leaves the earlier part of the log as it was.
LEMMA LogAppended ==
    ASSUME log \in Seq(Events), NEW e \in Events, log' = Append(log, e)
    PROVE  /\ log' \in Seq(Events)
           /\ Len(log') = Len(log) + 1
           /\ Len(log) \in Nat
           /\ \A k \in 1 .. Len(log) : log'[k] = log[k]
           /\ log'[Len(log) + 1] = e
           /\ \A k \in 0 .. Len(log) : HashAt(k)' = HashAt(k)
           /\ \A k \in 1 .. Len(log) : LogRow(k)' = LogRow(k)
           /\ Logged' = Logged \cup {e}
  <1>1. /\ log' \in Seq(Events) /\ Len(log') = Len(log) + 1 /\ Len(log) \in Nat
        /\ \A k \in 1 .. Len(log) : log'[k] = log[k]
        /\ log'[Len(log) + 1] = e
    OBVIOUS
  <1>2. \A k \in 0 .. Len(log) : HashAt(k)' = HashAt(k)
    BY <1>1 DEF HashAt
  <1>3. \A k \in 1 .. Len(log) : LogRow(k)' = LogRow(k)
    <2> TAKE k \in 1 .. Len(log)
    <2>1. k - 1 \in 0 .. Len(log)
      BY <1>1
    <2>2. HashAt(k - 1)' = HashAt(k - 1)
      BY <2>1, <1>2
    <2>3. QED
      BY <1>1, <2>2 DEF LogRow
  <1>4. DOMAIN log = 1 .. Len(log) /\ DOMAIN log' = 1 .. Len(log) + 1
    BY <1>1
  <1>5. Logged' = Logged \cup {e}
    BY <1>1, <1>4 DEF Logged
  <1>6. QED
    BY <1>1, <1>2, <1>3, <1>5

\* A transaction continues the chain from its end or is refused by the
\* unique index: a stale snapshot sees a number that is still in the table.
LEMMA SeenEnd ==
    ASSUME IInv, NEW w \in Writers, phase[w] = "begun",
           ~ \E x \in rows : x.seq = ChainEnd(Seen(w).rows, Seen(w).anchor).seq + 1
    PROVE  ChainEnd(Seen(w).rows, Seen(w).anchor) =
              [seq |-> Len(log), hash |-> HashAt(Len(log))]
  <1>0. log \in Seq(Events) /\ Len(log) \in Nat /\ TableIsLog
    BY DEF IInv, Shape, ChainInv
  <1>1. CASE w \notin SnapshotWriters
    BY <1>0, <1>1, EndOfChain DEF Seen
  <1>2. CASE w \in SnapshotWriters
    <2>1. PICK n \in 0 .. Len(log) : RecentView(w, n)
      BY <1>2 DEF IInv, ChainInv, SnapshotsRecent
    <2>2. ChainEnd(Seen(w).rows, Seen(w).anchor) = [seq |-> n, hash |-> HashAt(n)]
      BY <1>2, <2>1 DEF Seen, RecentView
    <2>3. SUFFICES ASSUME n # Len(log) PROVE FALSE
      BY <2>2
    <2>4. n + 1 \in n + 1 .. Len(log) /\ n + 1 \in 1 .. Len(log)
      BY <1>0, <2>3
    <2>5. log[n + 1] \notin aged
      BY <2>1, <2>4 DEF RecentView
    <2>6. n + 1 \notin 1 .. anchor.seq
      BY <2>5 DEF IInv, ChainInv, OnlyOldPurged
    <2>7. n + 1 \in anchor.seq + 1 .. Len(log)
      BY <1>0, <2>4, <2>6 DEF TableIsLog
    <2>8. LogRow(n + 1) \in rows /\ LogRow(n + 1).seq = n + 1
      BY <1>0, <2>7 DEF TableIsLog, LogRow
    <2>9. QED
      BY <2>2, <2>8
  <1>3. QED
    BY <1>1, <1>2

\* Steps that leave the log, the table and its anchor alone keep the chain.
LEMMA SameChain ==
    ASSUME IInv, UNCHANGED <<rows, anchor, log>>
    PROVE  TableIsLog' /\ Distinct'
  BY DEF IInv, ChainInv, TableIsLog, Distinct, LogRow, HashAt

\* Snapshots stay recent while the log and its age stay the same.
LEMMA SameSnapshots ==
    ASSUME SnapshotsRecent, UNCHANGED <<log, aged>>,
           \A o \in SnapshotWriters :
               phase'[o] = "begun" => phase[o] = "begun" /\ view'[o] = view[o]
    PROVE  SnapshotsRecent'
  <1> SUFFICES ASSUME NEW o \in SnapshotWriters, phase'[o] = "begun"
               PROVE  \E n \in 0 .. Len(log') : RecentView(o, n)'
    BY DEF SnapshotsRecent
  <1>1. PICK n \in 0 .. Len(log) : RecentView(o, n)
    BY DEF SnapshotsRecent
  <1>2. RecentView(o, n)'
    BY <1>1 DEF RecentView, ChainEnd, Newest, HashAt
  <1>3. QED
    BY <1>2

\* What writers and verifiers do to their own state is no concern of a
\* purger.
LEMMA SamePurgers ==
    ASSUME DoomedIsPrefix, UNCHANGED <<rows, aged, chosen, doomed>>,
           \A p \in Purgers : phase'[p] = phase[p]
    PROVE  DoomedIsPrefix'
  BY DEF DoomedIsPrefix

\* A writer that takes its snapshot takes the end of the log.
LEMMA BeginStep ==
    ASSUME IInv, NEW w \in Writers, Begin(w)
    PROVE  IInv'
  <1> USE DEF IInv, Shape, ChainInv
  <1>0. Len(log) \in Nat
    OBVIOUS
  <1>1. Shape'
    BY DEF Begin, Processes
  <1>2. phase'[w] = "begun" /\ \A o \in Processes : o # w => phase'[o] = phase[o]
    BY DEF Begin, Processes
  <1>3. OneWriterInside' /\ DraftIsNext'
    BY <1>2 DEF Begin, OneWriterInside, DraftIsNext, HashAt, Logged, Processes
  <1>4. SnapshotsRecent'
    <2> SUFFICES ASSUME NEW o \in SnapshotWriters, phase'[o] = "begun"
                 PROVE  \E n \in 0 .. Len(log') : RecentView(o, n)'
      BY DEF SnapshotsRecent
    <2> o \in Writers
      BY ChainAssumption
    <2>1. CASE o = w
      <3>1. view'[o].rows = rows /\ view'[o].anchor = anchor
        BY <2>1 DEF Begin
      <3>2. ChainEnd(rows, anchor) = [seq |-> Len(log), hash |-> HashAt(Len(log))]
        BY EndOfChain
      <3>3. ChainEnd(view'[o].rows, view'[o].anchor) =
               [seq |-> Len(log), hash |-> HashAt(Len(log))]
        BY <3>1, <3>2
      <3>4. \A k \in Len(log) + 1 .. Len(log) : log[k] \notin aged
        BY <1>0
      <3>5. RecentView(o, Len(log))'
        BY <3>3, <3>4 DEF RecentView, Begin, ChainEnd, Newest, HashAt
      <3>6. QED
        BY <1>0, <3>5 DEF Begin
    <2>2. CASE o # w
      <3>1. PICK n \in 0 .. Len(log) : RecentView(o, n)
        BY <2>2, <1>2 DEF SnapshotsRecent, Processes
      <3>2. view'[o] = view[o]
        BY <2>2 DEF Begin
      <3>3. RecentView(o, n)'
        BY <3>1, <3>2 DEF RecentView, Begin, ChainEnd, Newest, HashAt
      <3>4. QED
        BY <3>3 DEF Begin
    <2>3. QED
      BY <2>1, <2>2
  <1>5. OnlyOldPurged'
    BY DEF OnlyOldPurged, Begin, Logged
  <1>6. DoomedIsPrefix'
    BY <1>2, ChainAssumption, SamePurgers DEF Begin, Processes
  <1>7. QED
    BY <1>1, <1>3, <1>4, <1>5, <1>6, SameChain DEF Begin

\* A transaction ends without a commit.
LEMMA LeaveStep ==
    ASSUME IInv, NEW w \in Writers, Leave(w),
           UNCHANGED <<rows, anchor, aged, chosen, doomed, got, log, damaged>>
    PROVE  IInv'
  <1> USE DEF IInv, Shape, ChainInv
  <1>1. Shape'
    BY DEF Leave, Processes
  <1>2. phase'[w] = "idle" /\ \A o \in Processes : o # w => phase'[o] = phase[o]
    BY DEF Leave, Processes
  <1>3. \A o \in Writers : o # w => view'[o] = view[o] /\ draft'[o] = draft[o]
    BY DEF Leave
  <1>4. OneWriterInside' /\ DraftIsNext'
    <2>1. \A o \in Writers : phase'[o] = "inserted" =>
              o # w /\ phase[o] = "inserted" /\ draft'[o] = draft[o]
      BY <1>2, <1>3 DEF Processes
    <2>2. OneWriterInside'
      BY <2>1 DEF OneWriterInside
    <2>3. Logged' = Logged /\ HashAt(Len(log))' = HashAt(Len(log))
      BY DEF Logged, HashAt
    <2>4. DraftIsNext'
      BY <2>1, <2>3 DEF DraftIsNext
    <2>5. QED
      BY <2>2, <2>4
  <1>5. SnapshotsRecent'
    BY <1>2, <1>3, ChainAssumption, SameSnapshots DEF Processes
  <1>6. OnlyOldPurged'
    BY DEF OnlyOldPurged, Logged
  <1>7. DoomedIsPrefix'
    BY <1>2, ChainAssumption, SamePurgers DEF Processes
  <1>8. QED
    BY <1>1, <1>4, <1>5, <1>6, <1>7, SameChain

\* The trigger links the new row to the end of the log.
LEMMA InsertStep ==
    ASSUME IInv, NEW w \in Writers, Insert(w)
    PROVE  IInv'
  <1> DEFINE end == ChainEnd(Seen(w).rows, Seen(w).anchor)
  <1>1. CASE \E x \in rows : x.seq = end.seq + 1
    BY <1>1, LeaveStep DEF Insert
  <1>2. CASE ~ \E x \in rows : x.seq = end.seq + 1
    <2>1. end = [seq |-> Len(log), hash |-> HashAt(Len(log))]
      BY <1>2, SeenEnd DEF Insert
    <2>2. PICK e \in Events \ Logged :
              draft' = [draft EXCEPT ![w] = [seq |-> end.seq + 1, prev |-> end.hash,
                                             hash |-> e, altered |-> FALSE]]
      BY <1>2 DEF Insert
    <2> USE DEF IInv, Shape, ChainInv
    <2>3. /\ phase' = [phase EXCEPT ![w] = "inserted"]
          /\ UNCHANGED <<rows, anchor, aged, view, chosen, doomed, got, log, damaged>>
      BY <1>2 DEF Insert
    <2>4. Shape'
      BY <2>2, <2>3 DEF Processes
    <2>5. phase'[w] = "inserted" /\ \A o \in Processes : o # w => phase'[o] = phase[o]
      BY <2>3 DEF Processes
    <2>6. \A o \in Writers : phase[o] # "inserted"
      BY DEF Insert, LockFree
    <2>7. OneWriterInside'
      BY <2>5, <2>6 DEF OneWriterInside, Processes
    <2>8. draft'[w] = [seq |-> Len(log) + 1, prev |-> HashAt(Len(log)),
                       hash |-> e, altered |-> FALSE]
      BY <2>1, <2>2
    <2>9. DraftIsNext'
      <3>1. \A o \in Writers : phase'[o] = "inserted" => o = w
        BY <2>5, <2>6 DEF Processes
      <3>2. Logged' = Logged /\ HashAt(Len(log))' = HashAt(Len(log)) /\ Len(log') = Len(log)
        BY <2>3 DEF Logged, HashAt
      <3>3. QED
        BY <3>1, <3>2, <2>2, <2>8 DEF DraftIsNext
    <2>10. SnapshotsRecent'
      BY <2>3, <2>5, ChainAssumption, SameSnapshots DEF Processes
    <2>11. OnlyOldPurged'
      BY <2>3 DEF OnlyOldPurged, Logged
    <2>12. DoomedIsPrefix'
      BY <2>3, <2>5, ChainAssumption, SamePurgers DEF Processes
    <2>13. QED
      BY <2>3, <2>4, <2>7, <2>9, <2>10, <2>11, <2>12, SameChain
  <1>3. QED
    BY <1>1, <1>2

\* The committed row is the next one of the log.
LEMMA CommitStep ==
    ASSUME IInv, NEW w \in Writers, Commit(w)
    PROVE  IInv'
  <1> USE DEF IInv, Shape, ChainInv
  <1>n. PICK n \in Nat : n = Len(log)
    OBVIOUS
  <1>0. phase[w] = "inserted" /\ log' = Append(log, draft[w].hash) /\ rows' = rows \cup {draft[w]}
        /\ UNCHANGED <<anchor, aged, chosen, doomed, got, damaged>>
    BY DEF Commit
  <1>1. PICK e \in Events \ Logged :
            /\ draft[w].hash = e
            /\ draft[w] = [seq |-> n + 1, prev |-> HashAt(n), hash |-> e, altered |-> FALSE]
    BY <1>0, <1>n DEF DraftIsNext
  <1>2. /\ log' \in Seq(Events)
        /\ Len(log') = n + 1
        /\ n \in Nat
        /\ \A k \in 1 .. n : log'[k] = log[k]
        /\ log'[n + 1] = e
        /\ \A k \in 0 .. n : HashAt(k)' = HashAt(k)
        /\ \A k \in 1 .. n : LogRow(k)' = LogRow(k)
        /\ Logged' = Logged \cup {e}
    BY <1>0, <1>0, <1>1, <1>n, LogAppended
  <1>3. Shape'
    BY <1>0, <1>2 DEF Commit, Leave, Processes
  <1>4. phase'[w] = "idle" /\ \A o \in Processes : o # w => phase'[o] = phase[o]
    BY DEF Commit, Leave, Processes
  <1>5. LogRow(n + 1)' = draft[w]
    <2>1. HashAt(n)' = HashAt(n)
      BY <1>2
    <2>2. n + 1 - 1 = n
      BY <1>2
    <2>3. QED
      BY <1>1, <1>2, <2>1, <2>2 DEF LogRow
  <1>6. anchor.seq \in 0 .. n
    BY <1>n DEF TableIsLog
  <1>7. TableIsLog'
    <2>1. anchor'.seq \in 0 .. Len(log')
      BY <1>0, <1>2, <1>6
    <2>2. anchor' = [seq |-> anchor'.seq, hash |-> HashAt(anchor.seq)']
      BY <1>0, <1>2, <1>6 DEF TableIsLog
    <2>3. rows' = {LogRow(k)' : k \in anchor.seq + 1 .. n + 1}
      <3>1. anchor.seq + 1 .. n + 1 = (anchor.seq + 1 .. n) \cup {n + 1}
        BY <1>2, <1>6
      <3>2. \A k \in anchor.seq + 1 .. n : LogRow(k)' = LogRow(k)
        BY <1>2, <1>6
      <3>3. rows = {LogRow(k) : k \in anchor.seq + 1 .. n}
        BY <1>n DEF TableIsLog
      <3>4. rows = {LogRow(k)' : k \in anchor.seq + 1 .. n}
        BY <3>2, <3>3
      <3>5. QED
        BY <1>0, <1>5, <3>1, <3>4
    <2>4. QED
      BY <1>0, <1>2, <2>1, <2>2, <2>3 DEF TableIsLog
  <1>8. Distinct'
    <2>1. DOMAIN log = 1 .. n /\ DOMAIN log' = (1 .. n) \cup {n + 1}
      BY <1>2, <1>n
    <2>2. \A k \in 1 .. n : log'[k] = log[k] /\ log[k] # e
      BY <1>1, <1>2, <2>1 DEF Logged
    <2>3. QED
      BY <1>2, <2>1, <2>2 DEF Distinct
  <1>9. \A o \in Writers : phase'[o] # "inserted"
    BY <1>0, <1>4 DEF OneWriterInside, Processes
  <1>10. OneWriterInside' /\ DraftIsNext'
    BY <1>9 DEF OneWriterInside, DraftIsNext
  <1>11. SnapshotsRecent'
    <2> SUFFICES ASSUME NEW o \in SnapshotWriters, phase'[o] = "begun"
                 PROVE  \E m \in 0 .. Len(log') : RecentView(o, m)'
      BY DEF SnapshotsRecent
    <2>1. o \in Writers /\ o # w /\ phase[o] = "begun"
      BY <1>4, ChainAssumption DEF Processes
    <2>2. view'[o] = view[o]
      BY <2>1 DEF Commit, Leave
    <2>3. PICK m \in 0 .. n : RecentView(o, m)
      BY <2>1, <1>n DEF SnapshotsRecent
    <2>4. ChainEnd(view[o].rows, view[o].anchor)' = ChainEnd(view[o].rows, view[o].anchor)
      BY <2>2 DEF ChainEnd, Newest
    <2>5. HashAt(m)' = HashAt(m)
      BY <1>2, <2>3
    <2>6. e \notin aged
      BY <1>1 DEF OnlyOldPurged
    <2>7. \A k \in m + 1 .. n + 1 : log'[k] \notin aged
      <3> TAKE k \in m + 1 .. n + 1
      <3>1. CASE k = n + 1
        BY <3>1, <1>2, <2>6
      <3>2. CASE k # n + 1
        <4>1. k \in m + 1 .. n /\ k \in 1 .. n
          BY <3>2, <1>2, <2>3
        <4>2. log[k] \notin aged
          BY <4>1, <2>3, <1>n DEF RecentView
        <4>3. QED
          BY <4>1, <4>2, <1>2
      <3>3. QED
        BY <3>1, <3>2
    <2>8. RecentView(o, m)'
      BY <1>0, <1>2, <2>3, <2>4, <2>5, <2>7, <1>n DEF RecentView
    <2>9. QED
      BY <1>2, <2>3, <2>8
  <1>12. OnlyOldPurged'
    BY <1>0, <1>2, <1>6 DEF OnlyOldPurged
  <1>13. DoomedIsPrefix'
    <2>1. \A p \in Purgers : phase'[p] = phase[p]
      BY <1>4, ChainAssumption DEF Processes
    <2>2. \A x \in rows : x.seq \in 0 .. n
      <3> TAKE x \in rows
      <3>1. PICK k \in anchor.seq + 1 .. n : x = LogRow(k)
        BY <1>n DEF TableIsLog
      <3>2. QED
        BY <3>1, <1>2, <1>6 DEF LogRow
    <2>3. draft[w].seq = n + 1
      BY <1>1
    <2>4. SUFFICES ASSUME NEW p \in Purgers
                   PROVE  /\ chosen'[p] \subseteq aged'
                          /\ phase'[p] = "doomed" => doomed'[p] # {}
                          /\ doomed'[p] \subseteq rows'
                          /\ \A x \in doomed'[p], y \in rows' :
                                /\ x.hash \in aged'
                                /\ y.seq <= x.seq => y \in doomed'[p]
      BY DEF DoomedIsPrefix
    <2>5. \A x \in doomed[p] : x.seq \in 0 .. n /\ ~ (draft[w].seq <= x.seq)
      <3>1. doomed[p] \subseteq rows
        BY DEF DoomedIsPrefix
      <3>2. \A k \in 0 .. n : ~ (n + 1 <= k)
        BY <1>2
      <3>3. QED
        BY <2>2, <2>3, <3>1, <3>2
    <2>6. QED
      BY <1>0, <2>1, <2>5 DEF DoomedIsPrefix
  <1>14. QED
    BY <1>3, <1>7, <1>8, <1>10, <1>11, <1>12, <1>13

\* Nothing but committed events becomes old, and only between transactions.
LEMMA AgeStep ==
    ASSUME IInv, Age
    PROVE  IInv'
  <1> USE DEF IInv, Shape, ChainInv
  <1>1. Shape' /\ OneWriterInside'
    BY DEF Age, OneWriterInside
  <1>2. SnapshotsRecent' /\ DraftIsNext'
    BY ChainAssumption DEF Age, SnapshotsRecent, DraftIsNext
  <1>3. aged' = Logged /\ Logged' = Logged /\ aged \subseteq Logged
    BY DEF Age, Logged, OnlyOldPurged
  <1>4. OnlyOldPurged'
    BY <1>3 DEF Age, OnlyOldPurged
  <1>5. DoomedIsPrefix'
    BY <1>3 DEF Age, DoomedIsPrefix
  <1>6. QED
    BY <1>1, <1>2, <1>4, <1>5, SameChain DEF Age

\* Steps of a purger that touch neither the table nor its anchor keep the
\* invariants of everyone else.
LEMMA PurgerStep ==
    ASSUME IInv, NEW p \in Purgers, Shape',
           \A o \in Processes : o # p => phase'[o] = phase[o],
           UNCHANGED <<view, draft, log, aged>>
    PROVE  OneWriterInside' /\ DraftIsNext' /\ SnapshotsRecent'
  <1> USE DEF IInv, Shape, ChainInv
  <1>1. \A w \in Writers : phase'[w] = phase[w]
    BY ChainAssumption DEF Processes
  <1>2. OneWriterInside'
    BY <1>1 DEF OneWriterInside
  <1>3. DraftIsNext'
    <2>1. Logged' = Logged /\ HashAt(Len(log))' = HashAt(Len(log))
      BY DEF HashAt, Logged
    <2>2. QED
      BY <1>1, <2>1 DEF DraftIsNext
  <1>4. SnapshotsRecent'
    BY <1>1, ChainAssumption, SameSnapshots
  <1>5. QED
    BY <1>2, <1>3, <1>4

\* A purger only ever has rows in hand that are old.
LEMMA DiscoverStep ==
    ASSUME IInv, NEW p \in Purgers, Discover(p)
    PROVE  IInv'
  <1> USE DEF IInv, Shape, ChainInv
  <1>1. Shape'
    BY DEF Discover, Processes
  <1>2. \A o \in Processes : o # p => phase'[o] = phase[o]
    BY DEF Discover, Processes
  <1>3. OneWriterInside' /\ DraftIsNext' /\ SnapshotsRecent'
    BY <1>1, <1>2, PurgerStep DEF Discover
  <1>4. OnlyOldPurged'
    BY DEF Discover, OnlyOldPurged, Logged
  <1>7. phase'[p] = "chosen" /\ chosen'[p] \subseteq aged /\ doomed' = doomed
        /\ \A q \in Purgers : q # p => chosen'[q] = chosen[q]
    BY DEF Discover, Processes
  <1>8. DoomedIsPrefix'
    BY <1>2, <1>7 DEF DoomedIsPrefix, Discover, Processes
  <1>9. QED
    BY <1>1, <1>3, <1>4, <1>8, SameChain DEF Discover

LEMMA OrderStep ==
    ASSUME IInv, NEW p \in Purgers, Order(p)
    PROVE  IInv'
  <1> USE DEF IInv, Shape, ChainInv
  <1>1. Shape'
    BY DEF Order, Processes
  <1>2. \A o \in Processes : o # p => phase'[o] = phase[o]
    BY DEF Order, Processes
  <1>3. OneWriterInside' /\ DraftIsNext' /\ SnapshotsRecent'
    BY <1>1, <1>2, PurgerStep DEF Order
  <1>4. OnlyOldPurged'
    BY DEF Order, OnlyOldPurged, Logged
  <1>5. /\ chosen'[p] = {} /\ doomed'[p] = Prefix(rows, chosen[p])
        /\ phase'[p] = "doomed" => doomed'[p] # {}
        /\ \A q \in Purgers : q # p => chosen'[q] = chosen[q] /\ doomed'[q] = doomed[q]
    BY DEF Order, Processes
  <1>6. ASSUME NEW x \in Prefix(rows, chosen[p]), NEW y \in rows
        PROVE  x.hash \in aged /\ (y.seq <= x.seq => y \in Prefix(rows, chosen[p]))
    <2>1. x \in rows /\ \A z \in rows : z.seq <= x.seq => z.hash \in chosen[p]
      BY DEF Prefix
    <2>2. \A z \in rows : z.seq \in Nat
      BY DEF TableIsLog, LogRow
    <2>3. x.hash \in chosen[p]
      BY <2>1, <2>2
    <2>4. x.hash \in aged
      BY <2>3 DEF DoomedIsPrefix
    <2>5. ASSUME y.seq <= x.seq PROVE y \in Prefix(rows, chosen[p])
      BY <2>1, <2>2, <2>5 DEF Prefix
    <2>6. QED
      BY <2>4, <2>5
  <1>7. Prefix(rows, chosen[p]) \subseteq rows
    BY DEF Prefix
  <1>8. DoomedIsPrefix'
    BY <1>2, <1>5, <1>6, <1>7 DEF DoomedIsPrefix, Order, Processes
  <1>9. QED
    BY <1>1, <1>3, <1>4, <1>8, SameChain DEF Order

LEMMA AbandonStep ==
    ASSUME IInv, NEW p \in Purgers, Abandon(p)
    PROVE  IInv'
  <1> USE DEF IInv, Shape, ChainInv
  <1>1. Shape'
    BY DEF Abandon, Processes
  <1>2. phase'[p] = "idle" /\ \A o \in Processes : o # p => phase'[o] = phase[o]
    BY DEF Abandon, Processes
  <1>3. OneWriterInside' /\ DraftIsNext' /\ SnapshotsRecent'
    BY <1>1, <1>2, PurgerStep DEF Abandon
  <1>4. OnlyOldPurged'
    BY DEF Abandon, OnlyOldPurged, Logged
  <1>5. /\ chosen'[p] = {} /\ doomed'[p] = {}
        /\ \A q \in Purgers : q # p => chosen'[q] = chosen[q] /\ doomed'[q] = doomed[q]
    BY DEF Abandon
  <1>6. DoomedIsPrefix'
    BY <1>2, <1>5 DEF DoomedIsPrefix, Abandon, Processes
  <1>7. QED
    BY <1>1, <1>3, <1>4, <1>6, SameChain DEF Abandon

LEMMA VerifierStep ==
    ASSUME IInv, NEW v \in Verifiers, ReadRows(v) \/ Judge(v)
    PROVE  IInv'
  <1> USE DEF IInv, Shape, ChainInv
  <1>1. /\ \A o \in Writers \cup Purgers : phase'[o] = phase[o]
        /\ phase' = [o \in Processes |-> phase'[o]]
        /\ UNCHANGED <<rows, anchor, aged, view, draft, chosen, doomed, log, damaged>>
    <2>1. CASE ReadRows(v)
      BY <2>1, ChainAssumption DEF ReadRows, Processes
    <2>2. CASE Judge(v)
      <3>1. PICK verdict : phase' = [phase EXCEPT ![v] = verdict]
        BY <2>2 DEF Judge
      <3> QED
        BY <2>2, <3>1, ChainAssumption DEF Judge, Processes
    <2> QED
      BY <2>1, <2>2
  <1>2. Shape'
    BY <1>1
  <1>3. OneWriterInside' /\ OnlyOldPurged'
    BY <1>1 DEF OneWriterInside, OnlyOldPurged, Logged
  <1>4. DraftIsNext'
    <2>1. Logged' = Logged /\ HashAt(Len(log))' = HashAt(Len(log))
      BY <1>1 DEF HashAt, Logged
    <2>2. QED
      BY <1>1, <2>1 DEF DraftIsNext
  <1>5. SnapshotsRecent'
    BY <1>1, ChainAssumption, SameSnapshots
  <1>6. DoomedIsPrefix'
    BY <1>1, SamePurgers
  <1>7. QED
    BY <1>1, <1>2, <1>3, <1>4, <1>5, <1>6, SameChain

\* What a purger deletes ends at a row of the log, which becomes the anchor.
LEMMA DoomedEnd ==
    ASSUME IInv, NEW p \in Purgers, phase[p] = "doomed"
    PROVE  \E m \in anchor.seq + 1 .. Len(log) :
              /\ doomed[p] = {LogRow(k) : k \in anchor.seq + 1 .. m}
              /\ LastOf(doomed[p]) = [seq |-> m, hash |-> HashAt(m)]
  <1> USE DEF IInv, Shape, ChainInv
  <1> DEFINE D == doomed[p]
  <1>0. Len(log) \in Nat /\ anchor.seq \in Nat
    BY DEF TableIsLog
  <1>1. /\ D # {} /\ D \subseteq rows
        /\ \A x \in D, y \in rows : y.seq <= x.seq => y \in D
    BY DEF DoomedIsPrefix
  <1>2. rows = {LogRow(k) : k \in anchor.seq + 1 .. Len(log)}
    BY DEF TableIsLog
  <1>3. \A k \in Nat : LogRow(k).seq = k
    BY DEF LogRow
  <1> DEFINE S == {k \in anchor.seq + 1 .. Len(log) : LogRow(k) \in D}
  <1>4. S \subseteq 0 .. Len(log) /\ S # {}
    <2>1. PICK x \in D : TRUE
      BY <1>1
    <2>2. PICK k \in anchor.seq + 1 .. Len(log) : x = LogRow(k)
      BY <1>1, <1>2
    <2>3. k \in S
      BY <2>1, <2>2
    <2>4. QED
      BY <1>0, <2>3
  <1> HIDE DEF S
  <1>5. PICK m \in S : \A k \in S : k <= m
    BY <1>0, <1>4, Largest
  <1>6. m \in anchor.seq + 1 .. Len(log) /\ LogRow(m) \in D
    BY DEF S
  <1>7. D = {LogRow(k) : k \in anchor.seq + 1 .. m}
    <2>1. ASSUME NEW x \in D PROVE x \in {LogRow(k) : k \in anchor.seq + 1 .. m}
      <3>1. PICK k \in anchor.seq + 1 .. Len(log) : x = LogRow(k)
        BY <1>1, <1>2
      <3>2. k \in S
        BY <3>1 DEF S
      <3>3. k \in anchor.seq + 1 .. m
        BY <1>0, <1>5, <1>6, <3>2
      <3>4. QED
        BY <3>1, <3>3
    <2>2. ASSUME NEW k \in anchor.seq + 1 .. m PROVE LogRow(k) \in D
      <3>1. k \in anchor.seq + 1 .. Len(log) /\ k \in Nat /\ m \in Nat
        BY <1>0, <1>6
      <3>2. LogRow(k) \in rows /\ LogRow(k).seq <= LogRow(m).seq
        BY <1>2, <1>3, <3>1
      <3>3. QED
        BY <1>1, <1>6, <3>2
    <2>3. QED
      BY <2>1, <2>2
  <1>8. Newest(D) = {LogRow(m)}
    <2>1. anchor.seq < m /\ m \in Nat
      BY <1>0, <1>6
    <2>2. QED
      BY <1>0, <1>7, <2>1, NewestOfStretch
  <1>9. (CHOOSE x \in Newest(D) : TRUE) = LogRow(m)
    BY <1>8
  <1>10. LogRow(m).seq = m /\ LogRow(m).hash = HashAt(m)
    BY <1>0, <1>6 DEF LogRow, HashAt
  <1>11. LastOf(D) = [seq |-> m, hash |-> HashAt(m)]
    BY <1>9, <1>10 DEF LastOf
  <1>12. QED
    BY <1>6, <1>7, <1>11

\* With one deletion job the anchor moves to the end of what is deleted.
LEMMA PurgeStep ==
    ASSUME Undisturbed, IInv, NEW p \in Purgers, Purge(p)
    PROVE  IInv'
  <1> USE DEF IInv, Shape, ChainInv
  <1>0. phase[p] = "doomed" /\ Len(log) \in Nat /\ anchor.seq \in Nat
    BY DEF Purge, TableIsLog
  <1>1. PICK m \in anchor.seq + 1 .. Len(log) :
              /\ doomed[p] = {LogRow(k) : k \in anchor.seq + 1 .. m}
              /\ LastOf(doomed[p]) = [seq |-> m, hash |-> HashAt(m)]
    BY <1>0, DoomedEnd
  <1>2. Shape'
    BY DEF Purge, Processes
  <1>3. phase'[p] = "idle" /\ \A o \in Processes : o # p => phase'[o] = phase[o]
    BY DEF Purge, Processes
  <1>4. OneWriterInside' /\ DraftIsNext' /\ SnapshotsRecent'
    BY <1>2, <1>3, PurgerStep DEF Purge
  <1>5. anchor' = [seq |-> m, hash |-> HashAt(m)] /\ log' = log
    BY <1>1 DEF Purge
  <1>6. rows' = {LogRow(k) : k \in m + 1 .. Len(log)}
    <2>1. rows = {LogRow(k) : k \in anchor.seq + 1 .. Len(log)}
      BY DEF TableIsLog
    <2>2. \A k \in 1 .. Len(log) : k \in DOMAIN log /\ LogRow(k).hash = log[k]
      BY <1>0 DEF LogRow
    <2>3. rows' = {x \in rows : \A y \in doomed[p] : y.hash # x.hash}
      BY DEF Purge
    <2>4. ASSUME NEW k \in m + 1 .. Len(log) PROVE LogRow(k) \in rows'
      <3>1. k \in anchor.seq + 1 .. Len(log) /\ k \in 1 .. Len(log)
        BY <1>0
      <3>2. ASSUME NEW j \in anchor.seq + 1 .. m PROVE LogRow(j).hash # LogRow(k).hash
        <4>1. j \in 1 .. Len(log) /\ j # k
          BY <1>0
        <4>2. log[j] # log[k]
          BY <3>1, <4>1, <2>2 DEF Distinct
        <4>3. QED
          BY <2>2, <3>1, <4>1, <4>2
      <3>3. \A y \in doomed[p] : y.hash # LogRow(k).hash
        BY <1>1, <3>2
      <3>4. QED
        BY <2>1, <2>3, <3>1, <3>3
    <2>5. ASSUME NEW x \in rows' PROVE x \in {LogRow(k) : k \in m + 1 .. Len(log)}
      <3>1. PICK k \in anchor.seq + 1 .. Len(log) : x = LogRow(k)
        BY <2>1, <2>3
      <3>2. k \notin anchor.seq + 1 .. m
        BY <1>1, <2>3, <3>1
      <3>3. k \in m + 1 .. Len(log)
        BY <1>0, <3>2
      <3>4. QED
        BY <3>1, <3>3
    <2>6. QED
      BY <2>4, <2>5
  <1>7. TableIsLog'
    <2>1. anchor'.seq = m /\ m \in 0 .. Len(log)
      BY <1>0, <1>5
    <2>2. HashAt(m)' = HashAt(m) /\ \A k \in Nat : LogRow(k)' = LogRow(k)
      BY <1>5 DEF HashAt, LogRow
    <2>3. \A k \in m + 1 .. Len(log) : k \in Nat
      BY <1>0
    <2>4. rows' = {LogRow(k)' : k \in m + 1 .. Len(log)}
      BY <1>6, <2>2, <2>3
    <2>5. QED
      BY <1>5, <2>1, <2>2, <2>4 DEF TableIsLog
  <1>8. Distinct'
    BY <1>5 DEF Distinct
  <1>9. OnlyOldPurged'
    <2>1. \A k \in 1 .. m : log[k] \in aged
      <3> TAKE k \in 1 .. m
      <3>1. CASE k \in 1 .. anchor.seq
        BY <3>1 DEF OnlyOldPurged
      <3>2. CASE k \notin 1 .. anchor.seq
        <4>1. k \in anchor.seq + 1 .. m
          BY <1>0, <3>2
        <4>2. LogRow(k) \in doomed[p]
          BY <1>1, <4>1
        <4>3. LogRow(k) \in rows
          BY <4>2 DEF DoomedIsPrefix
        <4>4. LogRow(k).hash \in aged
          BY <4>2, <4>3 DEF DoomedIsPrefix
        <4>5. QED
          BY <4>4 DEF LogRow
      <3>3. QED
        BY <3>1, <3>2
    <2>2. aged' = aged /\ Logged' = Logged
      BY DEF Purge, Logged
    <2>3. QED
      BY <1>5, <2>1, <2>2 DEF OnlyOldPurged
  <1>10. DoomedIsPrefix'
    <2>1. \A q \in Purgers : q = p
      BY DEF Undisturbed
    <2>2. doomed'[p] = {} /\ chosen'[p] = chosen[p] /\ aged' = aged
      BY DEF Purge
    <2>3. QED
      BY <1>3, <2>1, <2>2 DEF DoomedIsPrefix
  <1>11. QED
    BY <1>2, <1>4, <1>7, <1>8, <1>9, <1>10

-----------------------------------------------------------------------------
(* Results.                                                                *)

LEMMA NoDamage ==
    ASSUME Undisturbed, IInv, NEW x \in rows
    PROVE  ~ Damage(x)
  BY FS_EmptySet DEF Undisturbed, IInv, Shape, Damage

LEMMA InitInv == Init => IInv
  <1> SUFFICES ASSUME Init PROVE IInv
    OBVIOUS
  <1>1. Len(log) = 0 /\ DOMAIN log = {} /\ log \in Seq(Events) /\ 1 .. 0 = {}
    BY DEF Init
  <1>2. Shape
    BY <1>1 DEF Init, Shape
  <1>3. TableIsLog
    BY <1>1 DEF Init, TableIsLog, NoAnchor, HashAt
  <1>4. Distinct /\ OneWriterInside /\ DraftIsNext /\ SnapshotsRecent
    BY <1>1, ChainAssumption
       DEF Init, Distinct, OneWriterInside, DraftIsNext, SnapshotsRecent, Processes
  <1>5. OnlyOldPurged /\ DoomedIsPrefix
    BY <1>1 DEF Init, NoAnchor, OnlyOldPurged, DoomedIsPrefix, Processes
  <1>6. QED
    BY <1>2, <1>3, <1>4, <1>5 DEF IInv, ChainInv

LEMMA StepInv ==
    ASSUME Undisturbed, IInv, [Next]_vars
    PROVE  IInv'
  <1>1. ASSUME NEW w \in Writers, Begin(w) PROVE IInv'
    BY <1>1, BeginStep
  <1>2. ASSUME NEW w \in Writers, Insert(w) PROVE IInv'
    BY <1>2, InsertStep
  <1>3. ASSUME NEW w \in Writers, Commit(w) PROVE IInv'
    BY <1>3, CommitStep
  <1>4. ASSUME NEW w \in Writers, Rollback(w) PROVE IInv'
    BY <1>4, LeaveStep DEF Rollback
  <1>5. ASSUME Age PROVE IInv'
    BY <1>5, AgeStep
  <1>6. ASSUME NEW p \in Purgers, Discover(p) PROVE IInv'
    BY <1>6, DiscoverStep
  <1>7. ASSUME NEW p \in Purgers, Order(p) PROVE IInv'
    BY <1>7, OrderStep
  <1>8. ASSUME NEW p \in Purgers, Purge(p) PROVE IInv'
    BY <1>8, PurgeStep
  <1>9. ASSUME NEW p \in Purgers, Abandon(p) PROVE IInv'
    BY <1>9, AbandonStep
  <1>10. ASSUME NEW v \in Verifiers, ReadRows(v) \/ Judge(v) PROVE IInv'
    BY <1>10, VerifierStep
  <1>11. CASE UNCHANGED vars
    <2> USE DEF IInv, ChainInv
    <2>1. Shape' /\ OneWriterInside' /\ OnlyOldPurged' /\ DoomedIsPrefix'
      BY <1>11 DEF vars, Shape, OneWriterInside, OnlyOldPurged, DoomedIsPrefix, Logged
    <2>2. DraftIsNext'
      BY <1>11 DEF vars, DraftIsNext, HashAt, Logged
    <2>3. SnapshotsRecent'
      BY <1>11, SameSnapshots DEF vars
    <2>4. QED
      BY <1>11, <2>1, <2>2, <2>3, SameChain DEF vars
  <1>12. QED
    BY <1>1, <1>2, <1>3, <1>4, <1>5, <1>6, <1>7, <1>8, <1>9, <1>10, <1>11, NoDamage
       DEF Next

\* The trigger and one deletion job at a time keep the table equal to the
\* log less a prefix, with the anchor at the cut, for every mix of
\* transactions (planeo_audit_chain, executeDeletion).
THEOREM ChainKept ==
    ASSUME Undisturbed
    PROVE  Spec => [](ChainIntact /\ ChainInv)
  <1>1. IInv => ChainIntact /\ ChainInv
    BY DEF IInv, ChainInv, ChainIntact
  <1>2. IInv /\ [Next]_vars => IInv'
    BY StepInv
  <1>3. QED
    BY <1>1, <1>2, InitInv, PTL DEF Spec

\* A step adds an event to the log, cuts a prefix off the table, or does neither.
LEMMA LogStep ==
    ASSUME Undisturbed, IInv, [Next]_vars
    PROVE  [Log!AppendEvent \/ Log!Trim]_<<log, anchor.seq>>
  <1> USE DEF Log!AppendEvent, Log!Trim
  <1>1. ASSUME NEW w \in Writers, Commit(w)
        PROVE  Log!AppendEvent
    BY <1>1 DEF Commit, IInv, ChainInv, DraftIsNext
  <1>2. ASSUME NEW p \in Purgers, Purge(p)
        PROVE  Log!Trim
    <2>1. Len(log) \in Nat /\ anchor.seq \in Nat
      BY <1>2 DEF IInv, Shape, ChainInv, TableIsLog
    <2>2. PICK m \in anchor.seq + 1 .. Len(log) :
             LastOf(doomed[p]) = [seq |-> m, hash |-> HashAt(m)]
      BY <1>2, DoomedEnd DEF Purge
    <2>3. anchor'.seq = m /\ log' = log
      BY <1>2, <2>2 DEF Purge
    <2>4. m \in anchor.seq .. Len(log)
      BY <2>1
    <2>5. QED
      BY <2>3, <2>4
  <1>3. ASSUME NEW w \in Writers, Begin(w) \/ Insert(w) \/ Rollback(w)
        PROVE  UNCHANGED <<log, anchor.seq>>
    BY <1>3 DEF Begin, Insert, Rollback
  <1>4. ASSUME NEW p \in Purgers, Discover(p) \/ Order(p) \/ Abandon(p)
        PROVE  UNCHANGED <<log, anchor.seq>>
    BY <1>4 DEF Discover, Order, Abandon
  <1>5. ASSUME NEW v \in Verifiers, ReadRows(v) \/ Judge(v)
        PROVE  UNCHANGED <<log, anchor.seq>>
    BY <1>5 DEF ReadRows, Judge
  <1>6. CASE Age \/ UNCHANGED vars
    BY <1>6 DEF Age, vars
  <1>7. QED
    BY <1>1, <1>2, <1>3, <1>4, <1>5, <1>6, NoDamage DEF Next

\* Every step of the audit trail adds one event at the end of the log, cuts
\* a prefix off it, or leaves it alone.
THEOREM ChainIsAppendOnly ==
    ASSUME Undisturbed
    PROVE  Spec => AppendOnly
  <1>1. Init => Log!LogInit
    BY DEF Init, NoAnchor, Log!LogInit
  <1>2. IInv /\ [Next]_vars
           => [Log!AppendEvent \/ Log!Trim]_<<log, anchor.seq>>
    BY LogStep
  <1>3. IInv /\ [Next]_vars => IInv'
    BY StepInv
  <1>4. QED
    BY <1>1, <1>2, <1>3, InitInv, PTL DEF Spec, AppendOnly, Log!LogSpec

-----------------------------------------------------------------------------
(* Verification.                                                           *)

\* What the table held once: a stretch of the log, of which more may have been cut off.
WasTable(rs) ==
    \E m \in 0 .. anchor.seq, n \in 0 .. Len(log) : rs = {LogRow(k) : k \in m + 1 .. n}

ReadInv ==
    /\ got = [v \in Verifiers |-> got[v]]
    /\ \A v \in Verifiers : phase[v] = "read" => WasTable(got[v])

LEMMA TableIsStretch ==
    ASSUME IInv
    PROVE  WasTable(rows)
  <1>1. log \in Seq(Events) /\ TableIsLog
    BY DEF IInv, Shape, ChainInv
  <1>2. Len(log) \in Nat /\ anchor.seq \in Nat /\ anchor.seq <= Len(log)
    BY <1>1 DEF TableIsLog
  <1>3. anchor.seq \in 0 .. anchor.seq /\ Len(log) \in 0 .. Len(log)
    BY <1>2
  <1>4. rows = {LogRow(k) : k \in anchor.seq + 1 .. Len(log)}
    BY <1>1 DEF TableIsLog
  <1>5. QED
    BY <1>3, <1>4 DEF WasTable

LEMMA StretchesStay ==
    ASSUME Undisturbed, IInv, [Next]_vars, NEW rs, WasTable(rs)
    PROVE  WasTable(rs)'
  <1>1. log \in Seq(Events) /\ Len(log) \in Nat /\ anchor.seq \in Nat
    BY DEF IInv, Shape, ChainInv, TableIsLog
  <1>2. PICK m \in 0 .. anchor.seq, n \in 0 .. Len(log) : rs = {LogRow(k) : k \in m + 1 .. n}
    BY DEF WasTable
  <1>3. /\ Len(log) <= Len(log') /\ Len(log') \in Nat
        /\ anchor.seq <= anchor'.seq /\ anchor'.seq \in Nat
        /\ \A k \in 1 .. Len(log) : LogRow(k)' = LogRow(k)
    <2>1. CASE Log!AppendEvent
      <3>1. PICK e \in Events : log' = Append(log, e)
        BY <2>1 DEF Log!AppendEvent
      <3>2. anchor'.seq = anchor.seq
        BY <2>1 DEF Log!AppendEvent
      <3>3. /\ Len(log') = Len(log) + 1
            /\ \A k \in 1 .. Len(log) : LogRow(k)' = LogRow(k)
        BY <1>1, <3>1, LogAppended
      <3>4. QED
        BY <1>1, <3>2, <3>3
    <2>2. CASE Log!Trim
      <3>1. anchor'.seq \in anchor.seq .. Len(log) /\ log' = log
        BY <2>2 DEF Log!Trim
      <3>2. QED
        BY <1>1, <3>1 DEF LogRow, HashAt
    <2>3. CASE UNCHANGED <<log, anchor.seq>>
      BY <1>1, <2>3 DEF LogRow, HashAt
    <2>4. QED
      BY <2>1, <2>2, <2>3, LogStep
  <1>4. m \in 0 .. anchor'.seq /\ n \in 0 .. Len(log')
    BY <1>1, <1>2, <1>3
  <1>5. \A k \in m + 1 .. n : LogRow(k)' = LogRow(k)
    <2>1. m + 1 .. n \subseteq 1 .. Len(log)
      BY <1>1, <1>2
    <2>2. QED
      BY <1>3, <2>1
  <1>6. rs = {LogRow(k)' : k \in m + 1 .. n}
    BY <1>2, <1>5
  <1>7. QED
    BY <1>4, <1>6 DEF WasTable

\* What a verifier does, and that nobody else does it.
LEMMA VerifierAlone ==
    ASSUME Undisturbed, IInv, ReadInv, [Next]_vars
    PROVE  /\ got' = [v \in Verifiers |-> got'[v]]
           /\ \A v \in Verifiers :
                 /\ phase'[v] = "read" => got'[v] = rows \/ (phase[v] = "read" /\ got'[v] = got[v])
                 /\ phase[v] = "read" /\ phase'[v] = "broken" => Broken(got[v], anchor) # {}
  <1>0. phase = [p \in Processes |-> phase[p]] /\ got = [v \in Verifiers |-> got[v]]
    BY DEF IInv, Shape, ReadInv
  <1>1. CASE got' = got /\ \A v \in Verifiers : phase'[v] = phase[v]
    BY <1>0, <1>1
  <1>2. ASSUME NEW w \in Writers, Begin(w) \/ Insert(w) \/ Commit(w) \/ Rollback(w)
        PROVE  got' = got /\ \A v \in Verifiers : phase'[v] = phase[v]
    <2>1. w \notin Verifiers /\ Verifiers \subseteq Processes
      BY ChainAssumption DEF Processes
    <2>2. CASE Begin(w)
      BY <1>0, <2>1, <2>2 DEF Begin
    <2>3. CASE Insert(w)
      BY <1>0, <2>1, <2>3 DEF Insert, Leave
    <2>4. CASE Commit(w) \/ Rollback(w)
      BY <1>0, <2>1, <2>4 DEF Commit, Rollback, Leave
    <2>5. QED
      BY <1>2, <2>2, <2>3, <2>4
  <1>3. ASSUME NEW p \in Purgers, Discover(p) \/ Order(p) \/ Purge(p) \/ Abandon(p)
        PROVE  got' = got /\ \A v \in Verifiers : phase'[v] = phase[v]
    <2>1. p \notin Verifiers /\ Verifiers \subseteq Processes
      BY ChainAssumption DEF Processes
    <2>2. QED
      BY <1>0, <1>3, <2>1 DEF Discover, Order, Purge, Abandon
  <1>4. CASE Age \/ UNCHANGED vars
    BY <1>1, <1>4 DEF Age, vars
  <1>5. ASSUME NEW u \in Verifiers, ReadRows(u)
        PROVE  /\ got' = [v \in Verifiers |-> got'[v]]
               /\ \A v \in Verifiers :
                     /\ phase'[v] = "read" => got'[v] = rows \/ (phase[v] = "read" /\ got'[v] = got[v])
                     /\ phase[v] = "read" /\ phase'[v] = "broken" => Broken(got[v], anchor) # {}
    <2>1. got' = [got EXCEPT ![u] = rows] /\ phase' = [phase EXCEPT ![u] = "read"]
      BY <1>5 DEF ReadRows
    <2>2. \A v \in Verifiers : v \in Processes
      BY DEF Processes
    <2>3. QED
      BY <1>0, <2>1, <2>2
  <1>6. ASSUME NEW u \in Verifiers, Judge(u)
        PROVE  /\ got' = [v \in Verifiers |-> got'[v]]
               /\ \A v \in Verifiers :
                     /\ phase'[v] = "read" => got'[v] = rows \/ (phase[v] = "read" /\ got'[v] = got[v])
                     /\ phase[v] = "read" /\ phase'[v] = "broken" => Broken(got[v], anchor) # {}
    <2>1. /\ got' = [got EXCEPT ![u] = {}]
          /\ phase' = [phase EXCEPT ![u] = IF Broken(got[u], anchor) = {} THEN "valid" ELSE "broken"]
      BY <1>6 DEF Judge
    <2>2. \A v \in Verifiers : v \in Processes
      BY DEF Processes
    <2>3. QED
      BY <1>0, <2>1, <2>2
  <1>7. QED
    BY <1>1, <1>2, <1>3, <1>4, <1>5, <1>6, NoDamage DEF Next

\* What was the table once and is still there begins at the anchor.
LEMMA StillThereVerifies ==
    ASSUME IInv, NEW rs, WasTable(rs), rs \subseteq rows
    PROVE  Broken(rs, anchor) = {}
  <1>1. TableIsLog /\ anchor.seq \in Nat /\ Len(log) \in Nat
    BY DEF IInv, Shape, ChainInv, TableIsLog
  <1>2. PICK m \in 0 .. anchor.seq, n \in 0 .. Len(log) : rs = {LogRow(k) : k \in m + 1 .. n}
    BY DEF WasTable
  <1>3. CASE rs = {}
    BY <1>3 DEF Broken
  <1>4. CASE rs # {}
    <2>1. m + 1 \in m + 1 .. n
      BY <1>1, <1>2, <1>4
    <2>2. LogRow(m + 1) \in rows
      BY <1>2, <2>1
    <2>3. PICK k \in anchor.seq + 1 .. Len(log) : LogRow(m + 1) = LogRow(k)
      BY <1>1, <2>2 DEF TableIsLog
    <2>4. m + 1 = k
      BY <2>3 DEF LogRow
    <2>5. m = anchor.seq
      BY <1>1, <1>2, <2>4
    <2>6. anchor = [seq |-> m, hash |-> HashAt(m)]
      BY <1>1, <2>5 DEF TableIsLog
    <2>7. QED
      BY <1>1, <1>2, <2>6, StretchVerifies
  <1>5. QED
    BY <1>3, <1>4

\* verifyAuditChain is right to call a chain broken, for every mix of writers and with
\* one deletion job at a time: what is stored verifies at any moment, and rows that were
\* read before a purge moved the anchor only fail if some of them are gone by now.
THEOREM VerificationIsHonest ==
    ASSUME Undisturbed
    PROVE  Spec => []ChainVerifies /\ NoFalseAlarm
  <1>1. Init => ReadInv
    BY ChainAssumption DEF Init, ReadInv, Processes
  <1>2. IInv /\ ReadInv /\ [Next]_vars => ReadInv'
    <2> SUFFICES ASSUME IInv, ReadInv, [Next]_vars PROVE ReadInv'
      OBVIOUS
    <2>1. ASSUME NEW v \in Verifiers, phase'[v] = "read" PROVE WasTable(got[v])'
      <3>1. PICK rs : rs = got'[v] /\ WasTable(rs)
        BY <2>1, VerifierAlone, TableIsStretch DEF ReadInv
      <3>2. WasTable(rs)'
        BY <3>1, StretchesStay
      <3>3. QED
        BY <3>1, <3>2 DEF WasTable
    <2>2. QED
      BY <2>1, VerifierAlone DEF ReadInv
  <1>3. IInv => ChainVerifies
    BY TableIsStretch, StillThereVerifies DEF ChainVerifies
  <1>4. IInv /\ ReadInv /\ [Next]_vars
          => [\A v \in Verifiers : phase[v] = "read" /\ phase'[v] = "broken"
                => damaged # {} \/ ~(got[v] \subseteq rows)]_vars
    <2> SUFFICES ASSUME IInv, ReadInv, [Next]_vars, NEW v \in Verifiers,
                        phase[v] = "read", phase'[v] = "broken"
                 PROVE  ~(got[v] \subseteq rows)
      OBVIOUS
    <2>1. Broken(got[v], anchor) # {}
      BY VerifierAlone
    <2>2. WasTable(got[v])
      BY DEF ReadInv
    <2>3. QED
      BY <2>1, <2>2, StillThereVerifies
  <1>5. IInv /\ [Next]_vars => IInv'
    BY StepInv
  <1>6. QED
    BY <1>1, <1>2, <1>3, <1>4, <1>5, InitInv, PTL DEF Spec, NoFalseAlarm
-----------------------------------------------------------------------------
(* Damage.                                                                 *)

\* What the trigger, the purge and damage from outside make of a row, for any number of
\* deletion jobs and whatever was damaged.
StoredRow ==
    [seq : Nat, prev : Events \cup {None}, hash : Events, altered : BOOLEAN]
Place == [seq : Nat, hash : Events \cup {None}]

\* A set of rows with a newest one, if there is any.
Table(rs) == rs \subseteq StoredRow /\ \E n \in Nat : \A x \in rs : x.seq <= n

\* Rows that were in the table at some time and may still matter.
Known == rows \cup damaged \cup UNION {doomed[p] : p \in Purgers}

DamageTypes ==
    /\ log \in Seq(Events)
    /\ phase = [p \in Processes |-> phase[p]]
    /\ view = [w \in Writers |-> view[w]]
    /\ draft = [w \in Writers |-> draft[w]]
    /\ doomed = [p \in Purgers |-> doomed[p]]
    /\ anchor \in Place
    /\ Table(rows)
    /\ damaged \subseteq StoredRow
    /\ \A p \in Purgers : Table(doomed[p]) /\ (phase[p] = "doomed" => doomed[p] # {})
    /\ \A w \in Writers : Table(view[w].rows) /\ view[w].anchor \in Place

\* A digest stands for one place: rows with the same one have the same number, and so has
\* the anchor; no event that is not in the log has been seen.
OnePlace ==
    /\ anchor.hash \in Logged \cup {None}
    /\ \A x \in Known : x.hash \in Logged /\ (anchor.hash = x.hash => anchor.seq = x.seq)
    /\ \A x, y \in Known : x.hash = y.hash => x.seq = y.seq

OneRow == \A x, y \in rows : x.hash = y.hash => x = y

\* What a writer has inserted is new.
DraftIsNew ==
    \A w \in Writers : phase[w] = "inserted" =>
        /\ draft[w] \in StoredRow /\ ~draft[w].altered /\ draft[w].hash \notin Logged

\* A damaged row is gone or altered.
DamageStays == \A x \in damaged, y \in rows : y.hash = x.hash => y.altered

DamageInv == DamageTypes /\ OnePlace /\ OneRow /\ OneWriterInside /\ DraftIsNew /\ DamageStays

LEMMA TablePart ==
    ASSUME NEW rs, Table(rs), NEW part \in SUBSET rs
    PROVE  Table(part)
  BY DEF Table

LEMMA TableWith ==
    ASSUME NEW rs, Table(rs), NEW x \in StoredRow
    PROVE  Table(rs \cup {x})
  <1>1. PICK n \in Nat : \A y \in rs : y.seq <= n
    BY DEF Table
  <1>2. x.seq \in Nat /\ \A y \in rs : y.seq \in Nat
    BY DEF Table, StoredRow
  <1>3. CASE x.seq <= n
    BY <1>1, <1>3 DEF Table
  <1>4. CASE n <= x.seq
    <2>1. \A y \in rs : y.seq <= x.seq
      BY <1>1, <1>2, <1>4
    <2>2. QED
      BY <1>2, <2>1 DEF Table
  <1>5. QED
    BY <1>2, <1>3, <1>4

LEMMA TableNewest ==
    ASSUME NEW rs, Table(rs), rs # {}
    PROVE  /\ (CHOOSE x \in Newest(rs) : TRUE) \in rs
           /\ (CHOOSE x \in Newest(rs) : TRUE) \in StoredRow
           /\ (CHOOSE x \in Newest(rs) : TRUE).seq \in Nat
           /\ (CHOOSE x \in Newest(rs) : TRUE).hash \in Events
  <1>1. PICK n \in Nat : \A y \in rs : y.seq <= n
    BY DEF Table
  <1> DEFINE S == {y.seq : y \in rs}
  <1>2. S \subseteq 0 .. n /\ S # {}
    BY <1>1 DEF Table, StoredRow
  <1>3. PICK m \in S : \A k \in S : k <= m
    BY <1>2, Largest
  <1>4. PICK z \in rs : z.seq = m
    BY <1>3
  <1>5. z \in Newest(rs)
    BY <1>3, <1>4 DEF Newest
  <1>6. PICK c : c = CHOOSE x \in Newest(rs) : TRUE
    OBVIOUS
  <1>7. c \in Newest(rs)
    BY <1>5, <1>6
  <1>8. c \in rs /\ c \in StoredRow
    BY <1>7 DEF Newest, Table
  <1>9. QED
    BY <1>6, <1>8 DEF StoredRow

LEMMA TableEnd ==
    ASSUME NEW rs, Table(rs), NEW a \in Place
    PROVE  /\ ChainEnd(rs, a).seq \in Nat /\ ChainEnd(rs, a).hash \in Events \cup {None}
           /\ rs # {} => \E x \in rs : x.hash = ChainEnd(rs, a).hash
  <1>1. CASE rs = {}
    BY <1>1 DEF ChainEnd, Place
  <1>2. CASE rs # {}
    <2>1. PICK c : c = CHOOSE x \in Newest(rs) : TRUE
      OBVIOUS
    <2>2. c \in rs /\ c.seq \in Nat /\ c.hash \in Events
      BY <1>2, <2>1, TableNewest
    <2>3. ChainEnd(rs, a) = [seq |-> c.seq, hash |-> c.hash]
      BY <1>2, <2>1 DEF ChainEnd
    <2>4. QED
      BY <2>2, <2>3
  <1>3. QED
    BY <1>1, <1>2

\* The numbers of what is known stay when nothing but copies is added, and when the anchor
\* is put at the place of a known row.
LEMMA PlacesStay ==
    ASSUME OnePlace, Logged \subseteq Logged',
           \A y \in Known' : \E x \in Known : x.hash = y.hash /\ x.seq = y.seq,
           anchor' = anchor \/ \E x \in Known : anchor'.hash = x.hash /\ anchor'.seq = x.seq
    PROVE  OnePlace'
  <1>1. \A y \in Known' : y.hash \in Logged'
    BY DEF OnePlace
  <1>2. \A y \in Known' : anchor'.hash = y.hash => anchor'.seq = y.seq
    BY DEF OnePlace
  <1>3. \A x, y \in Known' : x.hash = y.hash => x.seq = y.seq
    BY DEF OnePlace
  <1>4. anchor'.hash \in Logged' \cup {None}
    BY DEF OnePlace
  <1>5. QED
    BY <1>1, <1>2, <1>3, <1>4 DEF OnePlace

LEMMA DamageInit ==
    Init => DamageInv
  <1> SUFFICES ASSUME Init PROVE DamageInv
    OBVIOUS
  <1>1. Table({})
    BY DEF Table
  <1>2. NoAnchor \in Place
    BY DEF NoAnchor, Place
  <1>3. /\ rows = {} /\ damaged = {} /\ anchor = NoAnchor /\ log = <<>>
        /\ \A p \in Purgers : doomed[p] = {} /\ phase[p] = "idle"
        /\ \A w \in Writers : view[w] = NoView /\ phase[w] = "idle"
    BY DEF Init, Processes
  <1>4. NoView.rows = {} /\ NoView.anchor = NoAnchor
    BY DEF NoView
  <1>5. DamageTypes
    <2>1. /\ log \in Seq(Events)
          /\ phase = [p \in Processes |-> phase[p]]
          /\ view = [w \in Writers |-> view[w]]
          /\ draft = [w \in Writers |-> draft[w]]
          /\ doomed = [p \in Purgers |-> doomed[p]]
      BY DEF Init
    <2>2. QED
      BY <1>1, <1>2, <1>3, <1>4, <2>1 DEF DamageTypes
  <1>6. Known = {} /\ anchor.hash = None
    BY <1>3 DEF Known, NoAnchor
  <1>7. QED
    BY <1>3, <1>5, <1>6 DEF DamageInv, OnePlace, OneRow, OneWriterInside, DraftIsNew, DamageStays

\* Steps that leave the tables alone: what is still to be said is about the writers.
LEMMA DamageQuiet ==
    ASSUME DamageInv, UNCHANGED <<rows, anchor, log, damaged>>,
           \A p \in Purgers : doomed'[p] \subseteq rows \/ doomed'[p] = doomed[p],
           DamageTypes', OneWriterInside',
           \A w \in Writers : phase'[w] = "inserted" => phase[w] = "inserted" /\ draft'[w] = draft[w]
    PROVE  DamageInv'
  <1>1. Logged' = Logged
    BY DEF Logged
  <1>2. Known' \subseteq Known
    BY DEF Known
  <1>3. OnePlace'
    BY <1>1, <1>2, PlacesStay DEF DamageInv
  <1>4. QED
    BY <1>1, <1>3 DEF DamageInv, OneRow, DraftIsNew, DamageStays

LEMMA DamageLeave ==
    ASSUME DamageInv, NEW w \in Writers, Leave(w), UNCHANGED <<rows, anchor, log, damaged, doomed>>
    PROVE  DamageInv'
  <1>1. DamageTypes /\ OneWriterInside
    BY DEF DamageInv
  <1>2. \A p \in Processes : p # w => phase'[p] = phase[p]
    BY <1>1 DEF Leave, DamageTypes
  <1>3. phase'[w] = "idle" /\ phase' = [p \in Processes |-> phase'[p]]
    BY <1>1 DEF Leave, DamageTypes, Processes
  <1>4. \A o \in Writers : o # w => view'[o] = view[o] /\ draft'[o] = draft[o]
    BY <1>1 DEF Leave, DamageTypes
  <1>5. view'[w] = NoView /\ view' = [o \in Writers |-> view'[o]] /\ draft' = [o \in Writers |-> draft'[o]]
    BY <1>1 DEF Leave, DamageTypes
  <1>6. \A p \in Purgers : phase'[p] = phase[p]
    BY <1>2, ChainAssumption DEF Processes
  <1>7. \A o \in Writers : phase'[o] = "inserted" =>
            phase[o] = "inserted" /\ draft'[o] = draft[o] /\ o # w
    BY <1>2, <1>3, <1>4 DEF Processes
  <1>8. Table(NoView.rows) /\ NoView.anchor \in Place
    BY DEF NoView, NoAnchor, Place, Table
  <1>9. DamageTypes'
    BY <1>1, <1>3, <1>4, <1>5, <1>6, <1>8 DEF DamageTypes, Table
  <1>10. OneWriterInside'
    BY <1>1, <1>7 DEF OneWriterInside
  <1>11. QED
    BY <1>7, <1>9, <1>10, DamageQuiet

LEMMA DamageBegin ==
    ASSUME DamageInv, NEW w \in Writers, Begin(w)
    PROVE  DamageInv'
  <1>1. DamageTypes /\ OneWriterInside
    BY DEF DamageInv
  <1>2. UNCHANGED <<rows, anchor, log, damaged, doomed, draft>>
    BY DEF Begin
  <1>3. \A p \in Processes : p # w => phase'[p] = phase[p]
    BY <1>1 DEF Begin, DamageTypes
  <1>4. phase'[w] = "begun" /\ phase' = [p \in Processes |-> phase'[p]]
    BY <1>1 DEF Begin, DamageTypes, Processes
  <1>5. view' = [o \in Writers |-> view'[o]] /\ \A o \in Writers : o # w => view'[o] = view[o]
    BY <1>1 DEF Begin, DamageTypes
  <1>6. Table(view'[w].rows) /\ view'[w].anchor \in Place
    <2>1. Table({}) /\ NoAnchor \in Place
      BY DEF NoAnchor, Place, Table
    <2>2. CASE w \in SnapshotWriters
      <3>1. view'[w].rows = rows /\ view'[w].anchor = anchor
        BY <1>1, <2>2 DEF Begin, DamageTypes
      <3>2. QED
        BY <1>1, <3>1 DEF DamageTypes
    <2>3. CASE w \notin SnapshotWriters
      <3>1. view'[w].rows = {} /\ view'[w].anchor = NoAnchor
        BY <1>1, <2>3 DEF Begin, DamageTypes, NoView
      <3>2. QED
        BY <2>1, <3>1
    <2>4. QED
      BY <2>2, <2>3
  <1>7. \A p \in Purgers : phase'[p] = phase[p]
    BY <1>3, ChainAssumption DEF Processes
  <1>8. \A o \in Writers : phase'[o] = "inserted" => phase[o] = "inserted"
    BY <1>3, <1>4 DEF Processes
  <1>9. DamageTypes'
    BY <1>1, <1>2, <1>4, <1>5, <1>6, <1>7 DEF DamageTypes, Table
  <1>10. OneWriterInside'
    BY <1>1, <1>8 DEF OneWriterInside
  <1>11. QED
    BY <1>2, <1>8, <1>9, <1>10, DamageQuiet

\* The lock lets one writer in, and the row it builds continues what it sees.
LEMMA DamageInsert ==
    ASSUME DamageInv, NEW w \in Writers, Insert(w)
    PROVE  DamageInv'
  <1> DEFINE end == ChainEnd(Seen(w).rows, Seen(w).anchor)
  <1>1. CASE \E x \in rows : x.seq = end.seq + 1
    BY <1>1, DamageLeave DEF Insert
  <1>2. CASE ~ \E x \in rows : x.seq = end.seq + 1
    <2>1. DamageTypes /\ OneWriterInside
      BY DEF DamageInv
    <2>2. end.seq \in Nat /\ end.hash \in Events \cup {None}
      <3>1. Table(Seen(w).rows) /\ Seen(w).anchor \in Place
        BY <2>1 DEF Seen, DamageTypes
      <3>2. QED
        BY <3>1, TableEnd
    <2>3. PICK e \in Events \ Logged :
              draft' = [draft EXCEPT ![w] = [seq |-> end.seq + 1, prev |-> end.hash,
                                             hash |-> e, altered |-> FALSE]]
      BY <1>2 DEF Insert
    <2>4. /\ phase' = [phase EXCEPT ![w] = "inserted"]
          /\ UNCHANGED <<rows, anchor, view, doomed, log, damaged>>
      BY <1>2 DEF Insert
    <2>5. phase' = [p \in Processes |-> phase'[p]] /\ phase'[w] = "inserted"
      BY <2>1, <2>4 DEF DamageTypes, Processes
    <2>6. \A p \in Processes : p # w => phase'[p] = phase[p]
      BY <2>1, <2>4 DEF DamageTypes
    <2>7. \A o \in Writers : phase[o] # "inserted"
      BY DEF Insert, LockFree
    <2>8. \A o \in Writers : phase'[o] = "inserted" => o = w
      BY <2>6, <2>7 DEF Processes
    <2>9. PICK s \in Nat, h \in Events \cup {None} : s = end.seq + 1 /\ h = end.hash
      BY <2>2
    <2>10. /\ draft' = [o \in Writers |-> draft'[o]]
           /\ draft'[w] = [seq |-> s, prev |-> h, hash |-> e, altered |-> FALSE]
      BY <2>1, <2>3, <2>9 DEF DamageTypes
    <2>11. draft'[w] \in StoredRow /\ ~draft'[w].altered /\ draft'[w].hash = e
      BY <2>10 DEF StoredRow
    <2>12. \A p \in Purgers : phase'[p] = phase[p]
      BY <2>6, ChainAssumption DEF Processes
    <2>13. DamageTypes'
      BY <2>1, <2>4, <2>5, <2>10, <2>12 DEF DamageTypes, Table
    <2>14. OneWriterInside'
      BY <2>8 DEF OneWriterInside
    <2>15. Logged' = Logged /\ Known' = Known
      BY <2>4 DEF Logged, Known
    <2>16. DraftIsNew'
      BY <2>8, <2>11, <2>15 DEF DraftIsNew
    <2>17. OnePlace'
      BY <2>4, <2>15, PlacesStay DEF DamageInv
    <2>18. QED
      BY <2>4, <2>13, <2>14, <2>16, <2>17 DEF DamageInv, OneRow, DamageStays
  <1>3. QED
    BY <1>1, <1>2

\* A committed row is like none that was in the table before.
LEMMA DamageCommit ==
    ASSUME DamageInv, NEW w \in Writers, Commit(w)
    PROVE  DamageInv'
  <1>1. /\ DamageTypes /\ OnePlace /\ OneRow /\ OneWriterInside /\ DraftIsNew /\ DamageStays
    BY DEF DamageInv
  <1>2. /\ phase[w] = "inserted" /\ rows' = rows \cup {draft[w]}
        /\ log' = Append(log, draft[w].hash) /\ UNCHANGED <<anchor, damaged, doomed>>
    BY DEF Commit
  <1>3. PICK d \in StoredRow : d = draft[w]
    BY <1>1, <1>2 DEF DraftIsNew
  <1>4. ~d.altered /\ d.hash \in Events /\ d.hash \notin Logged /\ d.hash # None
    BY <1>1, <1>2, <1>3, ChainAssumption DEF DraftIsNew, StoredRow
  <1>5. log' \in Seq(Events) /\ Logged' = Logged \cup {d.hash}
    BY <1>1, <1>2, <1>3, <1>4, LogAppended DEF DamageTypes
  <1>6. \A p \in Processes : p # w => phase'[p] = phase[p]
    BY <1>1 DEF Commit, Leave, DamageTypes
  <1>7. phase'[w] = "idle" /\ phase' = [p \in Processes |-> phase'[p]]
    BY <1>1 DEF Commit, Leave, DamageTypes, Processes
  <1>8. \A o \in Writers : o # w => view'[o] = view[o]
    BY <1>1 DEF Commit, Leave, DamageTypes
  <1>9. view'[w] = NoView /\ view' = [o \in Writers |-> view'[o]] /\ draft' = [o \in Writers |-> draft'[o]]
    BY <1>1 DEF Commit, Leave, DamageTypes
  <1>10. \A p \in Purgers : phase'[p] = phase[p]
    BY <1>6, ChainAssumption DEF Processes
  <1>11. \A o \in Writers : phase'[o] # "inserted"
    BY <1>1, <1>2, <1>6, <1>7 DEF OneWriterInside, Processes
  <1>12. Table(NoView.rows) /\ NoView.anchor \in Place
    BY DEF NoView, NoAnchor, Place, Table
  <1>13. Table(rows')
    BY <1>1, <1>2, <1>3, TableWith DEF DamageTypes
  <1>14. DamageTypes'
    <2>1. \A o \in Writers : Table(view'[o].rows) /\ view'[o].anchor \in Place
      BY <1>1, <1>8, <1>9, <1>12 DEF DamageTypes
    <2>2. \A p \in Purgers : Table(doomed'[p]) /\ (phase'[p] = "doomed" => doomed'[p] # {})
      BY <1>1, <1>2, <1>10 DEF DamageTypes
    <2>3. QED
      BY <1>1, <1>2, <1>5, <1>7, <1>9, <1>13, <2>1, <2>2 DEF DamageTypes, Table
  <1>15. Known' = Known \cup {d}
    BY <1>2, <1>3 DEF Known
  <1>16. \A x \in Known : x.hash # d.hash
    BY <1>1, <1>4 DEF OnePlace
  <1>17. rows \subseteq Known /\ damaged \subseteq Known
    BY DEF Known
  <1>18. OnePlace'
    <2>1. anchor'.hash \in Logged' \cup {None} /\ anchor.hash # d.hash
      BY <1>1, <1>2, <1>4, <1>5 DEF OnePlace
    <2>2. \A x \in Known' : x.hash \in Logged' /\ (anchor'.hash = x.hash => anchor'.seq = x.seq)
      BY <1>1, <1>2, <1>5, <1>15, <2>1 DEF OnePlace
    <2>3. \A x, y \in Known' : x.hash = y.hash => x.seq = y.seq
      BY <1>1, <1>15, <1>16 DEF OnePlace
    <2>4. QED
      BY <2>1, <2>2, <2>3 DEF OnePlace
  <1>19. OneRow'
    BY <1>1, <1>2, <1>3, <1>16, <1>17 DEF OneRow
  <1>20. DamageStays'
    BY <1>1, <1>2, <1>3, <1>16, <1>17 DEF DamageStays
  <1>21. OneWriterInside' /\ DraftIsNew'
    BY <1>11 DEF OneWriterInside, DraftIsNew
  <1>22. QED
    BY <1>14, <1>18, <1>19, <1>20, <1>21 DEF DamageInv

\* What a purger does before its transaction changes nothing that was stored.
LEMMA DamageChoosing ==
    ASSUME DamageInv, NEW p \in Purgers, Discover(p) \/ Order(p) \/ Abandon(p)
    PROVE  DamageInv'
  <1>1. DamageTypes /\ OneWriterInside
    BY DEF DamageInv
  <1>2. UNCHANGED <<rows, anchor, log, damaged, view, draft>>
    BY DEF Discover, Order, Abandon
  <1>3. \A o \in Writers : phase'[o] = phase[o]
    BY <1>1, ChainAssumption DEF DamageTypes, Discover, Order, Abandon, Processes
  <1>4. phase' = [o \in Processes |-> phase'[o]] /\ doomed' = [q \in Purgers |-> doomed'[q]]
    BY <1>1 DEF DamageTypes, Discover, Order, Abandon
  <1>5. \A q \in Purgers : q # p => phase'[q] = phase[q] /\ doomed'[q] = doomed[q]
    BY <1>1 DEF DamageTypes, Discover, Order, Abandon, Processes
  <1>6. /\ Table(doomed'[p]) /\ (phase'[p] = "doomed" => doomed'[p] # {})
        /\ doomed'[p] \subseteq rows \/ doomed'[p] = doomed[p]
    <2>1. CASE Discover(p)
      BY <1>1, <2>1 DEF DamageTypes, Discover, Processes
    <2>2. CASE Order(p)
      <3>1. doomed'[p] = Prefix(rows, chosen[p])
        BY <1>1, <2>2 DEF DamageTypes, Order
      <3>2. phase'[p] = "doomed" => Prefix(rows, chosen[p]) # {}
        BY <1>1, <2>2 DEF DamageTypes, Order, Processes
      <3>3. Prefix(rows, chosen[p]) \in SUBSET rows
        BY DEF Prefix
      <3>4. QED
        BY <1>1, <3>1, <3>2, <3>3, TablePart DEF DamageTypes
    <2>3. CASE Abandon(p)
      <3>1. doomed'[p] = {} /\ phase'[p] = "idle"
        BY <1>1, <2>3 DEF DamageTypes, Abandon, Processes
      <3>2. Table({})
        BY DEF Table
      <3>3. QED
        BY <3>1, <3>2
    <2>4. QED
      BY <2>1, <2>2, <2>3
  <1>7. DamageTypes'
    <2>1. \A q \in Purgers : Table(doomed'[q]) /\ (phase'[q] = "doomed" => doomed'[q] # {})
      BY <1>1, <1>5, <1>6 DEF DamageTypes
    <2>2. QED
      BY <1>1, <1>2, <1>4, <2>1 DEF DamageTypes, Table
  <1>8. OneWriterInside'
    BY <1>1, <1>3 DEF OneWriterInside
  <1>9. QED
    BY <1>2, <1>3, <1>5, <1>6, <1>7, <1>8, DamageQuiet

\* The purge puts the anchor at the place of the newest row it deletes.
LEMMA DamagePurge ==
    ASSUME DamageInv, NEW p \in Purgers, Purge(p)
    PROVE  DamageInv'
  <1>1. /\ DamageTypes /\ OnePlace /\ OneRow /\ OneWriterInside /\ DraftIsNew /\ DamageStays
    BY DEF DamageInv
  <1>2. /\ UNCHANGED <<log, damaged, view, draft>> /\ phase[p] = "doomed"
        /\ anchor' = LastOf(doomed[p]) /\ rows' \subseteq rows
    BY DEF Purge
  <1>3. PICK c : c = CHOOSE x \in Newest(doomed[p]) : TRUE
    OBVIOUS
  <1>4. c \in doomed[p] /\ c.seq \in Nat /\ c.hash \in Events
    BY <1>1, <1>2, <1>3, TableNewest DEF DamageTypes
  <1>5. anchor' = [seq |-> c.seq, hash |-> c.hash]
    BY <1>2, <1>3 DEF LastOf
  <1>6. anchor' \in Place /\ anchor'.hash = c.hash /\ anchor'.seq = c.seq
    BY <1>4, <1>5 DEF Place
  <1>7. c \in Known
    BY <1>4 DEF Known
  <1>8. \A o \in Writers : phase'[o] = phase[o]
    BY <1>1, ChainAssumption DEF DamageTypes, Purge, Processes
  <1>9. /\ phase' = [o \in Processes |-> phase'[o]] /\ doomed' = [q \in Purgers |-> doomed'[q]]
        /\ doomed'[p] = {} /\ phase'[p] = "idle"
    BY <1>1 DEF DamageTypes, Purge, Processes
  <1>10. \A q \in Purgers : q # p => phase'[q] = phase[q] /\ doomed'[q] = doomed[q]
    BY <1>1 DEF DamageTypes, Purge, Processes
  <1>11. Known' \subseteq Known
    <2>1. \A q \in Purgers : doomed'[q] \subseteq doomed[q]
      BY <1>9, <1>10
    <2>2. QED
      BY <1>2, <2>1 DEF Known
  <1>12. Logged' = Logged
    BY <1>2 DEF Logged
  <1>13. OnePlace'
    BY <1>1, <1>6, <1>7, <1>11, <1>12, PlacesStay
  <1>14. DamageTypes'
    <2>1. Table({}) /\ Table(rows')
      BY <1>1, <1>2, TablePart DEF DamageTypes, Table
    <2>2. \A q \in Purgers : Table(doomed'[q]) /\ (phase'[q] = "doomed" => doomed'[q] # {})
      BY <1>1, <1>9, <1>10, <2>1 DEF DamageTypes
    <2>3. QED
      BY <1>1, <1>2, <1>6, <1>9, <2>1, <2>2 DEF DamageTypes, Table
  <1>15. OneRow' /\ DamageStays' /\ OneWriterInside' /\ DraftIsNew'
    BY <1>1, <1>2, <1>8, <1>12 DEF OneRow, DamageStays, OneWriterInside, DraftIsNew
  <1>16. QED
    BY <1>13, <1>14, <1>15 DEF DamageInv

\* A lost row is gone for good; an altered one keeps its number and its stored digest.
LEMMA DamageDone ==
    ASSUME DamageInv, NEW x \in rows, Damage(x)
    PROVE  DamageInv'
  <1>1. /\ DamageTypes /\ OnePlace /\ OneRow /\ OneWriterInside /\ DraftIsNew /\ DamageStays
    BY DEF DamageInv
  <1>2. UNCHANGED <<anchor, phase, view, draft, doomed, log>> /\ damaged' = damaged \cup {x}
    BY DEF Damage, Lose, Alter
  <1>3. x \in StoredRow
    BY <1>1 DEF DamageTypes, Table
  <1>4. PICK y \in StoredRow :
            /\ y = [x EXCEPT !.altered = TRUE]
            /\ y.hash = x.hash /\ y.seq = x.seq /\ y.altered
    <2>1. /\ [x EXCEPT !.altered = TRUE] \in StoredRow
          /\ [x EXCEPT !.altered = TRUE].hash = x.hash
          /\ [x EXCEPT !.altered = TRUE].seq = x.seq
          /\ [x EXCEPT !.altered = TRUE].altered
      BY <1>3 DEF StoredRow
    <2>2. QED
      BY <2>1
  <1>5. rows' = rows \ {x} \/ rows' = (rows \ {x}) \cup {y}
    BY <1>4 DEF Damage, Lose, Alter
  <1>6. \A z \in rows' : (z \in rows /\ z # x) \/ z = y
    BY <1>5
  <1>7. \A z \in Known' : \E o \in Known : o.hash = z.hash /\ o.seq = z.seq
    BY <1>2, <1>4, <1>6 DEF Known
  <1>8. Logged' = Logged
    BY <1>2 DEF Logged
  <1>9. OnePlace'
    BY <1>1, <1>2, <1>7, <1>8, PlacesStay
  <1>10. DamageTypes'
    <2>1. Table(rows \ {x})
      BY <1>1, TablePart DEF DamageTypes
    <2>2. Table(rows')
      <3>1. CASE rows' = rows \ {x}
        BY <2>1, <3>1
      <3>2. CASE rows' = (rows \ {x}) \cup {y}
        <4>1. Table((rows \ {x}) \cup {y})
          BY <2>1, TableWith
        <4>2. QED
          BY <3>2, <4>1
      <3>3. QED
        BY <1>5, <3>1, <3>2
    <2>3. QED
      BY <1>1, <1>2, <1>3, <2>2 DEF DamageTypes, Table
  <1>11. OneRow'
    <2> SUFFICES ASSUME NEW a \in rows', NEW b \in rows', a.hash = b.hash PROVE a = b
      BY DEF OneRow
    <2>1. \A z \in rows : z.hash = y.hash => z = x
      BY <1>1, <1>4 DEF OneRow
    <2>2. CASE a = y \/ b = y
      BY <1>6, <2>1, <2>2
    <2>3. CASE a # y /\ b # y
      BY <1>1, <1>6, <2>3 DEF OneRow
    <2>4. QED
      BY <2>2, <2>3
  <1>12. DamageStays'
    BY <1>1, <1>2, <1>4, <1>6 DEF OneRow, DamageStays
  <1>13. OneWriterInside' /\ DraftIsNew'
    BY <1>1, <1>2, <1>8 DEF OneWriterInside, DraftIsNew
  <1>14. QED
    BY <1>9, <1>10, <1>11, <1>12, <1>13 DEF DamageInv

LEMMA DamageVerifier ==
    ASSUME DamageInv, NEW v \in Verifiers, ReadRows(v) \/ Judge(v)
    PROVE  DamageInv'
  <1>1. DamageTypes /\ OneWriterInside
    BY DEF DamageInv
  <1>2. UNCHANGED <<rows, anchor, log, damaged, view, draft, doomed>>
    BY DEF ReadRows, Judge
  <1>3. \A p \in Writers \cup Purgers : phase'[p] = phase[p]
    BY <1>1, ChainAssumption DEF DamageTypes, ReadRows, Judge, Processes
  <1>4. phase' = [p \in Processes |-> phase'[p]]
    BY <1>1 DEF DamageTypes, ReadRows, Judge
  <1>5. DamageTypes' /\ OneWriterInside'
    BY <1>1, <1>2, <1>3, <1>4 DEF DamageTypes, OneWriterInside, Table
  <1>6. QED
    BY <1>2, <1>3, <1>5, DamageQuiet

LEMMA DamageSame ==
    ASSUME DamageInv, UNCHANGED <<rows, anchor, phase, view, draft, doomed, log, damaged>>
    PROVE  DamageInv'
  <1>1. DamageTypes' /\ OneWriterInside'
    BY DEF DamageInv, DamageTypes, OneWriterInside, Table
  <1>2. QED
    BY <1>1, DamageQuiet

LEMMA DamageStep ==
    DamageInv /\ [Next]_vars => DamageInv'
  <1> SUFFICES ASSUME DamageInv, [Next]_vars PROVE DamageInv'
    OBVIOUS
  <1>1. CASE \E w \in Writers : Begin(w) \/ Insert(w) \/ Commit(w) \/ Rollback(w)
    <2>1. PICK w \in Writers : Begin(w) \/ Insert(w) \/ Commit(w) \/ Rollback(w)
      BY <1>1
    <2>2. CASE Rollback(w)
      BY <2>2, DamageLeave DEF Rollback
    <2>3. QED
      BY <2>1, <2>2, DamageBegin, DamageInsert, DamageCommit
  <1>2. CASE Age \/ UNCHANGED vars
    BY <1>2, DamageSame DEF Age, vars
  <1>3. CASE \E p \in Purgers : Discover(p) \/ Order(p) \/ Purge(p) \/ Abandon(p)
    BY <1>3, DamageChoosing, DamagePurge
  <1>4. CASE \E v \in Verifiers : ReadRows(v) \/ Judge(v)
    BY <1>4, DamageVerifier
  <1>5. CASE \E x \in rows : Damage(x)
    BY <1>5, DamageDone
  <1>6. QED
    BY <1>1, <1>2, <1>3, <1>4, <1>5 DEF Next

\* The row after the lost one points to a digest that the row before it does not have, or
\* has in a row that was altered.
LEMMA DamageShows ==
    DamageInv => InnerDamageVisible
  <1> SUFFICES ASSUME DamageInv, NEW x \in damaged, NEW y \in rows,
                      y.prev = x.hash \/ y.hash = x.hash, x.seq > anchor.seq
               PROVE  Broken(rows, anchor) # {}
    BY DEF InnerDamageVisible, Anchored
  <1>1. DamageTypes /\ OnePlace /\ DamageStays /\ x \in Known
    BY DEF DamageInv, Known
  <1>2. \A z \in rows : z.hash = x.hash => z \in Broken(rows, anchor)
    BY <1>1 DEF DamageStays, Broken
  <1>3. CASE y.hash = x.hash
    BY <1>2, <1>3
  <1>4. CASE y.prev = x.hash
    <2> DEFINE earlier == Before(y, rows)
               end     == ChainEnd(earlier, anchor)
    <2>1. CASE y.prev # end.hash
      BY <2>1 DEF Broken
    <2>2. CASE y.prev = end.hash /\ earlier = {}
      <3>1. anchor.hash = x.hash
        BY <1>4, <2>2 DEF ChainEnd
      <3>2. anchor.seq = x.seq
        BY <1>1, <3>1 DEF OnePlace
      <3>3. anchor.seq \in Nat
        BY <1>1 DEF DamageTypes, Place
      <3>4. QED
        BY <3>2, <3>3
    <2>3. CASE y.prev = end.hash /\ earlier # {}
      <3>1. earlier \in SUBSET rows
        BY DEF Before
      <3>2. Table(earlier) /\ anchor \in Place
        BY <1>1, <3>1, TablePart DEF DamageTypes
      <3>3. \E z \in earlier : z.hash = end.hash
        <4> HIDE DEF earlier
        <4>1. QED
          BY <2>3, <3>2, TableEnd
      <3>4. QED
        BY <1>2, <1>4, <2>3, <3>1, <3>3
    <2>4. QED
      BY <2>1, <2>2, <2>3
  <1>5. QED
    BY <1>3, <1>4

\* However many events are damaged, writers and deletion jobs there are: a row that was
\* altered, or lost from before another one, makes verifyAuditChain report a broken chain
\* until a purge has gone past its place (src/lib/audit.ts).
THEOREM DamageIsSeen ==
    Spec => []InnerDamageVisible
  <1>1. Spec => []DamageInv
    BY DamageInit, DamageStep, PTL DEF Spec
  <1>2. QED
    BY <1>1, DamageShows, PTL
=============================================================================
