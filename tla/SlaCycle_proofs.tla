-------------------------- MODULE SlaCycle_proofs --------------------------
(***************************************************************************)
(* Proofs about the service level targets.  The invariant SlaInv says of   *)
(* every cycle which signals it has taken in and that its stopwatch is     *)
(* exact for those; the worker's replay of a batch carries the same        *)
(* statement from signal to signal.                                        *)
(***************************************************************************)
EXTENDS SlaCycle, FiniteSetTheorems, SequenceTheorems, WellFoundedInduction, TLAPS

------------------------------------------------------------------------------
(* Types.                                                                  *)

GoalPosition == UNION {1..Len(Catalog[e]) : e \in DOMAIN Catalog}
PositionedGoals == UNION {[K -> Version] : K \in SUBSET GoalPosition}

SignalRow == [at : Nat, goals : PositionedGoals, processed : BOOLEAN, payload : Payload]

CycleState == {"RUNNING", "PAUSED", "RESET", "MET", "STOPPED"}

CycleRow ==
  [goal : Version, started : Nat, last : Nat, elapsed : Nat, paused : SUBSET Reasons,
   state : CycleState, ended : Nat \cup {None}, risk : Nat \cup {None},
   breached : Nat \cup {None}, from : Nat]

Reading == [phase : {"read"}, req : Request, seen : Status]

SlaTypes ==
  /\ now \in 0..MaxTime
  /\ issue \in [Request -> Status]
  /\ edition \in DOMAIN Catalog
  /\ signal \in [Request -> Seq(SignalRow)]
  /\ cycle \in [Request -> [Metric -> Seq(CycleRow)]]
  /\ checked \in [Request -> Nat \cup {None}]
  /\ agent \in [Agent -> {Idle} \cup Reading]
  /\ blurred \in SUBSET Request

Reached(sig) == {i \in DOMAIN sig : sig[i].processed}

\* Signals are timed in id order and handled in id order; the last check lies between
\* the handled ones and the pending ones, and no cycle has been accounted beyond it.
InIdOrder(r) ==
  \A i, j \in DOMAIN signal[r] : i < j =>
    /\ signal[r][i].at <= signal[r][j].at
    /\ signal[r][j].processed => signal[r][i].processed

CheckedBetween(r) ==
  /\ \A i \in DOMAIN signal[r] :
       /\ signal[r][i].at <= now
       /\ signal[r][i].processed => checked[r] # None /\ signal[r][i].at <= checked[r]
       /\ ~signal[r][i].processed /\ checked[r] # None => checked[r] <= signal[r][i].at
  /\ checked[r] # None => checked[r] <= now
  /\ \A m \in Metric : \A k \in DOMAIN cycle[r][m] :
       checked[r] # None /\ cycle[r][m][k].last <= checked[r]

WaitingIn(sig, c, t) ==
  \E q \in Reasons, i \in DOMAIN sig :
    /\ i >= c.from /\ sig[i].at <= t
    /\ q \in Fired(c.goal, sig[i].payload)
    /\ \A j \in (i + 1)..Len(sig) :
         (sig[j].at <= t /\ sig[j].payload \in Goal[c.goal].resume)
            => q \in Fired(c.goal, sig[j].payload)

CountedIn(sig, c, to) ==
  Cardinality({t \in Working : c.started <= t /\ t < to /\ ~WaitingIn(sig, c, t)})

ExactMark(sig, c, at, amount) ==
  IF at = None THEN CountedIn(sig, c, c.last) < amount
  ELSE /\ CountedIn(sig, c, at) >= amount
       /\ \A t \in c.started..(at - 1) : CountedIn(sig, c, t) < amount

\* The reasons that the signals D have left open.
Holding(sig, c, D) ==
  {q \in Reasons : \E i \in D :
     /\ i >= c.from /\ q \in Fired(c.goal, sig[i].payload)
     /\ \A j \in D : (j > i /\ sig[j].payload \in Goal[c.goal].resume)
                       => q \in Fired(c.goal, sig[j].payload)}

\* Cycle c has taken in the signals D, all of those up to its last moment.
Timely(sig, c, D) ==
  /\ c.from \in D
  /\ c.started <= c.last
  /\ c.breached # None => c.breached <= c.last
  /\ c.risk # None => c.risk <= c.last
  /\ \A i \in DOMAIN sig \ D : c.last <= sig[i].at
  /\ c.ended = None => \A i \in D : sig[i].at <= c.last

Exact(sig, c) ==
  /\ c.elapsed = CountedIn(sig, c, c.last)
  /\ ExactMark(sig, c, c.breached, Goal[c.goal].target)
  /\ ExactMark(sig, c, c.risk, Goal[c.goal].target - Goal[c.goal].risk)

UpToDate(sig, c, D) ==
  IF c.ended # None THEN c.state \notin {"RUNNING", "PAUSED"}
  ELSE /\ c.paused = Holding(sig, c, D)
       /\ c.state = Condition(c.paused)
       /\ \A i \in D : i >= c.from => sig[i].payload \notin Goal[c.goal].stop

Fits(sig, c, D) == Timely(sig, c, D) /\ Exact(sig, c) /\ UpToDate(sig, c, D)

Stage(sig, cs, D) ==
  /\ cs \in [Metric -> Seq(CycleRow)]
  /\ \A m \in Metric : \A k \in DOMAIN cs[m] :
       /\ Fits(sig, cs[m][k], D)
       /\ k < Len(cs[m]) => cs[m][k].ended # None

\* Unless its signals are blurred, the last signal of a request shows its issue, as
\* long as there are cycles or signals still to be handled.
Told(r) ==
  (r \notin blurred /\ (Cycles(r) # {} \/ DOMAIN signal[r] # Reached(signal[r]))) =>
     signal[r][Len(signal[r])].payload.status = issue[r]

\* The signals of a request are in order, and its cycles fit the handled ones.
Sound(r) ==
  /\ signal[r] \in Seq(SignalRow) /\ checked[r] \in Nat \cup {None}
  /\ InIdOrder(r) /\ CheckedBetween(r)
  /\ Stage(signal[r], cycle[r], Reached(signal[r]))

SlaInv == SlaTypes /\ \A r \in Request : Sound(r) /\ Told(r)

------------------------------------------------------------------------------
(* Numbers.                                                                *)

LEMMA Least ==
    ASSUME NEW S \in SUBSET Nat, S # {}
    PROVE  \E x \in S : \A y \in S : x <= y
  <1>1. PICK x \in S : \A y \in S : ~ (<<y, x>> \in OpToRel(<, Nat))
    BY NatLessThanWellFounded, WFMin, Zenon
  <1>2. \A y \in S : ~ (y < x)
    BY <1>1 DEF OpToRel
  <1>3. QED
    BY <1>2

\* Induction up to n, as a statement about sets.
LEMMA Upto ==
    ASSUME NEW n \in Nat, NEW S, 0 \in S, \A k \in 0..(n - 1) : k \in S => k + 1 \in S
    PROVE  \A k \in 0..n : k \in S
  <1>1. SUFFICES ASSUME NEW k \in 0..n, k \notin S PROVE FALSE
    OBVIOUS
  <1> DEFINE T == {i \in 0..n : i \notin S}
  <1>2. T \in SUBSET Nat /\ T # {}
    BY <1>1
  <1>3. PICK x \in T : \A y \in T : x <= y
    BY <1>2, Least
  <1>4. x # 0 /\ x \in 0..n /\ x \notin S
    OBVIOUS
  <1>5. x - 1 \in 0..(n - 1) /\ ~ (x <= x - 1)
    BY <1>4
  <1>6. x - 1 \in S
    BY <1>3, <1>5
  <1>7. QED
    BY <1>4, <1>5, <1>6

LEMMA LatestOf ==
    ASSUME NEW n \in Nat, NEW S \in SUBSET (0..n), S # {}
    PROVE  Latest(S) \in S /\ \A u \in S : u <= Latest(S)
  <1> DEFINE T == {n - k : k \in S}
  <1>1. T \in SUBSET Nat /\ T # {}
    OBVIOUS
  <1>2. PICK t \in T : \A u \in T : t <= u
    BY <1>1, Least
  <1>3. PICK m \in S : t = n - m
    OBVIOUS
  <1>4. ASSUME NEW k \in S PROVE k <= m
    <2>1. n - m <= n - k
      BY <1>2, <1>3
    <2>2. QED
      BY <2>1
  <1>5. QED
    BY <1>4 DEF Latest

------------------------------------------------------------------------------
(* The replay of a batch, signal by signal.                                *)

\* What signal k does to the cycles cs of request r.
Step(r, batch, cs, k) ==
  IF k \notin batch THEN cs ELSE [m \in Metric |-> Handled(m, cs[m], signal[r][k], k)]

LEMMA ReplayedStepwise ==
    ASSUME NEW r \in Request, NEW batch, Len(signal[r]) \in Nat
    PROVE  /\ Replayed(r, batch)[0] = cycle[r]
           /\ \A k \in 1..Len(signal[r]) :
                Replayed(r, batch)[k] = Step(r, batch, Replayed(r, batch)[k - 1], k)
  <1> DEFINE N == Len(signal[r])
             Solves(f, n) ==
               f = [k \in 0..n |-> IF k = 0 THEN cycle[r] ELSE Step(r, batch, f[k - 1], k)]
             S == {n \in 0..N : \E f : Solves(f, n)}
  <1>1. 0 \in S
    <2> DEFINE f == [k \in 0..0 |-> cycle[r]]
    <2>1. Solves(f, 0)
      OBVIOUS
    <2>2. \E g : Solves(g, 0)
      BY <2>1, Zenon
    <2>3. QED
      BY <2>2
  <1>2. ASSUME NEW n \in 0..(N - 1), n \in S PROVE n + 1 \in S
    <2>1. PICK f : Solves(f, n)
      BY <1>2
    <2> HIDE DEF Step
    <2> DEFINE g == [k \in 0..(n + 1) |-> IF k = n + 1 THEN Step(r, batch, f[n], n + 1) ELSE f[k]]
    <2>2. \A k \in 0..n : g[k] = f[k]
      OBVIOUS
    <2>3. \A k \in 0..n : f[k] = IF k = 0 THEN cycle[r] ELSE Step(r, batch, f[k - 1], k)
      BY <2>1
    <2>4. ASSUME NEW k \in 0..(n + 1)
          PROVE  g[k] = IF k = 0 THEN cycle[r] ELSE Step(r, batch, g[k - 1], k)
      <3>1. CASE k = n + 1
        <4>1. k - 1 = n /\ k # 0 /\ g[k] = Step(r, batch, f[n], n + 1) /\ g[n] = f[n]
          BY <3>1
        <4>2. QED
          BY <3>1, <4>1, Zenon
      <3>2. CASE k # n + 1
        <4>1. k \in 0..n /\ (k # 0 => k - 1 \in 0..n)
          BY <3>2
        <4>2. g[k] = f[k] /\ (k # 0 => g[k - 1] = f[k - 1])
          BY <2>2, <4>1
        <4>3. QED
          BY <2>3, <4>1, <4>2, Zenon
      <3>3. QED
        BY <3>1, <3>2
    <2>5. g = [k \in 0..(n + 1) |-> g[k]]
      OBVIOUS
    <2> HIDE DEF g
    <2>6. Solves(g, n + 1)
      BY <2>4, <2>5
    <2>7. \E h : Solves(h, n + 1)
      BY <2>6, Zenon
    <2>8. n + 1 \in 0..N
      OBVIOUS
    <2>9. QED
      BY <2>7, <2>8
  <1>3. \A n \in 0..N : n \in S
    <2> HIDE DEF S
    <2>1. QED
      BY <1>1, <1>2, Upto
  <1>4. \E f : Solves(f, N)
    BY <1>3
  <1>5. Replayed(r, batch) = CHOOSE f : Solves(f, N)
    BY Zenon DEF Replayed, Step
  <1>6. Solves(Replayed(r, batch), N)
    BY <1>4, <1>5, Zenon
  <1> HIDE DEF Step
  <1> DEFINE a == Replayed(r, batch)
  <1> HIDE DEF a
  <1>7. a = [k \in 0..N |-> IF k = 0 THEN cycle[r] ELSE Step(r, batch, a[k - 1], k)]
    BY <1>6 DEF a
  <1>8. \A k \in 0..N : a[k] = IF k = 0 THEN cycle[r] ELSE Step(r, batch, a[k - 1], k)
    BY <1>7
  <1>9. a[0] = cycle[r] /\ \A k \in 1..N : a[k] = Step(r, batch, a[k - 1], k)
    BY <1>8
  <1>10. QED
    BY <1>9 DEF a

------------------------------------------------------------------------------
(* Counting business moments.                                              *)

LEMMA MomentsNumbered ==
    \A t \in Working : t \in Nat
  BY ClockAssumption

LEMMA MomentsFinite ==
    ASSUME NEW to \in Nat, NEW S \in SUBSET Working, \A t \in S : t < to
    PROVE  IsFiniteSet(S) /\ Cardinality(S) \in Nat
  <1>1. S \subseteq 0..to
    BY MomentsNumbered
  <1>2. IsFiniteSet(0..to)
    BY FS_Interval
  <1>3. QED
    BY <1>1, <1>2, FS_Subset, FS_CardinalityType

LEMMA BusinessType ==
    ASSUME NEW from \in Nat, NEW to \in Nat
    PROVE  /\ Business(from, to) \in Nat
           /\ to <= from => Business(from, to) = 0
  <1> DEFINE S == {t \in Working : from <= t /\ t < to}
  <1>1. S \in SUBSET Working /\ \A t \in S : t < to
    OBVIOUS
  <1>2. Cardinality(S) \in Nat
    BY <1>1, MomentsFinite
  <1>3. ASSUME to <= from PROVE S = {}
    BY <1>3, MomentsNumbered
  <1>4. QED
    BY <1>2, <1>3, FS_EmptySet DEF Business

\* The moments that a cycle counts before a time.
Moments(sig, c, to) == {t \in Working : c.started <= t /\ t < to /\ ~WaitingIn(sig, c, t)}

LEMMA CountedMoments ==
    ASSUME NEW sig, NEW c, NEW to \in Nat
    PROVE  /\ CountedIn(sig, c, to) = Cardinality(Moments(sig, c, to))
           /\ IsFiniteSet(Moments(sig, c, to))
           /\ CountedIn(sig, c, to) \in Nat
  <1>1. Moments(sig, c, to) \in SUBSET Working /\ \A t \in Moments(sig, c, to) : t < to
    BY DEF Moments
  <1>2. CountedIn(sig, c, to) = Cardinality(Moments(sig, c, to))
    BY DEF Moments, CountedIn
  <1>3. QED
    BY <1>1, <1>2, MomentsFinite

LEMMA CountedGrows ==
    ASSUME NEW sig, NEW c, NEW from \in Nat, NEW to \in Nat, from <= to
    PROVE  CountedIn(sig, c, from) <= CountedIn(sig, c, to)
  <1>1. Moments(sig, c, from) \subseteq Moments(sig, c, to)
    BY MomentsNumbered DEF Moments
  <1>2. QED
    BY <1>1, CountedMoments, FS_Subset

LEMMA CountedFromStart ==
    ASSUME NEW sig, NEW c, NEW to \in Nat, c.started \in Nat, to <= c.started
    PROVE  CountedIn(sig, c, to) = 0
  <1>1. Moments(sig, c, to) = {}
    BY MomentsNumbered DEF Moments
  <1>2. QED
    BY <1>1, CountedMoments, FS_EmptySet

\* Over a stretch in which the cycle either waits all the time or never, it counts
\* nothing or the business time of the stretch.
LEMMA CountedSplits ==
    ASSUME NEW sig, NEW c, NEW from \in Nat, NEW to \in Nat, NEW free \in BOOLEAN,
           c.started \in Nat, c.started <= from, from <= to,
           \A t \in from..(to - 1) : WaitingIn(sig, c, t) <=> ~free
    PROVE  CountedIn(sig, c, to) = CountedIn(sig, c, from) + (IF free THEN Business(from, to) ELSE 0)
  <1> DEFINE A == Moments(sig, c, from)
             B == {t \in Working : from <= t /\ t < to /\ free}
  <1>1. Moments(sig, c, to) = A \cup B
    <2>1. ASSUME NEW t \in Working PROVE t \in Moments(sig, c, to) <=> t \in A \cup B
      <3>1. t \in Nat
        BY MomentsNumbered
      <3>2. CASE t < from
        BY <3>1, <3>2 DEF Moments
      <3>3. CASE from <= t /\ t < to
        <4>1. t \in from..(to - 1)
          BY <3>1, <3>3
        <4>2. WaitingIn(sig, c, t) <=> ~free
          BY <4>1
        <4>3. QED
          BY <3>1, <3>3, <4>2 DEF Moments
      <3>4. CASE to <= t
        BY <3>1, <3>4 DEF Moments
      <3>5. QED
        BY <3>1, <3>2, <3>3, <3>4
    <2>2. QED
      BY <2>1 DEF Moments
  <1>2. A \cap B = {}
    BY MomentsNumbered DEF Moments
  <1>3. IsFiniteSet(A) /\ IsFiniteSet(B) /\ Cardinality(A) \in Nat /\ Cardinality(B) \in Nat
    <2>1. B \in SUBSET Working /\ \A t \in B : t < to
      OBVIOUS
    <2>2. QED
      BY <2>1, MomentsFinite, CountedMoments, FS_CardinalityType
  <1>4. Cardinality(A \cup B) = Cardinality(A) + Cardinality(B)
    <2>1. Cardinality(A \cap B) = 0
      BY <1>2, FS_EmptySet
    <2>2. Cardinality(A \cup B) = Cardinality(A) + Cardinality(B) - Cardinality(A \cap B)
      BY <1>3, FS_Union, Zenon
    <2>3. QED
      BY <1>3, <2>1, <2>2
  <1>5. Cardinality(B) = IF free THEN Business(from, to) ELSE 0
    <2>1. CASE free
      <3>1. B = {t \in Working : from <= t /\ t < to}
        BY <2>1
      <3>2. QED
        BY <2>1, <3>1 DEF Business
    <2>2. CASE ~free
      <3>1. B = {}
        BY <2>2
      <3>2. QED
        BY <2>2, <3>1, FS_EmptySet
    <2>3. QED
      BY <2>1, <2>2
  <1>6. QED
    BY <1>1, <1>4, <1>5, CountedMoments

------------------------------------------------------------------------------
(* Which signals a cycle waits for.                                        *)

\* Signals sig2 are the signals sig and, at to or later, others behind them.
Continues(sig, sig2, to) ==
  /\ DOMAIN sig \subseteq DOMAIN sig2
  /\ \A i \in DOMAIN sig : sig2[i].at = sig[i].at /\ sig2[i].payload = sig[i].payload
  /\ \A i \in DOMAIN sig2 \ DOMAIN sig : to <= sig2[i].at

SameWatch(c, d) == d.goal = c.goal /\ d.from = c.from /\ d.started = c.started

LEMMA SignalElements ==
    ASSUME NEW sig \in Seq(SignalRow)
    PROVE  /\ Len(sig) \in Nat /\ DOMAIN sig = 1..Len(sig)
           /\ \A i \in DOMAIN sig : /\ i \in Nat /\ sig[i] \in SignalRow
                                    /\ sig[i].at \in Nat /\ sig[i].payload \in Payload
                                    /\ sig[i].goals \in PositionedGoals
                                    /\ sig[i].processed \in BOOLEAN
  <1>1. Len(sig) \in Nat /\ DOMAIN sig = 1..Len(sig) /\ \A i \in DOMAIN sig : sig[i] \in SignalRow
    OBVIOUS
  <1>2. \A s \in SignalRow : s.at \in Nat /\ s.payload \in Payload /\ s.goals \in PositionedGoals
                             /\ s.processed \in BOOLEAN
    BY DEF SignalRow
  <1>3. QED
    BY <1>1, <1>2

LEMMA WaitingContinues ==
    ASSUME NEW sig \in Seq(SignalRow), NEW sig2 \in Seq(SignalRow), NEW to \in Nat,
           Continues(sig, sig2, to), NEW c, NEW d, SameWatch(c, d), NEW t \in Nat, t < to
    PROVE  WaitingIn(sig2, d, t) <=> WaitingIn(sig, c, t)
  <1>1. /\ \A i \in DOMAIN sig : i \in DOMAIN sig2 /\ sig2[i].at = sig[i].at /\ sig2[i].payload = sig[i].payload
        /\ \A i \in DOMAIN sig2 : sig2[i].at <= t => i \in DOMAIN sig
    BY SignalElements DEF Continues
  <1>2. \A i \in Nat : i \in DOMAIN sig <=> i \in 1..Len(sig)
    BY SignalElements
  <1>3. d.goal = c.goal /\ d.from = c.from
    BY DEF SameWatch
  <1> DEFINE Sets(s, e, q, i) ==
        /\ i >= e.from /\ s[i].at <= t
        /\ q \in Fired(e.goal, s[i].payload)
        /\ \A j \in (i + 1)..Len(s) :
             (s[j].at <= t /\ s[j].payload \in Goal[e.goal].resume) => q \in Fired(e.goal, s[j].payload)
  <1>4. ASSUME NEW q \in Reasons, NEW i \in DOMAIN sig2, Sets(sig2, d, q, i)
        PROVE  i \in DOMAIN sig /\ Sets(sig, c, q, i)
    <2>1. i \in DOMAIN sig /\ i \in Nat
      BY <1>1, <1>4, SignalElements
    <2>2. ASSUME NEW j \in (i + 1)..Len(sig) PROVE j \in DOMAIN sig /\ j \in (i + 1)..Len(sig2)
      <3>1. j \in DOMAIN sig
        BY <2>1, SignalElements
      <3>2. j \in DOMAIN sig2
        BY <3>1, <1>1
      <3>3. QED
        BY <3>1, <3>2, <2>1, SignalElements
    <2>3. QED
      BY <1>1, <1>3, <1>4, <2>1, <2>2
  <1>5. ASSUME NEW q \in Reasons, NEW i \in DOMAIN sig, Sets(sig, c, q, i)
        PROVE  i \in DOMAIN sig2 /\ Sets(sig2, d, q, i)
    <2>1. i \in DOMAIN sig2 /\ i \in Nat
      BY <1>1, SignalElements
    <2>2. ASSUME NEW j \in (i + 1)..Len(sig2), sig2[j].at <= t PROVE j \in DOMAIN sig /\ j \in (i + 1)..Len(sig)
      <3>1. j \in DOMAIN sig2
        BY <2>1, SignalElements
      <3>2. j \in DOMAIN sig
        BY <2>2, <3>1, <1>1
      <3>3. QED
        BY <3>1, <3>2, <2>1, SignalElements
    <2>3. QED
      BY <1>1, <1>3, <1>5, <2>1, <2>2
  <1>6. WaitingIn(sig2, d, t) <=> \E q \in Reasons, i \in DOMAIN sig2 : Sets(sig2, d, q, i)
    BY DEF WaitingIn
  <1>7. WaitingIn(sig, c, t) <=> \E q \in Reasons, i \in DOMAIN sig : Sets(sig, c, q, i)
    BY DEF WaitingIn
  <1> HIDE DEF Sets
  <1>8. QED
    BY <1>4, <1>5, <1>6, <1>7

LEMMA CountedContinues ==
    ASSUME NEW sig \in Seq(SignalRow), NEW sig2 \in Seq(SignalRow), NEW to \in Nat,
           Continues(sig, sig2, to), NEW c, NEW d, SameWatch(c, d)
    PROVE  \A t \in 0..to : CountedIn(sig2, d, t) = CountedIn(sig, c, t)
  <1> TAKE t \in 0..to
  <1>1. \A u \in Working : u < t => (WaitingIn(sig2, d, u) <=> WaitingIn(sig, c, u))
    BY WaitingContinues, MomentsNumbered
  <1>2. Moments(sig2, d, t) = Moments(sig, c, t)
    BY <1>1 DEF Moments, SameWatch
  <1>3. QED
    BY <1>2, CountedMoments

\* Between the signals that a cycle has taken in and the others, it waits exactly
\* while one of those has left a reason open.
LEMMA WaitingIsHolding ==
    ASSUME NEW sig \in Seq(SignalRow), NEW c, NEW D \in SUBSET DOMAIN sig, NEW t \in Nat,
           \A i \in D : sig[i].at <= t, \A i \in DOMAIN sig \ D : t < sig[i].at
    PROVE  WaitingIn(sig, c, t) <=> Holding(sig, c, D) # {}
  <1>1. \A i \in DOMAIN sig : i \in D <=> sig[i].at <= t
    BY SignalElements
  <1>2. \A i \in DOMAIN sig, j \in Nat : j \in (i + 1)..Len(sig) <=> (j \in DOMAIN sig /\ j > i)
    BY SignalElements
  <1>3. ASSUME NEW i \in DOMAIN sig, NEW q
        PROVE (\A j \in (i + 1)..Len(sig) :
                (sig[j].at <= t /\ sig[j].payload \in Goal[c.goal].resume) => q \in Fired(c.goal, sig[j].payload))
              <=> (\A j \in D : (j > i /\ sig[j].payload \in Goal[c.goal].resume)
                                   => q \in Fired(c.goal, sig[j].payload))
    <2>1. \A j : (j \in (i + 1)..Len(sig) /\ sig[j].at <= t) <=> (j \in D /\ j > i)
      BY <1>1, <1>2, SignalElements
    <2>2. QED
      BY <2>1
  <1>4. QED
    BY <1>1, <1>3 DEF WaitingIn, Holding

------------------------------------------------------------------------------
(* Accrual.                                                                *)

LEMMA RowFields ==
    ASSUME NEW c \in CycleRow
    PROVE  /\ c.goal \in Version /\ c.started \in Nat /\ c.last \in Nat /\ c.elapsed \in Nat
           /\ c.paused \in SUBSET Reasons /\ c.state \in CycleState /\ c.from \in Nat
           /\ c.ended \in Nat \cup {None} /\ c.risk \in Nat \cup {None} /\ c.breached \in Nat \cup {None}
  BY DEF CycleRow

LEMMA NoneIsNoNumber ==
    \A n \in Nat : n # None
  BY ClockAssumption

LEMMA GoalNumbers ==
    ASSUME NEW v \in Version
    PROVE  /\ Goal[v].target \in Nat /\ Goal[v].target > 0
           /\ Goal[v].target - Goal[v].risk \in Nat /\ Goal[v].target - Goal[v].risk > 0
  BY GoalAssumption

LEMMA ThresholdReached ==
    ASSUME NEW from \in Nat, NEW to \in Nat, NEW amount \in Nat, from <= to, amount <= Business(from, to)
    PROVE  /\ Threshold(from, to, amount) \in from..to
           /\ Business(from, Threshold(from, to, amount)) >= amount
           /\ \A k \in from..(Threshold(from, to, amount) - 1) : Business(from, k) < amount
  <1> DEFINE S == {m \in from..to : Business(from, m) >= amount}
  <1>1. ASSUME NEW m \in from..to PROVE m \in Nat /\ Business(from, m) \in Nat
    <2>1. m \in Nat
      OBVIOUS
    <2>2. QED
      BY <2>1, BusinessType
  <1>2. S \in SUBSET Nat /\ to \in S
    BY <1>1
  <1>3. PICK x \in S : \A y \in S : x <= y
    BY <1>2, Least
  <1>4. ASSUME NEW k \in from..(x - 1) PROVE Business(from, k) < amount
    <2>1. k \in from..to /\ ~ (x <= k)
      BY <1>2
    <2>2. k \notin S
      BY <1>3, <2>1
    <2>3. QED
      BY <1>1, <2>1, <2>2
  <1>5. \E m \in from..to : /\ Business(from, m) >= amount
                            /\ \A k \in from..(m - 1) : Business(from, k) < amount
    BY <1>4
  <1>6. QED
    BY <1>5, Zenon DEF Threshold

\* The cycle c is open, has taken in the signals D and may be accounted up to at.
Due(sig, c, D, at) ==
  /\ c.ended = None /\ Fits(sig, c, D) /\ c.last <= at
  /\ \A i \in DOMAIN sig \ D : at <= sig[i].at

Total(c, at) == c.elapsed + (IF Running(c) THEN Business(c.last, at) ELSE 0)

Marked(c, at, amount, seen) ==
  IF seen # None \/ Total(c, at) < amount THEN seen ELSE Threshold(c.last, at, amount - c.elapsed)

\* A mark x of cycle c is exact when the cycle has been accounted up to at.
MarkFits(sig, c, at, amount, x) ==
  /\ x \in Nat \cup {None}
  /\ x # None => x <= at
  /\ IF x = None THEN CountedIn(sig, c, at) < amount
     ELSE /\ CountedIn(sig, c, x) >= amount
          /\ \A t \in c.started..(x - 1) : CountedIn(sig, c, t) < amount

LEMMA AccruedCounts ==
    ASSUME NEW sig \in Seq(SignalRow), NEW c \in CycleRow, NEW D \in SUBSET DOMAIN sig,
           NEW at \in Nat, Due(sig, c, D, at)
    PROVE  \A to \in c.last..at : CountedIn(sig, c, to) = Total(c, to)
  <1> TAKE to \in c.last..at
  <1>1. /\ c.last \in Nat /\ c.started \in Nat /\ to \in Nat /\ c.last <= to /\ to <= at
        /\ c.started <= c.last
        /\ c.elapsed = CountedIn(sig, c, c.last)
        /\ c.ended = None /\ c.paused = Holding(sig, c, D)
        /\ \A i \in D : sig[i].at <= c.last
        /\ \A i \in DOMAIN sig \ D : at <= sig[i].at
    BY RowFields DEF Due, Fits, Timely, Exact, UpToDate
  <1>2. Running(c) \in BOOLEAN /\ (Running(c) <=> Holding(sig, c, D) = {})
    BY <1>1, Zenon DEF Running
  <1>3. ASSUME NEW t \in c.last..(to - 1) PROVE WaitingIn(sig, c, t) <=> ~Running(c)
    <2>1. /\ t \in Nat
          /\ \A i \in D : sig[i].at <= t
          /\ \A i \in DOMAIN sig \ D : t < sig[i].at
      BY <1>1, SignalElements
    <2>2. WaitingIn(sig, c, t) <=> Holding(sig, c, D) # {}
      BY <2>1, WaitingIsHolding
    <2>3. QED
      BY <1>2, <2>2
  <1>4. CountedIn(sig, c, to) = CountedIn(sig, c, c.last)
                                 + (IF Running(c) THEN Business(c.last, to) ELSE 0)
    BY <1>1, <1>2, <1>3, CountedSplits
  <1>5. QED
    BY <1>1, <1>4 DEF Total

\* A mark stays exact when time is accrued: set before, not reached, or reached at
\* the very moment that Threshold finds.
LEMMA MarkedExactly ==
    ASSUME NEW sig \in Seq(SignalRow), NEW c \in CycleRow, NEW D \in SUBSET DOMAIN sig,
           NEW at \in Nat, Due(sig, c, D, at),
           NEW amount \in Nat, NEW seen \in Nat \cup {None}, seen # None => seen <= c.last,
           ExactMark(sig, c, seen, amount)
    PROVE  MarkFits(sig, c, at, amount, Marked(c, at, amount, seen))
  <1>0. PICK x : x = Marked(c, at, amount, seen)
    OBVIOUS
  <1>1. /\ c.last \in Nat /\ c.started \in Nat /\ c.started <= c.last /\ c.last <= at
        /\ c.elapsed \in Nat /\ c.elapsed = CountedIn(sig, c, c.last)
    BY RowFields DEF Due, Fits, Timely, Exact
  <1>2. \A to \in c.last..at : CountedIn(sig, c, to) = Total(c, to)
    BY AccruedCounts
  <1>3. CountedIn(sig, c, at) = Total(c, at) /\ Total(c, at) \in Nat
    BY <1>1, <1>2, CountedMoments
  <1>4. CASE seen # None
    <2>1. x = seen
      BY <1>0, <1>4 DEF Marked
    <2>2. QED
      BY <1>0, <1>1, <1>4, <2>1 DEF ExactMark, MarkFits
  <1>5. CASE seen = None /\ Total(c, at) < amount
    <2>1. x = None
      BY <1>0, <1>5 DEF Marked
    <2>2. QED
      BY <1>0, <1>3, <1>5, <2>1 DEF MarkFits
  <1>6. CASE seen = None /\ ~ (Total(c, at) < amount)
    <2>1. c.elapsed < amount
      BY <1>1, <1>6 DEF ExactMark
    <2>2. x = Threshold(c.last, at, amount - c.elapsed)
      BY <1>0, <1>6 DEF Marked
    <2>3. Business(c.last, at) \in Nat
      BY <1>1, BusinessType
    <2>4. Running(c) /\ amount - c.elapsed \in Nat /\ amount - c.elapsed <= Business(c.last, at)
      BY <1>1, <1>6, <2>1, <2>3 DEF Total
    <2>5. /\ x \in c.last..at
          /\ Business(c.last, x) >= amount - c.elapsed
          /\ \A k \in c.last..(x - 1) : Business(c.last, k) < amount - c.elapsed
      BY <1>1, <2>2, <2>4, ThresholdReached
    <2>6. ASSUME NEW k \in c.last..at
          PROVE  Business(c.last, k) \in Nat /\ CountedIn(sig, c, k) = c.elapsed + Business(c.last, k)
      <3>1. k \in Nat
        BY <1>1
      <3>2. Business(c.last, k) \in Nat
        BY <1>1, <3>1, BusinessType
      <3>3. Total(c, k) = c.elapsed + Business(c.last, k)
        BY <2>4 DEF Total
      <3>4. QED
        BY <1>2, <3>2, <3>3
    <2>7. CountedIn(sig, c, x) >= amount
      BY <1>1, <2>5, <2>6
    <2>8. ASSUME NEW t \in c.started..(x - 1) PROVE CountedIn(sig, c, t) < amount
      <3>1. t \in Nat /\ x \in Nat
        BY <1>1, <2>5
      <3>2. CASE c.last <= t
        <4>1. t \in c.last..(x - 1) /\ t \in c.last..at
          BY <1>1, <2>5, <3>1, <3>2
        <4>2. QED
          BY <1>1, <2>5, <2>6, <4>1
      <3>3. CASE t < c.last
        <4>1. CountedIn(sig, c, t) <= CountedIn(sig, c, c.last) /\ CountedIn(sig, c, t) \in Nat
          BY <1>1, <3>1, <3>3, CountedGrows, CountedMoments
        <4>2. QED
          BY <1>1, <2>1, <4>1
      <3>4. QED
        BY <1>1, <3>1, <3>2, <3>3
    <2>9. x \in Nat /\ x <= at /\ x # None
      BY <1>1, <2>5, NoneIsNoNumber
    <2>10. QED
      BY <1>0, <2>7, <2>8, <2>9 DEF MarkFits
  <1>7. QED
    BY <1>4, <1>5, <1>6

LEMMA AccruedFits ==
    ASSUME NEW sig \in Seq(SignalRow), NEW c \in CycleRow, NEW D \in SUBSET DOMAIN sig,
           NEW at \in Nat, Due(sig, c, D, at), NEW a, a = Accrued(c, at)
    PROVE  /\ a \in CycleRow /\ Fits(sig, a, D)
           /\ a.last = at /\ a.ended = None /\ SameWatch(c, a)
           /\ a.paused = c.paused
  <1>1. /\ c.goal \in Version /\ c.last \in Nat /\ c.started \in Nat /\ c.elapsed \in Nat
        /\ c.risk \in Nat \cup {None} /\ c.breached \in Nat \cup {None}
        /\ Goal[c.goal].target \in Nat /\ Goal[c.goal].target - Goal[c.goal].risk \in Nat
    BY RowFields, GoalNumbers
  <1>2. /\ c.ended = None /\ Timely(sig, c, D) /\ Exact(sig, c) /\ UpToDate(sig, c, D) /\ c.last <= at
        /\ \A i \in DOMAIN sig \ D : at <= sig[i].at
    BY DEF Due, Fits
  <1> DEFINE g == Goal[c.goal]
  <1>0. PICK k : k = g.target - g.risk
    OBVIOUS
  <1>3. PICK x : x = Marked(c, at, k, c.risk)
    OBVIOUS
  <1>4. PICK y : y = Marked(c, at, Goal[c.goal].target, c.breached)
    OBVIOUS
  <1>5. PICK e : e = Total(c, at)
    OBVIOUS
  <1>6. a = [c EXCEPT !.elapsed = e, !.last = at, !.risk = x, !.breached = y]
    BY <1>0, <1>3, <1>4, <1>5, Zenon DEF Accrued, Marked, Total
  <1>7. CountedIn(sig, c, at) = e /\ e \in Nat
    BY <1>1, <1>2, <1>5, AccruedCounts, CountedMoments
  <1>8. MarkFits(sig, c, at, k, x)
    <2>1. k \in Nat /\ ExactMark(sig, c, c.risk, k) /\ (c.risk # None => c.risk <= c.last)
      BY <1>0, <1>1, <1>2 DEF Exact, Timely
    <2>2. QED
      BY <1>1, <1>3, <2>1, MarkedExactly
  <1>9. MarkFits(sig, c, at, g.target, y)
    <2>1. ExactMark(sig, c, c.breached, g.target) /\ (c.breached # None => c.breached <= c.last)
      BY <1>2 DEF Exact, Timely
    <2>2. QED
      BY <1>1, <1>4, <2>1, MarkedExactly
  <1>10. /\ a \in CycleRow
         /\ a.elapsed = e /\ a.last = at /\ a.risk = x /\ a.breached = y
         /\ a.goal = c.goal /\ a.started = c.started /\ a.from = c.from
         /\ a.paused = c.paused /\ a.state = c.state /\ a.ended = c.ended
    <2>1. x \in Nat \cup {None} /\ y \in Nat \cup {None} /\ e \in Nat
      BY <1>7, <1>8, <1>9 DEF MarkFits
    <2>2. QED
      BY <1>6, <2>1 DEF CycleRow
  <1>11. SameWatch(c, a)
    BY <1>10 DEF SameWatch
  <1>12. \A t \in Nat : CountedIn(sig, a, t) = CountedIn(sig, c, t)
    <2> TAKE t \in Nat
    <2>1. Continues(sig, sig, t)
      BY DEF Continues
    <2>2. QED
      BY <1>11, <2>1, CountedContinues
  <1>13. Exact(sig, a)
    <2>1. ExactMark(sig, a, a.risk, Goal[a.goal].target - Goal[a.goal].risk)
      <3>1. CASE x = None
        BY <1>0, <1>8, <1>10, <1>12, <3>1 DEF ExactMark, MarkFits
      <3>2. CASE x # None
        <4>1. x \in Nat /\ \A t \in c.started..(x - 1) : t \in Nat
          BY <1>1, <1>8, <3>2 DEF MarkFits
        <4>2. QED
          BY <1>0, <1>8, <1>10, <1>12, <3>2, <4>1 DEF ExactMark, MarkFits
      <3>3. QED
        BY <3>1, <3>2
    <2>2. ExactMark(sig, a, a.breached, Goal[a.goal].target)
      <3>1. CASE y = None
        BY <1>9, <1>10, <1>12, <3>1 DEF ExactMark, MarkFits
      <3>2. CASE y # None
        <4>1. y \in Nat /\ \A t \in c.started..(y - 1) : t \in Nat
          BY <1>1, <1>9, <3>2 DEF MarkFits
        <4>2. QED
          BY <1>9, <1>10, <1>12, <3>2, <4>1 DEF ExactMark, MarkFits
      <3>3. QED
        BY <3>1, <3>2
    <2>3. QED
      BY <1>7, <1>10, <1>12, <2>1, <2>2 DEF Exact
  <1>14. Timely(sig, a, D)
    <2>1. \A i \in D : sig[i].at <= at
      <3>1. \A i \in D : sig[i].at <= c.last /\ sig[i].at \in Nat
        BY <1>2, SignalElements DEF Timely
      <3>2. QED
        BY <1>1, <1>2, <3>1
    <2>2. c.from \in D /\ c.started <= at
      BY <1>1, <1>2 DEF Timely
    <2>3. QED
      BY <1>2, <1>8, <1>9, <1>10, <2>1, <2>2 DEF Timely, MarkFits
  <1>15. UpToDate(sig, a, D)
    <2>1. Holding(sig, a, D) = Holding(sig, c, D)
      BY <1>10 DEF Holding
    <2>2. QED
      BY <1>2, <1>10, <2>1 DEF UpToDate
  <1>16. QED
    BY <1>2, <1>10, <1>11, <1>13, <1>14, <1>15 DEF Fits

------------------------------------------------------------------------------
(* One signal: what it does to a cycle, and the cycle it starts.           *)

\* An exact cycle stays exact when neither its numbers nor the signals up to its
\* last moment change.
LEMMA ExactContinues ==
    ASSUME NEW sig \in Seq(SignalRow), NEW sig2 \in Seq(SignalRow),
           NEW c \in CycleRow, NEW d \in CycleRow, SameWatch(c, d),
           d.elapsed = c.elapsed, d.last = c.last, d.risk = c.risk, d.breached = c.breached,
           c.breached # None => c.breached <= c.last, c.risk # None => c.risk <= c.last,
           Continues(sig, sig2, c.last), Exact(sig, c)
    PROVE  Exact(sig2, d)
  <1>1. /\ c.last \in Nat /\ c.started \in Nat
        /\ c.breached \in Nat \cup {None} /\ c.risk \in Nat \cup {None}
    BY RowFields
  <1>2. \A t \in 0..c.last : CountedIn(sig2, d, t) = CountedIn(sig, c, t)
    BY <1>1, CountedContinues
  <1>3. ASSUME NEW x \in Nat \cup {None}, x # None => x <= c.last, NEW amount, ExactMark(sig, c, x, amount)
        PROVE  ExactMark(sig2, d, x, amount)
    <2>1. CASE x = None
      BY <1>1, <1>2, <1>3, <2>1 DEF ExactMark
    <2>2. CASE x # None
      <3>1. x \in 0..c.last /\ \A t \in c.started..(x - 1) : t \in 0..c.last
        BY <1>1, <1>3, <2>2
      <3>2. CountedIn(sig2, d, x) = CountedIn(sig, c, x)
            /\ \A t \in c.started..(x - 1) : CountedIn(sig2, d, t) = CountedIn(sig, c, t)
        BY <1>2, <3>1
      <3>3. d.started = c.started
        BY DEF SameWatch
      <3>4. QED
        BY <1>3, <2>2, <3>2, <3>3 DEF ExactMark
    <2>3. QED
      BY <2>1, <2>2
  <1>4. PICK k : k = Goal[c.goal].target - Goal[c.goal].risk
    OBVIOUS
  <1>5. ExactMark(sig2, d, c.risk, k) /\ ExactMark(sig2, d, c.breached, Goal[c.goal].target)
    BY <1>1, <1>3, <1>4 DEF Exact
  <1>6. CountedIn(sig2, d, c.last) = CountedIn(sig, c, c.last)
    BY <1>1, <1>2
  <1>7. d.goal = c.goal
    BY DEF SameWatch
  <1>8. QED
    BY <1>4, <1>5, <1>6, <1>7 DEF Exact

LEMMA FiredReasons ==
    ASSUME NEW v \in Version, NEW p
    PROVE  Fired(v, p) \subseteq Reasons
  BY DEF Fired, Reasons

\* The reasons that hold behind signal k where those in h held before it.
HeldBehind(sig, c, k, h) ==
  Fired(c.goal, sig[k].payload) \cup (IF sig[k].payload \in Goal[c.goal].resume THEN {} ELSE h)

LEMMA HoldingNext ==
    ASSUME NEW sig, NEW c, c.goal \in Version, c.from \in Nat, NEW D \in SUBSET Nat, NEW k \in Nat,
           \A i \in D : i < k, c.from <= k
    PROVE  Holding(sig, c, D \cup {k}) = HeldBehind(sig, c, k, Holding(sig, c, D))
  <1> DEFINE S == Holding(sig, c, D \cup {k})
             F == Fired(c.goal, sig[k].payload)
             H == Holding(sig, c, D)
             Lets(i, q) == (sig[i].payload \in Goal[c.goal].resume) => q \in Fired(c.goal, sig[i].payload)
  <1>1. F \subseteq Reasons
    BY FiredReasons
  <1>2. \A q : q \in H <=> /\ q \in Reasons
                           /\ \E i \in D : /\ i >= c.from /\ q \in Fired(c.goal, sig[i].payload)
                                           /\ \A j \in D : j > i => Lets(j, q)
    BY DEF Holding
  <1>3. \A q : q \in S <=> /\ q \in Reasons
                           /\ \E i \in D \cup {k} : /\ i >= c.from /\ q \in Fired(c.goal, sig[i].payload)
                                                    /\ \A j \in D \cup {k} : j > i => Lets(j, q)
    BY DEF Holding
  <1>4. ASSUME NEW q \in F PROVE q \in S
    <2>1. \A j \in D \cup {k} : ~ (j > k)
      OBVIOUS
    <2>2. QED
      BY <1>1, <1>3, <1>4, <2>1
  <1>5. ASSUME NEW q \in H, Lets(k, q) PROVE q \in S
    <2>1. PICK i \in D : /\ i >= c.from /\ q \in Fired(c.goal, sig[i].payload)
                         /\ \A j \in D : j > i => Lets(j, q)
      BY <1>2, <1>5
    <2>2. \A j \in D \cup {k} : j > i => Lets(j, q)
      BY <1>5, <2>1
    <2> HIDE DEF Lets
    <2>3. QED
      BY <1>2, <1>3, <1>5, <2>1, <2>2
  <1>6. ASSUME NEW q \in S, q \notin F PROVE q \in H /\ Lets(k, q)
    <2>1. PICK i \in D \cup {k} : /\ i >= c.from /\ q \in Fired(c.goal, sig[i].payload)
                                  /\ \A j \in D \cup {k} : j > i => Lets(j, q)
      BY <1>3, <1>6
    <2>2. i \in D /\ k > i
      BY <1>6, <2>1
    <2> HIDE DEF Lets
    <2>3. QED
      BY <1>2, <1>3, <1>6, <2>1, <2>2
  <1>7. CASE sig[k].payload \in Goal[c.goal].resume
    <2>1. \A q : q \in S <=> q \in F
      BY <1>4, <1>6, <1>7
    <2> HIDE DEF S, F
    <2>2. S = F
      BY <2>1
    <2>3. QED
      BY <1>7, <2>2 DEF S, F, HeldBehind
  <1>8. CASE sig[k].payload \notin Goal[c.goal].resume
    <2>1. \A q : q \in S <=> (q \in F \/ q \in H)
      BY <1>4, <1>5, <1>6, <1>8
    <2> HIDE DEF S, F, H
    <2>2. S = F \cup H
      BY <2>1
    <2>3. QED
      BY <1>8, <2>2 DEF S, F, H, HeldBehind
  <1>9. QED
    BY <1>7, <1>8

\* The signal k is the next one to be handled after the signals D.
IsNext(sig, D, k) ==
  /\ D \subseteq DOMAIN sig /\ k \in DOMAIN sig \ D
  /\ \A i \in D : i < k /\ sig[i].at <= sig[k].at
  /\ \A i \in DOMAIN sig \ D : sig[k].at <= sig[i].at

LEMMA ContinuesItself ==
    ASSUME NEW sig, NEW to
    PROVE  Continues(sig, sig, to)
  BY DEF Continues

\* The cycle x has taken the place of cycle c, accounted up to at, and fits the signals E.
Became(sig, E, c, x, at) ==
  x \in CycleRow /\ Fits(sig, x, E) /\ x.goal = c.goal /\ x.last = at

Ended(a, at, s) == [a EXCEPT !.ended = at, !.state = s]

Continued(a, q) == [a EXCEPT !.paused = q, !.state = Condition(q)]

\* An open cycle that a signal ends.
LEMMA StoppedFits ==
    ASSUME NEW sig \in Seq(SignalRow), NEW D, NEW k, IsNext(sig, D, k),
           NEW a \in CycleRow, Fits(sig, a, D), a.last = sig[k].at,
           NEW s \in CycleState \ {"RUNNING", "PAUSED"}
    PROVE  Became(sig, D \cup {k}, a, Ended(a, sig[k].at, s), sig[k].at)
  <1>0. PICK x : x = Ended(a, sig[k].at, s)
    OBVIOUS
  <1>1. sig[k].at \in Nat /\ sig[k].at # None
    BY SignalElements, NoneIsNoNumber DEF IsNext
  <1>2. /\ x \in CycleRow /\ x.ended = sig[k].at /\ x.state = s /\ SameWatch(a, x)
        /\ x.elapsed = a.elapsed /\ x.last = a.last /\ x.risk = a.risk /\ x.breached = a.breached
    BY <1>0, <1>1 DEF CycleRow, SameWatch, Ended
  <1>3. x.goal = a.goal /\ x.from = a.from /\ x.started = a.started
    BY <1>2 DEF SameWatch
  <1>4. Timely(sig, a, D) /\ Exact(sig, a)
    BY DEF Fits
  <1>5. Exact(sig, x)
    BY <1>2, <1>4, ContinuesItself, ExactContinues DEF Timely
  <1>6. Timely(sig, x, D \cup {k})
    BY <1>1, <1>2, <1>3, <1>4 DEF Timely
  <1>7. UpToDate(sig, x, D \cup {k})
    BY <1>1, <1>2 DEF UpToDate
  <1>8. QED
    BY <1>0, <1>2, <1>3, <1>5, <1>6, <1>7 DEF Fits, Became

\* An open cycle that a signal leaves open.
LEMMA ContinuedFits ==
    ASSUME NEW sig \in Seq(SignalRow), NEW D, NEW k, IsNext(sig, D, k),
           NEW a \in CycleRow, a.ended = None, Fits(sig, a, D), a.last = sig[k].at,
           sig[k].payload \notin Goal[a.goal].stop, NEW q,
           q = Fired(a.goal, sig[k].payload)
               \cup (IF sig[k].payload \in Goal[a.goal].resume THEN {} ELSE a.paused)
    PROVE  Became(sig, D \cup {k}, a, Continued(a, q), sig[k].at)
  <1>0. PICK x : x = Continued(a, q)
    OBVIOUS
  <1>1. a.goal \in Version /\ a.from \in Nat /\ a.paused \in SUBSET Reasons
    BY RowFields
  <1>2. q \in SUBSET Reasons /\ Condition(q) \in CycleState
    BY <1>1, FiredReasons DEF Condition, CycleState
  <1>3. /\ x \in CycleRow /\ x.paused = q /\ x.state = Condition(q) /\ x.ended = a.ended /\ SameWatch(a, x)
        /\ x.elapsed = a.elapsed /\ x.last = a.last /\ x.risk = a.risk /\ x.breached = a.breached
    BY <1>0, <1>2 DEF CycleRow, SameWatch, Continued
  <1>4. x.goal = a.goal /\ x.from = a.from /\ x.started = a.started
    BY <1>3 DEF SameWatch
  <1>5. Timely(sig, a, D) /\ Exact(sig, a) /\ UpToDate(sig, a, D)
    BY DEF Fits
  <1>6. Exact(sig, x)
    BY <1>3, <1>5, ContinuesItself, ExactContinues DEF Timely
  <1>7. sig[k].at \in Nat /\ k \in Nat /\ D \in SUBSET Nat
    BY SignalElements DEF IsNext
  <1>8. Timely(sig, x, D \cup {k})
    BY <1>3, <1>4, <1>5, <1>7 DEF Timely, IsNext
  <1>9. a.from <= k /\ \A i \in D : i < k
    BY <1>1, <1>5, <1>7 DEF Timely, IsNext
  <1>10. Holding(sig, a, D \cup {k}) = q
    <2>1. a.paused = Holding(sig, a, D)
      BY <1>5 DEF UpToDate
    <2>2. Holding(sig, a, D \cup {k}) = HeldBehind(sig, a, k, Holding(sig, a, D))
      BY <1>1, <1>7, <1>9, HoldingNext
    <2>3. q = HeldBehind(sig, a, k, a.paused)
      BY Zenon DEF HeldBehind
    <2>4. QED
      BY <2>1, <2>2, <2>3
  <1>11. Holding(sig, x, D \cup {k}) = Holding(sig, a, D \cup {k})
    BY <1>4 DEF Holding
  <1>12. UpToDate(sig, x, D \cup {k})
    <2>1. \A i \in D \cup {k} : i >= a.from => sig[i].payload \notin Goal[a.goal].stop
      BY <1>5 DEF UpToDate
    <2>2. QED
      BY <1>3, <1>4, <1>10, <1>11, <2>1 DEF UpToDate
  <1>13. QED
    BY <1>0, <1>3, <1>4, <1>6, <1>8, <1>12 DEF Fits, Became

\* What Due asks of a cycle that the next signal reaches.
LEMMA NextIsDue ==
    ASSUME NEW sig \in Seq(SignalRow), NEW D, NEW k, IsNext(sig, D, k),
           NEW c \in CycleRow, c.ended = None, Fits(sig, c, D)
    PROVE  Due(sig, c, D, sig[k].at)
  BY DEF IsNext, Due, Fits, Timely

LEMMA ReactedFits ==
    ASSUME NEW sig \in Seq(SignalRow), NEW D, NEW k, IsNext(sig, D, k),
           NEW c \in CycleRow, c.ended = None, Fits(sig, c, D)
    PROVE  Became(sig, D \cup {k}, c, Reacted(c, sig[k]), sig[k].at)
  <1>0. PICK x : x = Reacted(c, sig[k])
    OBVIOUS
  <1>1. D \in SUBSET DOMAIN sig /\ sig[k].at \in Nat
    BY SignalElements DEF IsNext
  <1>2. PICK a : a = Accrued(c, sig[k].at)
    OBVIOUS
  <1>3. /\ a \in CycleRow /\ Fits(sig, a, D)
        /\ a.last = sig[k].at /\ a.ended = None /\ SameWatch(c, a) /\ a.paused = c.paused
    BY <1>1, <1>2, NextIsDue, AccruedFits
  <1>4. a.goal = c.goal
    BY <1>3 DEF SameWatch
  <1> DEFINE g == Goal[c.goal]
             p == sig[k].payload
             next == Fired(c.goal, p) \cup (IF p \in g.resume THEN {} ELSE c.paused)
  <1>5. CASE p \in g.reset
    <2>1. x = Ended(a, sig[k].at, "RESET")
      BY <1>2, <1>5, <1>0, Zenon DEF Reacted, Ended
    <2>2. "RESET" \in CycleState \ {"RUNNING", "PAUSED"}
      BY DEF CycleState
    <2>3. Became(sig, D \cup {k}, a, Ended(a, sig[k].at, "RESET"), sig[k].at)
      BY <1>3, <2>2, StoppedFits
    <2>4. QED
      BY <1>0, <1>4, <2>1, <2>3 DEF Became
  <1>6. CASE p \notin g.reset /\ p \in g.stop
    <2>1. PICK s : s = IF a.breached = None /\ p \in g.success THEN "MET" ELSE "STOPPED"
      OBVIOUS
    <2>2. x = Ended(a, sig[k].at, s)
      BY <1>2, <1>6, <2>1, <1>0, Zenon DEF Reacted, Ended
    <2>3. s \in CycleState \ {"RUNNING", "PAUSED"}
      BY <2>1 DEF CycleState
    <2>4. Became(sig, D \cup {k}, a, Ended(a, sig[k].at, s), sig[k].at)
      BY <1>3, <2>3, StoppedFits
    <2>5. QED
      BY <1>0, <1>4, <2>2, <2>4 DEF Became
  <1>7. CASE p \notin g.reset /\ p \notin g.stop
    <2>1. PICK q : q = next
      OBVIOUS
    <2>2. x = Continued(a, q)
      BY <1>2, <1>7, <2>1, <1>0, Zenon DEF Reacted, Continued
    <2>3. q = Fired(a.goal, p) \cup (IF p \in Goal[a.goal].resume THEN {} ELSE a.paused)
      BY <1>3, <1>4, <2>1
    <2>4. p \notin Goal[a.goal].stop
      BY <1>4, <1>7
    <2>6. Became(sig, D \cup {k}, a, Continued(a, q), sig[k].at)
      BY <1>3, <2>3, <2>4, ContinuedFits
    <2>7. QED
      BY <1>0, <1>4, <2>2, <2>6 DEF Became
  <1>8. QED
    BY <1>5, <1>6, <1>7

LEMMA NewCycleFits ==
    ASSUME NEW sig \in Seq(SignalRow), NEW D, NEW k, IsNext(sig, D, k),
           NEW v \in Version, sig[k].payload \notin Goal[v].stop,
           NEW n, n = NewCycle(v, sig[k], k)
    PROVE  n \in CycleRow /\ Fits(sig, n, D \cup {k})
  <1>1. sig[k].at \in Nat /\ k \in Nat /\ D \in SUBSET Nat
    BY SignalElements DEF IsNext
  <1>2. PICK f : f = Fired(v, sig[k].payload)
    OBVIOUS
  <1>3. f \in SUBSET Reasons /\ Condition(f) \in CycleState
    BY <1>2, FiredReasons DEF Condition, CycleState
  <1>4. n = [goal |-> v, started |-> sig[k].at, last |-> sig[k].at, elapsed |-> 0,
             paused |-> f, state |-> Condition(f),
             ended |-> None, risk |-> None, breached |-> None, from |-> k]
    BY <1>2, Zenon DEF NewCycle
  <1>5. /\ n.goal = v /\ n.started = sig[k].at /\ n.last = sig[k].at /\ n.elapsed = 0
        /\ n.paused = f /\ n.state = Condition(f)
        /\ n.ended = None /\ n.risk = None /\ n.breached = None /\ n.from = k
    BY <1>4
  <1>6. n \in CycleRow
    BY <1>1, <1>3, <1>4 DEF CycleRow
  <1>7. CountedIn(sig, n, n.last) = 0
    BY <1>1, <1>5, CountedFromStart
  <1>8. Exact(sig, n)
    <2>1. PICK m : m = Goal[v].target - Goal[v].risk
      OBVIOUS
    <2>2. 0 < m /\ 0 < Goal[v].target
      BY <2>1, GoalNumbers
    <2>3. ExactMark(sig, n, None, m) /\ ExactMark(sig, n, None, Goal[v].target)
      BY <1>7, <2>2 DEF ExactMark
    <2>4. QED
      BY <1>5, <1>7, <2>1, <2>3 DEF Exact
  <1>9. Timely(sig, n, D \cup {k})
    BY <1>1, <1>5 DEF Timely, IsNext
  <1>10. Holding(sig, n, D \cup {k}) = f
    <2>1. \A i \in D : i < k /\ ~ (i >= k)
      BY <1>1 DEF IsNext
    <2>2. Holding(sig, n, D) = {}
      BY <1>5, <2>1 DEF Holding
    <2>3. n.goal \in Version /\ n.from \in Nat /\ n.from <= k
      BY <1>1, <1>5
    <2>4. Holding(sig, n, D \cup {k}) = HeldBehind(sig, n, k, Holding(sig, n, D))
      BY ONLY <1>1, <2>1, <2>3, HoldingNext
    <2>5. QED
      BY <1>2, <1>5, <2>2, <2>4 DEF HeldBehind
  <1>11. UpToDate(sig, n, D \cup {k})
    <2>1. \A i \in D \cup {k} : i >= n.from => sig[i].payload \notin Goal[n.goal].stop
      <3>1. \A i \in D : ~ (i >= k)
        BY <1>1 DEF IsNext
      <3>2. QED
        BY <1>5, <3>1
    <2>2. QED
      BY <1>5, <1>10, <2>1 DEF UpToDate
  <1>12. QED
    BY <1>6, <1>8, <1>9, <1>11 DEF Fits

LEMMA EndedFits ==
    ASSUME NEW sig, NEW D, NEW k, NEW c, c.ended # None, Fits(sig, c, D)
    PROVE  Fits(sig, c, D \cup {k})
  BY DEF Fits, Timely, UpToDate

------------------------------------------------------------------------------
(* The cycles of a metric.                                                 *)

\* The list cs of cycles fits the handled signals D, only its last may be open, and
\* none is accounted beyond hi.
Lists(sig, cs, D, hi) ==
  /\ cs \in Seq(CycleRow)
  /\ \A k \in DOMAIN cs : /\ Fits(sig, cs[k], D) /\ cs[k].last <= hi
                          /\ k < Len(cs) => cs[k].ended # None

\* The lists cs of a request's cycles, by metric.
Books(sig, cs, D, hi) ==
  cs = [m \in Metric |-> cs[m]] /\ \A m \in Metric : Lists(sig, cs[m], D, hi)

LEMMA StageLists ==
    ASSUME NEW sig, NEW cs, NEW D, NEW hi
    PROVE  (Stage(sig, cs, D) /\ \A m \in Metric : \A k \in DOMAIN cs[m] : cs[m][k].last <= hi)
             <=> Books(sig, cs, D, hi)
  <1>1. cs \in [Metric -> Seq(CycleRow)] <=> /\ cs = [m \in Metric |-> cs[m]]
                                             /\ \A m \in Metric : cs[m] \in Seq(CycleRow)
    BY Zenon
  <1>2. QED
    BY <1>1, Zenon DEF Stage, Lists, Books

\* A finished cycle is history: ds is cs with its last cycle changed, if that was
\* open, and others behind it.
Grown(cs, ds) ==
  /\ Len(cs) <= Len(ds)
  /\ \A k \in DOMAIN cs : /\ ds[k].goal = cs[k].goal
                          /\ cs[k].ended # None => ds[k] = cs[k]

GrownAll(cs, ds) == \A m \in Metric : Grown(cs[m], ds[m])

LEMMA ListElements ==
    ASSUME NEW cs \in Seq(CycleRow)
    PROVE  /\ Len(cs) \in Nat /\ DOMAIN cs = 1..Len(cs)
           /\ \A k \in DOMAIN cs : k \in Nat /\ cs[k] \in CycleRow
           /\ cs # <<>> <=> Len(cs) > 0
           /\ cs # <<>> => Len(cs) \in DOMAIN cs
  OBVIOUS

LEMMA GrownAgain ==
    ASSUME NEW cs \in Seq(CycleRow), NEW ds \in Seq(CycleRow), NEW es \in Seq(CycleRow),
           Grown(cs, ds), Grown(ds, es)
    PROVE  Grown(cs, es)
  <1>1. Len(cs) \in Nat /\ Len(ds) \in Nat /\ Len(es) \in Nat /\ Len(cs) <= Len(es)
    BY ListElements DEF Grown
  <1>2. \A k \in DOMAIN cs : k \in DOMAIN ds
    BY ListElements DEF Grown
  <1>3. QED
    BY <1>1, <1>2 DEF Grown

LEMMA GrownItself ==
    ASSUME NEW cs \in Seq(CycleRow)
    PROVE  Grown(cs, cs)
  BY ListElements DEF Grown

\* Finished cycles that fit the signals D fit the signals E.
Carries(sig, D, E) == \A x : x.ended # None /\ Fits(sig, x, D) => Fits(sig, x, E)

\* Advancing the open cycle of a list to one that fits the signals E.
LEMMA AdvancedFits ==
    ASSUME NEW hi, NEW sig, NEW cs, NEW D, NEW E, Lists(sig, cs, D, hi), NEW c, NEW ds, ds = Advanced(cs, c),
           Carries(sig, D, E),
           Open(cs) => c \in CycleRow /\ Fits(sig, c, E) /\ c.goal = cs[Len(cs)].goal /\ c.last <= hi
    PROVE  Lists(sig, ds, E, hi) /\ Grown(cs, ds) /\ Len(ds) = Len(cs)
  <1>1. cs \in Seq(CycleRow)
    BY DEF Lists
  <1>2. CASE Open(cs)
    <2>1. Len(cs) \in DOMAIN cs /\ Len(cs) \in Nat /\ cs[Len(cs)].ended = None
      BY <1>1, <1>2, ListElements DEF Open
    <2>2. ds = [cs EXCEPT ![Len(cs)] = c]
      BY <1>2 DEF Advanced
    <2>3. /\ ds \in Seq(CycleRow) /\ Len(ds) = Len(cs) /\ DOMAIN ds = DOMAIN cs
          /\ \A k \in DOMAIN cs : ds[k] = IF k = Len(cs) THEN c ELSE cs[k]
      BY <1>1, <1>2, <2>1, <2>2
    <2>4. \A k \in DOMAIN cs : k # Len(cs) => k < Len(cs)
      BY <1>1, ListElements
    <2>5. ASSUME NEW k \in DOMAIN ds PROVE Fits(sig, ds[k], E) /\ ds[k].last <= hi /\ (k < Len(ds) => ds[k].ended # None)
      <3>1. CASE k = Len(cs)
        BY <1>2, <2>1, <2>3, <3>1
      <3>2. CASE k # Len(cs)
        <4>1. ds[k] = cs[k] /\ cs[k].ended # None /\ Fits(sig, cs[k], D) /\ cs[k].last <= hi
          BY <2>3, <2>4, <3>2 DEF Lists
        <4>2. QED
          BY <4>1 DEF Carries
      <3>3. QED
        BY <3>1, <3>2
    <2>6. Grown(cs, ds)
      BY <1>2, <2>1, <2>3 DEF Grown
    <2>7. QED
      BY <2>3, <2>5, <2>6 DEF Lists
  <1>3. CASE ~Open(cs)
    <2>1. ds = cs
      BY <1>3 DEF Advanced
    <2>2. ASSUME NEW k \in DOMAIN cs PROVE cs[k].ended # None
      <3>1. CASE k = Len(cs)
        BY <1>1, <1>3, <3>1, ListElements DEF Open
      <3>2. CASE k # Len(cs)
        <4>1. k < Len(cs)
          BY <1>1, <3>2, ListElements
        <4>2. QED
          BY <4>1 DEF Lists
      <3>3. QED
        BY <3>1, <3>2
    <2>3. QED
      BY <1>1, <2>1, <2>2, GrownItself DEF Lists, Carries
  <1>4. QED
    BY <1>2, <1>3

LEMMA AppendedFits ==
    ASSUME NEW hi, NEW sig, NEW cs, NEW D, Lists(sig, cs, D, hi), cs = <<>> \/ ~Open(cs),
           NEW n \in CycleRow, Fits(sig, n, D), n.last <= hi, NEW ds, ds = Append(cs, n)
    PROVE  Lists(sig, ds, D, hi) /\ Grown(cs, ds)
  <1>1. cs \in Seq(CycleRow)
    BY DEF Lists
  <1>2. /\ ds \in Seq(CycleRow) /\ Len(ds) = Len(cs) + 1
        /\ \A k \in DOMAIN cs : ds[k] = cs[k]
        /\ ds[Len(cs) + 1] = n
    BY <1>1, AppendProperties
  <1>3. ASSUME NEW k \in DOMAIN ds PROVE Fits(sig, ds[k], D) /\ ds[k].last <= hi /\ (k < Len(ds) => ds[k].ended # None)
    <2>1. k \in Nat /\ Len(cs) \in Nat /\ (k \in DOMAIN cs \/ k = Len(cs) + 1)
      BY <1>1, <1>2, ListElements
    <2>2. CASE k = Len(cs) + 1
      BY <1>2, <2>1, <2>2
    <2>3. CASE k \in DOMAIN cs
      <3>1. cs # <<>> /\ k <= Len(cs)
        BY <1>1, <2>3, ListElements
      <3>2. cs[Len(cs)].ended # None
        BY <3>1 DEF Open
      <3>3. k = Len(cs) \/ k < Len(cs)
        BY <2>1, <3>1
      <3>4. QED
        BY <1>2, <2>3, <3>2, <3>3 DEF Lists
    <2>4. QED
      BY <2>1, <2>2, <2>3
  <1>4. Grown(cs, ds)
    <2>1. Len(cs) \in Nat
      BY <1>1, ListElements
    <2>2. QED
      BY <1>2, <2>1 DEF Grown
  <1>5. QED
    BY <1>2, <1>3, <1>4 DEF Lists

LEMMA FirstStarter ==
    ASSUME NEW sig \in Seq(SignalRow), NEW k \in DOMAIN sig, NEW m, NEW cs,
           Starters(m, cs, sig[k]) # {}
    PROVE  LET v == sig[k].goals[First(Starters(m, cs, sig[k]))]
           IN  v \in Version /\ Starts(v, cs, sig[k].payload)
  <1>0. sig[k].goals \in PositionedGoals
    BY SignalElements
  <1>1. PICK K \in SUBSET GoalPosition : sig[k].goals \in [K -> Version]
    BY <1>0 DEF PositionedGoals
  <1>2. GoalPosition \in SUBSET Nat
    BY DEF GoalPosition
  <1>3. Starters(m, cs, sig[k]) \in SUBSET K
    BY <1>1 DEF Starters
  <1>4. PICK x \in Starters(m, cs, sig[k]) : \A y \in Starters(m, cs, sig[k]) : x <= y
    BY <1>2, <1>3, Least
  <1>5. First(Starters(m, cs, sig[k])) \in Starters(m, cs, sig[k])
    BY <1>4, Zenon DEF First
  <1>6. QED
    BY <1>1, <1>3, <1>5 DEF Starters

LEMMA HandledFits ==
    ASSUME NEW sig \in Seq(SignalRow), NEW D, NEW k, IsNext(sig, D, k), NEW hi, sig[k].at <= hi,
           NEW cs, Lists(sig, cs, D, hi), NEW m, NEW ds, ds = Handled(m, cs, sig[k], k)
    PROVE  Lists(sig, ds, D \cup {k}, hi) /\ Grown(cs, ds)
  <1>1. cs \in Seq(CycleRow)
    BY DEF Lists
  <1>2. PICK es : es = Advanced(cs, Reacted(cs[Len(cs)], sig[k]))
    OBVIOUS
  <1>0. PICK d : d = cs[Len(cs)]
    OBVIOUS
  <1>3. PICK c : c = Reacted(d, sig[k])
    OBVIOUS
  <1>4. ASSUME Open(cs)
        PROVE  c \in CycleRow /\ Fits(sig, c, D \cup {k}) /\ c.goal = cs[Len(cs)].goal /\ c.last <= hi
    <2>1. d \in CycleRow /\ d.ended = None /\ Fits(sig, d, D)
      BY <1>0, <1>1, <1>4, ListElements DEF Open, Lists
    <2>2. Became(sig, D \cup {k}, d, Reacted(d, sig[k]), sig[k].at)
      BY <2>1, ReactedFits
    <2>3. QED
      BY <1>0, <1>3, <2>2 DEF Became
  <1>5. Carries(sig, D, D \cup {k})
    BY EndedFits DEF Carries
  <1>6. Lists(sig, es, D \cup {k}, hi) /\ Grown(cs, es)
    <2>1. es = Advanced(cs, c)
      BY <1>0, <1>2, <1>3
    <2>2. QED
      BY <1>4, <1>5, <2>1, AdvancedFits
  <1>7. CASE Starters(m, es, sig[k]) = {}
    <2>1. ds = es
      BY <1>2, <1>7 DEF Handled
    <2>2. QED
      BY <1>6, <2>1
  <1>8. CASE Starters(m, es, sig[k]) # {}
    <2>1. PICK v : v = sig[k].goals[First(Starters(m, es, sig[k]))]
      OBVIOUS
    <2>2. k \in DOMAIN sig
      BY DEF IsNext
    <2>3. v \in Version /\ Starts(v, es, sig[k].payload)
      BY <1>8, <2>1, <2>2, FirstStarter
    <2>4. PICK n : n = NewCycle(v, sig[k], k)
      OBVIOUS
    <2>5. ds = Append(es, n)
      BY <1>2, <1>8, <2>1, <2>4 DEF Handled
    <2>6. sig[k].payload \notin Goal[v].stop /\ (es = <<>> \/ ~Open(es))
      BY <2>3 DEF Starts
    <2>7. n \in CycleRow /\ Fits(sig, n, D \cup {k}) /\ n.last <= hi
      BY <2>3, <2>4, <2>6, NewCycleFits DEF NewCycle
    <2>8. Lists(sig, ds, D \cup {k}, hi) /\ Grown(es, ds)
      BY <1>6, <2>5, <2>6, <2>7, AppendedFits
    <2>9. QED
      BY <1>1, <1>6, <2>8, GrownAgain DEF Lists
  <1>9. QED
    BY <1>7, <1>8

------------------------------------------------------------------------------
(* The batch of a transaction, and its tick.                               *)

\* The signals of r handled when the replay of the batch has come to signal k.
HandledBy(r, batch, k) ==
  {i \in DOMAIN signal[r] : signal[r][i].processed \/ (i \in batch /\ i <= k)}

LEMMA BatchFirst ==
    ASSUME NEW r \in Request, Sound(r), NEW t \in Nat
    PROVE  /\ Batch(r, t) \subseteq Pending(r, t)
           /\ \A i \in Batch(r, t), j \in Pending(r, t) : j < i => j \in Batch(r, t)
           /\ Pending(r, t) # {} => Batch(r, t) # {}
  <1> DEFINE P == Pending(r, t)
             Before(i) == {j \in P : j < i}
  <1>1. /\ Len(signal[r]) \in Nat /\ P \subseteq 1..Len(signal[r])
    BY SignalElements DEF Sound, Pending
  <1>2. IsFiniteSet(P)
    <2>1. IsFiniteSet(1..Len(signal[r]))
      BY <1>1, FS_Interval
    <2>2. QED
      BY <1>1, <2>1, FS_Subset
  <1>0. \A i \in P : i \in Nat
    BY <1>1
  <1>3. \A i \in P : IsFiniteSet(Before(i)) /\ Cardinality(Before(i)) \in Nat
    BY <1>2, FS_Subset, FS_CardinalityType
  <1>4. BatchSize \in Nat /\ 0 < BatchSize
    BY ClockAssumption
  <1> HIDE DEF P
  <1>5. \A i \in P : i \in Batch(r, t) <=> Cardinality(Before(i)) < BatchSize
    BY DEF Batch, P
  <1>6. ASSUME NEW i \in Batch(r, t), NEW j \in P, j < i PROVE j \in Batch(r, t)
    <2>1. i \in P
      BY DEF Batch, P
    <2>2. Before(j) \subseteq Before(i)
      BY <1>0, <1>6, <2>1
    <2> HIDE DEF Before
    <2>3. Cardinality(Before(j)) <= Cardinality(Before(i))
      BY <1>3, <2>1, <2>2, FS_Subset
    <2>4. Cardinality(Before(i)) < BatchSize
      BY <1>5, <2>1
    <2>5. Cardinality(Before(j)) < BatchSize
      BY <1>3, <1>4, <2>1, <2>3, <2>4
    <2>6. QED
      BY <1>5, <2>5
  <1>7. ASSUME P # {} PROVE Batch(r, t) # {}
    <2>1. P \in SUBSET Nat
      BY <1>1
    <2>2. PICK i \in P : \A j \in P : i <= j
      BY <1>7, <2>1, Least
    <2>3. Before(i) = {}
      BY <1>0, <2>2
    <2>4. Cardinality(Before(i)) = 0
      BY <2>3, FS_EmptySet
    <2>5. QED
      BY <1>4, <1>5, <2>4
  <1>8. QED
    BY <1>6, <1>7 DEF Batch, P

LEMMA PendingSignals ==
    ASSUME NEW r \in Request, NEW t
    PROVE  \A i : i \in Pending(r, t) <=> /\ i \in DOMAIN signal[r] /\ ~signal[r][i].processed
                                          /\ signal[r][i].at <= t
  BY DEF Pending

\* Each signal of the batch is the next one after those handled before it.
LEMMA BatchNext ==
    ASSUME NEW r \in Request, Sound(r), NEW t \in Nat, NEW k \in Batch(r, t)
    PROVE  IsNext(signal[r], HandledBy(r, Batch(r, t), k - 1), k)
  <1> DEFINE sig == signal[r]
             B == Batch(r, t)
             D == HandledBy(r, B, k - 1)
  <1>1. /\ sig \in Seq(SignalRow) /\ InIdOrder(r)
        /\ Len(sig) \in Nat /\ DOMAIN sig = 1..Len(sig)
        /\ \A i \in DOMAIN sig : i \in Nat /\ sig[i].at \in Nat
    BY SignalElements DEF Sound
  <1>2. B \subseteq Pending(r, t) /\ \A i \in B, j \in Pending(r, t) : j < i => j \in B
    BY BatchFirst
  <1>3. k \in DOMAIN sig /\ ~sig[k].processed /\ sig[k].at <= t
    BY <1>2, PendingSignals
  <1>4. \A i \in DOMAIN sig : i \in D <=> (sig[i].processed \/ (i \in B /\ i <= k - 1))
    BY DEF HandledBy
  <1>5. k \notin D
    BY <1>1, <1>3, <1>4
  <1>6. ASSUME NEW i \in D PROVE i < k /\ sig[i].at <= sig[k].at
    <2>1. i \in DOMAIN sig
      BY DEF HandledBy
    <2>2. i # k
      BY <1>5, <1>6
    <2>3. ~ (k < i)
      <3>1. SUFFICES ASSUME k < i PROVE FALSE
        OBVIOUS
      <3>2. ~ (i <= k - 1)
        BY <1>1, <1>3, <2>1, <3>1
      <3>3. sig[i].processed
        BY <1>4, <1>6, <2>1, <3>2
      <3>4. sig[i].processed => sig[k].processed
        BY <1>1, <1>3, <2>1, <3>1 DEF InIdOrder
      <3>5. QED
        BY <1>3, <3>3, <3>4
    <2>4. i < k
      BY <1>1, <1>3, <2>1, <2>2, <2>3
    <2>5. QED
      BY <1>1, <1>3, <2>1, <2>4 DEF InIdOrder
  <1>7. ASSUME NEW i \in DOMAIN sig \ D PROVE sig[k].at <= sig[i].at
    <2>1. ~sig[i].processed /\ ~(i \in B /\ i <= k - 1)
      BY <1>4
    <2>2. CASE i < k
      <3>1. sig[i].at <= sig[k].at
        BY <1>1, <1>3, <2>2 DEF InIdOrder
      <3>2. sig[i].at <= t
        BY <1>1, <1>3, <3>1
      <3>3. i \in Pending(r, t)
        BY <2>1, <3>2, PendingSignals
      <3>4. i \in B
        BY <1>2, <2>2, <3>3
      <3>5. i <= k - 1
        BY <1>1, <1>3, <2>2
      <3>6. QED
        BY <2>1, <3>4, <3>5
    <2>3. CASE i = k
      BY <1>1, <2>3
    <2>4. CASE k < i
      BY <1>1, <1>3, <2>4 DEF InIdOrder
    <2>5. QED
      BY <1>1, <1>3, <2>2, <2>3, <2>4
  <1>8. D \subseteq DOMAIN sig
    BY DEF HandledBy
  <1>9. QED
    BY <1>3, <1>5, <1>6, <1>7, <1>8 DEF IsNext

\* The tick lies between the handled signals, the last check and the signals left.
LEMMA TickBetween ==
    ASSUME NEW r \in Request, Sound(r), NEW t \in Nat, ~CheckedAfter(r, t)
    PROVE  /\ Tick(r, t) \in Nat /\ Tick(r, t) <= t
           /\ checked[r] # None => checked[r] <= Tick(r, t)
           /\ \A i \in HandledBy(r, Batch(r, t), Len(signal[r])) : signal[r][i].at <= Tick(r, t)
           /\ \A i \in DOMAIN signal[r] \ HandledBy(r, Batch(r, t), Len(signal[r])) :
                Tick(r, t) <= signal[r][i].at
  <1> DEFINE sig == signal[r]
             B == Batch(r, t)
             P == Pending(r, t)
             D == HandledBy(r, B, Len(sig))
  <1>1. /\ sig \in Seq(SignalRow) /\ InIdOrder(r) /\ CheckedBetween(r) /\ checked[r] \in Nat \cup {None}
        /\ Len(sig) \in Nat /\ DOMAIN sig = 1..Len(sig)
        /\ \A i \in DOMAIN sig : i \in Nat /\ sig[i].at \in Nat
    BY SignalElements DEF Sound
  <1>2. /\ B \subseteq P /\ (\A i \in B, j \in P : j < i => j \in B) /\ (P # {} => B # {})
    BY BatchFirst
  <1>3. \A i : i \in P <=> i \in DOMAIN sig /\ ~sig[i].processed /\ sig[i].at <= t
    BY PendingSignals
  <1>4. \A i \in DOMAIN sig : i <= Len(sig)
    BY <1>1
  <1>5. \A i : i \in D <=> i \in DOMAIN sig /\ (sig[i].processed \/ i \in B)
    BY <1>4 DEF HandledBy
  <1>6. checked[r] # None => checked[r] \in Nat /\ checked[r] <= t
    BY <1>1 DEF CheckedAfter
  <1>7. \A i \in DOMAIN sig : /\ sig[i].processed => checked[r] # None /\ sig[i].at <= checked[r]
                              /\ ~sig[i].processed /\ checked[r] # None => checked[r] <= sig[i].at
    BY <1>1 DEF CheckedBetween
  <1>8. CASE B = P
    <2>1. Tick(r, t) = t
      BY <1>8 DEF Tick
    <2>2. \A i \in D : sig[i].at <= t
      <3> TAKE i \in D
      <3>1. CASE sig[i].processed
        BY <1>1, <1>5, <1>6, <1>7, <3>1
      <3>2. CASE i \in B
        BY <1>2, <1>3, <3>2
      <3>3. QED
        BY <1>5, <3>1, <3>2
    <2>3. \A i \in DOMAIN sig \ D : t <= sig[i].at
      BY <1>1, <1>3, <1>5, <1>8
    <2>4. QED
      BY <1>6, <2>1, <2>2, <2>3
  <1>9. CASE B # P
    <2>1. PICK b : b = Latest(B)
      OBVIOUS
    <2>2. Tick(r, t) = sig[b].at
      BY <1>9, <2>1 DEF Tick
    <2>3. B # {} /\ B \in SUBSET (0..Len(sig))
      <3>1. \A i \in B : i \in DOMAIN sig
        BY <1>2, <1>3
      <3>2. \A i \in DOMAIN sig : i \in 0..Len(sig)
        BY <1>1
      <3>3. P # {}
        BY <1>2, <1>9
      <3>4. QED
        BY <1>2, <3>1, <3>2, <3>3
    <2>4. b \in B /\ \A i \in B : i <= b
      BY <1>1, <2>1, <2>3, LatestOf
    <2>5. b \in DOMAIN sig /\ ~sig[b].processed /\ sig[b].at <= t
      BY <1>2, <1>3, <2>4
    <2>6. checked[r] # None => checked[r] <= sig[b].at
      BY <1>7, <2>5
    <2>7. \A i \in D : sig[i].at <= sig[b].at
      <3> TAKE i \in D
      <3>1. i \in DOMAIN sig
        BY <1>5
      <3>2. CASE sig[i].processed
        <4>1. checked[r] \in Nat /\ sig[i].at <= checked[r] /\ checked[r] <= sig[b].at
          BY <1>6, <1>7, <2>6, <3>1, <3>2
        <4>2. QED
          BY <1>1, <2>5, <3>1, <4>1
      <3>3. CASE i \in B
        <4>1. i = b \/ i < b
          BY <1>1, <2>4, <2>5, <3>1, <3>3
        <4>2. QED
          BY <1>1, <2>5, <3>1, <4>1 DEF InIdOrder
      <3>4. QED
        BY <1>5, <3>2, <3>3
    <2>8. \A i \in DOMAIN sig \ D : sig[b].at <= sig[i].at
      <3> TAKE i \in DOMAIN sig \ D
      <3>1. ~sig[i].processed /\ i \notin B
        BY <1>5
      <3>2. CASE i \in P
        <4>1. ~ (i < b)
          BY <1>2, <2>4, <3>1, <3>2
        <4>2. i = b \/ b < i
          BY <1>1, <2>5, <4>1
        <4>3. QED
          BY <1>1, <2>5, <4>2 DEF InIdOrder
      <3>3. CASE i \notin P
        <4>1. ~ (sig[i].at <= t)
          BY <1>3, <3>1, <3>3
        <4>2. QED
          BY <1>1, <2>5, <4>1
      <3>4. QED
        BY <3>2, <3>3
    <2>9. sig[b].at \in Nat
      BY <1>1, <2>5
    <2>10. QED
      BY <2>2, <2>5, <2>6, <2>7, <2>8, <2>9
  <1>10. QED
    BY <1>8, <1>9

NextHandled(D, batch, k) == IF k \in batch THEN D \cup {k} ELSE D

LEMMA HandledMembers ==
    ASSUME NEW r \in Request, Sound(r), NEW batch
    PROVE  /\ HandledBy(r, batch, 0) = Reached(signal[r])
           /\ \A k \in 1..Len(signal[r]) :
                HandledBy(r, batch, k) = NextHandled(HandledBy(r, batch, k - 1), batch, k)
  <1>1. /\ Len(signal[r]) \in Nat /\ DOMAIN signal[r] = 1..Len(signal[r])
    BY SignalElements DEF Sound
  <1>2. \A i \in DOMAIN signal[r] : i \in Nat /\ ~ (i <= 0)
    BY <1>1
  <1>3. HandledBy(r, batch, 0) = Reached(signal[r])
    BY <1>2 DEF HandledBy, Reached
  <1>4. ASSUME NEW k \in 1..Len(signal[r])
        PROVE  HandledBy(r, batch, k) = NextHandled(HandledBy(r, batch, k - 1), batch, k)
    <2>1. k \in DOMAIN signal[r]
      BY <1>1
    <2>2. \A i \in DOMAIN signal[r] : i <= k <=> (i <= k - 1 \/ i = k)
      BY <1>2
    <2>3. QED
      BY <2>1, <2>2 DEF HandledBy, NextHandled
  <1>5. QED
    BY <1>3, <1>4

\* One step of the replay.
LEMMA StepFits ==
    ASSUME NEW r \in Request, NEW batch, NEW D, NEW k, NEW hi, NEW cs,
           signal[r] \in Seq(SignalRow),
           Books(signal[r], cs, D, hi),
           k \in batch => IsNext(signal[r], D, k) /\ signal[r][k].at <= hi
    PROVE  /\ Books(signal[r], Step(r, batch, cs, k), NextHandled(D, batch, k), hi)
           /\ GrownAll(cs, Step(r, batch, cs, k))
  <1> DEFINE ds == Step(r, batch, cs, k)
             E == NextHandled(D, batch, k)
  <1>0. /\ cs = [m \in Metric |-> cs[m]]
        /\ \A m \in Metric : Lists(signal[r], cs[m], D, hi)
    BY DEF Books
  <1>1. CASE k \in batch
    <2>1. ds = [m \in Metric |-> Handled(m, cs[m], signal[r][k], k)]
      BY <1>1 DEF Step
    <2>0. E = D \cup {k}
      BY <1>1 DEF NextHandled
    <2> HIDE DEF ds, E
    <2>2. ds = [m \in Metric |-> ds[m]]
      BY <2>1
    <2>3. ASSUME NEW m \in Metric PROVE Lists(signal[r], ds[m], E, hi) /\ Grown(cs[m], ds[m])
      <3>1. ds[m] = Handled(m, cs[m], signal[r][k], k)
        BY <2>1
      <3>2. QED
        BY <1>0, <1>1, <2>0, <3>1, HandledFits
    <2>4. QED
      BY <2>2, <2>3 DEF Books, GrownAll, ds, E
  <1>2. CASE k \notin batch
    <2>1. ds = cs /\ E = D
      BY <1>2 DEF Step, NextHandled
    <2>2. \A m \in Metric : Grown(cs[m], cs[m])
      BY <1>0, GrownItself DEF Lists
    <2>3. QED
      BY <2>1, <2>2 DEF GrownAll
  <1>3. QED
    BY <1>1, <1>2

\* The replay: after signal k the cycles fit the signals handled so far.
LEMMA ReplayFits ==
    ASSUME NEW r \in Request, Sound(r), NEW t \in Nat, ~CheckedAfter(r, t),
           NEW batch, batch = Batch(r, t), NEW hi, hi = Tick(r, t),
           NEW after, after = Replayed(r, batch)
    PROVE  \A k \in 0..Len(signal[r]) :
             Books(signal[r], after[k], HandledBy(r, batch, k), hi) /\ GrownAll(cycle[r], after[k])
  <1> DEFINE N == Len(signal[r])
             Good(k) == Books(signal[r], after[k], HandledBy(r, batch, k), hi)
                        /\ GrownAll(cycle[r], after[k])
             S == {k \in 0..N : Good(k)}
  <1>1. signal[r] \in Seq(SignalRow) /\ N \in Nat
    BY SignalElements DEF Sound
  <1>2. /\ after[0] = cycle[r]
        /\ \A k \in 1..N : after[k] = Step(r, batch, after[k - 1], k)
    BY <1>1, ReplayedStepwise
  <1>3. /\ hi \in Nat /\ (checked[r] # None => checked[r] <= hi)
        /\ \A k \in batch : signal[r][k].at <= hi
    <2>1. \A k \in batch : k \in HandledBy(r, batch, N)
      <3> TAKE k \in batch
      <3>1. k \in DOMAIN signal[r] /\ k <= N
        BY <1>1, BatchFirst, PendingSignals
      <3>2. QED
        BY <3>1 DEF HandledBy
    <2>2. QED
      BY <2>1, TickBetween
  <1>4. Good(0)
    <2>1. \A m \in Metric : \A k \in DOMAIN cycle[r][m] : cycle[r][m][k].last <= hi
      <3> TAKE m \in Metric
      <3> TAKE k \in DOMAIN cycle[r][m]
      <3>1. checked[r] # None /\ cycle[r][m][k].last <= checked[r] /\ checked[r] \in Nat \cup {None}
        BY DEF Sound, CheckedBetween
      <3>2. cycle[r][m] \in Seq(CycleRow)
        BY DEF Sound, Stage
      <3>3. cycle[r][m][k].last \in Nat
        BY <3>2, ListElements, RowFields
      <3>4. QED
        BY <1>3, <3>1, <3>3
    <2>2. Stage(signal[r], cycle[r], Reached(signal[r]))
      BY DEF Sound
    <2>3. Books(signal[r], cycle[r], Reached(signal[r]), hi)
      BY <2>1, <2>2, StageLists
    <2>4. GrownAll(cycle[r], cycle[r])
      BY <2>3, GrownItself DEF GrownAll, Books, Lists
    <2>5. HandledBy(r, batch, 0) = Reached(signal[r])
      BY HandledMembers
    <2>6. QED
      BY <1>2, <2>3, <2>4, <2>5, Zenon
  <1>5. ASSUME NEW k \in 0..(N - 1), k \in S PROVE k + 1 \in S
    <2>1. PICK n : n = k + 1
      OBVIOUS
    <2>2. n \in 1..N /\ n \in 0..N /\ n - 1 = k
      BY <1>1, <2>1
    <2>3. PICK D : D = HandledBy(r, batch, k)
      OBVIOUS
    <2>4. PICK E : E = HandledBy(r, batch, n)
      OBVIOUS
    <2>5. E = NextHandled(D, batch, n)
      <3>1. HandledBy(r, batch, n) = NextHandled(HandledBy(r, batch, n - 1), batch, n)
        BY <2>2, HandledMembers
      <3>2. QED
        BY <2>2, <2>3, <2>4, <3>1
    <2>6. n \in batch => IsNext(signal[r], D, n) /\ signal[r][n].at <= hi
      BY <1>3, <2>2, <2>3, BatchNext
    <2>7. PICK cs : cs = after[k]
      OBVIOUS
    <2>8. PICK ds : ds = after[n]
      OBVIOUS
    <2>9. ds = Step(r, batch, cs, n)
      BY <1>2, <2>2, <2>7, <2>8
    <2>10. Books(signal[r], cs, D, hi) /\ GrownAll(cycle[r], cs)
      BY <1>5, <2>3, <2>7, Zenon
    <2>11. Books(signal[r], ds, E, hi) /\ GrownAll(cs, ds)
      BY <1>1, <2>5, <2>6, <2>9, <2>10, StepFits
    <2>12. GrownAll(cycle[r], ds)
      <3> SUFFICES ASSUME NEW m \in Metric PROVE Grown(cycle[r][m], ds[m])
        BY DEF GrownAll
      <3>1. cycle[r][m] \in Seq(CycleRow)
        BY DEF Sound, Stage
      <3>2. cs[m] \in Seq(CycleRow) /\ ds[m] \in Seq(CycleRow)
        BY <2>10, <2>11 DEF Books, Lists
      <3>3. Grown(cycle[r][m], cs[m]) /\ Grown(cs[m], ds[m])
        BY <2>10, <2>11 DEF GrownAll
      <3>4. QED
        BY <3>1, <3>2, <3>3, GrownAgain
    <2>13. Good(n)
      BY <2>4, <2>8, <2>11, <2>12, Zenon
    <2> HIDE DEF Good
    <2>14. QED
      BY <2>1, <2>2, <2>13
  <1>6. 0 \in S
    <2> HIDE DEF Good
    <2>1. QED
      BY <1>1, <1>4
  <1>7. \A k \in 0..N : k \in S
    <2> HIDE DEF S
    <2>1. QED
      BY <1>1, <1>5, <1>6, Upto
  <1>8. \A k \in 0..N : Good(k)
    <2> HIDE DEF Good
    <2>1. QED
      BY <1>7
  <1>9. QED
    BY <1>8, Zenon

\* The cycles that a transaction leaves behind.
LEMMA TickedFits ==
    ASSUME NEW r \in Request, Sound(r), NEW t \in Nat, ~CheckedAfter(r, t),
           NEW batch, batch = Batch(r, t), NEW at, at = Tick(r, t),
           NEW D, D = HandledBy(r, batch, Len(signal[r])),
           NEW cs, cs = Replayed(r, batch)[Len(signal[r])], NEW ds, ds = Ticked(cs, at)
    PROVE  /\ Stage(signal[r], ds, D)
           /\ \A m \in Metric : /\ \A k \in DOMAIN ds[m] : ds[m][k].last <= at
                                /\ Grown(cycle[r][m], ds[m])
  <1>1. signal[r] \in Seq(SignalRow) /\ Len(signal[r]) \in 0..Len(signal[r])
    BY SignalElements DEF Sound
  <1>2. /\ cs = [m \in Metric |-> cs[m]]
        /\ \A m \in Metric : Lists(signal[r], cs[m], D, at) /\ Grown(cycle[r][m], cs[m])
    <2>1. Books(signal[r], cs, D, at) /\ GrownAll(cycle[r], cs)
      BY <1>1, ReplayFits
    <2>2. QED
      BY <2>1 DEF Books, GrownAll
  <1>3. at \in Nat /\ \A i \in DOMAIN signal[r] \ D : at <= signal[r][i].at
    BY TickBetween
  <1>4. ds = [m \in Metric |-> ds[m]]
    BY DEF Ticked
  <1>5. D \in SUBSET DOMAIN signal[r]
    BY DEF HandledBy
  <1>6. ASSUME NEW m \in Metric PROVE Lists(signal[r], ds[m], D, at) /\ Grown(cycle[r][m], ds[m])
    <2>1. PICK l : l = cs[m]
      OBVIOUS
    <2>2. PICK d : d = l[Len(l)]
      OBVIOUS
    <2>3. PICK c : c = Accrued(d, at)
      OBVIOUS
    <2>4. ds[m] = Advanced(l, c)
      BY <2>1, <2>2, <2>3 DEF Ticked
    <2>5. Lists(signal[r], l, D, at) /\ Grown(cycle[r][m], l) /\ l \in Seq(CycleRow)
      BY <1>2, <2>1 DEF Lists
    <2>6. ASSUME Open(l)
          PROVE  c \in CycleRow /\ Fits(signal[r], c, D) /\ c.goal = d.goal /\ c.last <= at
      <3>1. d \in CycleRow /\ d.ended = None /\ Fits(signal[r], d, D) /\ d.last <= at
        BY <2>2, <2>5, <2>6, ListElements DEF Open, Lists
      <3>2. Due(signal[r], d, D, at)
        BY <1>3, <3>1 DEF Due
      <3>3. c \in CycleRow /\ Fits(signal[r], c, D) /\ c.last = at /\ SameWatch(d, c)
        BY <1>1, <1>3, <1>5, <2>3, <3>1, <3>2, AccruedFits
      <3>4. QED
        BY <1>3, <3>3 DEF SameWatch
    <2>7. Carries(signal[r], D, D)
      BY DEF Carries
    <2>8. Lists(signal[r], ds[m], D, at) /\ Grown(l, ds[m])
      BY <2>2, <2>4, <2>5, <2>6, <2>7, AdvancedFits
    <2>9. cycle[r][m] \in Seq(CycleRow)
      BY DEF Sound, Stage
    <2>10. QED
      BY <2>5, <2>8, <2>9, GrownAgain DEF Lists
  <1>7. Stage(signal[r], ds, D) /\ \A m \in Metric : \A k \in DOMAIN ds[m] : ds[m][k].last <= at
    <2>1. Books(signal[r], ds, D, at)
      BY <1>4, <1>6 DEF Books
    <2>2. QED
      BY <2>1, StageLists
  <1>8. QED
    BY <1>6, <1>7

------------------------------------------------------------------------------
(* The steps of the system.                                                *)

LEMMA FitsContinues ==
    ASSUME NEW sig \in Seq(SignalRow), NEW sig2 \in Seq(SignalRow), NEW D \in SUBSET DOMAIN sig,
           NEW c \in CycleRow, Fits(sig, c, D), Continues(sig, sig2, c.last)
    PROVE  Fits(sig2, c, D)
  <1>1. Timely(sig, c, D) /\ Exact(sig, c) /\ UpToDate(sig, c, D)
    BY DEF Fits
  <1>2. SameWatch(c, c)
    BY DEF SameWatch
  <1>3. Exact(sig2, c)
    BY <1>1, <1>2, ExactContinues DEF Timely
  <1>4. \A i \in D : i \in DOMAIN sig /\ sig2[i].at = sig[i].at /\ sig2[i].payload = sig[i].payload
    BY DEF Continues
  <1>5. \A i \in DOMAIN sig2 \ D : c.last <= sig2[i].at
    BY <1>1 DEF Timely, Continues
  <1>6. Timely(sig2, c, D)
    BY <1>1, <1>4, <1>5 DEF Timely
  <1>7. Holding(sig2, c, D) = Holding(sig, c, D)
    BY <1>4 DEF Holding
  <1>8. UpToDate(sig2, c, D)
    BY <1>1, <1>4, <1>7 DEF UpToDate
  <1>9. QED
    BY <1>3, <1>6, <1>8 DEF Fits

LEMMA StageContinues ==
    ASSUME NEW sig \in Seq(SignalRow), NEW sig2 \in Seq(SignalRow), NEW D \in SUBSET DOMAIN sig,
           NEW cs, Stage(sig, cs, D),
           \A m \in Metric : \A k \in DOMAIN cs[m] : Continues(sig, sig2, cs[m][k].last)
    PROVE  Stage(sig2, cs, D)
  <1>1. \A m \in Metric : cs[m] \in Seq(CycleRow)
    BY DEF Stage
  <1>2. ASSUME NEW m \in Metric, NEW k \in DOMAIN cs[m] PROVE Fits(sig2, cs[m][k], D)
    <2>1. cs[m][k] \in CycleRow /\ Fits(sig, cs[m][k], D)
      BY <1>1, ListElements DEF Stage
    <2>2. QED
      BY <2>1, FitsContinues
  <1>3. QED
    BY <1>2 DEF Stage

LEMMA StampAfter ==
    ASSUME NEW r \in Request, Sound(r), now \in Nat, NEW clock \in 0..now
    PROVE  /\ Stamp(r, clock) \in Nat /\ Stamp(r, clock) <= now
           /\ \A i \in DOMAIN signal[r] : signal[r][i].at <= Stamp(r, clock)
           /\ checked[r] # None => checked[r] <= Stamp(r, clock)
  <1> DEFINE A == {signal[r][i].at : i \in DOMAIN signal[r]}
             S == {clock} \cup ({checked[r]} \ {None}) \cup A
  <1>1. \A i \in DOMAIN signal[r] : signal[r][i].at \in 0..now
    BY SignalElements DEF Sound, CheckedBetween
  <1>2. checked[r] # None => checked[r] \in 0..now
    BY DEF Sound, CheckedBetween
  <1>3. S \in SUBSET (0..now) /\ S # {}
    BY <1>1, <1>2
  <1>4. Stamp(r, clock) = Latest(S)
    BY DEF Stamp
  <1>5. Latest(S) \in S /\ \A u \in S : u <= Latest(S)
    <2> HIDE DEF S
    <2>1. QED
      BY <1>3, LatestOf
  <1>6. Latest(S) \in 0..now
    <2> HIDE DEF S
    <2>1. QED
      BY <1>3, <1>5
  <1>7. \A i \in DOMAIN signal[r] : signal[r][i].at \in S
    OBVIOUS
  <1>8. checked[r] # None => checked[r] \in S
    OBVIOUS
  <1> HIDE DEF S
  <1>9. QED
    BY <1>4, <1>5, <1>6, <1>7, <1>8

\* A request that a step leaves alone.
LEMMA SoundKept ==
    ASSUME NEW r \in Request, Sound(r), now \in Nat, now' \in Nat, now <= now',
           signal'[r] = signal[r], cycle'[r] = cycle[r], checked'[r] = checked[r]
    PROVE  Sound(r)'
  <1>1. \A i \in DOMAIN signal[r] : signal[r][i].at \in Nat
    BY SignalElements DEF Sound
  <1>2. InIdOrder(r)'
    BY DEF Sound, InIdOrder
  <1>3. CheckedBetween(r)'
    BY <1>1 DEF Sound, CheckedBetween
  <1>4. QED
    BY <1>2, <1>3 DEF Sound

\* A signal behind the others.
LEMMA SignalAppended ==
    ASSUME NEW r \in Request, Sound(r), now \in Nat, now' = now, NEW clock \in 0..now,
           NEW s \in SignalRow, ~s.processed, s.at = Stamp(r, clock),
           signal'[r] = Append(signal[r], s), cycle'[r] = cycle[r], checked'[r] = checked[r]
    PROVE  Sound(r)'
  <1>1. PICK sig : sig = signal[r]
    OBVIOUS
  <1>2. PICK sig2 : sig2 = signal'[r]
    OBVIOUS
  <1>3. sig \in Seq(SignalRow) /\ Len(sig) \in Nat /\ DOMAIN sig = 1..Len(sig)
        /\ \A i \in DOMAIN sig : i \in Nat /\ sig[i].at \in Nat
    BY <1>1, SignalElements DEF Sound
  <1>4. PICK n : n = Len(sig) + 1
    OBVIOUS
  <1>5. /\ sig2 \in Seq(SignalRow) /\ Len(sig2) = n /\ sig2[n] = s
        /\ \A i \in DOMAIN sig : sig2[i] = sig[i]
        /\ DOMAIN sig2 = DOMAIN sig \cup {n} /\ n \notin DOMAIN sig /\ n \in Nat
        /\ \A i \in DOMAIN sig : i < n
    BY <1>1, <1>2, <1>3, <1>4, AppendProperties
  <1>6. /\ s.at \in Nat /\ s.at <= now
        /\ \A i \in DOMAIN sig : sig[i].at <= s.at
        /\ checked[r] # None => checked[r] <= s.at
    BY <1>1, StampAfter
  <1>7. InIdOrder(r)'
    <2>1. SUFFICES ASSUME NEW i \in DOMAIN sig2, NEW j \in DOMAIN sig2, i < j
                   PROVE  sig2[i].at <= sig2[j].at /\ (sig2[j].processed => sig2[i].processed)
      BY <1>2 DEF InIdOrder
    <2>2. i \in DOMAIN sig
      BY <1>3, <1>5, <2>1
    <2>3. CASE j = n
      BY <1>5, <1>6, <2>2, <2>3
    <2>4. CASE j \in DOMAIN sig
      BY <1>1, <1>5, <2>1, <2>2, <2>4 DEF Sound, InIdOrder
    <2>5. QED
      BY <1>5, <2>3, <2>4
  <1>8. CheckedBetween(r)'
    <2>1. \A i \in DOMAIN sig2 :
            /\ sig2[i].at <= now
            /\ sig2[i].processed => checked[r] # None /\ sig2[i].at <= checked[r]
            /\ ~sig2[i].processed /\ checked[r] # None => checked[r] <= sig2[i].at
      <3> TAKE i \in DOMAIN sig2
      <3>1. CASE i = n
        BY <1>5, <1>6, <3>1
      <3>2. CASE i \in DOMAIN sig
        BY <1>1, <1>5, <3>2 DEF Sound, CheckedBetween
      <3>3. QED
        BY <1>5, <3>1, <3>2
    <2>2. QED
      BY <1>2, <2>1 DEF Sound, CheckedBetween
  <1>9. Stage(sig2, cycle[r], Reached(sig2))
    <2>1. Reached(sig2) = Reached(sig)
      BY <1>5 DEF Reached
    <2>2. Reached(sig) \in SUBSET DOMAIN sig
      BY DEF Reached
    <2>3. Stage(sig, cycle[r], Reached(sig))
      BY <1>1 DEF Sound
    <2>4. ASSUME NEW m \in Metric, NEW k \in DOMAIN cycle[r][m] PROVE Continues(sig, sig2, cycle[r][m][k].last)
      <3>1. cycle[r][m][k].last \in Nat
        <4>1. cycle[r][m] \in Seq(CycleRow)
          BY <2>3 DEF Stage
        <4>2. QED
          BY <4>1, ListElements, RowFields
      <3>2. checked[r] # None /\ cycle[r][m][k].last <= checked[r] /\ checked[r] \in Nat \cup {None}
        BY DEF Sound, CheckedBetween
      <3>3. cycle[r][m][k].last <= s.at
        BY <1>6, <3>1, <3>2
      <3>4. QED
        BY <1>5, <3>3 DEF Continues
    <2>5. QED
      BY <1>3, <1>5, <2>1, <2>2, <2>3, <2>4, StageContinues
  <1>10. QED
    BY <1>2, <1>5, <1>7, <1>8, <1>9 DEF Sound

LEMMA MarkedSignals ==
    ASSUME NEW sig \in Seq(SignalRow), NEW batch, NEW sig2, sig2 = MarkedProcessed(sig, batch)
    PROVE  /\ sig2 \in Seq(SignalRow) /\ DOMAIN sig2 = DOMAIN sig /\ Len(sig2) = Len(sig)
           /\ \A i \in DOMAIN sig : /\ sig2[i].at = sig[i].at /\ sig2[i].payload = sig[i].payload
                                    /\ sig2[i].processed <=> (sig[i].processed \/ i \in batch)
  <1>1. Len(sig) \in Nat /\ DOMAIN sig = 1..Len(sig)
    BY SignalElements
  <1>2. ASSUME NEW e \in SignalRow, NEW b \in BOOLEAN, NEW f, f = [e EXCEPT !.processed = b]
        PROVE  f \in SignalRow /\ f.at = e.at /\ f.payload = e.payload /\ (f.processed <=> b)
    <2>1. f \in SignalRow /\ f.at = e.at /\ f.payload = e.payload
      BY <1>2 DEF SignalRow
    <2>2. f.processed = b
      BY <1>2 DEF SignalRow
    <2>3. QED
      BY <2>1, <2>2
  <1>3. ASSUME NEW i \in DOMAIN sig
        PROVE  /\ sig2[i] \in SignalRow /\ sig2[i].at = sig[i].at /\ sig2[i].payload = sig[i].payload
               /\ sig2[i].processed <=> (sig[i].processed \/ i \in batch)
    <2>1. PICK b \in BOOLEAN : b <=> (sig[i].processed \/ i \in batch)
      OBVIOUS
    <2>2. PICK e \in SignalRow : e = sig[i]
      BY SignalElements
    <2>3. sig2[i] = [e EXCEPT !.processed = b]
      <3>1. sig2[i] = [sig[i] EXCEPT !.processed = sig[i].processed \/ i \in batch]
        BY Zenon DEF MarkedProcessed
      <3>2. b = (sig[i].processed \/ i \in batch)
        BY <2>1
      <3>3. QED
        BY <2>2, <3>1, <3>2, Zenon
    <2>4. QED
      BY <1>2, <2>1, <2>2, <2>3
  <1>4. DOMAIN sig2 = 1..Len(sig) /\ sig2 = [i \in 1..Len(sig) |-> sig2[i]]
    BY <1>1, Zenon DEF MarkedProcessed
  <1>5. sig2 \in Seq(SignalRow) /\ Len(sig2) = Len(sig)
    BY <1>1, <1>3, <1>4
  <1>6. QED
    BY <1>1, <1>3, <1>4, <1>5

\* What a transaction of the worker does to its request.
LEMMA ProcessedRequest ==
    ASSUME SlaInv, NEW r \in Request, NEW t \in Nat, Process(r, t)
    PROVE  /\ signal'[r] = MarkedProcessed(signal[r], Batch(r, t))
           /\ checked'[r] = Tick(r, t)
           /\ cycle'[r] = Ticked(Replayed(r, Batch(r, t))[Len(signal[r])], Tick(r, t))
           /\ \A x \in Request \ {r} : /\ signal'[x] = signal[x] /\ cycle'[x] = cycle[x]
                                       /\ checked'[x] = checked[x]
           /\ ~CheckedAfter(r, t)
           /\ now' = now /\ issue' = issue /\ edition' = edition /\ agent' = agent /\ blurred' = blurred
  <1>1. /\ signal \in [Request -> Seq(SignalRow)]
        /\ cycle \in [Request -> [Metric -> Seq(CycleRow)]]
        /\ checked \in [Request -> Nat \cup {None}]
    BY DEF SlaInv, SlaTypes
  <1>2. PICK marked : marked = MarkedProcessed(signal[r], Batch(r, t))
    OBVIOUS
  <1>3. PICK cs : cs = Ticked(Replayed(r, Batch(r, t))[Len(signal[r])], Tick(r, t))
    OBVIOUS
  <1>4. PICK at : at = Tick(r, t)
    OBVIOUS
  <1>5. /\ signal' = [signal EXCEPT ![r] = marked]
        /\ cycle' = [cycle EXCEPT ![r] = cs]
        /\ checked' = [checked EXCEPT ![r] = at]
        /\ ~CheckedAfter(r, t)
        /\ now' = now /\ issue' = issue /\ edition' = edition /\ agent' = agent /\ blurred' = blurred
    BY <1>2, <1>3, <1>4, Zenon DEF Process
  <1>6. QED
    BY <1>1, <1>2, <1>3, <1>4, <1>5

LEMMA ProcessedSound ==
    ASSUME SlaInv, NEW r \in Request, NEW t \in Nat, t <= now, Process(r, t)
    PROVE  Sound(r)' /\ GrownAll(cycle[r], cycle'[r])
  <1>1. PICK sig : sig = signal[r]
    OBVIOUS
  <1>2. PICK batch : batch = Batch(r, t)
    OBVIOUS
  <1>3. PICK at : at = Tick(r, t)
    OBVIOUS
  <1>4. PICK sig2 : sig2 = signal'[r]
    OBVIOUS
  <1>5. PICK ds : ds = cycle'[r]
    OBVIOUS
  <1>6. PICK D : D = HandledBy(r, batch, Len(sig))
    OBVIOUS
  <1>7. /\ sig2 = MarkedProcessed(sig, batch) /\ checked'[r] = at /\ now' = now /\ now \in Nat
        /\ ds = Ticked(Replayed(r, batch)[Len(sig)], at)
        /\ ~CheckedAfter(r, t) /\ Sound(r)
    BY <1>1, <1>2, <1>3, <1>4, <1>5, ProcessedRequest, ClockAssumption DEF SlaInv, SlaTypes
  <1>8. sig \in Seq(SignalRow) /\ InIdOrder(r) /\ CheckedBetween(r)
    BY <1>1, <1>7 DEF Sound
  <1>9. /\ Len(sig) \in Nat /\ DOMAIN sig = 1..Len(sig)
        /\ \A i \in DOMAIN sig : i \in Nat /\ sig[i].at \in Nat
    BY <1>8, SignalElements
  <1>10. /\ sig2 \in Seq(SignalRow) /\ DOMAIN sig2 = DOMAIN sig
         /\ \A i \in DOMAIN sig : /\ sig2[i].at = sig[i].at /\ sig2[i].payload = sig[i].payload
                                  /\ sig2[i].processed <=> (sig[i].processed \/ i \in batch)
    BY <1>7, <1>8, MarkedSignals
  <1>11. /\ at \in Nat /\ at <= t
         /\ \A i \in D : sig[i].at <= at
         /\ \A i \in DOMAIN sig \ D : at <= sig[i].at
    BY <1>1, <1>2, <1>3, <1>6, <1>7, TickBetween
  <1>12. \A i \in DOMAIN sig : i \in D <=> (sig[i].processed \/ i \in batch)
    <2>1. \A i \in DOMAIN sig : i <= Len(sig)
      BY <1>9
    <2>2. QED
      BY <1>1, <1>6, <2>1 DEF HandledBy
  <1>13. \A i \in DOMAIN sig : i \in D <=> sig2[i].processed
    BY <1>10, <1>12
  <1>14. /\ Stage(sig, ds, D)
         /\ \A m \in Metric : /\ \A k \in DOMAIN ds[m] : ds[m][k].last <= at
                              /\ Grown(cycle[r][m], ds[m])
    <2>1. PICK cs : cs = Replayed(r, batch)[Len(signal[r])]
      OBVIOUS
    <2>2. ds = Ticked(cs, at) /\ D = HandledBy(r, batch, Len(signal[r]))
      BY <1>1, <1>6, <1>7, <2>1
    <2>3. Stage(signal[r], ds, D)
      BY <1>2, <1>3, <1>7, <2>1, <2>2, TickedFits
    <2>4. \A m \in Metric : /\ \A k \in DOMAIN ds[m] : ds[m][k].last <= at
                            /\ Grown(cycle[r][m], ds[m])
      BY <1>2, <1>3, <1>7, <2>1, <2>2, TickedFits
    <2>5. QED
      BY <1>1, <2>3, <2>4
  <1>15. Stage(sig2, ds, Reached(sig2))
    <2>1. D \in SUBSET DOMAIN sig
      BY <1>1, <1>6 DEF HandledBy
    <2>2. Reached(sig2) = D
      BY <1>10, <1>13, <2>1 DEF Reached
    <2>3. \A x : Continues(sig, sig2, x)
      BY <1>10 DEF Continues
    <2>4. QED
      BY <1>8, <1>10, <1>14, <2>1, <2>2, <2>3, StageContinues
  <1>16. \A i, j \in DOMAIN sig : i < j /\ j \in D => i \in D
    <2>1. SUFFICES ASSUME NEW i \in DOMAIN sig, NEW j \in DOMAIN sig, i < j, j \in D PROVE i \in D
      OBVIOUS
    <2>2. CASE sig[j].processed
      BY <1>1, <1>8, <1>12, <2>1, <2>2 DEF InIdOrder
    <2>3. CASE j \in batch /\ ~sig[i].processed
      <3>1. j \in Pending(r, t) /\ \A x \in Pending(r, t) : x < j => x \in batch
        BY <1>2, <1>7, <2>3, BatchFirst
      <3>2. sig[j].at <= t
        BY <1>1, <3>1, PendingSignals
      <3>3. sig[i].at <= sig[j].at
        BY <1>1, <1>8, <2>1 DEF InIdOrder
      <3>4. sig[i].at <= t
        BY <1>9, <3>2, <3>3
      <3>5. i \in Pending(r, t)
        BY <1>1, <2>3, <3>4, PendingSignals
      <3>6. QED
        BY <1>12, <2>1, <3>1, <3>5
    <2>4. QED
      BY <1>12, <2>1, <2>2, <2>3
  <1>17. InIdOrder(r)'
    <2>1. SUFFICES ASSUME NEW i \in DOMAIN sig2, NEW j \in DOMAIN sig2, i < j
                   PROVE  sig2[i].at <= sig2[j].at /\ (sig2[j].processed => sig2[i].processed)
      BY <1>4 DEF InIdOrder
    <2>2. sig2[i].at = sig[i].at /\ sig2[j].at = sig[j].at /\ sig[i].at <= sig[j].at
      BY <1>1, <1>8, <1>10, <2>1 DEF InIdOrder
    <2>3. j \in D => i \in D
      BY <1>10, <1>16, <2>1
    <2>4. QED
      BY <1>10, <1>13, <2>2, <2>3
  <1>18. CheckedBetween(r)'
    <2>1. at # None /\ at <= now /\ t \in Nat
      BY <1>7, <1>11, NoneIsNoNumber
    <2>2. \A i \in DOMAIN sig2 :
            /\ sig2[i].at <= now
            /\ sig2[i].processed => sig2[i].at <= at
            /\ ~sig2[i].processed => at <= sig2[i].at
      <3> TAKE i \in DOMAIN sig2
      <3>1. i \in DOMAIN sig /\ sig2[i].at = sig[i].at /\ (i \in D <=> sig2[i].processed)
        BY <1>10, <1>13
      <3>2. sig[i].at <= now
        BY <1>1, <1>8, <3>1 DEF CheckedBetween
      <3>3. QED
        BY <1>11, <3>1, <3>2
    <2>3. QED
      BY <1>4, <1>5, <1>7, <1>14, <2>1, <2>2 DEF CheckedBetween
  <1>19. Sound(r)'
    <2>1. checked'[r] \in Nat \cup {None}
      BY <1>7, <1>11
    <2>2. QED
      BY <1>4, <1>5, <1>10, <1>15, <1>17, <1>18, <2>1 DEF Sound
  <1>20. QED
    BY <1>5, <1>14, <1>19 DEF GrownAll

\* The goals of a signal stand at positions of the published list.
LEMMA GoalsPositioned ==
    ASSUME SlaTypes
    PROVE  goals \in PositionedGoals /\ \A p : Matching(p) \in PositionedGoals
  <1>1. goals \in Seq(Version) /\ edition \in DOMAIN Catalog
    BY GoalAssumption DEF SlaTypes, goals
  <1>2. /\ goals \in [DOMAIN goals -> Version] /\ DOMAIN goals = 1..Len(Catalog[edition])
    BY <1>1 DEF goals
  <1>3. DOMAIN goals \in SUBSET GoalPosition
    BY <1>1, <1>2 DEF GoalPosition
  <1>4. ASSUME NEW K \in SUBSET DOMAIN goals, NEW f \in [K -> Version] PROVE f \in PositionedGoals
    BY <1>3, <1>4 DEF PositionedGoals
  <1>5. ASSUME NEW p PROVE Matching(p) \in PositionedGoals
    <2> DEFINE Fit(k) == p \in Goal[goals[k]].when
               K == {k \in DOMAIN goals : Fit(k) /\ \A j \in 1..(k - 1) :
                       ~(Fit(j) /\ Goal[goals[j]].metric = Goal[goals[k]].metric)}
    <2>1. Matching(p) = [k \in K |-> goals[k]]
      BY Zenon DEF Matching
    <2>2. K \in SUBSET DOMAIN goals
      OBVIOUS
    <2> HIDE DEF K
    <2>3. [k \in K |-> goals[k]] \in [K -> Version]
      BY <1>2, <2>2
    <2>4. QED
      BY <1>4, <2>1, <2>2, <2>3
  <1>6. QED
    BY <1>2, <1>4, <1>5

LEMMA ClockTypes ==
    ASSUME SlaInv
    PROVE  /\ now \in Nat /\ now <= MaxTime /\ MaxTime \in Nat
           /\ DbClock \in 0..now
  BY ClockAssumption DEF SlaInv, SlaTypes, DbClock

\* What a new signal does: it goes behind the others, and shows what was read.
LEMMA PutSignal ==
    ASSUME SlaInv, NEW r \in Request, NEW ev \in Event, NEW seen \in Status,
           NEW clock \in 0..now, NEW vs \in PositionedGoals, Put(r, ev, seen, clock, vs),
           now' = now, cycle' = cycle, checked' = checked
    PROVE  /\ signal' \in [Request -> Seq(SignalRow)]
           /\ \A x \in Request \ {r} : signal'[x] = signal[x]
           /\ Sound(r)'
           /\ signal'[r][Len(signal'[r])].payload.status = seen
  <1>1. signal \in [Request -> Seq(SignalRow)] /\ Sound(r)
    BY DEF SlaInv, SlaTypes
  <1>2. now \in Nat
    BY ClockTypes
  <1>3. PICK at : at = Stamp(r, clock)
    OBVIOUS
  <1>4. PICK s : s = [at |-> at, goals |-> vs, processed |-> FALSE,
                      payload |-> [event |-> ev, status |-> seen]]
    OBVIOUS
  <1>5. at \in Nat
    BY <1>1, <1>2, <1>3, StampAfter
  <1>6. [event |-> ev, status |-> seen] \in Payload
    BY DEF Payload
  <1>7. s \in SignalRow /\ ~s.processed /\ s.at = Stamp(r, clock) /\ s.payload.status = seen
    BY <1>3, <1>4, <1>5, <1>6 DEF SignalRow
  <1>8. signal' = [signal EXCEPT ![r] = Append(signal[r], s)]
    BY <1>3, <1>4, Zenon DEF Put
  <1>9. signal'[r] = Append(signal[r], s) /\ \A x \in Request \ {r} : signal'[x] = signal[x]
    BY <1>1, <1>8
  <1>10. Append(signal[r], s) \in Seq(SignalRow)
    BY <1>1, <1>7
  <1>11. signal' \in [Request -> Seq(SignalRow)]
    BY <1>1, <1>8, <1>10
  <1>12. Sound(r)'
    BY <1>1, <1>2, <1>7, <1>9, SignalAppended
  <1>13. signal'[r][Len(signal'[r])] = s
    <2>1. signal[r] \in Seq(SignalRow)
      BY <1>1
    <2>2. QED
      BY <1>7, <1>9, <2>1, AppendProperties
  <1>14. QED
    BY <1>7, <1>9, <1>11, <1>12, <1>13

\* Signals all handled: nothing is pending up to any time.
LEMMA NothingPending ==
    ASSUME SlaInv, NEW r \in Request, Pending(r, MaxTime) = {}
    PROVE  DOMAIN signal[r] = Reached(signal[r])
  <1>1. \A i \in DOMAIN signal[r] : signal[r][i].at <= now /\ signal[r][i].at \in Nat
    BY SignalElements DEF SlaInv, Sound, CheckedBetween
  <1>2. \A i \in DOMAIN signal[r] : signal[r][i].at <= MaxTime
    BY <1>1, ClockTypes
  <1>3. QED
    BY <1>2, PendingSignals DEF Reached

LEMMA Captured ==
    ASSUME SlaInv, NEW r \in Request, NEW ev \in Event, NEW seen \in Status,
           Capture(r, ev, seen), issue'[r] = seen,
           now' = now, cycle' = cycle, checked' = checked
    PROVE  /\ signal' \in [Request -> Seq(SignalRow)]
           /\ blurred' \in SUBSET Request /\ blurred \subseteq blurred'
           /\ \A x \in Request \ {r} : signal'[x] = signal[x]
           /\ Sound(r)' /\ Told(r)'
  <1>1. /\ signal \in [Request -> Seq(SignalRow)] /\ Sound(r) /\ blurred \in SUBSET Request
        /\ SlaTypes
    BY DEF SlaInv, SlaTypes
  <1>2. CASE goals = <<>> /\ Cycles(r) = {}
    <2>1. signal' = signal /\ blurred' = IF Pending(r, MaxTime) = {} THEN blurred ELSE blurred \cup {r}
      BY <1>2 DEF Capture
    <2>2. Sound(r)'
      BY <1>1, <2>1, ClockTypes, SoundKept
    <2>3. Cycles(r)' = {}
      BY <1>2 DEF Cycles
    <2>4. r \notin blurred' => DOMAIN signal'[r] = Reached(signal'[r])
      BY <2>1, NothingPending
    <2>5. Told(r)'
      BY <2>3, <2>4 DEF Told
    <2>6. QED
      BY <1>1, <2>1, <2>2, <2>5
  <1>3. CASE ~(goals = <<>> /\ Cycles(r) = {})
    <2>1. Put(r, ev, seen, DbClock, goals) /\ blurred' = blurred
      BY <1>3 DEF Capture
    <2>2. /\ signal' \in [Request -> Seq(SignalRow)]
          /\ \A x \in Request \ {r} : signal'[x] = signal[x]
          /\ Sound(r)' /\ signal'[r][Len(signal'[r])].payload.status = seen
      BY <1>1, <2>1, ClockTypes, GoalsPositioned, PutSignal
    <2>3. Told(r)'
      BY <2>2 DEF Told
    <2>4. QED
      BY <1>1, <2>1, <2>2, <2>3
  <1>4. QED
    BY <1>2, <1>3

\* A request whose signals, cycles and issue a step leaves alone.
LEMMA LeftAlone ==
    ASSUME SlaInv, NEW r \in Request, now' \in Nat, now <= now',
           signal'[r] = signal[r], cycle'[r] = cycle[r], checked'[r] = checked[r],
           issue'[r] = issue[r], r \notin blurred' => r \notin blurred
    PROVE  Sound(r)' /\ Told(r)'
  <1>1. Sound(r) /\ Told(r) /\ now \in Nat
    BY ClockTypes DEF SlaInv
  <1>2. Sound(r)'
    BY <1>1, SoundKept
  <1>3. Cycles(r)' = Cycles(r)
    BY DEF Cycles
  <1>4. Told(r)'
    BY <1>1, <1>3 DEF Told
  <1>5. QED
    BY <1>2, <1>4

------------------------------------------------------------------------------
(* The invariant.                                                          *)

LEMMA SlaInit ==
    Init => SlaInv
  <1> SUFFICES ASSUME Init PROVE SlaInv
    OBVIOUS
  <1>1. (CHOOSE x \in Status : x # Done) \in Status
    BY StatusAssumption
  <1>2. SlaTypes
    <2>1. 0 \in 0..MaxTime /\ 1 \in DOMAIN Catalog
      BY ClockAssumption, GoalAssumption
    <2>2. issue \in [Request -> Status]
      <3>1. PICK x \in Status : x = (CHOOSE y \in Status : y # Done)
        BY <1>1
      <3>2. issue = [r \in Request |-> x]
        BY <3>1 DEF Init
      <3>3. QED
        BY <3>2
    <2>3. /\ signal \in [Request -> Seq(SignalRow)]
          /\ cycle \in [Request -> [Metric -> Seq(CycleRow)]]
          /\ checked \in [Request -> Nat \cup {None}]
          /\ agent \in [Agent -> {Idle} \cup Reading]
          /\ blurred \in SUBSET Request
      BY DEF Init
    <2>4. QED
      BY <2>1, <2>2, <2>3 DEF SlaTypes, Init
  <1>3. ASSUME NEW r \in Request PROVE Sound(r) /\ Told(r)
    <2>1. signal[r] = <<>> /\ checked[r] = None /\ \A m \in Metric : cycle[r][m] = <<>>
      BY DEF Init
    <2>2. DOMAIN signal[r] = {} /\ Reached(signal[r]) = {} /\ \A m \in Metric : DOMAIN cycle[r][m] = {}
      BY <2>1 DEF Reached
    <2>3. InIdOrder(r)
      BY <2>2 DEF InIdOrder
    <2>4. CheckedBetween(r)
      BY <2>1, <2>2 DEF CheckedBetween
    <2>5. Stage(signal[r], cycle[r], Reached(signal[r]))
      BY <1>2, <2>2 DEF Stage, SlaTypes
    <2>6. Sound(r)
      BY <1>2, <2>3, <2>4, <2>5 DEF Sound, SlaTypes
    <2>7. Told(r)
      BY <2>1, <2>2 DEF Told, Cycles
    <2>8. QED
      BY <2>6, <2>7
  <1>4. QED
    BY <1>2, <1>3 DEF SlaInv

LEMMA ChangeIssueKept ==
    ASSUME SlaInv, NEW r \in Request, NEW new \in Status, ChangeIssue(r, new)
    PROVE  SlaInv'
  <1>1. SlaTypes
    BY DEF SlaInv
  <1>2. PICK ev \in Event : Capture(r, ev, new)
    <2>1. "reopened" \in Event /\ "created" \in Event /\ "updated" \in Event
      BY DEF Event
    <2>2. QED
      BY <2>1, Zenon DEF ChangeIssue
  <1>3. /\ now' = now /\ edition' = edition /\ cycle' = cycle /\ checked' = checked /\ agent' = agent
        /\ issue' = [issue EXCEPT ![r] = new]
    BY DEF ChangeIssue
  <1>4. issue' \in [Request -> Status] /\ issue'[r] = new
        /\ \A x \in Request \ {r} : issue'[x] = issue[x]
    BY <1>1, <1>3 DEF SlaTypes
  <1>5. /\ signal' \in [Request -> Seq(SignalRow)]
        /\ blurred' \in SUBSET Request /\ blurred \subseteq blurred'
        /\ \A x \in Request \ {r} : signal'[x] = signal[x]
        /\ Sound(r)' /\ Told(r)'
    BY <1>2, <1>3, <1>4, Captured
  <1>6. \A x \in Request \ {r} : Sound(x)' /\ Told(x)'
    <2> TAKE x \in Request \ {r}
    <2>1. QED
      BY <1>3, <1>4, <1>5, ClockTypes, LeftAlone
  <1>7. SlaTypes'
    BY <1>1, <1>3, <1>4, <1>5 DEF SlaTypes
  <1>8. QED
    BY <1>5, <1>6, <1>7 DEF SlaInv

LEMMA CommentKept ==
    ASSUME SlaInv, NEW r \in Request, NEW who \in {"customer", "agent"}, Comment(r, who)
    PROVE  SlaInv'
  <1>1. SlaTypes /\ who \in Event /\ issue[r] \in Status
    BY DEF SlaInv, SlaTypes, Event
  <1>2. /\ now' = now /\ edition' = edition /\ cycle' = cycle /\ checked' = checked /\ agent' = agent
        /\ issue' = issue /\ Capture(r, who, issue[r])
    BY DEF Comment
  <1>3. /\ signal' \in [Request -> Seq(SignalRow)]
        /\ blurred' \in SUBSET Request /\ blurred \subseteq blurred'
        /\ \A x \in Request \ {r} : signal'[x] = signal[x]
        /\ Sound(r)' /\ Told(r)'
    BY <1>1, <1>2, Captured
  <1>4. \A x \in Request \ {r} : Sound(x)' /\ Told(x)'
    <2> TAKE x \in Request \ {r}
    <2>1. QED
      BY <1>2, <1>3, ClockTypes, LeftAlone
  <1>5. SlaTypes'
    BY <1>1, <1>2, <1>3 DEF SlaTypes
  <1>6. QED
    BY <1>3, <1>4, <1>5 DEF SlaInv

LEMMA BeginConfirmKept ==
    ASSUME SlaInv, NEW a \in Agent, NEW r \in Request, BeginConfirm(a, r)
    PROVE  SlaInv'
  <1>1. SlaTypes
    BY DEF SlaInv
  <1>2. /\ now' = now /\ edition' = edition /\ cycle' = cycle /\ checked' = checked
        /\ issue' = issue /\ signal' = signal /\ blurred' = blurred
        /\ agent' = [agent EXCEPT ![a] = [phase |-> "read", req |-> r, seen |-> issue[r]]]
    BY DEF BeginConfirm
  <1>3. [phase |-> "read", req |-> r, seen |-> issue[r]] \in Reading
    BY <1>1 DEF SlaTypes, Reading
  <1>4. SlaTypes'
    BY <1>1, <1>2, <1>3 DEF SlaTypes
  <1>5. \A x \in Request : Sound(x)' /\ Told(x)'
    <2> TAKE x \in Request
    <2>1. QED
      BY <1>2, ClockTypes, LeftAlone
  <1>6. QED
    BY <1>4, <1>5 DEF SlaInv

LEMMA ConfirmKept ==
    ASSUME SlaInv, NEW a \in Agent, Confirm(a)
    PROVE  SlaInv'
  <1>1. SlaTypes
    BY DEF SlaInv
  <1>2. agent[a] \in Reading
    BY <1>1 DEF SlaTypes, Confirm
  <1>3. PICK r \in Request, seen \in Status : r = agent[a].req /\ seen = agent[a].seen
    BY <1>2 DEF Reading
  <1>4. PICK ev \in Event : ev = IF signal[r][Len(signal[r])].payload.status = Done /\ seen # Done
                                 THEN "reopened" ELSE "agent"
    BY DEF Event
  <1>5. PICK vs : vs = Matching([event |-> ev, status |-> seen])
    OBVIOUS
  <1>6. /\ signal' = signal \/ Put(r, ev, seen, now, vs)
        /\ blurred' = IF seen = issue[r] THEN blurred ELSE blurred \cup {r}
        /\ agent' = [agent EXCEPT ![a] = Idle]
        /\ now' = now /\ issue' = issue /\ edition' = edition /\ cycle' = cycle /\ checked' = checked
    BY <1>3, <1>4, <1>5, Zenon DEF Confirm
  <1>7. /\ blurred' \in SUBSET Request /\ blurred \subseteq blurred' /\ agent' \in [Agent -> {Idle} \cup Reading]
        /\ r \notin blurred' => seen = issue[r]
    BY <1>1, <1>6 DEF SlaTypes
  <1>8. CASE signal' = signal
    <2>1. \A x \in Request : Sound(x)' /\ Told(x)'
      <3> TAKE x \in Request
      <3>1. x \notin blurred' => x \notin blurred
        BY <1>7
      <3>2. QED
        BY <1>6, <1>8, <3>1, ClockTypes, LeftAlone
    <2>2. SlaTypes'
      BY <1>1, <1>6, <1>7, <1>8 DEF SlaTypes
    <2>3. QED
      BY <2>1, <2>2 DEF SlaInv
  <1>9. CASE Put(r, ev, seen, now, vs)
    <2>1. vs \in PositionedGoals /\ now \in 0..now
      BY <1>1, <1>5, GoalsPositioned, ClockTypes
    <2>2. /\ signal' \in [Request -> Seq(SignalRow)]
          /\ \A x \in Request \ {r} : signal'[x] = signal[x]
          /\ Sound(r)'
          /\ signal'[r][Len(signal'[r])].payload.status = seen
      BY <1>6, <1>9, <2>1, PutSignal
    <2>3. Told(r)'
      BY <1>6, <1>7, <2>2 DEF Told
    <2>4. \A x \in Request \ {r} : Sound(x)' /\ Told(x)'
      <3> TAKE x \in Request \ {r}
      <3>1. x \notin blurred' => x \notin blurred
        BY <1>7
      <3>2. QED
        BY <1>6, <2>2, <3>1, ClockTypes, LeftAlone
    <2>5. SlaTypes'
      BY <1>1, <1>6, <1>7, <2>2 DEF SlaTypes
    <2>6. QED
      BY <2>2, <2>3, <2>4, <2>5 DEF SlaInv
  <1>10. QED
    BY <1>6, <1>8, <1>9

LEMMA PublishOrPassKept ==
    ASSUME SlaInv, Publish \/ Pass
    PROVE  SlaInv'
  <1>1. SlaTypes
    BY DEF SlaInv
  <1>2. /\ cycle' = cycle /\ checked' = checked /\ agent' = agent
        /\ issue' = issue /\ signal' = signal /\ blurred' = blurred
        /\ now' \in 0..MaxTime /\ now <= now' /\ edition' \in DOMAIN Catalog
    BY <1>1, ClockAssumption, GoalAssumption DEF Publish, Pass, SlaTypes
  <1>3. SlaTypes'
    BY <1>1, <1>2 DEF SlaTypes
  <1>4. \A x \in Request : Sound(x)' /\ Told(x)'
    <2> TAKE x \in Request
    <2>1. QED
      BY <1>2, LeftAlone
  <1>5. QED
    BY <1>3, <1>4 DEF SlaInv

\* Without pending signals a transaction starts no cycle.
LEMMA NothingStarts ==
    ASSUME SlaInv, NEW r \in Request, NEW t \in Nat,
           Cycles(r) = {}, DOMAIN signal[r] = Reached(signal[r])
    PROVE  \A m \in Metric : Ticked(Replayed(r, Batch(r, t))[Len(signal[r])], Tick(r, t))[m] = <<>>
  <1>1. PICK N : N = Len(signal[r])
    OBVIOUS
  <1>2. PICK batch : batch = Batch(r, t)
    OBVIOUS
  <1>3. PICK R : R = Replayed(r, batch)
    OBVIOUS
  <1>4. N \in Nat
    <2>1. signal[r] \in Seq(SignalRow)
      BY DEF SlaInv, Sound
    <2>2. QED
      BY <1>1, <2>1, SignalElements
  <1>5. batch = {}
    <2>1. Pending(r, t) = {}
      BY PendingSignals DEF Reached
    <2>2. QED
      BY <1>2, <2>1 DEF Batch
  <1>6. R[0] = cycle[r] /\ \A k \in 1..N : R[k] = Step(r, batch, R[k - 1], k)
    BY <1>1, <1>3, <1>4, ReplayedStepwise
  <1>7. \A k \in 1..N : R[k] = R[k - 1]
    BY <1>5, <1>6 DEF Step
  <1>8. R[N] = cycle[r]
    <2> DEFINE S == {k \in 0..N : R[k] = cycle[r]}
    <2>1. 0 \in S
      BY <1>4, <1>6
    <2>2. \A k \in 0..(N - 1) : k \in S => k + 1 \in S
      <3> TAKE k \in 0..(N - 1)
      <3>1. k + 1 \in 1..N /\ (k + 1) - 1 = k
        BY <1>4
      <3>2. R[k + 1] = R[k]
        BY <1>7, <3>1
      <3>3. QED
        BY <1>4, <3>2
    <2> HIDE DEF S
    <2>3. \A k \in 0..N : k \in S
      BY <1>4, <2>1, <2>2, Upto
    <2>4. QED
      BY <1>4, <2>3 DEF S
  <1>9. \A m \in Metric : cycle[r][m] = <<>>
    BY DEF Cycles
  <1>10. PICK at : at = Tick(r, t)
    OBVIOUS
  <1>11. ASSUME NEW m \in Metric PROVE Ticked(cycle[r], at)[m] = <<>>
    <2>1. Ticked(cycle[r], at)[m] = Advanced(cycle[r][m], Accrued(cycle[r][m][Len(cycle[r][m])], at))
      BY Zenon DEF Ticked
    <2>2. \A c : Advanced(<<>>, c) = <<>>
      BY DEF Advanced, Open
    <2>3. QED
      BY <1>9, <2>1, <2>2
  <1>12. QED
    BY <1>1, <1>2, <1>3, <1>8, <1>10, <1>11

LEMMA ProcessKept ==
    ASSUME SlaInv, NEW r \in Request, NEW t \in Nat, t <= now, Process(r, t)
    PROVE  SlaInv'
  <1>1. SlaTypes /\ Told(r) /\ signal[r] \in Seq(SignalRow)
    BY DEF SlaInv, Sound
  <1>2. /\ signal'[r] = MarkedProcessed(signal[r], Batch(r, t))
        /\ cycle'[r] = Ticked(Replayed(r, Batch(r, t))[Len(signal[r])], Tick(r, t))
        /\ \A x \in Request \ {r} : /\ signal'[x] = signal[x] /\ cycle'[x] = cycle[x]
                                    /\ checked'[x] = checked[x]
        /\ now' = now /\ issue' = issue /\ edition' = edition /\ agent' = agent /\ blurred' = blurred
    BY ProcessedRequest
  <1>3. Sound(r)'
    BY ProcessedSound
  <1>4. /\ signal'[r] \in Seq(SignalRow) /\ checked'[r] \in Nat \cup {None}
        /\ cycle'[r] \in [Metric -> Seq(CycleRow)]
    BY <1>3 DEF Sound, Stage
  <1>5. SlaTypes'
    <2>1. /\ signal' = [signal EXCEPT ![r] = signal'[r]]
          /\ cycle' = [cycle EXCEPT ![r] = cycle'[r]]
          /\ checked' = [checked EXCEPT ![r] = checked'[r]]
      BY <1>1 DEF Process, SlaTypes
    <2>2. QED
      BY <1>1, <1>2, <1>4, <2>1 DEF SlaTypes
  <1>6. Told(r)'
    <2>1. SUFFICES ASSUME r \notin blurred, Cycles(r)' # {} \/ DOMAIN signal'[r] # Reached(signal'[r])
                   PROVE  signal'[r][Len(signal'[r])].payload.status = issue[r]
      BY <1>2 DEF Told
    <2>2. PICK sig2 : sig2 = signal'[r]
      OBVIOUS
    <2>3. /\ DOMAIN sig2 = DOMAIN signal[r] /\ Len(sig2) = Len(signal[r])
          /\ \A i \in DOMAIN signal[r] : /\ sig2[i].payload = signal[r][i].payload
                                         /\ signal[r][i].processed => sig2[i].processed
      <3>1. sig2 = MarkedProcessed(signal[r], Batch(r, t))
        BY <1>2, <2>2
      <3>2. QED
        BY <1>1, <3>1, MarkedSignals
    <2>4. Cycles(r) # {} \/ DOMAIN signal[r] # Reached(signal[r])
      <3>1. SUFFICES ASSUME Cycles(r) = {}, DOMAIN signal[r] = Reached(signal[r]) PROVE FALSE
        OBVIOUS
      <3>2. \A m \in Metric : cycle'[r][m] = <<>>
        BY <1>2, <3>1, NothingStarts
      <3>3. Cycles(r)' = {}
        BY <3>2 DEF Cycles
      <3>4. DOMAIN sig2 = Reached(sig2)
        BY <2>3, <3>1 DEF Reached
      <3>5. QED
        BY <2>1, <2>2, <3>3, <3>4
    <2>5. signal[r][Len(signal[r])].payload.status = issue[r]
      BY <1>1, <2>1, <2>4 DEF Told
    <2>6. Len(signal[r]) \in DOMAIN signal[r]
      BY <1>1, SignalElements DEF Process
    <2>7. QED
      BY <2>2, <2>3, <2>5, <2>6
  <1>7. \A x \in Request \ {r} : Sound(x)' /\ Told(x)'
    <2> TAKE x \in Request \ {r}
    <2>1. QED
      BY <1>2, ClockTypes, LeftAlone
  <1>8. QED
    BY <1>3, <1>5, <1>6, <1>7 DEF SlaInv

LEMMA SlaNext ==
    SlaInv /\ [Next]_vars => SlaInv'
  <1> SUFFICES ASSUME SlaInv, [Next]_vars PROVE SlaInv'
    OBVIOUS
  <1>1. CASE Publish \/ Pass
    BY <1>1, PublishOrPassKept
  <1>2. CASE \E r \in Request, new \in Status : ChangeIssue(r, new)
    BY <1>2, ChangeIssueKept
  <1>3. CASE \E r \in Request, who \in {"customer", "agent"} : Comment(r, who)
    BY <1>3, CommentKept
  <1>4. CASE \E a \in Agent, r \in Request : BeginConfirm(a, r)
    BY <1>4, BeginConfirmKept
  <1>5. CASE \E a \in Agent : Confirm(a)
    BY <1>5, ConfirmKept
  <1>6. CASE \E r \in Request, t \in (now - MaxLate)..now : t >= 0 /\ Process(r, t)
    <2>1. PICK r \in Request, t \in (now - MaxLate)..now : t >= 0 /\ Process(r, t)
      BY <1>6
    <2>2. t \in Nat /\ t <= now
      BY <2>1, ClockTypes, ClockAssumption
    <2>3. QED
      BY <2>1, <2>2, ProcessKept
  <1>7. CASE UNCHANGED vars
    <2>1. /\ now' = now /\ issue' = issue /\ edition' = edition /\ signal' = signal /\ cycle' = cycle
          /\ checked' = checked /\ agent' = agent /\ blurred' = blurred
      BY <1>7 DEF vars
    <2>2. \A x \in Request : Sound(x)' /\ Told(x)'
      <3> TAKE x \in Request
      <3>1. QED
        BY <2>1, ClockTypes, LeftAlone
    <2>3. SlaTypes'
      BY <2>1 DEF SlaInv, SlaTypes
    <2>4. QED
      BY <2>2, <2>3 DEF SlaInv
  <1>8. QED
    BY <1>1, <1>2, <1>3, <1>4, <1>5, <1>6, <1>7 DEF Next

\* Of every request, whatever its writers, confirmations, administrators and workers
\* did: its signals are in order and handled in order, its cycles fit the handled ones,
\* and unless blurred the last signal shows the issue (the transactions of
\* ops/sla-worker.mjs and of capture_sla_signal).
THEOREM SlaCorrect ==
    Spec => []SlaInv
  <1>1. QED
    BY SlaInit, SlaNext, PTL DEF Spec

------------------------------------------------------------------------------
(* What the stopwatches promise.                                           *)

LEMMA ReferenceCount ==
    ASSUME NEW r, NEW c
    PROVE  \A to : Counted(r, c, to) = CountedIn(signal[r], c, to)
  <1>1. \A t : Waiting(r, c, t) <=> WaitingIn(signal[r], c, t)
    BY DEF Waiting, WaitingIn
  <1>2. QED
    BY <1>1 DEF Counted, CountedIn

LEMMA CyclesFit ==
    ASSUME SlaInv, NEW r \in Request, NEW c \in AllCycles(r)
    PROVE  c \in CycleRow /\ Fits(signal[r], c, Reached(signal[r]))
  <1>1. PICK m \in Metric : c \in {cycle[r][m][k] : k \in DOMAIN cycle[r][m]}
    BY DEF AllCycles
  <1>2. Stage(signal[r], cycle[r], Reached(signal[r]))
    BY DEF SlaInv, Sound
  <1>3. cycle[r][m] \in Seq(CycleRow)
    BY <1>2 DEF Stage
  <1>4. QED
    BY <1>1, <1>2, <1>3, ListElements DEF Stage

LEMMA SlaStopwatch ==
    SlaInv => StopwatchExact
  <1> SUFFICES ASSUME SlaInv PROVE StopwatchExact
    OBVIOUS
  <1>1. ASSUME NEW r \in Request, NEW c \in AllCycles(r)
        PROVE  /\ c.elapsed = Counted(r, c, c.last)
               /\ IF c.breached = None THEN Counted(r, c, c.last) < Goal[c.goal].target
                  ELSE /\ Counted(r, c, c.breached) >= Goal[c.goal].target
                       /\ \A t \in c.started..(c.breached - 1) : Counted(r, c, t) < Goal[c.goal].target
               /\ IF c.risk = None THEN Counted(r, c, c.last) < Goal[c.goal].target - Goal[c.goal].risk
                  ELSE /\ Counted(r, c, c.risk) >= Goal[c.goal].target - Goal[c.goal].risk
                       /\ \A t \in c.started..(c.risk - 1) :
                            Counted(r, c, t) < Goal[c.goal].target - Goal[c.goal].risk
    <2>1. Exact(signal[r], c)
      BY CyclesFit DEF Fits
    <2>2. \A to : Counted(r, c, to) = CountedIn(signal[r], c, to)
      BY ReferenceCount
    <2>3. QED
      BY <2>1, <2>2 DEF Exact, ExactMark
  <1>2. ASSUME NEW r \in Request, NEW c \in AllCycles(r)
        PROVE  /\ c.ended = None <=> c.state \in {"RUNNING", "PAUSED"}
               /\ c.ended = None => (c.state = "RUNNING" <=> c.paused = {})
    <2>1. UpToDate(signal[r], c, Reached(signal[r]))
      BY CyclesFit DEF Fits
    <2>2. QED
      BY <2>1 DEF UpToDate, Condition
  <1>3. ElapsedIsBusinessTime
    BY <1>1 DEF ElapsedIsBusinessTime
  <1>4. MarksAreExact
    BY <1>1 DEF MarksAreExact
  <1>5. StatesShow
    BY <1>2 DEF StatesShow
  <1>6. QED
    BY <1>3, <1>4, <1>5 DEF StopwatchExact

LEMMA SlaNeverBehind ==
    SlaInv => NeverBehind
  <1> SUFFICES ASSUME SlaInv, NEW r \in Request, NEW i \in Pending(r, MaxTime), NEW m \in Metric,
                      Open(cycle[r][m])
               PROVE  cycle[r][m][Len(cycle[r][m])].last <= signal[r][i].at
    BY DEF NeverBehind, InOrder
  <1>1. i \in DOMAIN signal[r] \ Reached(signal[r])
    BY PendingSignals DEF Reached
  <1>2. Stage(signal[r], cycle[r], Reached(signal[r]))
    BY DEF SlaInv, Sound
  <1>3. Len(cycle[r][m]) \in DOMAIN cycle[r][m]
    BY <1>2, ListElements DEF Stage, Open
  <1>4. Timely(signal[r], cycle[r][m][Len(cycle[r][m])], Reached(signal[r]))
    BY <1>2, <1>3 DEF Stage, Fits
  <1>5. QED
    BY <1>1, <1>4 DEF Timely

LEMMA SlaDone ==
    SlaInv => DoneStopsTheClock
  <1> SUFFICES ASSUME SlaInv, NEW r \in Request \ blurred, issue[r] = Done, Pending(r, MaxTime) = {},
                      NEW m \in Metric, Open(cycle[r][m])
               PROVE  \E p \in Payload :
                        p.status = Done /\ p \notin Goal[cycle[r][m][Len(cycle[r][m])].goal].stop
    BY DEF DoneStopsTheClock
  <1>1. PICK c : c = cycle[r][m][Len(cycle[r][m])]
    OBVIOUS
  <1>2. DOMAIN signal[r] = Reached(signal[r])
    BY NothingPending
  <1>3. /\ Stage(signal[r], cycle[r], Reached(signal[r])) /\ Told(r)
        /\ signal[r] \in Seq(SignalRow)
    BY DEF SlaInv, Sound
  <1>4. Len(cycle[r][m]) \in DOMAIN cycle[r][m] /\ c.ended = None
    BY <1>1, <1>3, ListElements DEF Stage, Open
  <1>5. Fits(signal[r], c, Reached(signal[r]))
    BY <1>1, <1>3, <1>4 DEF Stage
  <1>6. c.from \in DOMAIN signal[r]
    BY <1>2, <1>5 DEF Fits, Timely
  <1>7. Len(signal[r]) \in DOMAIN signal[r] /\ Len(signal[r]) >= c.from
        /\ signal[r][Len(signal[r])].payload \in Payload
    BY <1>3, <1>6, SignalElements
  <1>8. m \in Cycles(r)
    BY DEF Cycles, Open
  <1>9. signal[r][Len(signal[r])].payload.status = Done
    BY <1>3, <1>8 DEF Told
  <1>10. signal[r][Len(signal[r])].payload \notin Goal[c.goal].stop
    BY <1>2, <1>4, <1>5, <1>7 DEF Fits, UpToDate
  <1>11. QED
    BY <1>1, <1>7, <1>9, <1>10

\* A transaction of a worker is never refused: at every signal of its batch, and at its
\* tick, no open cycle has been accounted beyond the time it is advanced to, so the
\* error that accrue throws for a time before the last one cannot come up.
NeverRefused ==
  \A r \in Request, t \in 0..now : ~CheckedAfter(r, t) =>
    LET after == Replayed(r, Batch(r, t))
    IN  /\ \A k \in Batch(r, t) : InOrder(after[k - 1], signal[r][k].at)
        /\ InOrder(after[Len(signal[r])], Tick(r, t))

LEMMA SlaAccepted ==
    SlaInv => NeverRefused
  <1> SUFFICES ASSUME SlaInv, NEW r \in Request, NEW t \in 0..now, ~CheckedAfter(r, t)
               PROVE  /\ \A k \in Batch(r, t) :
                           InOrder(Replayed(r, Batch(r, t))[k - 1], signal[r][k].at)
                      /\ InOrder(Replayed(r, Batch(r, t))[Len(signal[r])], Tick(r, t))
    BY DEF NeverRefused
  <1>1. Sound(r) /\ t \in Nat
    BY ClockTypes DEF SlaInv
  <1>2. PICK batch : batch = Batch(r, t)
    OBVIOUS
  <1>3. PICK hi : hi = Tick(r, t)
    OBVIOUS
  <1>4. PICK after : after = Replayed(r, batch)
    OBVIOUS
  <1>5. \A k \in 0..Len(signal[r]) : Books(signal[r], after[k], HandledBy(r, batch, k), hi)
    BY <1>1, <1>2, <1>3, <1>4, ReplayFits
  <1>6. /\ signal[r] \in Seq(SignalRow) /\ Len(signal[r]) \in Nat /\ DOMAIN signal[r] = 1..Len(signal[r])
    BY <1>1, SignalElements DEF Sound
  <1>7. ASSUME NEW cs, NEW D, NEW at, Books(signal[r], cs, D, hi),
               \/ at = hi
               \/ \E k \in DOMAIN signal[r] \ D : at = signal[r][k].at
        PROVE  InOrder(cs, at)
    <2>1. SUFFICES ASSUME NEW m \in Metric, Open(cs[m]) PROVE cs[m][Len(cs[m])].last <= at
      BY DEF InOrder
    <2>2. Lists(signal[r], cs[m], D, hi)
      BY <1>7 DEF Books
    <2>3. Len(cs[m]) \in DOMAIN cs[m]
      BY <2>1, <2>2, ListElements DEF Lists, Open
    <2>4. cs[m][Len(cs[m])].last <= hi /\ Timely(signal[r], cs[m][Len(cs[m])], D)
      BY <2>2, <2>3 DEF Lists, Fits
    <2>5. QED
      BY <1>7, <2>4 DEF Timely
  <1>8. ASSUME NEW k \in batch PROVE InOrder(after[k - 1], signal[r][k].at)
    <2>1. k \in DOMAIN signal[r] /\ k - 1 \in 0..Len(signal[r])
      <3>1. k \in DOMAIN signal[r]
        BY <1>1, <1>2, BatchFirst, PendingSignals
      <3>2. QED
        BY <1>6, <3>1
    <2>2. PICK D : D = HandledBy(r, batch, k - 1)
      OBVIOUS
    <2>3. k \notin D
      BY <1>1, <1>2, <2>2, BatchNext DEF IsNext
    <2>4. Books(signal[r], after[k - 1], D, hi)
      BY <1>5, <2>1, <2>2
    <2>5. QED
      BY <1>7, <2>1, <2>3, <2>4
  <1>9. InOrder(after[Len(signal[r])], hi)
    BY <1>5, <1>6, <1>7
  <1>10. QED
    BY <1>2, <1>3, <1>4, <1>8, <1>9

\* The stopwatch of every cycle is exact: the time it has counted, its risk and breach
\* marks and its state are what the signals handled so far say, whatever the batches,
\* late polls and workers were (accrue and reactToSignal of ops/sla-worker.mjs).
THEOREM StopwatchesAreExact ==
    Spec => []StopwatchExact
  <1>1. QED
    BY SlaCorrect, SlaStopwatch, PTL

\* No signal is left behind the time of an open cycle: stamps of signals wait for the
\* last check, and a tick stops short of signals that did not fit its batch.
THEOREM CyclesAreNeverAhead ==
    Spec => []NeverBehind
  <1>1. QED
    BY SlaCorrect, SlaNeverBehind, PTL

\* Consequently no transaction of a worker is refused for going back in time, and no
\* request can be stuck for that reason.
THEOREM AccrualIsNeverRefused ==
    Spec => []NeverRefused
  <1>1. QED
    BY SlaCorrect, SlaAccepted, PTL

\* An issue that is done leaves no clock running whose goal stops for it, once its
\* signals are handled and unless a stale confirmation was written.
THEOREM DoneIsNoticed ==
    Spec => []DoneStopsTheClock
  <1>1. QED
    BY SlaCorrect, SlaDone, PTL

LEMMA HistoryStep ==
    ASSUME SlaInv, [Next]_vars, NEW r \in Request
    PROVE  GrownAll(cycle[r], cycle'[r])
  <1>1. \A m \in Metric : cycle[r][m] \in Seq(CycleRow)
    BY DEF SlaInv, SlaTypes
  <1>2. CASE cycle'[r] = cycle[r]
    BY <1>1, <1>2, GrownItself DEF GrownAll
  <1>3. CASE \E x \in Request, t \in (now - MaxLate)..now : t >= 0 /\ Process(x, t)
    <2>1. PICK x \in Request, t \in (now - MaxLate)..now : t >= 0 /\ Process(x, t)
      BY <1>3
    <2>2. t \in Nat /\ t <= now
      BY <2>1, ClockTypes, ClockAssumption
    <2>3. CASE x = r
      BY <2>1, <2>2, <2>3, ProcessedSound
    <2>4. CASE x # r
      BY <1>2, <2>1, <2>2, <2>4, ProcessedRequest
    <2>5. QED
      BY <2>3, <2>4
  <1>4. CASE UNCHANGED cycle
    BY <1>2, <1>4
  <1>5. QED
    BY <1>3, <1>4
    DEF Next, Pass, Publish, ChangeIssue, Comment, BeginConfirm, Confirm, vars

\* A cycle that has ended is never touched again, a cycle keeps its goal, and none is
\* removed (save in ops/sla-worker.mjs writes only open cycles).
THEOREM FinishedStaysHistory ==
    Spec => FinishedIsHistory
  <1>1. SlaInv /\ [Next]_vars =>
          [\A r \in Request, m \in Metric :
             /\ Len(cycle[r][m]) <= Len(cycle'[r][m])
             /\ \A k \in DOMAIN cycle[r][m] :
                  /\ cycle'[r][m][k].goal = cycle[r][m][k].goal
                  /\ cycle[r][m][k].ended # None => cycle'[r][m][k] = cycle[r][m][k]]_vars
    BY HistoryStep DEF GrownAll, Grown
  <1>2. QED
    BY <1>1, SlaCorrect, PTL DEF Spec, FinishedIsHistory
==============================================================================
