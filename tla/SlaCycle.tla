------------------------------ MODULE SlaCycle ------------------------------
(***************************************************************************)
(* Service level targets: signals that the writers of a service request    *)
(* leave behind (a trigger at the end of their transactions,               *)
(* sla-signals.ts for confirmed responses), and the workers that turn them *)
(* into cycles, the stopwatches of ops/sla-worker.mjs.                     *)
(*                                                                         *)
(* A condition list of a goal is the set of payloads that match it.  Time  *)
(* is counted in moments; Working holds those that the calendar counts.    *)
(***************************************************************************)
EXTENDS Integers, Sequences, FiniteSets

CONSTANTS
  Request, Agent, Metric, Version, None,
  Status, Done, \* what a payload shows of an issue; the final status
  Goal,         \* Version -> its metric, target, risk and rules
  Catalog,      \* the lists of enabled versions that administrators publish, in order
  Working,      \* the moments that are business time
  Lag,          \* how far the clock of the database is behind the worker's
  BatchSize,    \* signals of one request handled in one transaction
  MaxLate,      \* how old the time may be that a poll has noted
  MaxTime, MaxSignals

Event   == {"created", "updated", "reopened", "customer", "agent"}
Payload == [event : Event, status : Status]
Reasons == UNION {DOMAIN Goal[v].pause : v \in Version}

ASSUME ClockAssumption ==
  /\ MaxTime \in Nat /\ Lag \in Nat /\ BatchSize \in Nat \ {0}
  /\ MaxLate \in Nat
  /\ MaxSignals \in Nat /\ None \notin Int
  /\ Working \subseteq Nat

ASSUME StatusAssumption == Done \in Status /\ \E x \in Status : x # Done

ASSUME GoalAssumption ==
  /\ Catalog \in Seq(Seq(Version)) /\ Catalog # <<>>
  /\ \A v \in Version :
       /\ Goal[v].metric \in Metric
       /\ Goal[v].target \in Nat \ {0} /\ Goal[v].risk \in 0..(Goal[v].target - 1)

VARIABLES
  now,       \* the clock of the workers
  issue,     \* what a payload shows of the issue behind the request
  edition,   \* the list of Catalog that is published now
  signal,    \* SlaSignal, in id order
  cycle,     \* SlaCycle, by metric, in order of sequence
  event,     \* SlaEvent: the keys that are taken
  checked,   \* ServiceRequest.slaCheckedAt
  shown,     \* ServiceRequest.slaState
  agent,     \* a response confirmation between its two reads
  blurred    \* history: requests whose signals do not tell what their issue did

vars == <<now, issue, edition, signal, cycle, event, checked, shown, agent, blurred>>

Idle == [phase |-> "idle"]

\* The enabled goals, each in its current version, in order of position.
goals == Catalog[edition]

---------------------------------------------------------------------------
(* The engine: business time, thresholds, accrual. *)

Business(from, to) == Cardinality({t \in Working : from <= t /\ t < to})

AsNoticed(from, to, amount) == to

Threshold(from, to, amount) ==
  CHOOSE m \in from..to : /\ Business(from, m) >= amount
                          /\ \A k \in from..(m - 1) : Business(from, k) < amount

Running(c) == c.ended = None /\ c.paused = {}

Accrued(c, at) ==
  LET total == c.elapsed + (IF Running(c) THEN Business(c.last, at) ELSE 0)
      Mark(amount, seen) == IF seen # None \/ total < amount THEN seen
                            ELSE Threshold(c.last, at, amount - c.elapsed)
  IN  [c EXCEPT !.elapsed  = total,
                !.last     = at,
                !.risk     = Mark(Goal[c.goal].target - Goal[c.goal].risk, c.risk),
                !.breached = Mark(Goal[c.goal].target, c.breached)]

Fired(v, p) == {q \in DOMAIN Goal[v].pause : p \in Goal[v].pause[q]}

Condition(paused) == IF paused = {} THEN "RUNNING" ELSE "PAUSED"

\* What a signal does to an open cycle: reset before stop before pause.
Reacted(c, s) ==
  LET g == Goal[c.goal]
      a == Accrued(c, s.at)
      next == Fired(c.goal, s.payload) \cup (IF s.payload \in g.resume THEN {} ELSE c.paused)
      met == a.breached = None /\ s.payload \in g.success
  IN  IF s.payload \in g.reset THEN [a EXCEPT !.ended = s.at, !.state = "RESET"]
      ELSE IF s.payload \in g.stop
           THEN [a EXCEPT !.ended = s.at, !.state = IF met THEN "MET" ELSE "STOPPED"]
           ELSE [a EXCEPT !.paused = next, !.state = Condition(next)]

---------------------------------------------------------------------------
(* The worker's view of one metric: the list of its cycles. *)

Existing(cs) == cs # <<>>

Open(cs) == cs # <<>> /\ cs[Len(cs)].ended = None

\* Only the latest cycle of a metric is advanced.
Advanced(cs, c) == IF Open(cs) THEN [cs EXCEPT ![Len(cs)] = c] ELSE cs

NewCycle(v, s, id) ==
  [goal |-> v, started |-> s.at, last |-> s.at, elapsed |-> 0,
   paused |-> Fired(v, s.payload), state |-> Condition(Fired(v, s.payload)),
   ended |-> None, risk |-> None, breached |-> None, from |-> id]

StartsStopped(v, cs, p) ==
  /\ p \in Goal[v].when /\ p \in Goal[v].start
  /\ cs = <<>> \/ (~Open(cs) /\ p \in Goal[v].reset)

Starts(v, cs, p) ==
  /\ p \in Goal[v].when /\ p \in Goal[v].start /\ p \notin Goal[v].stop
  /\ cs = <<>> \/ (~Open(cs) /\ p \in Goal[v].reset)

\* The first goal of the signal that starts a cycle of metric m.
Starters(m, cs, s) == {k \in DOMAIN s.goals : Goal[s.goals[k]].metric = m
                                              /\ Starts(s.goals[k], cs, s.payload)}
First(S) == CHOOSE k \in S : \A j \in S : k <= j

Handled(m, cs, s, id) ==
  LET reacted == Advanced(cs, Reacted(cs[Len(cs)], s))
      K == Starters(m, reacted, s)
  IN  IF K = {} THEN reacted ELSE Append(reacted, NewCycle(s.goals[First(K)], s, id))

\* Rows of SlaEvent are unique by key: one start, risk, breach and end per cycle,
\* one reset or pause event per cycle and signal.
Lifecycle(m, cs) ==
  UNION {{<<m, k, "started">>}
         \cup (IF cs[k].risk = None THEN {} ELSE {<<m, k, "risk">>})
         \cup (IF cs[k].breached = None THEN {} ELSE {<<m, k, "breached">>})
         \cup (IF cs[k].ended = None THEN {} ELSE {<<m, k, "ended">>}) : k \in DOMAIN cs}

Headline(cs) ==
  LET latest == {cs[m][Len(cs[m])] : m \in {x \in Metric : cs[x] # <<>>}}
      open == {c \in latest : c.ended = None}
  IN  IF \E c \in latest : c.breached # None THEN "BREACHED"
      ELSE IF \E c \in open : c.risk # None THEN "AT_RISK"
      ELSE IF \E c \in open : c.state = "RUNNING" THEN "RUNNING"
      ELSE IF open # {} THEN "PAUSED"
      ELSE IF \E c \in latest : c.state = "MET" THEN "MET" ELSE "NONE"

---------------------------------------------------------------------------
Init ==
  /\ now = 0 /\ blurred = {}
  /\ issue = [r \in Request |-> CHOOSE x \in Status : x # Done]
  /\ edition = 1
  /\ signal = [r \in Request |-> <<>>]
  /\ cycle = [r \in Request |-> [m \in Metric |-> <<>>]]
  /\ event = [r \in Request |-> {}]
  /\ checked = [r \in Request |-> None]
  /\ shown = [r \in Request |-> "NONE"]
  /\ agent = [a \in Agent |-> Idle]

Latest(S) == IF S = {} THEN 0 ELSE CHOOSE t \in S : \A u \in S : u <= t

\* The time of a new signal: never before the last signal or the last check.
Stamp(r, clock) ==
  Latest({clock} \cup ({checked[r]} \ {None}) \cup {signal[r][i].at : i \in DOMAIN signal[r]})

DbClock == IF now > Lag THEN now - Lag ELSE 0

Cycles(r) == {m \in Metric : cycle[r][m] # <<>>}
Pending(r, t) == {i \in DOMAIN signal[r] : ~signal[r][i].processed /\ signal[r][i].at <= t}

Put(r, ev, seen, clock, vs) ==
  signal' = [signal EXCEPT ![r] = Append(@,
     [at |-> Stamp(r, clock), goals |-> vs, processed |-> FALSE,
      payload |-> [event |-> ev, status |-> seen]])]

\* capture_sla_signal at the end of a transaction; without goals and without
\* cycles it leaves nothing behind.
Capture(r, ev, seen) ==
  /\ Len(signal[r]) < MaxSignals
  /\ IF goals = <<>> /\ Cycles(r) = {}
     THEN /\ UNCHANGED signal
          /\ blurred' = IF Pending(r, MaxTime) = {} THEN blurred ELSE blurred \cup {r}
     ELSE Put(r, ev, seen, DbClock, goals) /\ UNCHANGED blurred

\* A transaction that writes the issue, or creates the request for it.
ChangeIssue(r, new) ==
  /\ signal[r] = <<>> \/ issue[r] # new
  /\ issue' = [issue EXCEPT ![r] = new]
  /\ Capture(r, IF issue[r] = Done /\ new # Done THEN "reopened"
                ELSE IF signal[r] = <<>> THEN "created" ELSE "updated", new)
  /\ UNCHANGED <<now, edition, cycle, event, checked, shown, agent>>

\* A public comment, of the customer or of an agent.
Comment(r, who) ==
  /\ signal[r] # <<>>
  /\ Capture(r, who, issue[r])
  /\ UNCHANGED <<now, issue, edition, cycle, event, checked, shown, agent>>

\* Confirming a response outside the system: the issue is read before the lock.
BeginConfirm(a, r) ==
  /\ agent[a] = Idle /\ signal[r] # <<>>
  /\ agent' = [agent EXCEPT ![a] = [phase |-> "read", req |-> r, seen |-> issue[r]]]
  /\ UNCHANGED <<now, issue, edition, signal, cycle, event, checked, shown, blurred>>

\* The first enabled goal of each metric whose conditions match, each at its position.
Matching(p) ==
  LET Fits(k) == p \in Goal[goals[k]].when
      firsts == {k \in DOMAIN goals : Fits(k) /\ \A j \in 1..(k - 1) :
                   ~(Fits(j) /\ Goal[goals[j]].metric = Goal[goals[k]].metric)}
  IN  [k \in firsts |-> goals[k]]

Confirm(a) ==
  LET r == agent[a].req
      seen == agent[a].seen
      reopened == signal[r][Len(signal[r])].payload.status = Done /\ seen # Done
      ev == IF reopened THEN "reopened" ELSE "agent"
      vs == Matching([event |-> ev, status |-> seen])
  IN
  /\ agent[a] # Idle /\ Len(signal[r]) < MaxSignals
  /\ IF DOMAIN vs = {} /\ Cycles(r) = {} THEN UNCHANGED signal ELSE Put(r, ev, seen, now, vs)
  /\ blurred' = IF seen = issue[r] THEN blurred ELSE blurred \cup {r}
  /\ agent' = [agent EXCEPT ![a] = Idle]
  /\ UNCHANGED <<now, issue, edition, cycle, event, checked, shown>>

\* An administrator publishes goals; versions in use stay what they are.
Publish ==
  /\ edition < Len(Catalog)
  /\ edition' = edition + 1
  /\ UNCHANGED <<now, issue, signal, cycle, event, checked, shown, agent, blurred>>

---------------------------------------------------------------------------
(* The workers.  A poll notes the time and up to 25 due requests, handled one by
   one; several workers poll independently.  So a request may be handled at any
   time t that a poll may have noted, not older than MaxLate. *)

CheckedAfter(r, t) == checked[r] # None /\ checked[r] > t

\* The first BatchSize pending signals, in id order.
Batch(r, t) ==
  {i \in Pending(r, t) : Cardinality({j \in Pending(r, t) : j < i}) < BatchSize}

PastTheBatch(r, t) == t

\* Never tick past pending signals that did not fit the batch.
Tick(r, t) ==
  IF Batch(r, t) = Pending(r, t) THEN t ELSE signal[r][Latest(Batch(r, t))].at

\* The cycles of r after those of its first k signals that are in the batch.
Replayed(r, batch) ==
  LET after[k \in 0..Len(signal[r])] ==
        IF k = 0 THEN cycle[r]
        ELSE IF k \notin batch THEN after[k - 1]
        ELSE [m \in Metric |-> Handled(m, after[k - 1][m], signal[r][k], k)]
  IN  after

\* The cycles cs of a request, the open ones advanced to the tick.
Ticked(cs, at) == [m \in Metric |-> Advanced(cs[m], Accrued(cs[m][Len(cs[m])], at))]

MarkedProcessed(sig, batch) ==
  [i \in DOMAIN sig |-> [sig[i] EXCEPT !.processed = @ \/ i \in batch]]

\* accrue refuses to go back in time: the transaction of such a step fails.
InOrder(cs, at) == \A m \in Metric : Open(cs[m]) => cs[m][Len(cs[m])].last <= at

\* One transaction.  The request's row is locked from its first statement on, by
\* workers and captures alike, so nobody else reads or writes the request meanwhile.
Process(r, t) ==
  LET batch == Batch(r, t)
      after == Replayed(r, batch)
      last  == after[Len(signal[r])]
      at    == Tick(r, t)
      cs    == Ticked(last, at)
  IN
  /\ signal[r] # <<>> /\ ~CheckedAfter(r, t)
  /\ \A k \in batch : InOrder(after[k - 1], signal[r][k].at)
  /\ InOrder(last, at)
  /\ cycle' = [cycle EXCEPT ![r] = cs]
  /\ event' = [event EXCEPT ![r] = @ \cup UNION {Lifecycle(m, cs[m]) : m \in Metric}]
  /\ signal' = [signal EXCEPT ![r] = MarkedProcessed(@, batch)]
  /\ checked' = [checked EXCEPT ![r] = at]
  /\ shown' = [shown EXCEPT ![r] = Headline(cs)]
  /\ UNCHANGED <<now, issue, edition, agent, blurred>>

Pass ==
  /\ now < MaxTime
  /\ now' = now + 1
  /\ UNCHANGED <<issue, edition, signal, cycle, event, checked, shown, agent, blurred>>

Next ==
  \/ Pass
  \/ \E r \in Request, new \in Status : ChangeIssue(r, new)
  \/ \E r \in Request, who \in {"customer", "agent"} : Comment(r, who)
  \/ \E a \in Agent, r \in Request : BeginConfirm(a, r)
  \/ \E a \in Agent : Confirm(a)
  \/ Publish
  \/ \E r \in Request, t \in (now - MaxLate)..now : t >= 0 /\ Process(r, t)

Spec == Init /\ [][Next]_vars

---------------------------------------------------------------------------
(* What the stopwatches promise. *)

\* Reference: reason q holds at moment t of cycle c when some signal of the
\* cycle set it and no later signal resumed without setting it again.
Waiting(r, c, t) ==
  \E q \in Reasons, i \in DOMAIN signal[r] :
    /\ i >= c.from /\ signal[r][i].at <= t
    /\ q \in Fired(c.goal, signal[r][i].payload)
    /\ \A j \in (i + 1)..Len(signal[r]) :
         (signal[r][j].at <= t /\ signal[r][j].payload \in Goal[c.goal].resume)
            => q \in Fired(c.goal, signal[r][j].payload)

Counted(r, c, to) ==
  Cardinality({t \in Working : c.started <= t /\ t < to /\ ~Waiting(r, c, t)})

AllCycles(r) == UNION {{cycle[r][m][k] : k \in DOMAIN cycle[r][m]} : m \in Metric}

\* The time a cycle has accrued is the business time since its start in which no
\* pause reason held, in whatever batches, ticks, failures and retries it was counted.
ElapsedIsBusinessTime ==
  \A r \in Request : \A c \in AllCycles(r) : c.elapsed = Counted(r, c, c.last)

\* The risk and breach times are the very moments at which the counted time
\* reached its marks, however late the worker looked (docs: recovered after delays).
MarksAreExact ==
  \A r \in Request : \A c \in AllCycles(r) :
    LET Exact(at, amount) ==
          IF at = None THEN Counted(r, c, c.last) < amount
          ELSE Counted(r, c, at) >= amount /\ \A t \in c.started..(at - 1) : Counted(r, c, t) < amount
    IN  /\ Exact(c.breached, Goal[c.goal].target)
        /\ Exact(c.risk, Goal[c.goal].target - Goal[c.goal].risk)

\* A cycle shows itself as running or paused exactly while it is open, and as
\* running exactly while nothing pauses it.
StatesShow ==
  \A r \in Request : \A c \in AllCycles(r) :
    /\ c.ended = None <=> c.state \in {"RUNNING", "PAUSED"}
    /\ c.ended = None => (c.state = "RUNNING" <=> c.paused = {})

\* Every cycle is an exact stopwatch of its request.
StopwatchExact == ElapsedIsBusinessTime /\ MarksAreExact /\ StatesShow

\* No pending signal is older than the time already accounted to an open cycle:
\* accrue would refuse it, and with it every later transaction of the request.
NeverBehind ==
  \A r \in Request : \A i \in Pending(r, MaxTime) : InOrder(cycle[r], signal[r][i].at)

\* Goals stop when the issue is done: a request whose signals are all handled has
\* no open resolution cycle while its issue is done, unless a confirmation was
\* written from a stale reading of the issue or a change found neither goals nor cycles.
DoneStopsTheClock ==
  \A r \in Request \ blurred :
    (issue[r] = Done /\ Pending(r, MaxTime) = {}) =>
      \A m \in Metric : Open(cycle[r][m]) =>
        \E p \in Payload : p.status = Done /\ p \notin Goal[cycle[r][m][Len(cycle[r][m])].goal].stop

\* A finished cycle is history: it never changes, nor does its goal version, and
\* cycles are only added behind it.
FinishedIsHistory ==
  [][\A r \in Request, m \in Metric :
       /\ Len(cycle[r][m]) <= Len(cycle'[r][m])
       /\ \A k \in DOMAIN cycle[r][m] :
            /\ cycle'[r][m][k].goal = cycle[r][m][k].goal
            /\ cycle[r][m][k].ended # None => cycle'[r][m][k] = cycle[r][m][k]]_vars
=============================================================================
