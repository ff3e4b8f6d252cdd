------------------------------ MODULE RateLimit ----------------------------
(***************************************************************************)
(* The request budget of one user: a bucket refilled continuously and two  *)
(* fixed windows.  Its state is in the process, or in a shared store that   *)
(* calls update over a small pool of connections by compare and swap.       *)
(***************************************************************************)
EXTENDS Integers, Sequences, FiniteSets

CONSTANTS
  Calls,          \* checks being made at the same time
  Connections,    \* of the pool
  PerMinute, PerDay, PerMonth,  \* the tier's budgets; the bucket gains one token a tick
  Day, Month,     \* the windows, in ticks
  KeyTtl,         \* how long the store keeps an unused state
  IdleTtl,        \* how long the process does
  SweepInterval,
  MaxRetries,     \* MAX_CAS_RETRIES
  Slack,          \* bound: ticks a check can take
  MaxTime,        \* bound: the clock
  MaxCalls,       \* bound: checks made
  None

ASSUME RateLimitAssumption ==
  /\ PerMinute \in Nat /\ PerDay \in Nat /\ PerMonth \in Nat
  /\ Day \in Nat \ {0} /\ Month \in Nat \ {0}
  /\ SweepInterval \in Nat /\ Slack \in Nat
  /\ IdleTtl \in Nat /\ IdleTtl >= Day
  /\ KeyTtl \in Nat /\ KeyTtl >= Day + Slack
  /\ MaxRetries \in Nat \ {0}
  /\ MaxTime \in Nat /\ MaxCalls \in Nat

VARIABLES
  now,
  shared,     \* whether a store is configured
  state,      \* the user's state, in the store or in the process
  written,    \* when the store last wrote it
  nextSweep,  \* when the process next drops idle states
  watching,   \* of each connection: "none", "clean", or "dirty" once the key has changed
  free,       \* connections nobody uses
  waiters,    \* calls waiting for a connection
  call,
  grants,     \* history: the requests allowed, and in which windows
  calls

rateVars ==
  <<now, shared, state, written, nextSweep, watching, free, waiters, call, grants, calls>>

RateState ==
  [tokens : 0 .. PerMinute, last : Nat, dayCount : Nat, dayStart : Nat,
   monthCount : Nat, monthStart : Nat]

ASSUME NoneAssumption == None \notin RateState

Idle == [pc |-> "idle", at |-> 0, conn |-> None, seen |-> None, attempt |-> 0]

RateTypeOK ==
  /\ now \in 0 .. MaxTime
  /\ state \in RateState \cup {None}
  /\ written \in Nat /\ nextSweep \in Nat
  /\ watching \in [Connections -> {"none", "clean", "dirty"}]
  /\ free \subseteq Connections
  /\ waiters \in Seq(Calls)
  /\ \A c \in Calls :
       /\ call[c].pc \in {"idle", "waiting", "watch", "get", "exec"}
       /\ call[c].conn \in Connections \cup {None}
       /\ call[c].attempt \in 0 .. MaxRetries

-----------------------------------------------------------------------------
Least(a, b) == IF a <= b THEN a ELSE b

initialRateLimitState(at) ==
  [tokens |-> PerMinute, last |-> at, dayCount |-> 0, dayStart |-> at,
   monthCount |-> 0, monthStart |-> at]

\* Refilled, and with the windows that have ended begun anew.
Carried(s, at) ==
  LET dayRolled == at - s.dayStart >= Day
      monthRolled == at - s.monthStart >= Month
  IN  [tokens |-> Least(PerMinute, s.tokens + (IF at > s.last THEN at - s.last ELSE 0)),
       last |-> at,
       dayCount |-> IF dayRolled THEN 0 ELSE s.dayCount,
       dayStart |-> IF dayRolled THEN at ELSE s.dayStart,
       monthCount |-> IF monthRolled THEN 0 ELSE s.monthCount,
       monthStart |-> IF monthRolled THEN at ELSE s.monthStart]

HasBudget(s) == s.monthCount < PerMonth /\ s.dayCount < PerDay /\ s.tokens >= 1

Consumed(s) ==
  [s EXCEPT !.tokens = @ - 1, !.dayCount = @ + 1, !.monthCount = @ + 1]

\* consumeRequest: the next state, which a refusal writes too.
consumeRequest(s, at) == IF HasBudget(Carried(s, at)) THEN Consumed(Carried(s, at)) ELSE Carried(s, at)

StateAt(s, at) == IF s = None THEN initialRateLimitState(at) ELSE s

\* The state written, and the grant remembered, for a check that began at a time.
Decide(s, at) ==
  LET before == StateAt(s, at)
      carried == Carried(before, at)
  IN  /\ state' = consumeRequest(before, at)
      /\ grants' = IF HasBudget(carried)
                   THEN Append(grants, [at |-> at, day |-> carried.dayStart,
                                        month |-> carried.monthStart])
                   ELSE grants

-----------------------------------------------------------------------------
\* UserRateLimiter.check, one synchronous step.
Swept == nextSweep <= now /\ state # None /\ now - state.last >= IdleTtl

CheckInProcess ==
  /\ ~shared
  /\ calls < MaxCalls
  /\ calls' = calls + 1
  /\ nextSweep' = IF now < nextSweep THEN nextSweep ELSE now + SweepInterval
  /\ Decide(IF Swept THEN None ELSE state, now)
  /\ UNCHANGED <<now, shared, written, watching, free, waiters, call>>

-----------------------------------------------------------------------------
\* RedisRateLimiter.check: a connection at once, or a place among the waiters.
Check(c) ==
  /\ shared
  /\ call[c].pc = "idle"
  /\ calls < MaxCalls
  /\ calls' = calls + 1
  /\ \/ \E conn \in free :
          /\ free' = free \ {conn}
          /\ call' = [call EXCEPT ![c] = [Idle EXCEPT !.pc = "watch", !.at = now, !.conn = conn]]
          /\ UNCHANGED waiters
     \/ /\ free = {}
        /\ waiters' = Append(waiters, c)
        /\ call' = [call EXCEPT ![c] = [Idle EXCEPT !.pc = "waiting", !.at = now]]
        /\ UNCHANGED free
  /\ UNCHANGED <<now, shared, state, written, nextSweep, watching, grants>>

\* Wrong: the connection only becomes free.
ReleaseToPool(c) ==
  /\ free' = free \cup {call[c].conn}
  /\ call' = [call EXCEPT ![c] = Idle]
  /\ UNCHANGED waiters

\* The first waiter gets the connection, with whatever it is still watching.
release(c) ==
  LET conn == call[c].conn
  IN  \/ /\ waiters # <<>>
         /\ waiters' = Tail(waiters)
         /\ call' = [call EXCEPT ![c] = Idle, ![Head(waiters)].pc = "watch",
                                 ![Head(waiters)].conn = conn]
         /\ UNCHANGED free
      \/ /\ waiters = <<>>
         /\ free' = free \cup {conn}
         /\ call' = [call EXCEPT ![c] = Idle]
         /\ UNCHANGED waiters

Goes(c, next) ==
  /\ call' = [call EXCEPT ![c] = next]
  /\ UNCHANGED <<now, shared, state, written, nextSweep, free, waiters, grants, calls>>

Watch(c) ==
  /\ call[c].pc = "watch"
  /\ watching' = [watching EXCEPT ![call[c].conn] = IF @ = "dirty" THEN @ ELSE "clean"]
  /\ Goes(c, [call[c] EXCEPT !.pc = "get"])

Get(c) ==
  /\ call[c].pc = "get"
  /\ Goes(c, [call[c] EXCEPT !.pc = "exec", !.seen = state])
  /\ UNCHANGED watching

\* What a write does to the connections that watch the key.
Touched(watch) ==
  [conn \in Connections |-> IF watch[conn] = "clean" THEN "dirty" ELSE watch[conn]]

\* Wrong: without looking whether the key changed.
ExecUnwatched(conn) == TRUE

CanExec(conn) == watching[conn] = "clean"

\* The transaction commits, or another call wrote first: then the whole cycle again, and
\* in the end an exception.
Exec(c) ==
  LET conn == call[c].conn
  IN  /\ call[c].pc = "exec"
      /\ \/ /\ CanExec(conn)
            /\ Decide(call[c].seen, call[c].at)
            /\ written' = now
            /\ watching' = Touched([watching EXCEPT ![conn] = "none"])
            /\ release(c)
         \/ /\ ~CanExec(conn)
            /\ watching' = [watching EXCEPT ![conn] = "none"]
            /\ \/ /\ call[c].attempt + 1 = MaxRetries
                  /\ release(c)
               \/ /\ call[c].attempt + 1 < MaxRetries
                  /\ call' = [call EXCEPT ![c].pc = "watch", ![c].attempt = @ + 1]
                  /\ UNCHANGED <<free, waiters>>
            /\ UNCHANGED <<state, written, grants>>
      /\ UNCHANGED <<now, shared, nextSweep, calls>>

\* A call of the store throws: the connection is given back, watching or not.
Throw(c) ==
  /\ call[c].pc \in {"watch", "get", "exec"}
  /\ release(c)
  /\ UNCHANGED <<now, shared, state, written, nextSweep, watching, grants, calls>>

\* Time passes, and the store forgets what nobody wrote for KeyTtl.
Tick ==
  /\ now < MaxTime
  /\ \A c \in Calls : call[c].pc # "idle" => now + 1 - call[c].at <= Slack
  /\ now' = now + 1
  /\ \/ /\ shared /\ state # None /\ now + 1 >= written + KeyTtl
        /\ state' = None
        /\ watching' = Touched(watching)
     \/ /\ ~(shared /\ state # None /\ now + 1 >= written + KeyTtl)
        /\ UNCHANGED <<state, watching>>
  /\ UNCHANGED <<shared, written, nextSweep, free, waiters, call, grants, calls>>

-----------------------------------------------------------------------------
RateInit ==
  /\ now = 0
  /\ shared \in BOOLEAN
  /\ state = None
  /\ written = 0
  /\ nextSweep = 0
  /\ watching = [conn \in Connections |-> "none"]
  /\ free = Connections
  /\ waiters = <<>>
  /\ call = [c \in Calls |-> Idle]
  /\ grants = <<>>
  /\ calls = 0

Step(c) == Watch(c) \/ Get(c) \/ Exec(c)

RateNext ==
  \/ CheckInProcess \/ Tick
  \/ \E c \in Calls : Check(c) \/ Step(c) \/ Throw(c)

\* The store answers.
RateFairness == \A c \in Calls : WF_rateVars(Step(c))

RateSpec == RateInit /\ [][RateNext]_rateVars /\ RateFairness

-----------------------------------------------------------------------------
DayGrants(w) == {i \in DOMAIN grants : grants[i].day = w}
MonthGrants(w) == {i \in DOMAIN grants : grants[i].month = w}

\* Budgets "that hold correctly across N stateless replicas": whatever calls write over
\* each other and whatever idle states are dropped, no window of a day or a month allows
\* more than its budget, and a new day begins a day after the last one began.
WindowsHold ==
  /\ \A w \in 0 .. MaxTime :
       /\ Cardinality(DayGrants(w)) <= PerDay
       /\ Cardinality(MonthGrants(w)) <= PerMonth
  /\ \A i, j \in DOMAIN grants :
       grants[i].day < grants[j].day => grants[j].day - grants[i].day >= Day

\* Every check comes to an end, with an answer or an exception, however many wait for a
\* connection and whatever fails.
ChecksEnd == \A c \in Calls : call[c].pc # "idle" ~> call[c].pc = "idle"

\* Not so: dropping an idle state is lossless, the month goes on.
MonthsApart ==
  \A i, j \in DOMAIN grants :
    grants[i].month < grants[j].month => grants[j].month - grants[i].month >= Month

\* Not so: the bucket allows no more than its size and what has been refilled since.
BucketHolds ==
  \A a, b \in 0 .. MaxTime : a <= b =>
    Cardinality({i \in DOMAIN grants : a <= grants[i].at /\ grants[i].at <= b})
      <= PerMinute + (b - a) + Slack

=============================================================================
