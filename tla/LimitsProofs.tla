---------------------------- MODULE LimitsProofs ---------------------------
(***************************************************************************)
(* What limits a tier sets, checked by TLAPS: the clamps of Tiers, and the  *)
(* windows of RateLimit.                                                   *)
(*                                                                         *)
(* The windows hold because the state counts every grant of its own day and *)
(* month, and a transaction commits only on the state that was read: a      *)
(* connection is one call's, so that only its own requests can clear the    *)
(* mark another call's write leaves on it.  A day survives a state that was *)
(* forgotten, as whoever finds none began a day after the last write.       *)
(***************************************************************************)
EXTENDS Tiers, RateLimit, FiniteSetTheorems, SequenceTheorems, TLAPS

-----------------------------------------------------------------------------
(* Clamps.                                                                  *)

\* A number, or no limit.
Limit == {{n} : n \in Nat} \cup {Unlimited}

Rule == [keepLastN : Limit, keepDays : Limit]

\* Every profile's ceilings and defaults are rules.
LEMMA ProfileRules ==
  \A t \in Tier : /\ TIER_PROFILES[t].retentionMax \in Rule
                  /\ TIER_PROFILES[t].defaultVersionRetention \in Rule
<1>1. /\ TIER_PROFILES["free"] = FreeProfile
      /\ TIER_PROFILES["team"] = TeamProfile
      /\ TIER_PROFILES["enterprise"] = EnterpriseProfile
  BY DEF TIER_PROFILES
<1>2. \A n, d \in Nat : [keepLastN |-> {n}, keepDays |-> {d}] \in Rule
  BY DEF Rule, Limit
<1>3. FreeProfile.retentionMax \in Rule /\ FreeProfile.defaultVersionRetention \in Rule
  BY <1>2 DEF FreeProfile
<1>4. TeamProfile.retentionMax \in Rule /\ TeamProfile.defaultVersionRetention \in Rule
  BY <1>2 DEF TeamProfile
<1>5. /\ EnterpriseProfile.retentionMax \in Rule
      /\ EnterpriseProfile.defaultVersionRetention \in Rule
  BY <1>2 DEF EnterpriseProfile
<1> QED BY <1>1, <1>3, <1>4, <1>5 DEF Tier

\* The stricter of two limits is a limit, as strict as either, and one of the two.
LEMMA StricterIsLeast ==
  ASSUME NEW a \in Limit, NEW b \in Limit
  PROVE  /\ Stricter(a, b) \in Limit
         /\ Within(Stricter(a, b), a) /\ Within(Stricter(a, b), b)
         /\ Within(b, a) => Stricter(a, b) = b
         /\ Within(a, b) => Stricter(a, b) = a
         /\ Stricter(a, b) = a => Within(a, b)
<1>1. CASE a = Unlimited
  <2>1. Stricter(a, b) = b
    BY <1>1 DEF Stricter, Unlimited, Limit
  <2> QED BY <1>1, <2>1 DEF Within, Unlimited, Limit
<1>2. CASE b = Unlimited
  <2>1. Stricter(a, b) = a
    BY <1>2 DEF Stricter, Unlimited, Limit
  <2> QED BY <1>2, <2>1 DEF Within, Unlimited, Limit
<1>3. ASSUME NEW m \in Nat, NEW n \in Nat, a = {m}, b = {n}
      PROVE  /\ Stricter(a, b) \in Limit
             /\ Within(Stricter(a, b), a) /\ Within(Stricter(a, b), b)
             /\ Within(b, a) => Stricter(a, b) = b
             /\ Within(a, b) => Stricter(a, b) = a
             /\ Stricter(a, b) = a => Within(a, b)
  <2>1. \A x, y \in Nat : Within({x}, {y}) <=> x <= y
    BY DEF Within
  <2>2. {m} \in Limit /\ {n} \in Limit
    BY DEF Limit
  <2>3. a \cup b = {m, n}
    BY <1>3
  <2>4. CASE m <= n
    <3>1. \A k : k \in Stricter(a, b) <=> k \in {m}
      BY <2>3, <2>4 DEF Stricter
    <3>2. Stricter(a, b) = a
      BY <1>3, <3>1
    <3>3. Within(a, a) /\ Within(a, b)
      BY <1>3, <2>1, <2>4
    <3>4. Within(b, a) => a = b
      <4>1. Within(b, a) => n <= m
        BY <1>3, <2>1
      <4> QED BY <1>3, <2>4, <4>1
    <3> QED BY <1>3, <2>2, <3>2, <3>3, <3>4
  <2>5. CASE n < m
    <3>1. \A k : k \in Stricter(a, b) <=> k \in {n}
      BY <2>3, <2>5 DEF Stricter
    <3>2. Stricter(a, b) = b
      BY <1>3, <3>1
    <3>3. Within(b, a) /\ Within(b, b) /\ ~ Within(a, b)
      BY <1>3, <2>1, <2>5
    <3>4. a # b
      BY <1>3, <2>5
    <3> QED BY <1>3, <2>2, <3>2, <3>3, <3>4
  <2> QED BY <2>4, <2>5
<1> QED BY <1>1, <1>2, <1>3 DEF Limit

\* The order in which two ceilings are applied does not matter.
LEMMA StricterAssociates ==
  ASSUME NEW a \in Limit, NEW b \in Limit, NEW c \in Limit
  PROVE  Stricter(Stricter(a, b), c) = Stricter(Stricter(a, c), b)
<1> DEFINE Lowest(S) == {n \in S : \A m \in S : n <= m}
<1>1. Stricter(Stricter(a, b), c) = Lowest(a \cup b \cup c)
  BY SMTT(60) DEF Stricter, Limit, Unlimited
<1>2. Stricter(Stricter(a, c), b) = Lowest(a \cup b \cup c)
  BY SMTT(60) DEF Stricter, Limit, Unlimited
<1> QED BY <1>1, <1>2

-----------------------------------------------------------------------------
\* Whatever an organization configured, and whatever tier it was in then, the purge keeps
\* to the ceiling of the tier it is in now, never keeps longer than what was configured, and
\* does as configured where that is strict enough.
THEOREM PurgeKeepsToTheTier ==
  ASSUME NEW t \in Tier, NEW config \in Rule
  PROVE  LET rule == clampVersionRetention(config, t)
             max == TIER_PROFILES[t].retentionMax
         IN  \A limit \in {"keepLastN", "keepDays"} :
               /\ Within(rule[limit], max[limit]) /\ Within(rule[limit], config[limit])
               /\ Within(config[limit], max[limit]) => rule[limit] = config[limit]
<1>1. TIER_PROFILES[t].retentionMax \in Rule
  BY ProfileRules
<1>2. \A limit \in {"keepLastN", "keepDays"} :
        /\ TIER_PROFILES[t].retentionMax[limit] \in Limit /\ config[limit] \in Limit
        /\ clampVersionRetention(config, t)[limit]
             = Stricter(config[limit], TIER_PROFILES[t].retentionMax[limit])
  BY <1>1 DEF clampVersionRetention, Rule
<1> QED BY <1>2, StricterIsLeast

\* The settings refuse exactly what is looser than the ceiling: no limit on the days among
\* it, in every tier there is.
THEOREM SettingsRefuseTheLooser ==
  ASSUME NEW t \in Tier, NEW config \in Rule
  PROVE  SettingsAccept(config, t) <=>
           \A limit \in {"keepLastN", "keepDays"} :
             Within(config[limit], TIER_PROFILES[t].retentionMax[limit])
<1>1. TIER_PROFILES[t].retentionMax \in Rule
  BY ProfileRules
<1>2. SettingsAccept(config, t) <=>
        /\ Stricter(config.keepLastN, TIER_PROFILES[t].retentionMax.keepLastN) = config.keepLastN
        /\ Stricter(config.keepDays, TIER_PROFILES[t].retentionMax.keepDays) = config.keepDays
  BY DEF SettingsAccept, clampVersionRetention, Rule
<1>3. \A limit \in {"keepLastN", "keepDays"} :
        TIER_PROFILES[t].retentionMax[limit] \in Limit /\ config[limit] \in Limit
  BY <1>1 DEF Rule
<1> QED BY <1>2, <1>3, StricterIsLeast

\* A rule clamped on its way through several tiers is the same whatever the order, and
\* clamping it again changes nothing.
THEOREM ClampsCommute ==
  ASSUME NEW t \in Tier, NEW u \in Tier, NEW config \in Rule
  PROVE  /\ clampVersionRetention(clampVersionRetention(config, t), u)
              = clampVersionRetention(clampVersionRetention(config, u), t)
         /\ clampVersionRetention(clampVersionRetention(config, t), t)
              = clampVersionRetention(config, t)
<1>1. TIER_PROFILES[t].retentionMax \in Rule /\ TIER_PROFILES[u].retentionMax \in Rule
  BY ProfileRules
<1>2. \A a, b \in Limit : Stricter(Stricter(a, b), b) = Stricter(a, b)
  BY StricterIsLeast
<1> QED BY <1>1, <1>2, StricterAssociates DEF clampVersionRetention, Rule

-----------------------------------------------------------------------------
(* Windows: the invariant.                                                  *)

\* A call as the pool and the loop of attempts keep it.
CallRecord ==
  [pc : {"idle", "waiting", "watch", "get", "exec"}, at : Nat, conn : Connections \cup {None},
   seen : RateState \cup {None}, attempt : 0 .. MaxRetries]

Grant == [at : Nat, day : Nat, month : Nat]

RateTypes ==
  /\ now \in 0 .. MaxTime /\ written \in Nat /\ nextSweep \in Nat
  /\ shared \in BOOLEAN
  /\ state \in RateState \cup {None}
  /\ watching \in [Connections -> {"none", "clean", "dirty"}]
  /\ free \subseteq Connections
  /\ waiters \in Seq(Calls)
  /\ call \in [Calls -> CallRecord]
  /\ grants \in Seq(Grant)

Calling(c) == call[c].pc \in {"watch", "get", "exec"}

\* Nobody waits twice, and a connection in use is one call's.
PoolIsSound ==
  /\ \A i, j \in 1 .. Len(waiters) : waiters[i] = waiters[j] => i = j
  /\ \A i \in 1 .. Len(waiters) : call[waiters[i]].pc = "waiting"
  /\ \A c \in Calls : Calling(c) => call[c].conn \in Connections \ free
  /\ \A c, d \in Calls : Calling(c) /\ Calling(d) /\ call[c].conn = call[d].conn => c = d

\* What a call read is still the state while its connection heard of no change.
SeenIsCurrent ==
  \A c \in Calls : call[c].pc = "exec" /\ watching[call[c].conn] = "clean" =>
    call[c].seen = state

\* A check began no longer ago than Slack.
InTime ==
  /\ written <= now
  /\ \A c \in Calls : call[c].pc # "idle" =>
       shared /\ call[c].at <= now /\ now - call[c].at <= Slack

\* The windows of the state, and those of the grants, began before the last write; and
\* where there is no state the last write is long ago.
Latest == IF shared THEN written ELSE state.last

BeganBefore ==
  /\ state # None =>
       state.dayStart <= Latest /\ state.monthStart <= Latest /\ Latest <= now
  /\ state = None /\ grants # <<>> => shared /\ written + KeyTtl <= now
  /\ shared => \A i \in DOMAIN grants : grants[i].day <= written /\ grants[i].month <= written

\* A state counts at least the grants of its own windows, and no later window is known.
Counts(s) ==
  /\ \A i \in DOMAIN grants : grants[i].day = s.dayStart \/ grants[i].day + Day <= s.dayStart
  /\ \A i \in DOMAIN grants : grants[i].month <= s.monthStart
  /\ Cardinality(DayGrants(s.dayStart)) <= s.dayCount /\ s.dayCount <= PerDay
  /\ Cardinality(MonthGrants(s.monthStart)) <= s.monthCount /\ s.monthCount <= PerMonth

Windows ==
  /\ \A w \in Nat : Cardinality(DayGrants(w)) <= PerDay /\ Cardinality(MonthGrants(w)) <= PerMonth
  /\ \A i, j \in DOMAIN grants :
       grants[i].day < grants[j].day => grants[j].day - grants[i].day >= Day

Counted == (state # None => Counts(state)) /\ Windows

RateInv == RateTypes /\ PoolIsSound /\ SeenIsCurrent /\ InTime /\ BeganBefore /\ Counted

-----------------------------------------------------------------------------
(* Counting grants.                                                         *)

\* Every grant's windows began at some time.
LEMMA GrantsTyped ==
  ASSUME grants \in Seq(Grant)
  PROVE  \A i \in DOMAIN grants : grants[i].day \in Nat /\ grants[i].month \in Nat
<1>1. \A i \in DOMAIN grants : grants[i] \in Grant
  <2>1. DOMAIN grants = 1 .. Len(grants)
    BY LenProperties
  <2> QED BY <2>1, ElementOfSeq
<1>2. \A g \in Grant : g.day \in Nat /\ g.month \in Nat
  BY DEF Grant
<1> QED BY <1>1, <1>2

\* The grants of a window are finitely many.
LEMMA GrantsCount ==
  ASSUME grants \in Seq(Grant), NEW w
  PROVE  /\ IsFiniteSet(DayGrants(w)) /\ Cardinality(DayGrants(w)) \in Nat
         /\ IsFiniteSet(MonthGrants(w)) /\ Cardinality(MonthGrants(w)) \in Nat
<1>1. Len(grants) \in Nat /\ DOMAIN grants = 1 .. Len(grants)
  BY LenProperties
<1>2. IsFiniteSet(1 .. Len(grants))
  BY <1>1, FS_Interval
<1>3. DayGrants(w) \subseteq 1 .. Len(grants) /\ MonthGrants(w) \subseteq 1 .. Len(grants)
  BY <1>1 DEF DayGrants, MonthGrants
<1>4. IsFiniteSet(DayGrants(w)) /\ IsFiniteSet(MonthGrants(w))
  BY <1>2, <1>3, FS_Subset
<1> QED BY <1>4, FS_CardinalityType

\* A grant more is one more of its own windows and no more of others.
LEMMA GrantAdded ==
  ASSUME grants \in Seq(Grant), NEW g \in Grant, grants' = Append(grants, g)
  PROVE  /\ grants' \in Seq(Grant)
         /\ Len(grants) \in Nat
         /\ DOMAIN grants = 1 .. Len(grants)
         /\ DOMAIN grants' = 1 .. Len(grants) + 1
         /\ \A i \in DOMAIN grants : grants'[i] = grants[i]
         /\ grants'[Len(grants) + 1] = g
         /\ \A w : /\ Cardinality(DayGrants(w)') =
                        Cardinality(DayGrants(w)) + (IF g.day = w THEN 1 ELSE 0)
                   /\ Cardinality(MonthGrants(w)') =
                        Cardinality(MonthGrants(w)) + (IF g.month = w THEN 1 ELSE 0)
<1> DEFINE n == Len(grants)
<1>1. /\ grants' \in Seq(Grant)
      /\ n \in Nat
      /\ DOMAIN grants = 1 .. n
      /\ DOMAIN grants' = 1 .. n + 1
      /\ \A i \in DOMAIN grants : grants'[i] = grants[i]
      /\ grants'[n + 1] = g
  BY AppendProperties, LenProperties
<1>2. ASSUME NEW w
      PROVE  /\ Cardinality(DayGrants(w)') =
                  Cardinality(DayGrants(w)) + (IF g.day = w THEN 1 ELSE 0)
             /\ Cardinality(MonthGrants(w)') =
                  Cardinality(MonthGrants(w)) + (IF g.month = w THEN 1 ELSE 0)
  <2>1. n + 1 \notin DayGrants(w) /\ n + 1 \notin MonthGrants(w)
    BY <1>1 DEF DayGrants, MonthGrants
  <2>2. DayGrants(w)' = IF g.day = w THEN DayGrants(w) \cup {n + 1} ELSE DayGrants(w)
    BY <1>1 DEF DayGrants
  <2>3. MonthGrants(w)' = IF g.month = w THEN MonthGrants(w) \cup {n + 1} ELSE MonthGrants(w)
    BY <1>1 DEF MonthGrants
  <2>4. /\ IsFiniteSet(DayGrants(w)) /\ Cardinality(DayGrants(w)) \in Nat
        /\ IsFiniteSet(MonthGrants(w)) /\ Cardinality(MonthGrants(w)) \in Nat
    BY GrantsCount
  <2>5. /\ Cardinality(DayGrants(w) \cup {n + 1}) = Cardinality(DayGrants(w)) + 1
        /\ Cardinality(MonthGrants(w) \cup {n + 1}) = Cardinality(MonthGrants(w)) + 1
    BY <2>1, <2>4, FS_AddElement
  <2> QED BY <2>2, <2>3, <2>4, <2>5
<1> QED BY <1>1, <1>2

\* Carrying a state on to a time keeps each of its windows, or begins it anew.
LEMMA CarriedOn ==
  ASSUME NEW s \in RateState, NEW at \in Nat
  PROVE  /\ Carried(s, at) \in RateState
         /\ Carried(s, at).last = at
         /\ \/ /\ Carried(s, at).dayStart = s.dayStart
               /\ Carried(s, at).dayCount = s.dayCount
            \/ /\ Carried(s, at).dayStart = at
               /\ Carried(s, at).dayCount = 0
               /\ s.dayStart + Day <= at
         /\ \/ /\ Carried(s, at).monthStart = s.monthStart
               /\ Carried(s, at).monthCount = s.monthCount
            \/ /\ Carried(s, at).monthStart = at
               /\ Carried(s, at).monthCount = 0
               /\ s.monthStart + 1 <= at
<1>1. /\ s.tokens \in 0 .. PerMinute /\ s.last \in Nat
      /\ s.dayCount \in Nat /\ s.dayStart \in Nat
      /\ s.monthCount \in Nat /\ s.monthStart \in Nat
  BY DEF RateState
<1> PICK day \in Nat \ {0}, month \in Nat \ {0}, top \in Nat :
         day = Day /\ month = Month /\ top = PerMinute
  BY RateLimitAssumption
<1> DEFINE filled == s.tokens + (IF at > s.last THEN at - s.last ELSE 0)
<1>2. filled \in Nat
  BY <1>1
<1>3. Least(PerMinute, filled) \in 0 .. PerMinute
  BY <1>2 DEF Least
<1> DEFINE c == Carried(s, at)
           dayRolled == at - s.dayStart >= Day
           monthRolled == at - s.monthStart >= Month
<1>4. /\ c.tokens = Least(PerMinute, filled)
      /\ c.last = at
      /\ c.dayCount = IF dayRolled THEN 0 ELSE s.dayCount
      /\ c.dayStart = IF dayRolled THEN at ELSE s.dayStart
      /\ c.monthCount = IF monthRolled THEN 0 ELSE s.monthCount
      /\ c.monthStart = IF monthRolled THEN at ELSE s.monthStart
  BY DEF Carried
<1>5. dayRolled => s.dayStart + Day <= at
  BY <1>1
<1>6. monthRolled => s.monthStart + 1 <= at
  BY <1>1
<1>7. /\ (IF dayRolled THEN 0 ELSE s.dayCount) \in Nat
      /\ (IF dayRolled THEN at ELSE s.dayStart) \in Nat
      /\ (IF monthRolled THEN 0 ELSE s.monthCount) \in Nat
      /\ (IF monthRolled THEN at ELSE s.monthStart) \in Nat
  BY <1>1
<1>8. c \in RateState
  BY <1>3, <1>7 DEF Carried, RateState
<1> HIDE DEF c, dayRolled, monthRolled
<1> QED BY <1>4, <1>5, <1>6, <1>8 DEF c

\* A state that counts its grants still does when carried on to a time.
LEMMA CarriedCounts ==
  ASSUME grants \in Seq(Grant), NEW s \in RateState, NEW at \in Nat, Counts(s)
  PROVE  Counts(Carried(s, at))
<1> PICK c \in RateState : c = Carried(s, at)
  BY CarriedOn
<1>1. /\ \/ c.dayStart = s.dayStart /\ c.dayCount = s.dayCount
         \/ c.dayStart = at /\ c.dayCount = 0 /\ s.dayStart + Day <= at
      /\ \/ c.monthStart = s.monthStart /\ c.monthCount = s.monthCount
         \/ c.monthStart = at /\ c.monthCount = 0 /\ s.monthStart + 1 <= at
  BY CarriedOn
<1>2. /\ s.dayStart \in Nat /\ s.dayCount \in Nat /\ s.monthStart \in Nat /\ s.monthCount \in Nat
      /\ Day \in Nat \ {0} /\ PerDay \in Nat /\ PerMonth \in Nat
  BY RateLimitAssumption DEF RateState
<1>3. \A i \in DOMAIN grants : grants[i].day \in Nat /\ grants[i].month \in Nat
  BY GrantsTyped
<1>4. /\ \A i \in DOMAIN grants : grants[i].day = c.dayStart \/ grants[i].day + Day <= c.dayStart
      /\ Cardinality(DayGrants(c.dayStart)) <= c.dayCount /\ c.dayCount <= PerDay
  <2>1. CASE c.dayStart = s.dayStart /\ c.dayCount = s.dayCount
    BY <2>1 DEF Counts
  <2>2. CASE c.dayStart = at /\ c.dayCount = 0 /\ s.dayStart + Day <= at
    <3>1. \A i \in DOMAIN grants : grants[i].day + Day <= at
      BY <1>2, <1>3, <2>2 DEF Counts
    <3>2. DayGrants(at) = {}
      BY <1>2, <1>3, <3>1 DEF DayGrants
    <3>3. Cardinality(DayGrants(c.dayStart)) = 0
      BY <2>2, <3>2, FS_EmptySet
    <3> QED BY <1>2, <2>2, <3>1, <3>3
  <2> QED BY <1>1, <2>1, <2>2
<1>5. /\ \A i \in DOMAIN grants : grants[i].month <= c.monthStart
      /\ Cardinality(MonthGrants(c.monthStart)) <= c.monthCount /\ c.monthCount <= PerMonth
  <2>1. CASE c.monthStart = s.monthStart /\ c.monthCount = s.monthCount
    BY <2>1 DEF Counts
  <2>2. CASE c.monthStart = at /\ c.monthCount = 0 /\ s.monthStart + 1 <= at
    <3>1. \A i \in DOMAIN grants : grants[i].month + 1 <= at
      BY <1>2, <1>3, <2>2 DEF Counts
    <3>2. MonthGrants(at) = {}
      BY <1>3, <3>1 DEF MonthGrants
    <3>3. Cardinality(MonthGrants(c.monthStart)) = 0
      BY <2>2, <3>2, FS_EmptySet
    <3>4. \A i \in DOMAIN grants : grants[i].month <= at
      BY <1>3, <3>1
    <3> QED BY <1>2, <2>2, <3>3, <3>4
  <2> QED BY <1>1, <2>1, <2>2
<1> QED BY <1>4, <1>5 DEF Counts

\* A new state counts its grants if every grant's day is over and its month an earlier one.
LEMMA FirstCounts ==
  ASSUME grants \in Seq(Grant), NEW at \in Nat,
         \A i \in DOMAIN grants : grants[i].day + Day <= at /\ grants[i].month + 1 <= at
  PROVE  /\ initialRateLimitState(at) \in RateState
         /\ Counts(initialRateLimitState(at))
<1> PICK s : s = initialRateLimitState(at)
  OBVIOUS
<1>1. /\ s.dayStart = at /\ s.monthStart = at /\ s.dayCount = 0 /\ s.monthCount = 0
      /\ s \in RateState
  BY RateLimitAssumption DEF initialRateLimitState, RateState
<1>2. /\ Day \in Nat \ {0} /\ PerDay \in Nat /\ PerMonth \in Nat
  BY RateLimitAssumption
<1>3. \A i \in DOMAIN grants : grants[i].day \in Nat /\ grants[i].month \in Nat
  BY GrantsTyped
<1>4. DayGrants(at) = {} /\ MonthGrants(at) = {}
  BY <1>2, <1>3 DEF DayGrants, MonthGrants
<1>5. Cardinality(DayGrants(at)) = 0 /\ Cardinality(MonthGrants(at)) = 0
  BY <1>4, FS_EmptySet
<1>6. \A i \in DOMAIN grants : grants[i].month <= at
  BY <1>3
<1> QED BY <1>1, <1>2, <1>5, <1>6 DEF Counts

\* What a decision does: the new state is of the time it was made at, its windows are old
\* ones or begin then, it counts its grants, and no window is given more than its budget.
LEMMA Decision ==
  ASSUME grants \in Seq(Grant), Windows,
         NEW x \in RateState \cup {None}, NEW at \in Nat, Decide(x, at),
         x # None => Counts(x),
         x = None => \A i \in DOMAIN grants :
                       grants[i].day + Day <= at /\ grants[i].month + 1 <= at
  PROVE  /\ state' \in RateState /\ state'.last = at
         /\ grants' \in Seq(Grant)
         /\ Counts(state)' /\ Windows'
         /\ state'.dayStart \in {at} \cup (IF x = None THEN {} ELSE {x.dayStart})
         /\ state'.monthStart \in {at} \cup (IF x = None THEN {} ELSE {x.monthStart})
         /\ \A i \in DOMAIN grants' :
              \/ i \in DOMAIN grants /\ grants'[i] = grants[i]
              \/ grants'[i].day = state'.dayStart /\ grants'[i].month = state'.monthStart
<1>1. grants \in Seq(Grant)
  OBVIOUS
<1> PICK s \in RateState : s = StateAt(x, at)
  BY <1>1, FirstCounts DEF StateAt
<1>2. Counts(s)
  BY <1>1, FirstCounts DEF StateAt
<1>3. s.dayStart \in {at} \cup (IF x = None THEN {} ELSE {x.dayStart})
  BY DEF StateAt, initialRateLimitState
<1>4. s.monthStart \in {at} \cup (IF x = None THEN {} ELSE {x.monthStart})
  BY DEF StateAt, initialRateLimitState
<1> PICK c \in RateState : c = Carried(s, at)
  BY CarriedOn
<1>5. Counts(c)
  BY <1>1, <1>2, CarriedCounts
<1>6. c.last = at /\ c.dayStart \in {s.dayStart, at} /\ c.monthStart \in {s.monthStart, at}
  BY CarriedOn
<1>7. /\ state' = IF HasBudget(c) THEN Consumed(c) ELSE c
      /\ grants' = IF HasBudget(c)
                   THEN Append(grants, [at |-> at, day |-> c.dayStart, month |-> c.monthStart])
                   ELSE grants
  BY DEF Decide, consumeRequest
<1>8. /\ c.tokens \in 0 .. PerMinute /\ c.last \in Nat /\ c.dayCount \in Nat /\ c.dayStart \in Nat
      /\ c.monthCount \in Nat /\ c.monthStart \in Nat
      /\ PerMinute \in Nat /\ PerDay \in Nat /\ PerMonth \in Nat /\ Day \in Nat \ {0}
  BY RateLimitAssumption DEF RateState
<1>9. \A i \in DOMAIN grants : grants[i].day \in Nat /\ grants[i].month \in Nat
  BY <1>1, GrantsTyped
<1>10. Windows
  OBVIOUS
<1>a. CASE ~HasBudget(c)
  <2>1. state' = c /\ grants' = grants
    BY <1>7, <1>a
  <2>2. \A w : DayGrants(w)' = DayGrants(w) /\ MonthGrants(w)' = MonthGrants(w)
    BY <2>1 DEF DayGrants, MonthGrants
  <2>3. Counts(state)'
    BY <1>5, <2>1, <2>2 DEF Counts
  <2>4. Windows'
    BY <1>10, <2>1, <2>2 DEF Windows
  <2> QED BY <1>1, <1>3, <1>4, <1>6, <2>1, <2>3, <2>4
<1>b. CASE HasBudget(c)
  <2> PICK g : g = [at |-> at, day |-> c.dayStart, month |-> c.monthStart]
    OBVIOUS
  <2>1. g \in Grant /\ g.day = c.dayStart /\ g.month = c.monthStart
    BY <1>8 DEF Grant
  <2>2. grants' = Append(grants, g)
    BY <1>7, <1>b
  <2>3. state' = Consumed(c)
    BY <1>7, <1>b
  <2>4. /\ grants' \in Seq(Grant)
        /\ Len(grants) \in Nat
        /\ DOMAIN grants = 1 .. Len(grants)
        /\ DOMAIN grants' = 1 .. Len(grants) + 1
        /\ \A i \in DOMAIN grants : grants'[i] = grants[i]
        /\ grants'[Len(grants) + 1] = g
        /\ \A w : /\ Cardinality(DayGrants(w)') =
                       Cardinality(DayGrants(w)) + (IF g.day = w THEN 1 ELSE 0)
                  /\ Cardinality(MonthGrants(w)') =
                       Cardinality(MonthGrants(w)) + (IF g.month = w THEN 1 ELSE 0)
    BY <1>1, <2>1, <2>2, GrantAdded
  <2>5. c.tokens >= 1 /\ c.dayCount < PerDay /\ c.monthCount < PerMonth
    BY <1>b DEF HasBudget
  <2>6. /\ c.tokens - 1 \in 0 .. PerMinute /\ c.dayCount + 1 \in Nat /\ c.monthCount + 1 \in Nat
        /\ c.dayCount + 1 <= PerDay /\ c.monthCount + 1 <= PerMonth
    <3>1. c.tokens - 1 \in 0 .. PerMinute
      BY <1>8, <2>5
    <3>2. c.dayCount + 1 \in Nat /\ c.dayCount + 1 <= PerDay
      BY <1>8, <2>5
    <3>3. c.monthCount + 1 \in Nat /\ c.monthCount + 1 <= PerMonth
      BY <1>8, <2>5
    <3> QED BY <3>1, <3>2, <3>3
  <2>7. state' \in RateState
    BY <2>3, <2>6 DEF Consumed, RateState
  <2>8. /\ state'.last = c.last /\ state'.dayStart = c.dayStart /\ state'.monthStart = c.monthStart
        /\ state'.dayCount = c.dayCount + 1 /\ state'.monthCount = c.monthCount + 1
    BY <2>3 DEF Consumed, RateState
  <2>9. \A i \in DOMAIN grants' : i \in DOMAIN grants \/ i = Len(grants) + 1
    BY <2>4
  <2>10. /\ \A i \in DOMAIN grants :
              grants[i].day = c.dayStart \/ grants[i].day + Day <= c.dayStart
         /\ \A i \in DOMAIN grants : grants[i].month <= c.monthStart
         /\ Cardinality(DayGrants(c.dayStart)) <= c.dayCount
         /\ Cardinality(MonthGrants(c.monthStart)) <= c.monthCount
    BY <1>5 DEF Counts
  <2>11. /\ \A i \in DOMAIN grants' :
              grants'[i].day = c.dayStart \/ grants'[i].day + Day <= c.dayStart
         /\ \A i \in DOMAIN grants' : grants'[i].month <= c.monthStart
    <3>1. ASSUME NEW i \in DOMAIN grants'
          PROVE  /\ grants'[i].day = c.dayStart \/ grants'[i].day + Day <= c.dayStart
                 /\ grants'[i].month <= c.monthStart
      <4>1. CASE i \in DOMAIN grants
        BY <2>4, <2>10, <4>1
      <4>2. CASE i = Len(grants) + 1
        <5>1. grants'[i] = g
          BY <2>4, <4>2
        <5> QED BY ONLY <1>8, <2>1, <5>1
      <4> QED BY <2>9, <4>1, <4>2
    <3> QED BY <3>1
  <2>12. \A w : Cardinality(DayGrants(w)) \in Nat /\ Cardinality(MonthGrants(w)) \in Nat
    BY <1>1, GrantsCount
  <2>13. /\ Cardinality(DayGrants(c.dayStart)') <= c.dayCount + 1
         /\ Cardinality(MonthGrants(c.monthStart)') <= c.monthCount + 1
    BY <1>8, <2>1, <2>4, <2>10, <2>12
  <2>14. Counts(state)'
    BY <2>6, <2>8, <2>11, <2>13 DEF Counts, DayGrants, MonthGrants
  <2>15. \A w \in Nat : /\ Cardinality(DayGrants(w)') <= PerDay
                        /\ Cardinality(MonthGrants(w)') <= PerMonth
    <3> TAKE w \in Nat
    <3>1. /\ Cardinality(DayGrants(w)) \in Nat /\ Cardinality(DayGrants(w)) <= PerDay
          /\ Cardinality(MonthGrants(w)) \in Nat /\ Cardinality(MonthGrants(w)) <= PerMonth
      BY <1>10, <2>12 DEF Windows
    <3>2. /\ g.day # w => Cardinality(DayGrants(w)') = Cardinality(DayGrants(w)) + 0
          /\ g.month # w => Cardinality(MonthGrants(w)') = Cardinality(MonthGrants(w)) + 0
      BY <2>4
    <3>3. /\ g.day = w => Cardinality(DayGrants(w)') <= c.dayCount + 1
          /\ g.month = w => Cardinality(MonthGrants(w)') <= c.monthCount + 1
      BY <2>1, <2>13
    <3>4. \A w1 : Cardinality(DayGrants(w1)') \in Nat /\ Cardinality(MonthGrants(w1)') \in Nat
      BY <2>4, <2>12
    <3> QED BY ONLY <1>8, <2>6, <3>1, <3>2, <3>3, <3>4
  <2>16. \A i, j \in DOMAIN grants' :
           grants'[i].day < grants'[j].day => grants'[j].day - grants'[i].day >= Day
    <3> SUFFICES ASSUME NEW i \in DOMAIN grants', NEW j \in DOMAIN grants',
                        grants'[i].day < grants'[j].day
                 PROVE  grants'[j].day - grants'[i].day >= Day
      OBVIOUS
    <3>0. grants'[i].day < grants'[j].day
      OBVIOUS
    <3>1. grants'[i].day \in Nat /\ grants'[j].day \in Nat
      BY <1>8, <1>9, <2>1, <2>4, <2>9
    <3>2. CASE i \in DOMAIN grants /\ j \in DOMAIN grants
      BY <1>10, <2>4, <3>2 DEF Windows
    <3>3. CASE j = Len(grants) + 1
      <4>1. grants'[j].day = c.dayStart
        BY <2>1, <2>4, <3>3
      <4>2. grants'[i].day = c.dayStart \/ grants'[i].day + Day <= c.dayStart
        BY <2>11
      <4> QED BY ONLY <1>8, <3>0, <3>1, <4>1, <4>2
    <3>4. CASE i = Len(grants) + 1
      <4>1. grants'[i].day = c.dayStart
        BY <2>1, <2>4, <3>4
      <4>2. grants'[j].day = c.dayStart \/ grants'[j].day + Day <= c.dayStart
        BY <2>11
      <4> QED BY ONLY <1>8, <3>0, <3>1, <4>1, <4>2
    <3> QED BY <2>9, <3>2, <3>3, <3>4
  <2>17. Windows'
    BY <2>15, <2>16 DEF Windows
  <2>18. \A i \in DOMAIN grants' :
           \/ i \in DOMAIN grants /\ grants'[i] = grants[i]
           \/ grants'[i].day = state'.dayStart /\ grants'[i].month = state'.monthStart
    BY <2>1, <2>4, <2>8, <2>9
  <2> QED BY <1>3, <1>4, <1>6, <2>4, <2>7, <2>8, <2>14, <2>17, <2>18
<1> QED BY <1>a, <1>b

-----------------------------------------------------------------------------
(* The pool of connections.                                                 *)

\* A connection given back goes to the first waiter, or to nobody; the call that gave it
\* back is idle, and every other call keeps the time it began at.
LEMMA Released ==
  ASSUME RateTypes, PoolIsSound, NEW c \in Calls, Calling(c), release(c)
  PROVE  /\ free' \subseteq Connections
         /\ waiters' \in Seq(Calls)
         /\ call' \in [Calls -> CallRecord]
         /\ PoolIsSound'
         /\ call'[c] = Idle
         /\ \A d \in Calls \ {c} :
              \/ call'[d] = call[d]
              \/ /\ call[d].pc = "waiting" /\ call'[d].pc = "watch"
                 /\ call'[d].at = call[d].at
<1> PICK k : k = call[c].conn
  OBVIOUS
<1>1. /\ free \subseteq Connections /\ waiters \in Seq(Calls) /\ call \in [Calls -> CallRecord]
  BY DEF RateTypes
<1>2. k \in Connections \ free
  BY DEF PoolIsSound
<1>3. Idle \in CallRecord /\ Idle.pc = "idle"
  BY RateLimitAssumption DEF Idle, CallRecord
<1>4. \A d \in Calls \ {c} : Calling(d) => call[d].conn # k
  BY DEF PoolIsSound
<1>5. call[c].pc # "waiting"
  BY DEF Calling
<1>a. CASE waiters = <<>>
  <2>1. /\ free' = free \cup {k} /\ call' = [call EXCEPT ![c] = Idle] /\ waiters' = waiters
    BY <1>a DEF release
  <2>2. /\ call' \in [Calls -> CallRecord] /\ call'[c] = Idle
        /\ \A d \in Calls \ {c} : call'[d] = call[d]
    BY <1>1, <1>3, <2>1
  <2>3. Len(waiters') = 0
    BY <1>a, <2>1
  <2>4. \A d \in Calls : Calling(d)' => d # c /\ Calling(d) /\ call'[d] = call[d]
    BY <1>3, <2>2 DEF Calling
  <2>5. PoolIsSound'
    BY <1>2, <1>4, <2>1, <2>3, <2>4 DEF PoolIsSound
  <2> QED BY <1>1, <1>2, <2>1, <2>2, <2>5
<1>b. CASE waiters # <<>>
  <2> PICK h : h = Head(waiters)
    OBVIOUS
  <2>1. /\ waiters' = Tail(waiters) /\ free' = free
        /\ call' = [call EXCEPT ![c] = Idle, ![h].pc = "watch", ![h].conn = k]
    BY <1>b DEF release
  <2>2. /\ Len(waiters) \in Nat \ {0} /\ h \in Calls /\ h = waiters[1]
        /\ Tail(waiters) \in Seq(Calls) /\ Len(Tail(waiters)) = Len(waiters) - 1
        /\ \A i \in 1 .. Len(waiters) - 1 : Tail(waiters)[i] = waiters[i + 1]
    BY <1>1, <1>b, HeadTailProperties, LenProperties, EmptySeq
  <2>3. \A i \in 1 .. Len(waiters) : waiters[i] \in Calls
    BY <1>1, ElementOfSeq
  <2>4. call[h].pc = "waiting" /\ h # c
    BY <1>5, <2>2 DEF PoolIsSound
  <2>5. call'[h] = [call[h] EXCEPT !.pc = "watch", !.conn = k]
    BY <1>1, <2>1, <2>2, <2>4
  <2>6. call'[c] = Idle /\ \A d \in Calls \ {c, h} : call'[d] = call[d]
    BY <1>1, <2>1, <2>2, <2>4
  <2>7. [call[h] EXCEPT !.pc = "watch", !.conn = k] \in CallRecord
    <3>1. call[h] \in CallRecord
      BY <1>1, <2>2
    <3> QED BY <1>2, <3>1 DEF CallRecord
  <2>8. call'[h].pc = "watch" /\ call'[h].conn = k /\ call'[h].at = call[h].at
    <3>1. call[h] \in CallRecord
      BY <1>1, <2>2
    <3> QED BY <2>5, <3>1 DEF CallRecord
  <2>9. call' \in [Calls -> CallRecord]
    <3>1. \A d \in Calls : call'[d] \in CallRecord
      BY <1>1, <1>3, <2>5, <2>6, <2>7
    <3>2. call' = [d \in Calls |-> call'[d]]
      BY <1>1, <2>1
    <3> QED BY <3>1, <3>2
  <2>10. \A i \in 1 .. Len(waiters) - 1 :
           /\ waiters'[i] = waiters[i + 1] /\ i + 1 \in 1 .. Len(waiters)
           /\ waiters[i + 1] # h
    BY <2>1, <2>2 DEF PoolIsSound
  <2>11. \A i, j \in 1 .. Len(waiters') : waiters'[i] = waiters'[j] => i = j
    <3> SUFFICES ASSUME NEW i \in 1 .. Len(waiters) - 1, NEW j \in 1 .. Len(waiters) - 1,
                        waiters'[i] = waiters'[j]
                 PROVE  i = j
      BY <2>1, <2>2
    <3>1. i + 1 = j + 1
      BY <2>10 DEF PoolIsSound
    <3> QED BY <2>2, <3>1
  <2>12. \A i \in 1 .. Len(waiters') : call'[waiters'[i]].pc = "waiting"
    <3> SUFFICES ASSUME NEW i \in 1 .. Len(waiters) - 1
                 PROVE  call'[waiters'[i]].pc = "waiting"
      BY <2>1, <2>2
    <3>1. call[waiters[i + 1]].pc = "waiting" /\ waiters[i + 1] \in Calls
      BY <2>3, <2>10 DEF PoolIsSound
    <3>2. waiters[i + 1] \notin {c, h}
      BY <1>5, <2>10, <3>1
    <3> QED BY <2>6, <2>10, <3>1, <3>2
  <2>13. \A d \in Calls : Calling(d)' =>
           d # c /\ (d = h \/ (Calling(d) /\ call'[d] = call[d]))
    BY <1>3, <2>6 DEF Calling
  <2>14. \A d \in Calls : Calling(d)' => call'[d].conn \in Connections \ free'
    BY <1>2, <2>1, <2>8, <2>13 DEF PoolIsSound
  <2>15. \A d, e \in Calls : Calling(d)' /\ Calling(e)' /\ call'[d].conn = call'[e].conn => d = e
    BY <1>4, <2>8, <2>13 DEF PoolIsSound
  <2>16. PoolIsSound'
    BY <2>11, <2>12, <2>14, <2>15 DEF PoolIsSound
  <2> QED BY <1>1, <2>1, <2>2, <2>4, <2>6, <2>8, <2>9, <2>16
<1> QED BY <1>a, <1>b

-----------------------------------------------------------------------------
(* The steps.                                                               *)

\* The invariant holds at first.
LEMMA RateInitial ==
  ASSUME RateInit PROVE RateInv
<1>1. RateTypes
  BY RateLimitAssumption DEF RateInit, RateTypes, Idle, CallRecord
<1>2. PoolIsSound
  BY DEF RateInit, PoolIsSound, Calling, Idle
<1>3. SeenIsCurrent /\ InTime /\ BeganBefore
  BY DEF RateInit, SeenIsCurrent, InTime, BeganBefore, Idle
<1>4. \A w : DayGrants(w) = {} /\ MonthGrants(w) = {}
  BY DEF RateInit, DayGrants, MonthGrants
<1>5. \A w : Cardinality(DayGrants(w)) = 0 /\ Cardinality(MonthGrants(w)) = 0
  BY <1>4, FS_EmptySet
<1>6. Windows
  BY <1>5, RateLimitAssumption DEF RateInit, Windows
<1> QED BY <1>1, <1>2, <1>3, <1>6 DEF RateInv, Counted, RateInit

\* Where neither the state nor the grants change, they still agree.
LEMMA NothingDecided ==
  ASSUME RateInv, UNCHANGED <<state, grants, written, shared, now>>
  PROVE  BeganBefore' /\ Counted'
<1>1. \A w : DayGrants(w)' = DayGrants(w) /\ MonthGrants(w)' = MonthGrants(w)
  BY DEF DayGrants, MonthGrants
<1>2. BeganBefore'
  BY DEF RateInv, BeganBefore, Latest
<1>3. Counted'
  BY <1>1 DEF RateInv, Counted, Counts, Windows
<1> QED BY <1>2, <1>3

\* A check within the process.
LEMMA CheckInProcessKeeps ==
  ASSUME RateInv, CheckInProcess PROVE RateInv'
<1>1. /\ RateTypes /\ PoolIsSound /\ SeenIsCurrent /\ InTime /\ BeganBefore
      /\ (state # None => Counts(state)) /\ Windows
  BY DEF RateInv, Counted
<1>2. /\ ~shared /\ UNCHANGED <<now, shared, written, watching, free, waiters, call>>
      /\ nextSweep' = (IF now < nextSweep THEN nextSweep ELSE now + SweepInterval)
  BY DEF CheckInProcess
<1>3. /\ now \in 0 .. MaxTime /\ now \in Nat /\ nextSweep \in Nat
      /\ grants \in Seq(Grant) /\ state \in RateState \cup {None}
  BY <1>1, RateLimitAssumption DEF RateTypes
<1>4. /\ Day \in Nat \ {0} /\ IdleTtl \in Nat /\ IdleTtl >= Day /\ SweepInterval \in Nat
  BY RateLimitAssumption
<1>5. nextSweep' \in Nat
  BY <1>2, <1>3, <1>4
<1> PICK x : x = IF Swept THEN None ELSE state
  OBVIOUS
<1>6. /\ x \in RateState \cup {None} /\ x \in {state, None}
      /\ x # None => Counts(x)
  BY <1>1, <1>3
<1>7. Decide(x, now)
  BY DEF CheckInProcess
<1>8. ASSUME x = None
      PROVE  \A i \in DOMAIN grants : grants[i].day + Day <= now /\ grants[i].month + 1 <= now
  <2>1. CASE state = None
    <3>1. grants = <<>>
      BY <1>1, <1>2, <2>1 DEF BeganBefore
    <3>2. DOMAIN grants = {}
      BY <3>1
    <3> QED BY <3>2
  <2>2. CASE state # None
    <3>1. now - state.last >= IdleTtl
      BY <1>8, <2>2 DEF Swept
    <3>2. state.dayStart <= state.last /\ state.monthStart <= state.last
      BY <1>1, <1>2, <2>2 DEF BeganBefore, Latest
    <3>3. state.last \in Nat /\ state.dayStart \in Nat /\ state.monthStart \in Nat
      BY <1>3, <2>2 DEF RateState
    <3>4. state.last + Day <= now
      BY ONLY <1>3, <1>4, <3>1, <3>3
    <3>5. \A i \in DOMAIN grants : grants[i].day \in Nat /\ grants[i].month \in Nat
      BY <1>3, GrantsTyped
    <3>6. \A i \in DOMAIN grants :
            /\ grants[i].day = state.dayStart \/ grants[i].day + Day <= state.dayStart
            /\ grants[i].month <= state.monthStart
      BY <1>1, <2>2 DEF Counts
    <3>7. ASSUME NEW i \in DOMAIN grants
          PROVE  grants[i].day + Day <= now /\ grants[i].month + 1 <= now
      <4>1. /\ grants[i].day \in Nat /\ grants[i].month \in Nat
            /\ grants[i].day = state.dayStart \/ grants[i].day + Day <= state.dayStart
            /\ grants[i].month <= state.monthStart
        BY <3>5, <3>6
      <4> QED BY ONLY <1>3, <1>4, <3>2, <3>3, <3>4, <4>1
    <3> QED BY <3>7
  <2> QED BY <2>1, <2>2
<1>9. /\ state' \in RateState /\ state'.last = now
      /\ grants' \in Seq(Grant)
      /\ Counts(state)' /\ Windows'
      /\ state'.dayStart \in {now} \cup (IF x = None THEN {} ELSE {x.dayStart})
      /\ state'.monthStart \in {now} \cup (IF x = None THEN {} ELSE {x.monthStart})
  <2> PICK at : at = now
    OBVIOUS
  <2> QED BY <1>1, <1>3, <1>6, <1>7, <1>8, Decision
<1>10. state' # None
  BY <1>9, NoneAssumption
<1>11. RateTypes'
  BY <1>1, <1>2, <1>5, <1>9 DEF RateTypes
<1>12. PoolIsSound' /\ InTime'
  BY <1>1, <1>2 DEF PoolIsSound, InTime, Calling
<1>13. SeenIsCurrent'
  BY <1>1, <1>2 DEF SeenIsCurrent, InTime
<1>14. BeganBefore'
  <2>1. x # None => x.dayStart <= now /\ x.monthStart <= now
    <3> SUFFICES ASSUME x # None
                 PROVE  x.dayStart <= now /\ x.monthStart <= now
      OBVIOUS
    <3>1. /\ x.dayStart <= state.last /\ x.monthStart <= state.last /\ state.last <= now
          /\ x \in RateState /\ x = state
      BY <1>1, <1>2, <1>6 DEF BeganBefore, Latest
    <3>2. x.dayStart \in Nat /\ x.monthStart \in Nat /\ x.last \in Nat
      BY <3>1 DEF RateState
    <3> QED BY <1>3, <3>1, <3>2
  <2>2. state'.dayStart <= now /\ state'.monthStart <= now
    BY <1>3, <1>9, <2>1
  <2> QED BY <1>2, <1>3, <1>9, <1>10, <2>2 DEF BeganBefore, Latest
<1> QED BY <1>9, <1>11, <1>12, <1>13, <1>14 DEF RateInv, Counted

\* A check begins, with a connection or among the waiters.
LEMMA CheckKeeps ==
  ASSUME RateInv, NEW c \in Calls, Check(c) PROVE RateInv'
<1>1. /\ RateTypes /\ PoolIsSound /\ SeenIsCurrent /\ InTime
  BY DEF RateInv
<1>2. /\ shared /\ call[c].pc = "idle"
      /\ UNCHANGED <<now, shared, state, written, nextSweep, watching, grants>>
  BY DEF Check
<1>3. BeganBefore' /\ Counted'
  BY <1>2, NothingDecided
<1>4. /\ free \subseteq Connections /\ waiters \in Seq(Calls) /\ call \in [Calls -> CallRecord]
      /\ now \in 0 .. MaxTime /\ now \in Nat /\ Slack \in Nat
  BY <1>1, RateLimitAssumption DEF RateTypes
<1>6. now <= now /\ now - now <= Slack
  BY <1>4
<1>5. Len(waiters) \in Nat /\ \A i \in 1 .. Len(waiters) : waiters[i] \in Calls \ {c}
  BY <1>1, <1>2, <1>4, ElementOfSeq, LenProperties DEF PoolIsSound
<1>a. ASSUME NEW k \in free, free' = free \ {k}, waiters' = waiters,
             call' = [call EXCEPT ![c] = [Idle EXCEPT !.pc = "watch", !.at = now, !.conn = k]]
      PROVE  RateInv'
  <2> PICK r : r = [Idle EXCEPT !.pc = "watch", !.at = now, !.conn = k]
    OBVIOUS
  <2>1. r.pc = "watch" /\ r.at = now /\ r.conn = k
    BY DEF Idle
  <2>2. r \in CallRecord
    <3>1. r = [pc |-> "watch", at |-> now, conn |-> k, seen |-> None, attempt |-> 0]
      BY DEF Idle
    <3>2. 0 \in 0 .. MaxRetries
      BY RateLimitAssumption
    <3> QED BY <1>4, <1>a, <3>1, <3>2 DEF CallRecord
  <2>3. call'[c] = r /\ \A d \in Calls \ {c} : call'[d] = call[d]
    BY <1>4, <1>a
  <2>4. call' \in [Calls -> CallRecord]
    BY <1>4, <1>a, <2>2
  <2>5. RateTypes'
    BY <1>1, <1>2, <1>4, <1>a, <2>4 DEF RateTypes
  <2>6. \A d \in Calls : Calling(d)' => d = c \/ (Calling(d) /\ call'[d] = call[d])
    BY <2>3 DEF Calling
  <2>7. \A d \in Calls \ {c} : Calling(d) => call[d].conn # k
    BY <1>1 DEF PoolIsSound
  <2>8. PoolIsSound'
    BY <1>1, <1>4, <1>5, <1>a, <2>1, <2>3, <2>6, <2>7 DEF PoolIsSound
  <2>9. SeenIsCurrent'
    BY <1>1, <1>2, <2>1, <2>3 DEF SeenIsCurrent
  <2>10. InTime'
    BY <1>1, <1>2, <1>6, <2>1, <2>3 DEF InTime
  <2> QED BY <1>3, <2>5, <2>8, <2>9, <2>10 DEF RateInv
<1>b. ASSUME waiters' = Append(waiters, c), free' = free,
             call' = [call EXCEPT ![c] = [Idle EXCEPT !.pc = "waiting", !.at = now]]
      PROVE  RateInv'
  <2> PICK r : r = [Idle EXCEPT !.pc = "waiting", !.at = now]
    OBVIOUS
  <2>1. r.pc = "waiting" /\ r.at = now
    BY DEF Idle
  <2>2. r \in CallRecord
    <3>1. r = [pc |-> "waiting", at |-> now, conn |-> None, seen |-> None, attempt |-> 0]
      BY DEF Idle
    <3>2. 0 \in 0 .. MaxRetries
      BY RateLimitAssumption
    <3> QED BY <1>4, <3>1, <3>2 DEF CallRecord
  <2>3. call'[c] = r /\ \A d \in Calls \ {c} : call'[d] = call[d]
    BY <1>4, <1>b
  <2>4. call' \in [Calls -> CallRecord]
    BY <1>4, <1>b, <2>2
  <2>5. /\ waiters' \in Seq(Calls) /\ Len(waiters') = Len(waiters) + 1
        /\ \A i \in 1 .. Len(waiters) : waiters'[i] = waiters[i]
        /\ waiters'[Len(waiters) + 1] = c
    BY <1>4, <1>b, AppendProperties
  <2>6. RateTypes'
    BY <1>1, <1>2, <1>4, <1>b, <2>4, <2>5 DEF RateTypes
  <2>7. \A d \in Calls : Calling(d)' => Calling(d) /\ call'[d] = call[d]
    BY <2>1, <2>3 DEF Calling
  <2>8. \A i \in 1 .. Len(waiters') : i \in 1 .. Len(waiters) \/ i = Len(waiters) + 1
    BY <1>5, <2>5
  <2>9. \A i \in 1 .. Len(waiters') : call'[waiters'[i]].pc = "waiting"
    <3> SUFFICES ASSUME NEW i \in 1 .. Len(waiters')
                 PROVE  call'[waiters'[i]].pc = "waiting"
      OBVIOUS
    <3>1. CASE i \in 1 .. Len(waiters)
      <4>1. waiters'[i] = waiters[i] /\ waiters[i] \in Calls \ {c}
        BY <1>5, <2>5, <3>1
      <4> QED BY <1>1, <2>3, <3>1, <4>1 DEF PoolIsSound
    <3>2. CASE i = Len(waiters) + 1
      BY <2>1, <2>3, <2>5, <3>2
    <3> QED BY <2>8, <3>1, <3>2
  <2>10. \A i, j \in 1 .. Len(waiters') : waiters'[i] = waiters'[j] => i = j
    <3> SUFFICES ASSUME NEW i \in 1 .. Len(waiters'), NEW j \in 1 .. Len(waiters'),
                        waiters'[i] = waiters'[j]
                 PROVE  i = j
      OBVIOUS
    <3>1. \A l \in 1 .. Len(waiters) : waiters'[l] = waiters[l] /\ waiters[l] # c
      BY <1>5, <2>5
    <3>2. CASE i \in 1 .. Len(waiters) /\ j \in 1 .. Len(waiters)
      BY <1>1, <3>1, <3>2 DEF PoolIsSound
    <3>3. CASE i = Len(waiters) + 1
      BY <2>5, <2>8, <3>1, <3>3
    <3>4. CASE j = Len(waiters) + 1
      BY <2>5, <2>8, <3>1, <3>4
    <3> QED BY <2>8, <3>2, <3>3, <3>4
  <2>11. PoolIsSound'
    BY <1>1, <1>b, <2>7, <2>9, <2>10 DEF PoolIsSound
  <2>12. SeenIsCurrent'
    BY <1>1, <1>2, <2>1, <2>3 DEF SeenIsCurrent
  <2>13. InTime'
    BY <1>1, <1>2, <1>6, <2>1, <2>3 DEF InTime
  <2> QED BY <1>3, <2>6, <2>11, <2>12, <2>13 DEF RateInv
<1> QED BY <1>a, <1>b DEF Check

\* A call goes on to its next request, over the connection it has.
LEMMA GoesOn ==
  ASSUME RateInv, NEW c \in Calls, NEW r \in CallRecord, Calling(c), Goes(c, r),
         r.pc \in {"watch", "get", "exec"}, r.conn = call[c].conn, r.at = call[c].at
  PROVE  /\ UNCHANGED <<now, shared, state, written, nextSweep, free, waiters, grants>>
         /\ call' \in [Calls -> CallRecord] /\ call'[c] = r
         /\ \A d \in Calls \ {c} : call'[d] = call[d]
         /\ PoolIsSound' /\ InTime' /\ BeganBefore' /\ Counted'
<1>1. /\ call \in [Calls -> CallRecord] /\ waiters \in Seq(Calls) /\ PoolIsSound /\ InTime
  BY DEF RateInv, RateTypes
<1>2. /\ UNCHANGED <<now, shared, state, written, nextSweep, free, waiters, grants>>
      /\ call' = [call EXCEPT ![c] = r]
  BY DEF Goes
<1>3. /\ call' \in [Calls -> CallRecord] /\ call'[c] = r
      /\ \A d \in Calls \ {c} : call'[d] = call[d]
  BY <1>1, <1>2
<1>4. BeganBefore' /\ Counted'
  BY <1>2, NothingDecided
<1>5. \A i \in 1 .. Len(waiters) : waiters[i] \in Calls \ {c}
  BY <1>1, ElementOfSeq DEF PoolIsSound, Calling
<1>6. \A d \in Calls : Calling(d)' => Calling(d) /\ call'[d].conn = call[d].conn
  BY <1>3 DEF Calling
<1>7. PoolIsSound'
  BY <1>1, <1>2, <1>3, <1>5, <1>6 DEF PoolIsSound
<1>8. call[c].pc # "idle"
  BY DEF Calling
<1>9. InTime'
  BY <1>1, <1>2, <1>3, <1>8 DEF InTime
<1> QED BY <1>2, <1>3, <1>4, <1>7, <1>9

\* The key is watched.
LEMMA WatchKeeps ==
  ASSUME RateInv, NEW c \in Calls, Watch(c) PROVE RateInv'
<1>1. RateTypes /\ PoolIsSound /\ SeenIsCurrent
  BY DEF RateInv
<1>2. call[c] \in CallRecord /\ call[c].pc = "watch" /\ Calling(c)
  BY <1>1 DEF RateTypes, Watch, Calling
<1> PICK r : r = [call[c] EXCEPT !.pc = "get"]
  OBVIOUS
<1> PICK k : k = call[c].conn
  OBVIOUS
<1>3. r \in CallRecord /\ r.pc = "get" /\ r.conn = call[c].conn /\ r.at = call[c].at
  BY <1>2 DEF CallRecord
<1>4. /\ UNCHANGED <<now, shared, state, written, nextSweep, free, waiters, grants>>
      /\ call' \in [Calls -> CallRecord] /\ call'[c] = r
      /\ \A d \in Calls \ {c} : call'[d] = call[d]
      /\ PoolIsSound' /\ InTime' /\ BeganBefore' /\ Counted'
  BY <1>2, <1>3, GoesOn DEF Watch
<1>5. /\ watching \in [Connections -> {"none", "clean", "dirty"}] /\ k \in Connections
      /\ watching' = [watching EXCEPT ![k] = IF @ = "dirty" THEN @ ELSE "clean"]
  BY <1>1, <1>2 DEF RateTypes, PoolIsSound, Watch
<1>6. /\ watching' \in [Connections -> {"none", "clean", "dirty"}]
      /\ \A m \in Connections \ {k} : watching'[m] = watching[m]
  BY <1>5
<1>7. \A d \in Calls : call'[d].pc = "exec" => d # c /\ call[d].pc = "exec" /\ call'[d] = call[d]
  BY <1>3, <1>4
<1>8. \A d \in Calls \ {c} : call[d].pc = "exec" => call[d].conn \in Connections \ {k}
  BY <1>1, <1>2 DEF PoolIsSound, Calling
<1>9. SeenIsCurrent'
  BY <1>1, <1>4, <1>6, <1>7, <1>8 DEF SeenIsCurrent
<1>10. RateTypes'
  BY <1>1, <1>4, <1>6 DEF RateTypes
<1> QED BY <1>4, <1>9, <1>10 DEF RateInv

\* The state is read.
LEMMA GetKeeps ==
  ASSUME RateInv, NEW c \in Calls, Get(c) PROVE RateInv'
<1>1. RateTypes /\ PoolIsSound /\ SeenIsCurrent
  BY DEF RateInv
<1>2. call[c] \in CallRecord /\ Calling(c) /\ state \in RateState \cup {None}
  BY <1>1 DEF RateTypes, Get, Calling
<1> PICK r : r = [call[c] EXCEPT !.pc = "exec", !.seen = state]
  OBVIOUS
<1>3. /\ r \in CallRecord /\ r.pc = "exec" /\ r.conn = call[c].conn /\ r.at = call[c].at
      /\ r.seen = state
  BY <1>2 DEF CallRecord
<1>4. /\ UNCHANGED <<now, shared, state, written, nextSweep, free, waiters, grants>>
      /\ call' \in [Calls -> CallRecord] /\ call'[c] = r
      /\ \A d \in Calls \ {c} : call'[d] = call[d]
      /\ PoolIsSound' /\ InTime' /\ BeganBefore' /\ Counted'
  BY <1>2, <1>3, GoesOn DEF Get
<1>5. watching' = watching
  BY DEF Get
<1>6. SeenIsCurrent'
  <2>1. ASSUME NEW d \in Calls, call'[d].pc = "exec", watching[call'[d].conn] = "clean"
        PROVE  call'[d].seen = state
    <3>1. CASE d = c
      BY <1>3, <1>4, <3>1
    <3>2. CASE d # c
      BY <1>1, <1>4, <2>1, <3>2 DEF SeenIsCurrent
    <3> QED BY <3>1, <3>2
  <2>2. state' = state
    BY <1>4
  <2> QED BY <1>5, <2>1, <2>2 DEF SeenIsCurrent
<1>7. RateTypes'
  BY <1>1, <1>4, <1>5 DEF RateTypes
<1> QED BY <1>4, <1>6, <1>7 DEF RateInv

\* A write of the key leaves no connection watching that has not heard of it.
LEMMA TouchedWatches ==
  ASSUME NEW w \in [Connections -> {"none", "clean", "dirty"}]
  PROVE  /\ Touched(w) \in [Connections -> {"none", "clean", "dirty"}]
         /\ \A k \in Connections : Touched(w)[k] # "clean"
  BY DEF Touched

\* The transaction commits.
LEMMA CommitKeeps ==
  ASSUME RateInv, NEW c \in Calls, call[c].pc = "exec", CanExec(call[c].conn),
         Decide(call[c].seen, call[c].at), written' = now,
         watching' = Touched([watching EXCEPT ![call[c].conn] = "none"]), release(c),
         UNCHANGED <<now, shared, nextSweep>>
  PROVE  RateInv'
<1>1. /\ RateTypes /\ PoolIsSound /\ SeenIsCurrent /\ InTime /\ BeganBefore
      /\ (state # None => Counts(state)) /\ Windows
  BY DEF RateInv, Counted
<1>2. Calling(c)
  BY DEF Calling
<1> PICK x : x = state
  OBVIOUS
<1> PICK at : at = call[c].at
  OBVIOUS
<1>3. x = call[c].seen
  BY <1>1 DEF SeenIsCurrent, CanExec
<1>4. /\ call[c] \in CallRecord /\ call \in [Calls -> CallRecord]
      /\ now \in 0 .. MaxTime /\ now \in Nat /\ written \in Nat
      /\ grants \in Seq(Grant) /\ state \in RateState \cup {None}
      /\ watching \in [Connections -> {"none", "clean", "dirty"}]
  BY <1>1, RateLimitAssumption DEF RateTypes
<1>5. at \in Nat /\ at <= now /\ now - at <= Slack /\ shared
  BY <1>1, <1>4 DEF CallRecord, InTime
<1>6. /\ Day \in Nat \ {0} /\ Slack \in Nat /\ KeyTtl \in Nat /\ KeyTtl >= Day + Slack
  BY RateLimitAssumption
<1>7. written <= now
  BY <1>1 DEF InTime
<1>8. \A i \in DOMAIN grants :
        /\ grants[i].day \in Nat /\ grants[i].month \in Nat
        /\ grants[i].day <= written /\ grants[i].month <= written
  BY <1>1, <1>4, <1>5, GrantsTyped DEF BeganBefore
<1>9. ASSUME x = None, NEW i \in DOMAIN grants
      PROVE  grants[i].day + Day <= at /\ grants[i].month + 1 <= at
  <2>1. grants # <<>>
    BY <1>9
  <2>2. written + KeyTtl <= now
    BY <1>1, <1>9, <2>1 DEF BeganBefore
  <2>3. /\ grants[i].day \in Nat /\ grants[i].month \in Nat
        /\ grants[i].day <= written /\ grants[i].month <= written
    BY <1>8
  <2> QED BY ONLY <1>4, <1>5, <1>6, <2>2, <2>3
<1>10. /\ state' \in RateState /\ state'.last = at
       /\ grants' \in Seq(Grant)
       /\ Counts(state)' /\ Windows'
       /\ state'.dayStart \in {at} \cup (IF x = None THEN {} ELSE {x.dayStart})
       /\ state'.monthStart \in {at} \cup (IF x = None THEN {} ELSE {x.monthStart})
       /\ \A i \in DOMAIN grants' :
            \/ i \in DOMAIN grants /\ grants'[i] = grants[i]
            \/ grants'[i].day = state'.dayStart /\ grants'[i].month = state'.monthStart
  BY <1>1, <1>3, <1>4, <1>5, <1>9, Decision
<1>11. state' # None
  BY <1>10, NoneAssumption
<1>12. state'.dayStart <= now /\ state'.monthStart <= now
  <2>1. ASSUME x # None PROVE x.dayStart <= now /\ x.monthStart <= now
    <3>1. x.dayStart <= written /\ x.monthStart <= written
      BY <1>1, <1>5, <2>1 DEF BeganBefore, Latest
    <3>2. x.dayStart \in Nat /\ x.monthStart \in Nat
      BY <1>4, <2>1 DEF RateState
    <3> QED BY ONLY <1>4, <1>7, <3>1, <3>2
  <2> QED BY <1>5, <1>10, <2>1
<1>13. ASSUME NEW i \in DOMAIN grants'
       PROVE  grants'[i].day <= now /\ grants'[i].month <= now
  <2>1. CASE i \in DOMAIN grants /\ grants'[i] = grants[i]
    <3>1. /\ grants[i].day \in Nat /\ grants[i].month \in Nat
          /\ grants[i].day <= written /\ grants[i].month <= written
      BY <1>8, <2>1
    <3>2. grants[i].day <= now /\ grants[i].month <= now
      BY ONLY <1>4, <1>7, <3>1
    <3> QED BY <2>1, <3>2
  <2>2. CASE grants'[i].day = state'.dayStart /\ grants'[i].month = state'.monthStart
    BY <1>12, <2>2
  <2> QED BY <1>10, <2>1, <2>2
<1>14. now <= now
  BY <1>4
<1>15. BeganBefore'
  BY <1>5, <1>11, <1>12, <1>13, <1>14 DEF BeganBefore, Latest
<1>16. /\ free' \subseteq Connections
       /\ waiters' \in Seq(Calls)
       /\ call' \in [Calls -> CallRecord]
       /\ PoolIsSound'
       /\ call'[c] = Idle
       /\ \A d \in Calls \ {c} :
            \/ call'[d] = call[d]
            \/ /\ call[d].pc = "waiting" /\ call'[d].pc = "watch"
               /\ call'[d].at = call[d].at
  BY <1>1, <1>2, Released
<1>17. /\ watching' \in [Connections -> {"none", "clean", "dirty"}]
       /\ \A k \in Connections : watching'[k] # "clean"
  <2>1. [watching EXCEPT ![call[c].conn] = "none"] \in [Connections -> {"none", "clean", "dirty"}]
    BY <1>4
  <2> QED BY <2>1, TouchedWatches
<1>18. SeenIsCurrent'
  BY <1>16, <1>17 DEF SeenIsCurrent, PoolIsSound, Calling
<1>19. InTime'
  BY <1>1, <1>14, <1>16 DEF InTime, Idle
<1>20. RateTypes'
  BY <1>1, <1>4, <1>10, <1>16, <1>17 DEF RateTypes
<1> QED BY <1>10, <1>11, <1>15, <1>16, <1>18, <1>19, <1>20 DEF RateInv, Counted

\* A call that gives its connection back and writes nothing.
LEMMA GivesBack ==
  ASSUME RateInv, NEW c \in Calls, Calling(c), release(c),
         \/ watching' = watching
         \/ watching' = [watching EXCEPT ![call[c].conn] = "none"],
         UNCHANGED <<now, shared, state, written, nextSweep, grants>>
  PROVE  RateInv'
<1>1. RateTypes /\ PoolIsSound /\ SeenIsCurrent /\ InTime
  BY DEF RateInv
<1>2. /\ free' \subseteq Connections
      /\ waiters' \in Seq(Calls)
      /\ call' \in [Calls -> CallRecord]
      /\ PoolIsSound'
      /\ call'[c] = Idle
      /\ \A d \in Calls \ {c} :
           \/ call'[d] = call[d]
           \/ /\ call[d].pc = "waiting" /\ call'[d].pc = "watch"
              /\ call'[d].at = call[d].at
  BY <1>1, Released
<1>3. BeganBefore' /\ Counted'
  BY NothingDecided
<1>4. /\ watching \in [Connections -> {"none", "clean", "dirty"}]
      /\ watching' \in [Connections -> {"none", "clean", "dirty"}]
      /\ \A k \in Connections : watching'[k] = "clean" => watching[k] = "clean"
  BY <1>1 DEF RateTypes
<1>5. \A d \in Calls : call'[d].pc = "exec" => call'[d] = call[d]
  BY <1>2 DEF Idle
<1>6. \A d \in Calls : call[d].pc = "exec" => call[d].conn \in Connections
  BY <1>1 DEF PoolIsSound, Calling
<1>7. SeenIsCurrent'
  BY <1>1, <1>4, <1>5, <1>6 DEF SeenIsCurrent
<1>8. InTime'
  BY <1>1, <1>2 DEF InTime, Idle
<1>9. RateTypes'
  BY <1>1, <1>2, <1>4 DEF RateTypes
<1> QED BY <1>2, <1>3, <1>7, <1>8, <1>9 DEF RateInv

\* Another call wrote first: the cycle once more, or an exception.
LEMMA RetryKeeps ==
  ASSUME RateInv, NEW c \in Calls, call[c].pc = "exec", call[c].attempt + 1 < MaxRetries,
         call' = [call EXCEPT ![c].pc = "watch", ![c].attempt = @ + 1],
         watching' = [watching EXCEPT ![call[c].conn] = "none"],
         UNCHANGED <<now, shared, state, written, nextSweep, free, waiters, grants, calls>>
  PROVE  RateInv'
<1>1. RateTypes /\ PoolIsSound /\ SeenIsCurrent /\ InTime
  BY DEF RateInv
<1>2. /\ call[c] \in CallRecord /\ call \in [Calls -> CallRecord] /\ Calling(c)
  BY <1>1 DEF RateTypes, Calling
<1> PICK n : n = call[c].attempt + 1
  OBVIOUS
<1>3. n \in 0 .. MaxRetries
  <2>1. call[c].attempt \in 0 .. MaxRetries
    BY <1>2 DEF CallRecord
  <2>2. MaxRetries \in Nat
    BY RateLimitAssumption
  <2> QED BY <2>1, <2>2
<1> PICK r : r = [call[c] EXCEPT !.pc = "watch", !.attempt = n]
  OBVIOUS
<1>4. r \in CallRecord /\ r.pc = "watch" /\ r.conn = call[c].conn /\ r.at = call[c].at
  BY <1>2, <1>3 DEF CallRecord
<1>5. call' = [call EXCEPT ![c] = r]
  BY <1>2
<1>6. Goes(c, r)
  BY <1>5 DEF Goes
<1>7. /\ call' \in [Calls -> CallRecord] /\ call'[c] = r
      /\ \A d \in Calls \ {c} : call'[d] = call[d]
      /\ PoolIsSound' /\ InTime' /\ BeganBefore' /\ Counted'
  BY <1>2, <1>4, <1>6, GoesOn
<1>8. /\ watching \in [Connections -> {"none", "clean", "dirty"}]
      /\ watching' \in [Connections -> {"none", "clean", "dirty"}]
      /\ \A k \in Connections : watching'[k] = "clean" => watching[k] = "clean"
  BY <1>1 DEF RateTypes
<1>9. \A d \in Calls : call[d].pc = "exec" => call[d].conn \in Connections
  BY <1>1 DEF PoolIsSound, Calling
<1>10. SeenIsCurrent'
  BY <1>1, <1>4, <1>7, <1>8, <1>9 DEF SeenIsCurrent
<1>11. RateTypes'
  BY <1>1, <1>7, <1>8 DEF RateTypes
<1> QED BY <1>7, <1>10, <1>11 DEF RateInv

\* Time passes, and the store may forget.
LEMMA TickKeeps ==
  ASSUME RateInv, Tick PROVE RateInv'
<1>1. /\ RateTypes /\ PoolIsSound /\ SeenIsCurrent /\ InTime /\ BeganBefore /\ Counted
  BY DEF RateInv
<1>2. /\ now < MaxTime /\ now' = now + 1
      /\ \A c \in Calls : call[c].pc # "idle" => now + 1 - call[c].at <= Slack
      /\ UNCHANGED <<shared, written, nextSweep, free, waiters, call, grants>>
  BY DEF Tick
<1>3. /\ now \in Nat /\ now' \in 0 .. MaxTime /\ written \in Nat /\ call \in [Calls -> CallRecord]
      /\ watching \in [Connections -> {"none", "clean", "dirty"}] /\ KeyTtl \in Nat
      /\ state \in RateState \cup {None}
  BY <1>1, <1>2, RateLimitAssumption DEF RateTypes
<1>4. \A c \in Calls : call[c].at \in Nat
  BY <1>3 DEF CallRecord
<1>5. PoolIsSound'
  BY <1>1, <1>2 DEF PoolIsSound, Calling
<1>6. InTime'
  BY <1>1, <1>2, <1>3, <1>4 DEF InTime
<1>7. \A w : DayGrants(w)' = DayGrants(w) /\ MonthGrants(w)' = MonthGrants(w)
  BY <1>2 DEF DayGrants, MonthGrants
<1>8. Windows'
  BY <1>1, <1>2, <1>7 DEF Windows, Counted
<1>a. CASE shared /\ state # None /\ now + 1 >= written + KeyTtl
  <2>1. state' = None /\ watching' = Touched(watching)
    BY <1>a DEF Tick
  <2>2. /\ watching' \in [Connections -> {"none", "clean", "dirty"}]
        /\ \A k \in Connections : watching'[k] # "clean"
    BY <1>3, <2>1, TouchedWatches
  <2>3. SeenIsCurrent'
    BY <1>5, <2>2 DEF SeenIsCurrent, PoolIsSound, Calling
  <2>4. written + KeyTtl <= now'
    BY <1>2, <1>3, <1>a
  <2>5. BeganBefore'
    BY <1>1, <1>2, <1>a, <2>1, <2>4 DEF BeganBefore
  <2>6. RateTypes'
    BY <1>1, <1>2, <1>3, <2>1, <2>2 DEF RateTypes
  <2> QED BY <1>5, <1>6, <1>8, <2>1, <2>3, <2>5, <2>6 DEF RateInv, Counted
<1>b. CASE ~(shared /\ state # None /\ now + 1 >= written + KeyTtl)
  <2>1. state' = state /\ watching' = watching
    BY <1>b DEF Tick
  <2>2. SeenIsCurrent'
    BY <1>1, <1>2, <2>1 DEF SeenIsCurrent
  <2>3. Counted'
    BY <1>1, <1>7, <1>8, <1>2, <2>1 DEF Counted, Counts
  <2>4. state # None => Latest \in Nat
    BY <1>3 DEF Latest, RateState
  <2>5. state # None => Latest <= now'
    BY <1>1, <1>2, <1>3, <2>4 DEF BeganBefore
  <2>6. state = None /\ grants # <<>> => written + KeyTtl <= now'
    BY <1>1, <1>2, <1>3 DEF BeganBefore
  <2>7. Latest' = Latest
    BY <1>2, <2>1 DEF Latest
  <2>8. BeganBefore'
    BY <1>1, <1>2, <2>1, <2>5, <2>6, <2>7 DEF BeganBefore
  <2>9. RateTypes'
    BY <1>1, <1>2, <1>3, <2>1 DEF RateTypes
  <2> QED BY <1>5, <1>6, <2>2, <2>3, <2>8, <2>9 DEF RateInv
<1> QED BY <1>a, <1>b

\* A transaction commits or does not.
LEMMA ExecKeeps ==
  ASSUME RateInv, NEW c \in Calls, Exec(c) PROVE RateInv'
<1>1. call[c].pc = "exec" /\ Calling(c) /\ UNCHANGED <<now, shared, nextSweep, calls>>
  BY DEF Exec, Calling
<1>2. CASE /\ CanExec(call[c].conn)
           /\ Decide(call[c].seen, call[c].at)
           /\ written' = now
           /\ watching' = Touched([watching EXCEPT ![call[c].conn] = "none"])
           /\ release(c)
  BY <1>1, <1>2, CommitKeeps
<1>3. CASE /\ watching' = [watching EXCEPT ![call[c].conn] = "none"]
           /\ release(c)
           /\ UNCHANGED <<state, written, grants>>
  BY <1>1, <1>3, GivesBack
<1>4. CASE /\ watching' = [watching EXCEPT ![call[c].conn] = "none"]
           /\ call[c].attempt + 1 < MaxRetries
           /\ call' = [call EXCEPT ![c].pc = "watch", ![c].attempt = @ + 1]
           /\ UNCHANGED <<free, waiters, state, written, grants>>
  BY <1>1, <1>4, RetryKeeps
<1> QED BY <1>2, <1>3, <1>4 DEF Exec

\* Every step keeps the invariant.
LEMMA RateStepKeeps ==
  ASSUME RateInv, [RateNext]_rateVars PROVE RateInv'
<1>1. CASE CheckInProcess
  BY <1>1, CheckInProcessKeeps
<1>2. CASE Tick
  BY <1>2, TickKeeps
<1>3. ASSUME NEW c \in Calls, Check(c) PROVE RateInv'
  BY <1>3, CheckKeeps
<1>4. ASSUME NEW c \in Calls, Step(c) PROVE RateInv'
  BY <1>4, WatchKeeps, GetKeeps, ExecKeeps DEF Step
<1>5. ASSUME NEW c \in Calls, Throw(c) PROVE RateInv'
  <2>1. Calling(c) /\ release(c) /\ watching' = watching
    BY <1>5 DEF Throw, Calling
  <2>2. UNCHANGED <<now, shared, state, written, nextSweep, grants>>
    BY <1>5 DEF Throw
  <2> QED BY <2>1, <2>2, GivesBack
<1>6. CASE UNCHANGED rateVars
  <2>1. BeganBefore' /\ Counted'
    BY <1>6, NothingDecided DEF rateVars
  <2>2. RateTypes' /\ PoolIsSound' /\ SeenIsCurrent' /\ InTime'
    BY <1>6 DEF rateVars, RateInv, RateTypes, PoolIsSound, SeenIsCurrent, InTime, Calling
  <2> QED BY <2>1, <2>2 DEF RateInv
<1> QED BY <1>1, <1>2, <1>3, <1>4, <1>5, <1>6 DEF RateNext

\* The counters, the connections and the clock stay consistent in every behaviour, whatever
\* calls interleave, time out of order, throw, or lose the race for the key.
THEOREM RateInvariant == RateSpec => []RateInv
<1>1. RateInit => RateInv
  BY RateInitial
<1>2. RateInv /\ [RateNext]_rateVars => RateInv'
  BY RateStepKeeps
<1> QED BY <1>1, <1>2, PTL DEF RateSpec

\* The budgets of a day and of a month hold, and days begin a day apart, for any number of
\* calls, connections, retries and windows.
THEOREM BudgetsHold == RateSpec => []WindowsHold
<1>1. RateInv => WindowsHold
  <2>1. \A w \in 0 .. MaxTime : w \in Nat
    BY RateLimitAssumption
  <2> QED BY <2>1 DEF RateInv, Counted, Windows, WindowsHold
<1> QED BY <1>1, RateInvariant, PTL

\* Every variable of the limiter stays in its type.
THEOREM RateTypesHold == RateSpec => []RateTypeOK
<1>1. RateInv => RateTypeOK
  BY DEF RateInv, RateTypes, RateTypeOK, CallRecord
<1> QED BY <1>1, RateInvariant, PTL
=============================================================================
