------------------------------- MODULE Tiers -------------------------------
(***************************************************************************)
(* What a tier allows: the ceilings of each profile, the clamps of what an  *)
(* organization configures, and the checks of its caps.  A limit, and a     *)
(* number somebody asks for, is a set of at most one number; {} is the      *)
(* code's null, no limit at all.                                            *)
(***************************************************************************)
EXTENDS Naturals

Tier == {"free", "team", "enterprise"}

Unlimited == {}

\* Each window of requests, each ceiling, and the retention of versions where an
\* organization configures none.
FreeProfile ==
  [maxActiveDocs |-> {100}, maxActiveDocsPerProject |-> {100},
   maxLiveVersionsPerDoc |-> {100}, maxCommentsPerDoc |-> {100}, maxCollaborators |-> {1},
   retentionMax |-> [keepLastN |-> {20}, keepDays |-> {90}],
   maxExternalGuests |-> {0}, maxGuestShareDays |-> {7},
   rateLimit |-> [minute |-> 60, day |-> 2500, month |-> 7500],
   defaultVersionRetention |-> [keepLastN |-> {20}, keepDays |-> {90}]]

TeamProfile ==
  [maxActiveDocs |-> {5000}, maxActiveDocsPerProject |-> {500},
   maxLiveVersionsPerDoc |-> {1000}, maxCommentsPerDoc |-> Unlimited,
   maxCollaborators |-> Unlimited,
   retentionMax |-> [keepLastN |-> {250}, keepDays |-> {365}],
   maxExternalGuests |-> {25}, maxGuestShareDays |-> {30},
   rateLimit |-> [minute |-> 600, day |-> 5000, month |-> 15000],
   defaultVersionRetention |-> [keepLastN |-> {50}, keepDays |-> {90}]]

EnterpriseProfile ==
  [maxActiveDocs |-> Unlimited, maxActiveDocsPerProject |-> Unlimited,
   maxLiveVersionsPerDoc |-> Unlimited, maxCommentsPerDoc |-> Unlimited,
   maxCollaborators |-> Unlimited,
   retentionMax |-> [keepLastN |-> {250}, keepDays |-> {365}],
   maxExternalGuests |-> Unlimited, maxGuestShareDays |-> Unlimited,
   rateLimit |-> [minute |-> 600, day |-> 5000, month |-> 15000],
   defaultVersionRetention |-> [keepLastN |-> {100}, keepDays |-> {180}]]

TIER_PROFILES == [free |-> FreeProfile, team |-> TeamProfile, enterprise |-> EnterpriseProfile]

\* The lower of two limits, and the other one where one is missing.
Stricter(asked, ceiling) ==
  {n \in asked \cup ceiling : \A m \in asked \cup ceiling : n <= m}

clampVersionRetention(config, tier) ==
  LET max == TIER_PROFILES[tier].retentionMax
  IN  [keepLastN |-> Stricter(config.keepLastN, max.keepLastN),
       keepDays  |-> Stricter(config.keepDays, max.keepDays)]

\* The rule the purge runs with: what is configured, if anything is.
effectiveVersionRetention(tier, configured) ==
  clampVersionRetention(
    IF configured # {} THEN CHOOSE config \in configured : TRUE
    ELSE TIER_PROFILES[tier].defaultVersionRetention,
    tier)

\* The settings take what the clamp would leave alone, and refuse the rest.
SettingsAccept(config, tier) == clampVersionRetention(config, tier) = config

clampGuestShareDays(days, tier) == Stricter({days}, TIER_PROFILES[tier].maxGuestShareDays)

\* One more, where there are so many?
Allowed(count, limit) == \A n \in limit : count < n

checkDocCreateAllowed(count, tier) == Allowed(count, TIER_PROFILES[tier].maxActiveDocs)
checkProjectDocCreateAllowed(count, tier) ==
  Allowed(count, TIER_PROFILES[tier].maxActiveDocsPerProject)
checkVersionAppendAllowed(count, tier) ==
  Allowed(count, TIER_PROFILES[tier].maxLiveVersionsPerDoc)
checkCommentAllowed(count, tier) == Allowed(count, TIER_PROFILES[tier].maxCommentsPerDoc)
checkGuestShareAllowed(count, tier) == Allowed(count, TIER_PROFILES[tier].maxExternalGuests)

\* A configuration an admin may ask for: some versions, and days or no limit on them.
VersionRetentionConfig ==
  [keepLastN : {{n} : n \in Nat \ {0}}, keepDays : {{n} : n \in Nat \ {0}} \cup {Unlimited}]

\* A limit that is at least as strict as another.
Within(limit, ceiling) == \A c \in ceiling : \E n \in limit : n <= c

-----------------------------------------------------------------------------
\* No window of requests is beyond reach of the one after it, and no profile's default is
\* looser than its own ceiling.
ASSUME ProfilesAreConsistent ==
  \A t \in Tier :
    LET p == TIER_PROFILES[t]
    IN  /\ p.rateLimit.minute < p.rateLimit.day /\ p.rateLimit.day < p.rateLimit.month
        /\ SettingsAccept(p.defaultVersionRetention, t)
        /\ Within(p.maxActiveDocsPerProject, p.maxActiveDocs)

\* A tier never allows less than the one below it, so that an upgrade refuses nothing that
\* was accepted before.
ASSUME TiersAreOrdered ==
  \A below \in {<<"free", "team">>, <<"team", "enterprise">>} :
    LET low == TIER_PROFILES[below[1]] high == TIER_PROFILES[below[2]]
    IN  /\ \A limit \in {"maxActiveDocs", "maxActiveDocsPerProject", "maxLiveVersionsPerDoc",
                         "maxCommentsPerDoc", "maxCollaborators", "maxExternalGuests",
                         "maxGuestShareDays"} : Within(low[limit], high[limit])
        /\ \A limit \in {"keepLastN", "keepDays"} :
             Within(low.retentionMax[limit], high.retentionMax[limit])
        /\ \A window \in {"minute", "day", "month"} :
             low.rateLimit[window] <= high.rateLimit[window]

=============================================================================
