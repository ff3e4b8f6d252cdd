------------------------------ MODULE Sessions -----------------------------
(***************************************************************************)
(* The session and CSRF cookies of one browser.  Several requests are in   *)
(* flight at once, answered late or never; the cookies are refreshed by     *)
(* answers; the organization shortens its sessions; and the servers change *)
(* the secret they sign with, one server after the other.                   *)
(***************************************************************************)
EXTENDS Naturals, FiniteSets

CONSTANTS
  Requests,   \* requests in flight at the same time
  Servers,    \* replicas of the API
  TTL,        \* GLOBAL_SESSION_MAX_HOURS
  OrgMaxes,   \* what sessionMaxHours can be set to
  CacheTtl,   \* how long a server keeps an organization's sessionMaxHours
  GrantEnd,   \* when the guest's grant expires
  MaxTime,    \* bound: the clock
  MaxEvents,  \* bound: sign-ins, sign-outs, changes of settings and requests
  Kinds,      \* requests made: reads, comments, or what admins do
  Unset

ASSUME SessionsAssumption ==
  /\ TTL \in Nat \ {0} /\ CacheTtl \in Nat /\ GrantEnd \in Nat
  /\ OrgMaxes \subseteq 1 .. TTL
  /\ Kinds \subseteq {"read", "comment", "admin"}
  /\ MaxTime \in Nat /\ MaxEvents \in Nat
  /\ IsFiniteSet(Servers)
  /\ Unset \notin Nat

VARIABLES
  now,
  jar,       \* the two cookies, which are always set and cleared together
  orgMax,    \* sessionMaxHours of the organization, Unset for the global default
  replaced,  \* history: when each value of it was last replaced
  demoted,   \* history: when the user ceased to be an admin
  release,   \* of each server: 0 signs with the old secret, 1 with the new one and
             \* accepts both, 2 knows the new one only
  rolled,    \* when the last server was rolled to release 1
  cache,     \* of each server: the organization's maximum and until when it is good
  request,   \* what each request carries, where it is and its answer
  events

sessionsVars ==
  <<now, jar, orgMax, replaced, demoted, release, rolled, cache, request, events>>

Times == 0 .. (MaxTime + TTL)
Maxes == OrgMaxes \cup {Unset}

\* A token is its payload and the secret that signed it.
Token == [role : {"admin", "guest"}, iat : Times, exp : Times, key : {0, 1}]

NotMade ==
  [pc |-> "idle", kind |-> Unset, header |-> Unset, cookie |-> Unset, server |-> Unset,
   at |-> 0, code |-> Unset, fresh |-> Unset]

SessionsTypeOK ==
  /\ now \in 0 .. MaxTime
  /\ jar \in Token \cup {Unset}
  /\ orgMax \in Maxes
  /\ replaced \in [Maxes -> Times \cup {Unset}]
  /\ demoted \in Times \cup {Unset}
  /\ release \in [Servers -> 0 .. 2]
  /\ rolled \in Times \cup {Unset}
  /\ \A s \in Servers : cache[s].max \in Maxes /\ cache[s].until \in Times
  /\ \A r \in Requests :
       /\ request[r].pc \in {"idle", "composed", "sent", "policy", "answered"}
       /\ request[r].header \in (Token \X {0, 1}) \cup {Unset}
       /\ {request[r].cookie, request[r].fresh} \subseteq Token \cup {Unset}
       /\ request[r].code \in {"ok", "unauthenticated", "csrf", "guest_forbidden",
                               "forbidden", Unset}

-----------------------------------------------------------------------------
Least(a, b) == IF a <= b THEN a ELSE b

Hours(max) == IF max = Unset THEN TTL ELSE max

\* The organization can only tighten.
effectiveSessionExpiry(t, max) == Least(t.exp, t.iat + Hours(max))

signingKey(s) == IF release[s] = 0 THEN 0 ELSE 1

sessionSecrets(s) == CASE release[s] = 0 -> {0} [] release[s] = 1 -> {0, 1} [] release[s] = 2 -> {1}

\* decodeSession: a signature of one of the server's secrets, and the token's own end.
Decodes(t, s) == t # Unset /\ t.key \in sessionSecrets(s) /\ now < t.exp

\* Wrong: bound to the secret the server signs with.
csrfTokenCurrent(t, s) == <<t, signingKey(s)>>

\* The token of the header is bound to the session and to the secret that verified it.
csrfExpected(t, s) == <<t, t.key>>

Minted(role, at, exp, s) == [role |-> role, iat |-> at, exp |-> exp, key |-> signingKey(s)]

\* Wrong: guests too.
RefreshAnyone(t, max, at) == 2 * at >= t.iat + effectiveSessionExpiry(t, max)

\* maybeRefresh: past half its effective life when the request arrived, unless a guest's.
Refreshes(t, max, at) ==
  /\ t.role # "guest"
  /\ 2 * at >= t.iat + effectiveSessionExpiry(t, max)

\* Wrong: signed as it was.
RefreshedAsItWas(t, at, s) == [Minted(t.role, at, at + TTL, s) EXCEPT !.key = t.key]

\* From when the request arrived; the role is the token's, not the row's.
Refreshed(t, at, s) == Minted(t.role, at, at + TTL, s)

Event == events < MaxEvents /\ events' = events + 1

SameServers == UNCHANGED <<orgMax, replaced, demoted, release, rolled>>

Set(r, next) == request' = [request EXCEPT ![r] = next]

-----------------------------------------------------------------------------
\* The answer of /auth/callback, from some server.
SignIn(s) ==
  /\ Event
  /\ demoted = Unset
  /\ jar' = Minted("admin", now, now + TTL, s)
  /\ SameServers /\ UNCHANGED <<now, cache, request>>

\* /guest/redeem: who holds a session that can read the document keeps it.
Redeem(s, canRead) ==
  /\ Event
  /\ now < GrantEnd
  /\ jar' = IF Decodes(jar, s) /\ jar.role # "guest" /\ canRead THEN jar
            ELSE Minted("guest", now, Least(now + TTL, GrantEnd), s)
  /\ SameServers /\ UNCHANGED <<now, cache, request>>

\* /auth/logout clears both cookies; the tokens stay good.
SignOut ==
  /\ Event
  /\ jar # Unset
  /\ jar' = Unset
  /\ SameServers /\ UNCHANGED <<now, cache, request>>

\* The page reads the CSRF cookie, and only then does the browser add its cookies.
Compose(r, kind) ==
  /\ request[r].pc = "idle"
  /\ Event
  /\ jar # Unset
  /\ Set(r, [NotMade EXCEPT !.pc = "composed", !.kind = kind,
                         !.header = IF kind = "read" THEN Unset ELSE <<jar, jar.key>>])
  /\ SameServers /\ UNCHANGED <<now, jar, cache>>

Send(r, s) ==
  /\ request[r].pc = "composed"
  /\ Set(r, [request[r] EXCEPT !.pc = "sent", !.cookie = jar, !.server = s])
  /\ SameServers /\ UNCHANGED <<now, jar, cache, events>>

Refuse(q, code) == [q EXCEPT !.pc = "answered", !.code = code]

\* The hooks after the session guard, in their order: CSRF, the guests' routes, the
\* route's own guard.
Handled(q) ==
  CASE q.kind # "read" /\ q.header # csrfExpected(q.cookie, q.server) -> Refuse(q, "csrf")
    [] OTHER ->
         CASE q.kind = "admin" /\ q.cookie.role = "guest" -> Refuse(q, "guest_forbidden")
           [] OTHER -> Refuse(q, "ok")

\* requireSession once the maximum is known, with the time read before.  The fresh cookies
\* go with any answer.
Judged(q, max) ==
  LET t == q.cookie
  IN  IF q.at >= effectiveSessionExpiry(t, max)
      THEN Refuse(q, "unauthenticated")
      ELSE Handled([q EXCEPT !.fresh = IF Refreshes(t, max, q.at)
                                       THEN Refreshed(t, q.at, q.server) ELSE Unset])

\* CachedSessionMaxResolver: a good entry, or the organization's row in a call of its own.
Guard(r) ==
  LET q == request[r]
      s == q.server
      arrived == [q EXCEPT !.at = now]
  IN  /\ q.pc = "sent"
      /\ Set(r, IF ~Decodes(q.cookie, s) THEN Refuse(arrived, "unauthenticated")
                ELSE IF now < cache[s].until THEN Judged(arrived, cache[s].max)
                ELSE [arrived EXCEPT !.pc = "policy"])
      /\ SameServers /\ UNCHANGED <<now, jar, cache, events>>

ReadPolicy(r) ==
  LET q == request[r]
  IN  /\ q.pc = "policy"
      /\ cache' = [cache EXCEPT ![q.server] = [max |-> orgMax, until |-> q.at + CacheTtl]]
      /\ Set(r, Judged(q, orgMax))
      /\ SameServers /\ UNCHANGED <<now, jar, events>>

\* The browser takes the cookies of an answer whenever it comes.
Deliver(r) ==
  /\ request[r].pc = "answered"
  /\ jar' = IF request[r].fresh # Unset THEN request[r].fresh ELSE jar
  /\ Set(r, NotMade)
  /\ SameServers /\ UNCHANGED <<now, cache, events>>

Lose(r) ==
  /\ request[r].pc = "answered"
  /\ Set(r, NotMade)
  /\ SameServers /\ UNCHANGED <<now, jar, cache, events>>

-----------------------------------------------------------------------------
SetSessionMax(max) ==
  /\ max # orgMax
  /\ Event
  /\ orgMax' = max
  /\ replaced' = [replaced EXCEPT ![orgMax] = now]
  /\ UNCHANGED <<now, jar, demoted, release, rolled, cache, request>>

Demote ==
  /\ demoted = Unset
  /\ Event
  /\ demoted' = now
  /\ UNCHANGED <<now, jar, orgMax, replaced, release, rolled, cache, request>>

Empty == [max |-> Unset, until |-> 0]

\* A rotation: one server after the other gets the new secret and keeps the old one as
\* previous; a later deploy drops it, once sessions of the old one have ended.
Roll(s) ==
  /\ release[s] = 0
  /\ release' = [release EXCEPT ![s] = 1]
  /\ rolled' = now
  /\ cache' = [cache EXCEPT ![s] = Empty]
  /\ UNCHANGED <<now, jar, orgMax, replaced, demoted, request, events>>

DropPrevious(s) ==
  /\ release[s] = 1
  /\ \A z \in Servers : release[z] # 0
  /\ now >= rolled + TTL
  /\ release' = [release EXCEPT ![s] = 2]
  /\ cache' = [cache EXCEPT ![s] = Empty]
  /\ UNCHANGED <<now, jar, orgMax, replaced, demoted, rolled, request, events>>

Tick ==
  /\ now < MaxTime
  /\ now' = now + 1
  /\ SameServers /\ UNCHANGED <<jar, cache, request, events>>

-----------------------------------------------------------------------------
SessionsInit ==
  /\ now = 0
  /\ jar = Unset
  /\ orgMax = Unset
  /\ replaced = [m \in Maxes |-> Unset]
  /\ demoted = Unset
  /\ release = [s \in Servers |-> 0]
  /\ rolled = Unset
  /\ cache = [s \in Servers |-> Empty]
  /\ request = [r \in Requests |-> NotMade]
  /\ events = 0

SessionsNext ==
  \/ \E s \in Servers :
       \/ SignIn(s) \/ Roll(s) \/ DropPrevious(s)
       \/ \E canRead \in BOOLEAN : Redeem(s, canRead)
  \/ \E r \in Requests :
       \/ \E kind \in Kinds : Compose(r, kind)
       \/ \E s \in Servers : Send(r, s)
       \/ Guard(r) \/ ReadPolicy(r) \/ Deliver(r) \/ Lose(r)
  \/ \E max \in Maxes : SetSessionMax(max)
  \/ SignOut \/ Demote \/ Tick

SessionsSpec == SessionsInit /\ [][SessionsNext]_sessionsVars

-----------------------------------------------------------------------------
Answered(r, code) ==
  /\ request[r].pc # "answered" /\ request'[r].pc = "answered"
  /\ request'[r].code = code

\* Maxima in force now or less than the cache's time ago.
RecentMaxes(at) ==
  {m \in Maxes : m = orgMax \/ (replaced[m] # Unset /\ at < replaced[m] + CacheTtl)}

\* "An org can only tighten": no request is served later than a maximum that was in force
\* within the last half minute allows, nor a guest's after the grant, whatever was cached,
\* refreshed or answered late.
ServedInTime ==
  [][\A r \in Requests : Answered(r, "ok") =>
       LET q == request'[r]
       IN  /\ \E m \in RecentMaxes(q.at) : q.at < q.cookie.iat + Hours(m)
           /\ q.cookie.role = "guest" => q.at < GrantEnd]_sessionsVars

\* The browser's own mutations are refused for CSRF only when the cookies changed between
\* reading the token and sending: no refresh and no rotation of the secret splits the pair.
CsrfRefusalsAreRaces ==
  [][\A r \in Requests : Answered(r, "csrf") =>
       request'[r].cookie # request'[r].header[1]]_sessionsVars

\* "Old sessions keep working until they expire or are silently refreshed": a rotation
\* bounces nobody whose session no recent maximum has ended, except that a session of the
\* new secret meets a server not rolled yet.
RotationBouncesNobody ==
  [][\A r \in Requests : Answered(r, "unauthenticated") =>
       LET q == request'[r]
       IN  \/ q.cookie = Unset
           \/ \E m \in RecentMaxes(q.at) : q.at >= effectiveSessionExpiry(q.cookie, m)
           \/ q.cookie.key = 1 /\ release[q.server] = 0]_sessionsVars

\* A refusal of the browser's own request has a cause of these: cookies that changed
\* under it, a session that ended, or a new session at a server not rolled yet.
RefusalsAreExplained == CsrfRefusalsAreRaces /\ RotationBouncesNobody

\* Not so: every valid session is accepted by every server during a rotation.
NobodyBounced ==
  [][\A r \in Requests : Answered(r, "unauthenticated") =>
       LET q == request'[r]
       IN  \/ q.cookie = Unset
           \/ \E m \in RecentMaxes(q.at) : q.at >= effectiveSessionExpiry(q.cookie, m)]_sessionsVars

\* Not so: signing out lasts until somebody signs in.
SignedOutStaysOut ==
  [][jar = Unset /\ jar' # Unset => events' # events]_sessionsVars

\* Not so: "the ceiling bounds exposure", who ceased to be an admin is served as one no
\* longer than the ceiling.
DemotionTakesEffect ==
  [][\A r \in Requests : Answered(r, "ok") /\ request'[r].kind = "admin" =>
       demoted = Unset \/ request'[r].at < demoted + TTL]_sessionsVars

=============================================================================
