----------------------------- MODULE ServeProofs ----------------------------
(***************************************************************************)
(* What holds of the local instance for any number of processes and of     *)
(* serve stop commands, checked by TLAPS.                                  *)
(*                                                                         *)
(* Who works has the claim on the record (or is mdloop open, which has     *)
(* none), and the record names it as long as nobody removed the record of  *)
(* a living process.  Where that happened, only the children are still     *)
(* accounted for: they are left by those who were killed, forced to exit,  *)
(* or gave up a start, and by nobody else.                                 *)
(***************************************************************************)
EXTENDS Serve, FiniteSetTheorems, TLAPS

\* The types of PidFileTypeOK and of the commands, by name.
Steps == {"out", "create", "fill", "read", "probe", "steal", "held", "refused", "remove"}

Owners == {{}} \cup {{p} : p \in Procs}

Claims == [at : Steps, attempts : 0 .. MaxAttempts, sees : Owners]

Records == [owner : Owners, full : BOOLEAN]

Launches == [at : {"none", "check", "poll", "kill", "remove", "failed", "ok"}, who : SUBSET Procs]

StopRuns == [at : {"none", "kill", "wait", "remove", "done"}, who : SUBSET Procs]

\* The types of ServeTypeOK, with the one child that listens named.
ServeTypes ==
  /\ file \in Records /\ claim \in [Procs -> Claims] /\ alive \subseteq Procs
  /\ running \in BOOLEAN /\ overreached \in BOOLEAN
  /\ opens \subseteq Procs /\ phase \in [Procs -> Phases]
  /\ interrupted \subseteq alive /\ forced \subseteq Procs /\ gaveUp \subseteq Procs
  /\ launcher \in [Procs -> Launches] /\ stop \in [Stops -> StopRuns]
  /\ database \subseteq alive /\ children \subseteq Procs /\ port \subseteq children
  /\ port = {} \/ \E p \in Procs : port = {p}
  /\ announced \in BOOLEAN

\* Between the lock and giving it up.
Serving == {"start", "boot", "wait", "mark", "fill", "up", "clean", "close"}

\* Steps of the loop in acquireInstanceRecord, and all of its steps.
Looping == {"create", "read", "probe", "steal"}
AcquireSteps == Looping \cup {"fill", "held", "refused"}

\* The claim on the record goes with the phase.
ClaimAgrees(p) ==
  /\ claim[p].at \in Looping => claim[p].attempts < MaxAttempts
  /\ phase[p] \in {"unborn", "check", "attached", "ended"} => claim[p].at = "out"
  /\ phase[p] = "acquire" => claim[p].at \in AcquireSteps
  /\ phase[p] \in Serving /\ p \notin opens => claim[p].at = "held"
  /\ phase[p] = "release" /\ p \notin opens => claim[p].at \in {"held", "remove", "out"}
  /\ p \in opens => claim[p].at = "out" /\ phase[p] \notin {"unborn", "acquire", "mark", "fill"}
  /\ phase[p] = "check" => p \in opens

\* What a process has open and running goes with the phase; so does its serve start.
ServeShape(p) ==
  /\ ClaimAgrees(p)
  /\ p \in alive <=> phase[p] # "ended"
  /\ p \in database => \/ phase[p] \in {"boot", "wait", "mark", "fill", "up", "clean", "close"}
                       \/ phase[p] = "release" /\ p \in gaveUp
  /\ p \in children /\ p \in alive =>
       \/ phase[p] \in {"wait", "mark", "fill", "up", "clean"}
       \/ phase[p] = "release" /\ p \in gaveUp
  /\ p \in children /\ p \notin alive => p \in forced \cup gaveUp
  /\ launcher[p].at = "check" => phase[p] = "unborn"
  /\ launcher[p].at \in {"poll", "kill"} => phase[p] # "unborn"

\* Nobody who has not begun is named.
NamedAreBorn ==
  /\ \A p \in file.owner : phase[p] # "unborn"
  /\ \A x \in Stops : \A p \in stop[x].who : phase[p] # "unborn"

\* Who holds the claim is named.
HoldersNamed ==
  \A p \in Procs : claim[p].at \in {"fill", "held", "remove"} => file.owner = {p}

\* The record names its holder, and says what is up.
RecordAgrees ==
  ~overreached =>
    /\ HoldersNamed
    /\ \A p \in Procs \ opens : phase[p] = "up" => file.full /\ running

ServeInv ==
  /\ ServeTypes
  /\ \A p \in Procs : ServeShape(p)
  /\ NamedAreBorn
  /\ RecordAgrees

-----------------------------------------------------------------------------
(* The claim on the record.                                                 *)

\* Steps of a claim keep the types and other claims.
LEMMA ClaimTyped ==
  ASSUME claim \in [Procs -> Claims], NEW p \in Procs, NEW step \in Steps, MoveTo(p, step)
  PROVE  /\ claim' \in [Procs -> Claims] /\ claim'[p].at = step
         /\ claim'[p].attempts = claim[p].attempts
         /\ \A q \in Procs \ {p} : claim'[q] = claim[q]
<1> PICK c \in Claims : c = claim[p]
  OBVIOUS
<1>1. /\ [c EXCEPT !.at = step] \in Claims /\ [c EXCEPT !.at = step].at = step
      /\ [c EXCEPT !.at = step].attempts = c.attempts
  BY DEF Claims
<1>2. claim' = [claim EXCEPT ![p] = [c EXCEPT !.at = step]]
  BY DEF MoveTo
<1> QED BY <1>1, <1>2

\* So does what a claim has read of the record.
LEMMA LookTyped ==
  ASSUME claim \in [Procs -> Claims], NEW p \in Procs, NEW step \in Steps, NEW who \in Owners,
         claim' = [claim EXCEPT ![p].at = step, ![p].sees = who]
  PROVE  /\ claim' \in [Procs -> Claims] /\ claim'[p].at = step
         /\ claim'[p].attempts = claim[p].attempts
         /\ \A q \in Procs \ {p} : claim'[q] = claim[q]
<1> PICK c \in Claims : c = claim[p]
  OBVIOUS
<1> DEFINE d == [c EXCEPT !.at = step, !.sees = who]
<1>1. d \in Claims /\ d.at = step /\ d.attempts = c.attempts
  BY DEF Claims
<1>2. claim' = [claim EXCEPT ![p] = d]
  OBVIOUS
<1> HIDE DEF d
<1> QED BY <1>1, <1>2

\* A claim that begins, begins at the first attempt; one that is dropped is none.
LEMMA ClaimBegins ==
  ASSUME claim \in [Procs -> Claims], NEW p \in Procs
  PROVE  /\ Acquire(p) => /\ claim' \in [Procs -> Claims]
                          /\ claim'[p].at = "create" /\ claim'[p].attempts < MaxAttempts
                          /\ \A q \in Procs \ {p} : claim'[q] = claim[q]
         /\ claim' = [claim EXCEPT ![p] = Unclaimed] =>
              /\ claim' \in [Procs -> Claims] /\ claim'[p].at = "out"
              /\ \A q \in Procs \ {p} : claim'[q] = claim[q]
<1>1. /\ [at |-> "create", attempts |-> 0, sees |-> {}] \in Claims /\ Unclaimed \in Claims
      /\ Unclaimed.at = "out" /\ 0 < MaxAttempts
  BY AttemptsAssumption DEF Claims, Steps, Owners, Unclaimed
<1> QED BY <1>1 DEF Acquire

\* The next round of the loop, or none.
LEMMA AgainTyped ==
  ASSUME claim \in [Procs -> Claims], NEW p \in Procs, claim[p].attempts < MaxAttempts, Again(p)
  PROVE  /\ claim' \in [Procs -> Claims] /\ claim'[p].at \in {"create", "refused"}
         /\ claim'[p].at = "create" => claim'[p].attempts < MaxAttempts
         /\ \A q \in Procs \ {p} : claim'[q] = claim[q]
<1> PICK n \in 0 .. MaxAttempts : n = claim[p].attempts
  BY DEF Claims
<1>1. n + 1 \in 0 .. MaxAttempts /\ (n + 1 # MaxAttempts => n + 1 < MaxAttempts)
  BY AttemptsAssumption
<1> PICK c : c = [at |-> IF n + 1 = MaxAttempts THEN "refused" ELSE "create",
                  attempts |-> n + 1, sees |-> {}]
  OBVIOUS
<1>2. /\ c \in Claims /\ c.at \in {"create", "refused"}
      /\ c.at = "create" => c.attempts < MaxAttempts
  BY <1>1 DEF Claims, Steps, Owners
<1>3. claim' = [claim EXCEPT ![p] = c]
  BY DEF Again
<1> QED BY <1>2, <1>3

\* A record that is created, filled or removed is one.
LEMMA RecordTyped ==
  ASSUME file \in Records, NEW p \in Procs
  PROVE  /\ NoFile \in Records /\ NoFile.owner = {}
         /\ [owner |-> {p}, full |-> FALSE] \in Records
         /\ [owner |-> {p}, full |-> FALSE].owner = {p}
         /\ [file EXCEPT !.full = TRUE] \in Records
         /\ [file EXCEPT !.full = TRUE].owner = file.owner
         /\ [file EXCEPT !.full = TRUE].full
<1>1. NoFile \in Records /\ NoFile.owner = {}
  BY DEF NoFile, Records, Owners
<1>2. /\ [owner |-> {p}, full |-> FALSE] \in Records
      /\ [owner |-> {p}, full |-> FALSE].owner = {p}
  BY DEF Records, Owners
<1>3. /\ [file EXCEPT !.full = TRUE] \in Records
      /\ [file EXCEPT !.full = TRUE].owner = file.owner
      /\ [file EXCEPT !.full = TRUE].full
  BY DEF Records
<1> QED BY <1>1, <1>2, <1>3

\* No step of a claim but rm removes a record.
RemovesOpenly(p) ==
  \/ overreached' = overreached /\ (file'.owner = {} => file.owner = {})
  \/ Remove({p})

\* Taking the claim: the types, the holders unless it is another's that is removed, and
\* the record of another, which stays.
LEMMA AcquiringKeeps ==
  ASSUME file \in Records, claim \in [Procs -> Claims], NEW p \in Procs, Acquiring(p),
         claim[p].at \in Looping => claim[p].attempts < MaxAttempts
  PROVE  /\ file' \in Records /\ claim' \in [Procs -> Claims] /\ alive' = alive
         /\ \A q \in Procs \ {p} : claim'[q] = claim[q]
         /\ claim'[p].at \in AcquireSteps
         /\ claim'[p].at \in Looping => claim'[p].attempts < MaxAttempts
         /\ file'.owner \subseteq file.owner \cup {p} /\ RemovesOpenly(p)
         /\ HoldersNamed =>
              \/ HoldersNamed'
              \/ file' = NoFile /\ \E q \in Procs \ {p} :
                   file.owner = {q} /\ claim[q].at \in {"fill", "held", "remove"}
         /\ HoldersNamed => \A q \in Procs \ {p} :
              file.owner = {q} => file' = file \/ file' = NoFile
<1>1. CASE Create(p) /\ file.owner = {}
  <2>1. /\ file' = [owner |-> {p}, full |-> FALSE] /\ MoveTo(p, "fill") /\ alive' = alive
        /\ overreached' = overreached
    BY <1>1 DEF Create
  <2>2. file' \in Records /\ file'.owner = {p}
    BY <2>1, RecordTyped
  <2>3. /\ claim' \in [Procs -> Claims] /\ claim'[p].at = "fill"
        /\ \A q \in Procs \ {p} : claim'[q] = claim[q]
    BY <2>1, ClaimTyped DEF Steps
  <2>4. HoldersNamed => HoldersNamed'
    BY <1>1, <2>2, <2>3 DEF HoldersNamed
  <2> QED BY <1>1, <2>1, <2>2, <2>3, <2>4 DEF RemovesOpenly, AcquireSteps, Looping
<1>2. CASE Create(p) /\ file.owner # {}
  <2>1. /\ file' = file /\ MoveTo(p, "read") /\ alive' = alive /\ claim[p].at = "create"
        /\ overreached' = overreached
    BY <1>2 DEF Create, At
  <2>2. /\ claim' \in [Procs -> Claims] /\ claim'[p].at = "read"
        /\ claim'[p].attempts = claim[p].attempts
        /\ \A q \in Procs \ {p} : claim'[q] = claim[q]
    BY <2>1, ClaimTyped DEF Steps
  <2>3. HoldersNamed => HoldersNamed'
    BY <2>1, <2>2 DEF HoldersNamed
  <2> QED BY <2>1, <2>2, <2>3 DEF RemovesOpenly, AcquireSteps, Looping
<1>3. CASE Fill(p)
  <2>1. /\ MoveTo(p, "held") /\ alive' = alive /\ claim[p].at = "fill"
        /\ overreached' = overreached
        /\ file' = file \/ (file.owner = {p} /\ file' = [file EXCEPT !.full = TRUE])
    BY <1>3 DEF Fill, At
  <2>2. file' \in Records /\ file'.owner = file.owner
    BY <2>1, RecordTyped
  <2>3. /\ claim' \in [Procs -> Claims] /\ claim'[p].at = "held"
        /\ \A q \in Procs \ {p} : claim'[q] = claim[q]
    BY <2>1, ClaimTyped DEF Steps
  <2>4. HoldersNamed => HoldersNamed'
    BY <2>1, <2>2, <2>3 DEF HoldersNamed
  <2>5. \A q \in Procs \ {p} : file.owner = {q} => file' = file
    BY <2>1
  <2> QED BY <2>1, <2>2, <2>3, <2>4, <2>5 DEF RemovesOpenly, AcquireSteps, Looping
<1>4. CASE ReadExisting(p) \/ Probe(p)
  <2>1. /\ claim[p].attempts < MaxAttempts /\ file' = file /\ alive' = alive
        /\ overreached' = overreached
        /\ \/ Again(p) \/ MoveTo(p, "refused")
           \/ \E step \in {"probe", "refused", "steal"}, who \in Owners :
                claim' = [claim EXCEPT ![p].at = step, ![p].sees = who]
    BY <1>4 DEF ReadExisting, Probe, Sees, At, Looping, Records, Owners
  <2>2. /\ claim' \in [Procs -> Claims]
        /\ claim'[p].at \in {"create", "refused", "probe", "steal"}
        /\ claim'[p].at \in {"create", "probe", "steal"} => claim'[p].attempts < MaxAttempts
        /\ \A q \in Procs \ {p} : claim'[q] = claim[q]
    <3>1. CASE Again(p)
      BY <2>1, <3>1, AgainTyped
    <3>2. CASE MoveTo(p, "refused")
      BY <2>1, <3>2, ClaimTyped DEF Steps
    <3>3. ASSUME NEW step \in {"probe", "refused", "steal"}, NEW who \in Owners,
                 claim' = [claim EXCEPT ![p].at = step, ![p].sees = who]
          PROVE  <2>2!1 /\ <2>2!2 /\ <2>2!3 /\ <2>2!4
      BY <2>1, <3>3, LookTyped DEF Steps
    <3> QED BY <2>1, <3>1, <3>2, <3>3
  <2>3. HoldersNamed => HoldersNamed'
    BY <2>1, <2>2 DEF HoldersNamed
  <2> QED BY <2>1, <2>2, <2>3 DEF RemovesOpenly, AcquireSteps, Looping
<1>5. CASE Steal(p)
  <2>1. /\ claim[p].attempts < MaxAttempts /\ file' = NoFile /\ alive' = alive /\ Again(p)
        /\ Remove({p})
    BY <1>5 DEF Steal, Remove, At, Looping
  <2>2. /\ claim' \in [Procs -> Claims] /\ claim'[p].at \in {"create", "refused"}
        /\ claim'[p].at = "create" => claim'[p].attempts < MaxAttempts
        /\ \A q \in Procs \ {p} : claim'[q] = claim[q]
    BY <2>1, AgainTyped
  <2>3. file' \in Records /\ file'.owner = {}
    BY <2>1, RecordTyped
  <2>4. ASSUME HoldersNamed, ~HoldersNamed'
        PROVE  \E q \in Procs \ {p} :
                 file.owner = {q} /\ claim[q].at \in {"fill", "held", "remove"}
    <3>1. PICK q \in Procs : claim'[q].at \in {"fill", "held", "remove"}
      BY <2>4 DEF HoldersNamed
    <3>2. q # p /\ claim'[q] = claim[q]
      BY <2>2, <3>1
    <3> QED BY <2>4, <3>1, <3>2 DEF HoldersNamed
  <2> QED BY <2>1, <2>2, <2>3, <2>4 DEF RemovesOpenly, AcquireSteps, Looping
<1> QED BY <1>1, <1>2, <1>3, <1>4, <1>5 DEF Acquiring

\* Giving it up.
LEMMA ReleasingKeeps ==
  ASSUME file \in Records, claim \in [Procs -> Claims], NEW p \in Procs,
         CheckOwner(p) \/ RemoveOwn(p)
  PROVE  /\ file' \in Records /\ claim' \in [Procs -> Claims] /\ alive' = alive
         /\ \A q \in Procs \ {p} : claim'[q] = claim[q]
         /\ claim'[p].at \in {"remove", "out"}
         /\ file'.owner \subseteq file.owner /\ RemovesOpenly(p)
         /\ HoldersNamed => HoldersNamed'
         /\ HoldersNamed => \A q \in Procs \ {p} : file.owner = {q} => file' = file
<1>1. CASE CheckOwner(p)
  <2>1. PICK step \in {"remove", "out"} : MoveTo(p, step)
    BY <1>1 DEF CheckOwner
  <2>2. claim[p].at = "held" /\ file' = file /\ alive' = alive /\ overreached' = overreached
    BY <1>1 DEF CheckOwner, At
  <2>3. /\ claim' \in [Procs -> Claims] /\ claim'[p].at = step
        /\ \A q \in Procs \ {p} : claim'[q] = claim[q]
    BY <2>1, ClaimTyped DEF Steps
  <2>4. HoldersNamed => HoldersNamed'
    BY <2>2, <2>3 DEF HoldersNamed
  <2> QED BY <2>2, <2>3, <2>4 DEF RemovesOpenly
<1>2. CASE RemoveOwn(p)
  <2>1. /\ claim[p].at = "remove" /\ file' = NoFile /\ alive' = alive /\ MoveTo(p, "out")
        /\ Remove({p})
    BY <1>2 DEF RemoveOwn, Remove, At
  <2>2. /\ claim' \in [Procs -> Claims] /\ claim'[p].at = "out"
        /\ \A q \in Procs \ {p} : claim'[q] = claim[q]
    BY <2>1, ClaimTyped DEF Steps
  <2>3. file' \in Records /\ file'.owner = {}
    BY <2>1, RecordTyped
  <2>4. HoldersNamed => file.owner = {p}
    BY <2>1 DEF HoldersNamed
  <2>5. HoldersNamed => HoldersNamed'
    BY <2>2, <2>4 DEF HoldersNamed
  <2> QED BY <2>1, <2>2, <2>3, <2>4, <2>5 DEF RemovesOpenly
<1> QED BY <1>1, <1>2

-----------------------------------------------------------------------------
(* Steps of one process.                                                    *)

\* What the invariant says of a process.
LEMMA TheProcess ==
  ASSUME ServeInv, NEW p \in Procs
  PROVE  ServeTypes /\ ServeShape(p) /\ ClaimAgrees(p) /\ NamedAreBorn /\ RecordAgrees
  BY DEF ServeInv, ServeShape

\* What remains to be shown of a step is about the process that takes it.
LEMMA OneMoves ==
  ASSUME ServeInv, NEW p \in Procs, ServeTypes', ServeShape(p)', NamedAreBorn', RecordAgrees',
         \A q \in Procs \ {p} :
           /\ claim'[q] = claim[q] /\ phase'[q] = phase[q]
           /\ launcher'[q].at = "check" => launcher[q].at = "check"
           /\ launcher'[q].at \in {"poll", "kill"} => launcher[q].at \in {"poll", "kill"}
           /\ q \in opens <=> q \in opens'
           /\ q \in alive <=> q \in alive'
           /\ q \in database' => q \in database
           /\ q \in children' => q \in children
           /\ q \in forced => q \in forced'
           /\ q \in gaveUp => q \in gaveUp'
  PROVE  ServeInv'
<1>1. ASSUME NEW q \in Procs \ {p} PROVE ServeShape(q)'
  BY DEF ServeInv, ServeShape, ClaimAgrees
<1>2. \A q \in Procs : ServeShape(q)'
  BY <1>1
<1> QED BY <1>2 DEF ServeInv

\* Nobody moves but the commands, which have nobody new to stop.
CommandsGoOn ==
  /\ launcher' \in [Procs -> Launches] /\ stop' \in [Stops -> StopRuns]
  /\ \A q \in Procs :
       /\ launcher'[q].at = "check" => launcher[q].at = "check"
       /\ launcher'[q].at \in {"poll", "kill"} => launcher[q].at \in {"poll", "kill"}
  /\ \A x \in Stops : stop'[x].who \subseteq stop[x].who

\* A command goes on to another step.
LEMMA CommandsTyped ==
  ASSUME ServeTypes
  PROVE  /\ UNCHANGED commandVars => CommandsGoOn
         /\ \A p \in Procs, next \in {"kill", "remove", "failed", "ok"}, who \in SUBSET Procs :
              /\ LauncherGoto(p, next, who) /\ UNCHANGED stop
              /\ next = "kill" => launcher[p].at = "poll"
              => CommandsGoOn
         /\ \A x \in Stops, next \in {"wait", "remove", "done"}, who \in SUBSET Procs :
              StopGoto(x, next, who) /\ who \subseteq stop[x].who /\ UNCHANGED launcher
              => CommandsGoOn
<1>1. launcher \in [Procs -> Launches] /\ stop \in [Stops -> StopRuns]
  BY DEF ServeTypes
<1>2. UNCHANGED commandVars => CommandsGoOn
  BY <1>1 DEF commandVars, CommandsGoOn
<1>3. ASSUME NEW p \in Procs, NEW next \in {"kill", "remove", "failed", "ok"},
             NEW who \in SUBSET Procs, LauncherGoto(p, next, who), UNCHANGED stop,
             next = "kill" => launcher[p].at = "poll"
      PROVE  CommandsGoOn
  <2>1. /\ [at |-> next, who |-> who] \in Launches /\ [at |-> next, who |-> who].at = next
    BY DEF Launches
  <2>2. /\ launcher' \in [Procs -> Launches] /\ launcher'[p].at = next
        /\ \A q \in Procs \ {p} : launcher'[q] = launcher[q]
    BY <1>1, <1>3, <2>1 DEF LauncherGoto
  <2> QED BY <1>1, <1>3, <2>2 DEF CommandsGoOn
<1>4. ASSUME NEW x \in Stops, NEW next \in {"wait", "remove", "done"},
             NEW who \in SUBSET Procs, StopGoto(x, next, who), who \subseteq stop[x].who,
             UNCHANGED launcher
      PROVE  CommandsGoOn
  <2>1. [at |-> next, who |-> who] \in StopRuns /\ [at |-> next, who |-> who].who = who
    BY DEF StopRuns
  <2>2. /\ stop' \in [Stops -> StopRuns] /\ stop'[x].who = who
        /\ \A y \in Stops \ {x} : stop'[y] = stop[y]
    BY <1>1, <1>4, <2>1 DEF StopGoto
  <2> QED BY <1>1, <1>4, <2>2 DEF CommandsGoOn
<1> QED BY <1>2, <1>3, <1>4

\* A record that nobody touches agrees, if nobody comes up or takes the claim.
LEMMA AgreesStill ==
  ASSUME RecordAgrees, UNCHANGED <<file, running, overreached>>,
         \A q \in Procs : claim'[q] = claim[q] \/ claim'[q].at \notin {"fill", "held", "remove"},
         \A q \in Procs \ opens' : phase'[q] = "up" => q \notin opens /\ phase[q] = "up"
  PROVE  RecordAgrees'
  BY DEF RecordAgrees, HoldersNamed

\* A process goes on to another phase.
LEMMA PhaseMoves ==
  ASSUME ServeInv, NEW p \in Procs, p \in alive, NEW next \in Phases \ {"unborn"},
         phase[p] # "unborn", Enter(p, next),
         UNCHANGED <<recordVars, opens, interrupted, forced, commandVars>>,
         gaveUp \subseteq gaveUp', gaveUp' \subseteq Procs,
         database' \subseteq alive, children' \subseteq Procs, port' \subseteq children',
         port' = {} \/ port' = port, announced' \in BOOLEAN,
         \A q \in Procs \ {p} : /\ q \in database' => q \in database
                                /\ q \in children' => q \in children,
         next = "up" => p \in opens,
         ServeShape(p)'
  PROVE  ServeInv'
<1>1. ServeTypes /\ NamedAreBorn /\ RecordAgrees
  BY TheProcess
<1>2. /\ phase' \in [Procs -> Phases] /\ phase'[p] = next
      /\ \A q \in Procs \ {p} : phase'[q] = phase[q]
  BY <1>1 DEF Enter, ServeTypes
<1>3. UNCHANGED <<file, claim, alive, running, overreached, launcher, stop>>
  BY DEF recordVars, pidFileVars, commandVars
<1>4. ServeTypes'
  BY <1>1, <1>2, <1>3 DEF ServeTypes
<1>5. NamedAreBorn'
  BY <1>1, <1>2, <1>3 DEF NamedAreBorn, ServeTypes, Records, Owners, StopRuns
<1>6. RecordAgrees'
  <2>1. \A q \in Procs \ opens' : phase'[q] = "up" => q \notin opens /\ phase[q] = "up"
    BY <1>2
  <2> QED BY <1>1, <1>3, <2>1, AgreesStill
<1> QED BY <1>2, <1>3, <1>4, <1>5, <1>6, OneMoves

-----------------------------------------------------------------------------
(* Ends and signals.                                                        *)

\* A process ends, and its children do not, for which there must be a reason.
LEMMA GoneKeeps ==
  ASSUME ServeInv, NEW p \in Procs, p \in alive, phase[p] # "unborn", Gone(p),
         CommandsGoOn,
         UNCHANGED <<opens, gaveUp>>, announced' \in BOOLEAN,
         forced \subseteq forced', forced' \subseteq Procs,
         children' \subseteq children, port' \subseteq children',
         port' = {} \/ port' = port,
         p \in children' => p \in forced' \cup gaveUp
  PROVE  ServeInv'
<1>1. ServeTypes /\ ServeShape(p) /\ NamedAreBorn /\ RecordAgrees
  BY TheProcess
<1>2. /\ UNCHANGED <<file, running, overreached>> /\ alive' = alive \ {p}
      /\ interrupted' = interrupted \ {p} /\ database' = database \ {p}
      /\ claim' = [claim EXCEPT ![p] = Unclaimed] /\ Enter(p, "ended")
  BY DEF Gone, Die
<1>3. /\ claim' \in [Procs -> Claims] /\ claim'[p].at = "out"
      /\ \A q \in Procs \ {p} : claim'[q] = claim[q]
  BY <1>1, <1>2, ClaimBegins DEF ServeTypes
<1>4. /\ phase' \in [Procs -> Phases] /\ phase'[p] = "ended"
      /\ \A q \in Procs \ {p} : phase'[q] = phase[q]
  BY <1>1, <1>2 DEF Enter, ServeTypes, Phases
<1>5. ServeTypes'
  BY <1>1, <1>2, <1>3, <1>4 DEF ServeTypes, CommandsGoOn
<1>6. NamedAreBorn'
  BY <1>1, <1>2, <1>4 DEF NamedAreBorn, CommandsGoOn, ServeTypes, Records, Owners, StopRuns
<1>7. RecordAgrees'
  <2>1. \A q \in Procs \ opens' : phase'[q] = "up" => q \notin opens /\ phase[q] = "up"
    BY <1>4
  <2> QED BY <1>1, <1>2, <1>3, <2>1, AgreesStill
<1>8. ServeShape(p)'
  <2>1. launcher'[p].at # "check"
    BY <1>1 DEF CommandsGoOn, ServeShape
  <2>2. ClaimAgrees(p)'
    BY <1>3, <1>4 DEF ClaimAgrees, Serving, Looping
  <2>3. p \notin alive' /\ p \notin database'
    BY <1>2
  <2> QED BY <1>4, <2>1, <2>2, <2>3 DEF ServeShape
<1> QED BY <1>2, <1>3, <1>4, <1>5, <1>6, <1>7, <1>8, OneMoves DEF CommandsGoOn

\* A step that leaves every process where it is.
LEMMA NobodyMoves ==
  ASSUME ServeInv, CommandsGoOn, UNCHANGED <<recordVars, opens, gaveUp, phase, forced, database>>,
         interrupted' \subseteq alive, announced' \in BOOLEAN,
         children' \subseteq children, port' \subseteq children',
         port' = {} \/ \E q \in Procs : port' = {q}
  PROVE  ServeInv'
<1>1. ServeTypes /\ NamedAreBorn /\ RecordAgrees
  BY DEF ServeInv
<1>2. UNCHANGED <<file, claim, alive, running, overreached>>
  BY DEF recordVars, pidFileVars
<1>3. ServeTypes'
  BY <1>1, <1>2 DEF ServeTypes, CommandsGoOn
<1>4. NamedAreBorn'
  BY <1>1, <1>2 DEF NamedAreBorn, CommandsGoOn
<1>5. RecordAgrees'
  BY <1>1, <1>2, AgreesStill
<1>6. ASSUME NEW q \in Procs PROVE ServeShape(q)'
  BY <1>2 DEF ServeInv, ServeShape, ClaimAgrees, CommandsGoOn
<1> QED BY <1>3, <1>4, <1>5, <1>6 DEF ServeInv

\* A signal is noted or ends the process.
LEMMA SignalKeeps ==
  ASSUME ServeInv, NEW p \in Procs, p \in alive, phase[p] # "unborn", Signal(p), CommandsGoOn,
         UNCHANGED <<opens, gaveUp>>, announced' = announced,
         children' \subseteq children, port' \subseteq children',
         port' = {} \/ port' = port
  PROVE  ServeInv'
<1>1. ServeTypes
  BY DEF ServeInv
<1>2. CASE Gone(p) /\ forced' = forced \cup {p}
  BY <1>1, <1>2, GoneKeeps DEF ServeTypes
<1>3. CASE /\ interrupted' = interrupted \cup {p}
           /\ UNCHANGED <<recordVars, phase, database, forced>>
  BY <1>1, <1>3, NobodyMoves DEF ServeTypes
<1> QED BY <1>2, <1>3 DEF Signal

\* One who is sent a signal if it lives.
LEMMA KillKeeps ==
  ASSUME ServeInv, NEW who \in SUBSET Procs, Kill(who), CommandsGoOn,
         \A p \in who : phase[p] # "unborn",
         UNCHANGED <<opens, gaveUp, children, port, announced>>
  PROVE  ServeInv'
<1>1. ServeTypes
  BY DEF ServeInv
<1>2. CASE who \subseteq alive
  <2> PICK p \in who : Signal(p)
    BY <1>2 DEF Kill
  <2> QED BY <1>1, <1>2, SignalKeeps DEF ServeTypes
<1>3. CASE ~(who \subseteq alive)
  <2>1. UNCHANGED <<recordVars, phase, interrupted, database, forced>>
    BY <1>3 DEF Kill
  <2> QED BY <1>1, <2>1, NobodyMoves DEF ServeTypes
<1> QED BY <1>2, <1>3

-----------------------------------------------------------------------------
(* The commands.                                                            *)

\* The record is removed without a look.
LEMMA RemoveKeeps ==
  ASSUME ServeInv, RemoveRecord, CommandsGoOn,
         UNCHANGED <<opens, gaveUp, phase, interrupted, forced, instanceVars>>
  PROVE  ServeInv'
<1>1. ServeTypes /\ NamedAreBorn /\ RecordAgrees
  BY DEF ServeInv
<1>2. /\ file' = NoFile /\ claim' = claim /\ alive' = alive
      /\ running' = (running /\ file' = file)
      /\ overreached' = (overreached \/ \E q \in alive : file.owner = {q})
      /\ UNCHANGED <<database, children, port, announced>>
  BY DEF RemoveRecord, Remove, Track, instanceVars
<1>3. NoFile \in Records /\ NoFile.owner = {}
  BY DEF NoFile, Records, Owners
<1>4. running' \in BOOLEAN /\ overreached' \in BOOLEAN
  BY <1>2
<1>5. ServeTypes'
  BY <1>1, <1>2, <1>3, <1>4 DEF ServeTypes, CommandsGoOn
<1>6. NamedAreBorn'
  BY <1>1, <1>2, <1>3 DEF NamedAreBorn, CommandsGoOn
<1>7. ASSUME NEW q \in Procs PROVE ServeShape(q)'
  BY <1>2 DEF ServeInv, ServeShape, ClaimAgrees, CommandsGoOn
<1>8. RecordAgrees'
  <2> SUFFICES ASSUME ~overreached' PROVE RecordAgrees'
    BY DEF RecordAgrees
  <2>1. ~overreached /\ \A q \in alive : file.owner # {q}
    BY <1>2
  <2>2. ASSUME NEW q \in Procs, claim[q].at \in {"fill", "held", "remove"} PROVE FALSE
    <3>1. file.owner = {q}
      BY <1>1, <2>1, <2>2 DEF RecordAgrees, HoldersNamed
    <3>2. q \in alive
      BY <2>2, TheProcess DEF ServeShape, ClaimAgrees
    <3> QED BY <2>1, <3>1, <3>2
  <2>3. ASSUME NEW q \in Procs \ opens, phase[q] = "up" PROVE FALSE
    <3>1. claim[q].at = "held"
      BY <2>3, TheProcess DEF ClaimAgrees, Serving, Looping
    <3> QED BY <2>2, <3>1
  <2> QED BY <1>2, <2>2, <2>3 DEF RecordAgrees, HoldersNamed
<1> QED BY <1>5, <1>6, <1>7, <1>8 DEF ServeInv

\* A supervisor begins, by serve start or in the foreground.
LEMMA BeginKeeps ==
  ASSUME ServeInv, NEW p \in Procs, phase[p] = "unborn", Enter(p, "acquire"), Acquire(p),
         launcher' = launcher \/ LauncherGoto(p, "poll", {}),
         launcher[p].at = "check" => LauncherGoto(p, "poll", {}),
         UNCHANGED <<file, alive, running, overreached, opens, gaveUp, interrupted, forced,
                     instanceVars, stop>>
  PROVE  ServeInv'
<1>1. ServeTypes /\ ServeShape(p) /\ ClaimAgrees(p) /\ NamedAreBorn /\ RecordAgrees
  BY TheProcess
<1>2. /\ claim' \in [Procs -> Claims]
      /\ claim'[p].at = "create" /\ claim'[p].attempts < MaxAttempts
      /\ \A q \in Procs \ {p} : claim'[q] = claim[q]
  BY <1>1, ClaimBegins DEF ServeTypes
<1>3. /\ phase' \in [Procs -> Phases] /\ phase'[p] = "acquire"
      /\ \A q \in Procs \ {p} : phase'[q] = phase[q]
  BY <1>1 DEF Enter, ServeTypes, Phases
<1>4. /\ launcher' \in [Procs -> Launches]
      /\ launcher'[p].at # "check"
      /\ \A q \in Procs \ {p} : launcher'[q] = launcher[q]
  <2>1. CASE launcher' = launcher /\ launcher[p].at # "check"
    BY <1>1, <2>1 DEF ServeTypes
  <2>2. CASE LauncherGoto(p, "poll", {})
    <3>1. [at |-> "poll", who |-> {}] \in Launches /\ [at |-> "poll", who |-> {}].at = "poll"
      BY DEF Launches
    <3> QED BY <1>1, <2>2, <3>1 DEF LauncherGoto, ServeTypes
  <2> QED BY <2>1, <2>2
<1>5. UNCHANGED <<database, children, port, announced>>
  BY DEF instanceVars
<1>6. ServeTypes'
  BY <1>1, <1>2, <1>3, <1>4, <1>5 DEF ServeTypes
<1>7. NamedAreBorn'
  BY <1>1, <1>3 DEF NamedAreBorn, ServeTypes, Records, Owners, StopRuns
<1>8. RecordAgrees'
  <2>1. \A q \in Procs \ opens' : phase'[q] = "up" => q \notin opens /\ phase[q] = "up"
    BY <1>3
  <2> QED BY <1>1, <1>2, <2>1, AgreesStill
<1>9. ServeShape(p)'
  <2>1. ClaimAgrees(p)'
    BY <1>1, <1>2, <1>3 DEF ClaimAgrees, Serving, Looping, AcquireSteps
  <2> QED BY <1>1, <1>3, <1>4, <1>5, <2>1 DEF ServeShape
<1> QED BY <1>2, <1>3, <1>4, <1>5, <1>6, <1>7, <1>8, <1>9, OneMoves

\* serve start, up to the supervisor and after it.
LEMMA StartKeeps ==
  ASSUME ServeInv, NEW p \in Procs, UNCHANGED <<opens, gaveUp>>,
         StartCommand(p) \/ StartForeground(p) \/ Launch(p)
  PROVE  ServeInv'
<1>1. /\ ServeTypes /\ ServeShape(p) /\ NamedAreBorn /\ RecordAgrees
      /\ launcher \in [Procs -> Launches] /\ file \in Records
      /\ interrupted \subseteq alive /\ announced \in BOOLEAN /\ port \subseteq children
      /\ port = {} \/ \E q \in Procs : port = {q}
  BY TheProcess DEF ServeTypes
<1>2. CASE StartCommand(p)
  <2>1. /\ phase[p] = "unborn" /\ LauncherGoto(p, "check", {}) /\ UNCHANGED stop
        /\ UNCHANGED <<recordVars, opens, gaveUp, phase, interrupted, forced, instanceVars>>
    BY <1>2 DEF StartCommand
  <2>2. [at |-> "check", who |-> {}] \in Launches /\ [at |-> "check", who |-> {}].at = "check"
    BY DEF Launches
  <2>3. /\ launcher' \in [Procs -> Launches] /\ launcher'[p].at = "check"
        /\ \A q \in Procs \ {p} : launcher'[q] = launcher[q]
    BY <1>1, <2>1, <2>2 DEF LauncherGoto
  <2>4. UNCHANGED <<file, claim, alive, running, overreached, database, children, port, announced>>
    BY <2>1 DEF recordVars, pidFileVars, instanceVars
  <2>5. ServeTypes'
    BY <1>1, <2>1, <2>3, <2>4 DEF ServeTypes
  <2>6. NamedAreBorn'
    BY <1>1, <2>1, <2>4 DEF NamedAreBorn
  <2>7. RecordAgrees'
    BY <1>1, <2>1, <2>4, AgreesStill
  <2>8. ServeShape(p)'
    BY <1>1, <2>1, <2>3, <2>4 DEF ServeShape, ClaimAgrees
  <2> QED BY <2>1, <2>3, <2>4, <2>5, <2>6, <2>7, <2>8, OneMoves
<1>3. CASE StartForeground(p)
  <2>1. /\ phase[p] = "unborn" /\ Enter(p, "acquire") /\ Acquire(p)
        /\ launcher' = launcher /\ launcher[p].at = "none"
        /\ UNCHANGED <<file, alive, running, overreached, opens, gaveUp, interrupted, forced,
                       instanceVars, stop>>
    BY <1>3 DEF StartForeground, commandVars
  <2> QED BY <2>1, BeginKeeps
<1>4. CASE LauncherCheck(p)
  <2>1. /\ UNCHANGED <<file, alive, running, overreached, opens, gaveUp, interrupted, forced,
                       instanceVars, stop>>
        /\ launcher[p].at = "check" /\ phase[p] = "unborn"
    BY <1>1, <1>4 DEF LauncherCheck, ServeShape
  <2>2. CASE LauncherGoto(p, "poll", {}) /\ Enter(p, "acquire") /\ Acquire(p)
    BY <2>1, <2>2, BeginKeeps
  <2>3. ASSUME NEW next \in {"failed", "ok"}, NEW who \in SUBSET Procs,
               LauncherGoto(p, next, who), UNCHANGED <<phase, claim>>
        PROVE  ServeInv'
    <3>1. CommandsGoOn
      BY <1>1, <2>1, <2>3, CommandsTyped
    <3> QED BY <1>1, <2>1, <2>3, <3>1, NobodyMoves DEF recordVars, pidFileVars, instanceVars
  <2>4. {} \in SUBSET Procs /\ file.owner \in SUBSET Procs
    BY <1>1 DEF Records, Owners
  <2> QED BY <1>4, <2>2, <2>3, <2>4 DEF LauncherCheck
<1>5. CASE LauncherPoll(p)
  <2>1. /\ UNCHANGED <<recordVars, opens, gaveUp, phase, interrupted, forced, instanceVars, stop>>
        /\ launcher[p].at = "poll"
    BY <1>5 DEF LauncherPoll
  <2>2. {} \in SUBSET Procs /\ file.owner \in SUBSET Procs /\ {p} \in SUBSET Procs
    BY <1>1 DEF Records, Owners
  <2>3. \E next \in {"kill", "remove", "failed", "ok"}, who \in SUBSET Procs :
          LauncherGoto(p, next, who)
    BY <1>5, <2>2 DEF LauncherPoll
  <2>4. CommandsGoOn
    BY <1>1, <2>1, <2>3, CommandsTyped
  <2> QED BY <1>1, <2>1, <2>4, NobodyMoves DEF instanceVars
<1>6. CASE LauncherKill(p)
  <2>1. /\ launcher[p].at = "kill" /\ Kill({p}) /\ LauncherGoto(p, "remove", {})
        /\ UNCHANGED <<opens, gaveUp, children, port, announced, stop>>
    BY <1>6 DEF LauncherKill
  <2>2. CommandsGoOn
    BY <1>1, <2>1, CommandsTyped
  <2>3. \A q \in {p} : phase[q] # "unborn"
    BY <1>1, <2>1 DEF ServeShape
  <2> QED BY <2>1, <2>2, <2>3, KillKeeps
<1>7. CASE LauncherRemove(p)
  <2>1. /\ RemoveRecord /\ LauncherGoto(p, "failed", {})
        /\ UNCHANGED <<opens, gaveUp, phase, interrupted, forced, instanceVars, stop>>
    BY <1>7 DEF LauncherRemove
  <2>2. CommandsGoOn
    BY <1>1, <2>1, CommandsTyped
  <2> QED BY <2>1, <2>2, RemoveKeeps
<1> QED BY <1>2, <1>3, <1>4, <1>5, <1>6, <1>7 DEF Launch

\* serve stop.
LEMMA StopKeeps ==
  ASSUME ServeInv, NEW x \in Stops, UNCHANGED <<opens, gaveUp>>, Stop(x) PROVE ServeInv'
<1>1. /\ ServeTypes /\ NamedAreBorn /\ RecordAgrees
      /\ stop \in [Stops -> StopRuns] /\ stop[x].who \in SUBSET Procs /\ file \in Records
      /\ \A p \in stop[x].who : phase[p] # "unborn"
      /\ interrupted \subseteq alive /\ announced \in BOOLEAN /\ port \subseteq children
      /\ port = {} \/ \E q \in Procs : port = {q}
  BY DEF ServeInv, ServeTypes, StopRuns, NamedAreBorn
<1>2. CASE StopRead(x)
  <2>1. UNCHANGED <<recordVars, opens, gaveUp, phase, interrupted, forced, instanceVars, launcher>>
    BY <1>2 DEF StopRead
  <2>2. UNCHANGED <<file, claim, alive, running, overreached, database, children, port, announced>>
    BY <2>1 DEF recordVars, pidFileVars, instanceVars
  <2>3. PICK next \in {"kill", "done"}, who \in {{}, file.owner} : StopGoto(x, next, who)
    BY <1>2 DEF StopRead
  <2>4. [at |-> next, who |-> who] \in StopRuns /\ [at |-> next, who |-> who].who = who
    BY <1>1 DEF StopRuns, Records, Owners
  <2>5. /\ stop' \in [Stops -> StopRuns] /\ stop'[x].who = who
        /\ \A y \in Stops \ {x} : stop'[y] = stop[y]
    BY <1>1, <2>3, <2>4 DEF StopGoto
  <2>6. NamedAreBorn'
    BY <1>1, <2>1, <2>2, <2>5 DEF NamedAreBorn
  <2>7. ServeTypes'
    BY <1>1, <2>1, <2>2, <2>5 DEF ServeTypes
  <2>8. RecordAgrees'
    BY <1>1, <2>1, <2>2, AgreesStill
  <2>9. \A q \in Procs : ServeShape(q)'
    BY <2>1, <2>2 DEF ServeInv, ServeShape, ClaimAgrees
  <2> QED BY <2>6, <2>7, <2>8, <2>9 DEF ServeInv
<1>3. CASE StopKill(x)
  <2>1. /\ Kill(stop[x].who) /\ StopGoto(x, "wait", stop[x].who)
        /\ UNCHANGED <<opens, gaveUp, children, port, announced, launcher>>
    BY <1>3 DEF StopKill
  <2>2. CommandsGoOn
    BY <1>1, <2>1, CommandsTyped
  <2> QED BY <1>1, <2>1, <2>2, KillKeeps
<1>4. CASE StopWait(x)
  <2>1. StopGoto(x, "remove", {}) /\ UNCHANGED <<opens, gaveUp, announced, launcher>>
    BY <1>4 DEF StopWait
  <2>2. CommandsGoOn
    BY <1>1, <2>1, CommandsTyped
  <2>3. CASE stop[x].who \subseteq alive
    <3>1. PICK p \in stop[x].who : /\ Gone(p) /\ forced' = forced \cup {p}
                                   /\ children' = children \ {p} /\ port' = port \ {p}
      BY <1>4, <2>3 DEF StopWait
    <3>2. /\ p \in Procs /\ p \in alive /\ phase[p] # "unborn"
          /\ forced' \subseteq Procs
      BY <1>1, <2>3, <3>1 DEF ServeTypes
    <3>3. port' \subseteq children' /\ (port' = {} \/ port' = port)
      BY <1>1, <3>1
    <3> QED BY <1>1, <2>1, <2>2, <3>1, <3>2, <3>3, GoneKeeps
  <2>4. CASE ~(stop[x].who \subseteq alive)
    <3>1. UNCHANGED <<recordVars, phase, interrupted, forced, database, children, port>>
      BY <1>4, <2>4 DEF StopWait
    <3> QED BY <1>1, <2>1, <2>2, <3>1, NobodyMoves
  <2> QED BY <2>3, <2>4
<1>5. CASE StopRemove(x)
  <2>1. /\ RemoveRecord /\ StopGoto(x, "done", {})
        /\ UNCHANGED <<opens, gaveUp, phase, interrupted, forced, instanceVars, launcher>>
    BY <1>5 DEF StopRemove
  <2>2. CommandsGoOn
    BY <1>1, <2>1, CommandsTyped
  <2> QED BY <2>1, <2>2, RemoveKeeps
<1> QED BY <1>2, <1>3, <1>4, <1>5 DEF Stop

-----------------------------------------------------------------------------
(* mdloop open.                                                             *)

\* An open begins, looks, is told to leave.
LEMMA OpenKeeps ==
  ASSUME ServeInv, NEW p \in Procs,
         UNCHANGED gaveUp,
         Open(p) \/ (UNCHANGED <<opens, gaveUp>> /\ (OpenCheck(p) \/ Interrupt(p) \/ Detach(p)))
  PROVE  ServeInv'
<1>1. /\ ServeTypes /\ ServeShape(p) /\ ClaimAgrees(p) /\ NamedAreBorn /\ RecordAgrees
      /\ database \subseteq alive /\ children \subseteq Procs /\ port \subseteq children
      /\ announced \in BOOLEAN /\ forced \subseteq Procs /\ gaveUp \subseteq Procs
  BY TheProcess DEF ServeTypes
<1>2. CASE Open(p)
  <2>1. /\ phase[p] = "unborn" /\ launcher[p].at = "none" /\ opens' = opens \cup {p}
        /\ Enter(p, "check")
        /\ UNCHANGED <<recordVars, interrupted, forced, instanceVars, commandVars>>
    BY <1>2 DEF Open
  <2>2. UNCHANGED <<file, claim, alive, running, overreached, database, children, port,
                    announced, launcher, stop>>
    BY <2>1 DEF recordVars, pidFileVars, instanceVars, commandVars
  <2>3. /\ phase' \in [Procs -> Phases] /\ phase'[p] = "check"
        /\ \A q \in Procs \ {p} : phase'[q] = phase[q]
    BY <1>1, <2>1 DEF Enter, ServeTypes, Phases
  <2>4. ServeTypes'
    BY <1>1, <2>1, <2>2, <2>3 DEF ServeTypes
  <2>5. NamedAreBorn'
    BY <1>1, <2>2, <2>3 DEF NamedAreBorn, ServeTypes, Records, Owners, StopRuns
  <2>6. RecordAgrees'
    <3>1. \A q \in Procs \ opens' : phase'[q] = "up" => q \notin opens /\ phase[q] = "up"
      BY <2>1, <2>3
    <3> QED BY <1>1, <2>2, <3>1, AgreesStill
  <2>7. ServeShape(p)'
    <3>1. ClaimAgrees(p)'
      BY <1>1, <2>1, <2>2, <2>3 DEF ClaimAgrees, Serving, Looping
    <3> QED BY <1>1, <2>1, <2>2, <2>3, <3>1 DEF ServeShape
  <2> QED BY <2>1, <2>2, <2>3, <2>4, <2>5, <2>6, <2>7, OneMoves
<1>3. CASE UNCHANGED <<opens, gaveUp>> /\ OpenCheck(p)
  <2>1. /\ p \in alive /\ phase[p] = "check"
        /\ UNCHANGED <<opens, gaveUp, forced, children, port, announced, commandVars>>
    BY <1>3 DEF OpenCheck, Doing
  <2>2. CASE Gone(p)
    <3>1. p \notin children
      BY <1>1, <2>1 DEF ServeShape
    <3>2. CommandsGoOn
      BY <1>1, <2>1, CommandsTyped
    <3> QED BY <1>1, <2>1, <2>2, <3>1, <3>2, GoneKeeps
  <2>3. CASE ~Gone(p)
    <3>1. PICK next \in {"attached", "start"} : Enter(p, next)
      BY <1>3, <2>3 DEF OpenCheck
    <3>2. UNCHANGED <<recordVars, interrupted, database>>
      BY <1>3, <2>3 DEF OpenCheck
    <3>3. UNCHANGED <<claim, alive, launcher>>
      BY <2>1, <3>2 DEF recordVars, pidFileVars, commandVars
    <3>4. phase'[p] = next
      BY <1>1, <3>1 DEF Enter, ServeTypes
    <3>5. ClaimAgrees(p)'
      BY <1>1, <2>1, <3>1, <3>3, <3>4 DEF ClaimAgrees, Serving, Looping
    <3>6. ServeShape(p)'
      BY <1>1, <2>1, <3>1, <3>2, <3>3, <3>4, <3>5 DEF ServeShape
    <3>7. next \in Phases \ {"unborn"} /\ next # "up"
      BY DEF Phases
    <3> QED BY <1>1, <2>1, <3>1, <3>2, <3>6, <3>7, PhaseMoves
  <2> QED BY <2>2, <2>3
<1>4. CASE UNCHANGED <<opens, gaveUp>> /\ Interrupt(p)
  <2>1. /\ p \in alive /\ phase[p] # "unborn" /\ Signal(p)
        /\ UNCHANGED <<opens, gaveUp, announced, commandVars>>
    BY <1>4 DEF Interrupt
  <2>2. \/ UNCHANGED <<children, port>>
        \/ children' = children \ {p} /\ port' = port \ {p}
    BY <1>4 DEF Interrupt
  <2>3. children' \subseteq children /\ port' \subseteq children'
    BY <1>1, <2>2
  <2>4. port' = {} \/ port' = port
    BY <1>1, <2>2 DEF ServeTypes
  <2>5. CommandsGoOn
    BY <1>1, <2>1, CommandsTyped
  <2> QED BY <2>1, <2>3, <2>4, <2>5, SignalKeeps
<1>5. CASE UNCHANGED <<opens, gaveUp>> /\ Detach(p)
  <2>1. /\ p \in alive /\ phase[p] = "attached" /\ Gone(p)
        /\ UNCHANGED <<opens, gaveUp, forced, children, port, announced, commandVars>>
    BY <1>5 DEF Detach, Doing
  <2>2. p \notin children
    BY <1>1, <2>1 DEF ServeShape
  <2>3. CommandsGoOn
    BY <1>1, <2>1, CommandsTyped
  <2> QED BY <1>1, <2>1, <2>2, <2>3, GoneKeeps
<1> QED BY <1>2, <1>3, <1>4, <1>5

-----------------------------------------------------------------------------
(* The supervisor, and an open's own instance.                              *)

\* Steps that take a process from one phase to the next.
LEMMA WorkKeeps ==
  ASSUME ServeInv, NEW p \in Procs, UNCHANGED <<opens, gaveUp>>,
         \/ Acquired(p) \/ OpenDatabase(p) \/ SpawnChildren(p) \/ StartFails(p) \/ Ready(p)
         \/ NotReady(p) \/ Interrupted(p) \/ StopChildren(p) \/ CloseDatabase(p)
  PROVE  ServeInv'
<1>1. /\ ServeTypes /\ ServeShape(p) /\ ClaimAgrees(p)
      /\ database \subseteq alive /\ children \subseteq Procs /\ port \subseteq children
      /\ announced \in BOOLEAN /\ gaveUp \subseteq Procs
  BY TheProcess DEF ServeTypes
<1>2. UNCHANGED <<recordVars, interrupted, forced, commandVars>>
  BY DEF Acquired, OpenDatabase, SpawnChildren, StartFails, Ready, NotReady, Interrupted,
     StopChildren, CloseDatabase, Same
<1>3. UNCHANGED <<claim, alive, launcher, stop>>
  BY <1>2 DEF recordVars, pidFileVars, commandVars
<1>4. ASSUME NEW next \in Phases \ {"unborn", "ended"}, Enter(p, next), p \in alive,
             phase[p] # "unborn", next = "up" => p \in opens,
             database' \subseteq alive, children' \subseteq Procs, port' \subseteq children',
             port' = {} \/ port' = port, announced' \in BOOLEAN,
             \A q \in Procs \ {p} : /\ q \in database' => q \in database
                                    /\ q \in children' => q \in children,
             p \in database' => next \in {"boot", "wait", "mark", "fill", "up", "clean", "close"},
             p \in children' => next \in {"wait", "mark", "fill", "up", "clean"},
             next = "acquire" => phase[p] = "acquire",
             next \in Serving /\ p \notin opens => claim[p].at = "held",
             next = "release" /\ p \notin opens => claim[p].at = "held",
             next \in {"attached", "check"} => phase[p] = next,
             p \in opens => next \notin {"acquire", "mark", "fill"}
      PROVE  ServeInv'
  <2>1. phase'[p] = next
    BY <1>1, <1>4 DEF Enter, ServeTypes
  <2>2. ClaimAgrees(p)'
    BY <1>1, <1>3, <1>4, <2>1 DEF ClaimAgrees
  <2>3. ServeShape(p)'
    BY <1>1, <1>3, <1>4, <2>1, <2>2 DEF ServeShape
  <2> QED BY <1>1, <1>2, <1>4, <2>3, PhaseMoves
<1>5. /\ p \in opens \/ claim[p].at = "held"
      /\ p \in alive /\ p \in opens => phase[p] # "acquire"
  <2>1. CASE Acquired(p)
    BY <1>1, <2>1 DEF Acquired, At, ClaimAgrees
  <2>2. CASE ~Acquired(p)
    BY <1>1, <2>2 DEF OpenDatabase, SpawnChildren, StartFails, Ready, NotReady, Interrupted,
       StopChildren, CloseDatabase, Doing, ClaimAgrees, Serving
  <2> QED BY <2>1, <2>2
<1>6. CASE Acquired(p) \/ OpenDatabase(p)
  <2>1. /\ UNCHANGED <<children, port, announced>> /\ p \in alive
        /\ phase[p] \in {"acquire", "start"} /\ database' \subseteq database \cup {p}
        /\ \/ Enter(p, "start") /\ phase[p] = "acquire" /\ database' = database
           \/ Enter(p, "boot")
    BY <1>6 DEF Acquired, OpenDatabase, At, Doing, instanceVars
  <2>2. p \notin children /\ p \notin database
    BY <1>1, <2>1 DEF ServeShape
  <2>3. {"start", "boot"} \subseteq Phases \ {"unborn", "ended"}
    BY DEF Phases
  <2> QED BY <1>1, <1>4, <1>5, <2>1, <2>2, <2>3
<1>7. CASE SpawnChildren(p)
  <2>1. /\ p \in alive /\ phase[p] = "boot" /\ Enter(p, "wait") /\ announced' = FALSE
        /\ children' = children \cup {p} /\ UNCHANGED <<database, port>>
    BY <1>7 DEF SpawnChildren, Doing
  <2>2. "wait" \in Phases \ {"unborn", "ended"}
    BY DEF Phases
  <2> QED BY <1>1, <1>4, <1>5, <2>1, <2>2
<1>8. CASE StartFails(p)
  <2>1. /\ UNCHANGED <<children, port, announced, database>> /\ p \in alive
        /\ \/ phase[p] = "start" /\ Enter(p, "release")
           \/ phase[p] = "boot" /\ Enter(p, "clean")
    BY <1>8 DEF StartFails, Doing, instanceVars
  <2>2. p \notin children /\ (phase[p] = "start" => p \notin database)
    BY <1>1, <2>1 DEF ServeShape
  <2>3. {"release", "clean"} \subseteq Phases \ {"unborn", "ended"}
    BY DEF Phases
  <2> QED BY <1>1, <1>4, <1>5, <2>1, <2>2, <2>3
<1>9. CASE Ready(p) \/ NotReady(p) \/ Interrupted(p)
  <2>1. /\ UNCHANGED <<children, port, announced, database>> /\ p \in alive
        /\ phase[p] \in {"wait", "up"}
        /\ \E next \in {"up", "mark", "clean"} :
             /\ Enter(p, next)
             /\ next = "up" => p \in opens
             /\ next = "mark" => p \notin opens
    BY <1>9 DEF Ready, NotReady, Interrupted, Doing, instanceVars
  <2>2. {"up", "mark", "clean"} \subseteq Phases \ {"unborn", "ended"}
    BY DEF Phases
  <2> QED BY <1>1, <1>4, <1>5, <2>1, <2>2
<1>10. CASE StopChildren(p) \/ CloseDatabase(p)
  <2>1. /\ announced' = announced /\ p \in alive
        /\ \/ /\ phase[p] = "clean" /\ Enter(p, "close") /\ database' = database
              /\ children' = children \ {p} /\ port' = port \ {p}
           \/ /\ phase[p] = "close" /\ Enter(p, "release") /\ database' = database \ {p}
              /\ children' = children /\ port' = port
    BY <1>10 DEF StopChildren, CloseDatabase, Doing
  <2>2. port' = {} \/ port' = port
    BY <1>1, <2>1 DEF ServeTypes
  <2>3. phase[p] = "close" => p \notin children
    BY <1>1, <2>1 DEF ServeShape
  <2>4. {"close", "release"} \subseteq Phases \ {"unborn", "ended"}
    BY DEF Phases
  <2> QED BY <1>1, <1>4, <1>5, <2>1, <2>2, <2>3, <2>4
<1> QED BY <1>6, <1>7, <1>8, <1>9, <1>10

\* Steps on the record keep the phases and what runs.
LEMMA RecordMoves ==
  ASSUME ServeInv, NEW p \in Procs, p \in alive, phase[p] \notin {"unborn", "ended"},
         file' \in Records, claim' \in [Procs -> Claims], alive' = alive,
         running' \in BOOLEAN, overreached' \in BOOLEAN,
         \A q \in Procs \ {p} : claim'[q] = claim[q],
         file'.owner \subseteq file.owner \cup {p},
         UNCHANGED <<phase, opens, gaveUp, interrupted, forced, instanceVars, commandVars>>,
         ClaimAgrees(p)',
         ~overreached' => ~overreached,
         ~overreached' => HoldersNamed',
         ~overreached' => \A q \in Procs \ opens :
                            phase[q] = "up" => q # p /\ file' = file /\ running' = running
  PROVE  ServeInv'
<1>1. ServeTypes /\ ServeShape(p) /\ NamedAreBorn /\ RecordAgrees
  BY TheProcess
<1>2. UNCHANGED <<database, children, port, announced, launcher, stop>>
  BY DEF instanceVars, commandVars
<1>3. ServeTypes'
  BY <1>1, <1>2 DEF ServeTypes
<1>4. NamedAreBorn'
  BY <1>1, <1>2 DEF NamedAreBorn
<1>5. RecordAgrees'
  BY <1>1 DEF RecordAgrees
<1>6. ServeShape(p)'
  BY <1>1, <1>2 DEF ServeShape
<1> QED BY <1>2, <1>3, <1>4, <1>5, <1>6, OneMoves

\* Who is up has the claim, and is named.
LEMMA UpIsNamed ==
  ASSUME ServeInv, ~overreached, NEW q \in Procs \ opens, phase[q] = "up"
  PROVE  q \in alive /\ file.owner = {q} /\ claim[q].at = "held" /\ file.full /\ running
<1>1. ServeShape(q) /\ ClaimAgrees(q) /\ RecordAgrees
  BY TheProcess
<1>2. q \in alive /\ claim[q].at = "held"
  BY <1>1 DEF ServeShape, ClaimAgrees, Serving, Looping
<1> QED BY <1>1, <1>2 DEF RecordAgrees, HoldersNamed

\* The record is created, read, removed or given up.
LEMMA ClaimKeeps ==
  ASSUME ServeInv, NEW p \in Procs, UNCHANGED <<opens, gaveUp>>, AcquireRecord(p) \/ ReleaseRecord(p)
  PROVE  ServeInv'
<1>1. /\ ServeTypes /\ ServeShape(p) /\ ClaimAgrees(p) /\ RecordAgrees
      /\ file \in Records /\ claim \in [Procs -> Claims]
      /\ running \in BOOLEAN /\ overreached \in BOOLEAN
  BY TheProcess DEF ServeTypes
<1>2. /\ phase[p] \in {"acquire", "release"} /\ Track
      /\ UNCHANGED <<phase, opens, gaveUp, interrupted, forced, instanceVars, commandVars>>
      /\ p \in alive
  <2>1. p \in alive
    BY DEF AcquireRecord, ReleaseRecord, Acquiring, Create, Fill, ReadExisting, Probe, Steal,
       At, Doing
  <2> QED BY <2>1 DEF AcquireRecord, ReleaseRecord, Same, Doing
<1>3. running' = (running /\ file' = file)
  BY <1>2 DEF Track
<1>4. /\ file' \in Records /\ claim' \in [Procs -> Claims] /\ alive' = alive
      /\ \A q \in Procs \ {p} : claim'[q] = claim[q]
      /\ file'.owner \subseteq file.owner \cup {p} /\ RemovesOpenly(p)
      /\ HoldersNamed =>
           \/ HoldersNamed'
           \/ file' = NoFile /\ \E q \in Procs \ {p} :
                file.owner = {q} /\ claim[q].at \in {"fill", "held", "remove"}
      /\ HoldersNamed => \A q \in Procs \ {p} :
           file.owner = {q} => file' = file \/ file' = NoFile
  <2>1. CASE AcquireRecord(p)
    BY <1>1, <2>1, AcquiringKeeps DEF AcquireRecord, ClaimAgrees
  <2>2. CASE ReleaseRecord(p)
    BY <1>1, <2>2, ReleasingKeeps DEF ReleaseRecord
  <2> QED BY <2>1, <2>2
<1>5. ClaimAgrees(p)'
  <2>1. CASE AcquireRecord(p)
    <3>1. /\ claim'[p].at \in AcquireSteps
          /\ claim'[p].at \in Looping => claim'[p].attempts < MaxAttempts
          /\ phase[p] = "acquire" /\ p \notin opens
      BY <1>1, <2>1, AcquiringKeeps DEF AcquireRecord, ClaimAgrees
    <3> QED BY <1>2, <3>1 DEF ClaimAgrees, Serving, Looping
  <2>2. CASE ReleaseRecord(p)
    <3>1. claim'[p].at \in {"remove", "out"} /\ phase[p] = "release"
      BY <1>1, <2>2, ReleasingKeeps DEF ReleaseRecord, Doing
    <3>2. claim[p].at # "out"
      BY <2>2 DEF ReleaseRecord, CheckOwner, RemoveOwn, At
    <3> QED BY <1>1, <1>2, <3>1, <3>2 DEF ClaimAgrees, Serving, Looping
  <2> QED BY <2>1, <2>2
<1>6. ASSUME ~overreached', ~overreached
      PROVE  ~(file' = NoFile /\ \E q \in alive \ {p} : file.owner = {q}) /\ HoldersNamed
  <2>1. HoldersNamed
    BY <1>1, <1>6 DEF RecordAgrees
  <2>2. CASE file'.owner = {} => file.owner = {}
    BY <2>1, <2>2 DEF NoFile
  <2>3. CASE Remove({p})
    BY <1>6, <2>1, <2>3 DEF Remove
  <2> QED BY <1>4, <2>2, <2>3 DEF RemovesOpenly
<1>7. ~overreached' => ~overreached
  BY <1>4 DEF RemovesOpenly, Remove
<1>8. ~overreached' => HoldersNamed'
  <2> SUFFICES ASSUME ~overreached', ~HoldersNamed' PROVE FALSE
    OBVIOUS
  <2>1. PICK q \in Procs \ {p} :
          file.owner = {q} /\ claim[q].at \in {"fill", "held", "remove"} /\ file' = NoFile
    BY <1>4, <1>6, <1>7
  <2>2. q \in alive
    BY <2>1, TheProcess DEF ServeShape, ClaimAgrees
  <2> QED BY <1>6, <1>7, <2>1, <2>2
<1>9. ASSUME ~overreached', NEW q \in Procs \ opens, phase[q] = "up"
      PROVE  q # p /\ file' = file /\ running' = running
  <2>1. q \in alive /\ file.owner = {q}
    BY <1>7, <1>9, UpIsNamed
  <2>2. q # p
    BY <1>2, <1>9
  <2>3. file' = file
    BY <1>4, <1>6, <1>7, <1>9, <2>1, <2>2
  <2>4. running' = running
    BY <1>1, <1>3, <2>3
  <2> QED BY <2>2, <2>3, <2>4
<1>10. running' \in BOOLEAN /\ overreached' \in BOOLEAN
  BY <1>1, <1>3, <1>4 DEF RemovesOpenly, Remove
<1> QED BY <1>2, <1>4, <1>5, <1>7, <1>8, <1>9, <1>10, RecordMoves

\* The record is rewritten to say that the instance is up, by the process it names.
LEMMA MarkKeeps ==
  ASSUME ServeInv, NEW p \in Procs, UNCHANGED <<opens, gaveUp>>, MarkRunning(p) \/ FillRunning(p)
  PROVE  ServeInv'
<1>1. /\ ServeTypes /\ ServeShape(p) /\ ClaimAgrees(p) /\ NamedAreBorn /\ RecordAgrees
      /\ file \in Records /\ running \in BOOLEAN
  BY TheProcess DEF ServeTypes
<1>2. /\ p \in alive /\ phase[p] \in {"mark", "fill"}
      /\ UNCHANGED <<claim, alive, overreached, opens, gaveUp, interrupted, forced, database, children,
                     port, announced, launcher, stop>>
  BY DEF MarkRunning, FillRunning, Doing, Same, instanceVars, commandVars
<1>3. p \notin opens /\ claim[p].at = "held"
  BY <1>1, <1>2 DEF ClaimAgrees, Serving, Looping
<1>4. PICK next \in {"fill", "up"} : Enter(p, next)
  BY DEF MarkRunning, FillRunning
<1>5. /\ phase' \in [Procs -> Phases] /\ phase'[p] = next
      /\ \A q \in Procs \ {p} : phase'[q] = phase[q]
  BY <1>1, <1>4 DEF Enter, ServeTypes, Phases
<1>6. /\ file' \in Records /\ running' \in BOOLEAN
      /\ file'.owner \subseteq file.owner \cup {p}
      /\ file.owner = {p} => file'.owner = {p}
      /\ file.owner = {p} /\ next = "up" => file'.full /\ running'
  <2>1. CASE MarkRunning(p)
    <3>1. file' = [owner |-> {p}, full |-> FALSE] /\ running' = FALSE
      BY <2>1 DEF MarkRunning
    <3>2. next # "up"
      <4>1. Enter(p, "fill")
        BY <2>1 DEF MarkRunning
      <4>2. phase'[p] = "fill"
        BY <1>1, <4>1 DEF Enter, ServeTypes
      <4> QED BY <1>5, <4>2
    <3> QED BY <1>1, <3>1, <3>2, RecordTyped
  <2>2. CASE FillRunning(p)
    <3>1. CASE file.owner = {p}
      <4>1. file' = [file EXCEPT !.full = TRUE] /\ running' = TRUE
        BY <2>2, <3>1 DEF FillRunning
      <4> QED BY <1>1, <3>1, <4>1, RecordTyped
    <3>2. CASE file.owner # {p}
      BY <1>1, <2>2, <3>2 DEF FillRunning
    <3> QED BY <3>1, <3>2
  <2> QED BY <2>1, <2>2
<1>7. ServeTypes'
  BY <1>1, <1>2, <1>5, <1>6 DEF ServeTypes
<1>8. NamedAreBorn'
  BY <1>1, <1>2, <1>5, <1>6 DEF NamedAreBorn, ServeTypes, Records, Owners, StopRuns
<1>9. ServeShape(p)'
  <2>1. ClaimAgrees(p)'
    BY <1>1, <1>2, <1>3, <1>5 DEF ClaimAgrees
  <2> QED BY <1>1, <1>2, <1>5, <2>1 DEF ServeShape
<1>10. RecordAgrees'
  <2> SUFFICES ASSUME ~overreached' PROVE RecordAgrees'
    BY DEF RecordAgrees
  <2>1. ~overreached /\ HoldersNamed
    BY <1>1, <1>2 DEF RecordAgrees
  <2>2. file.owner = {p}
    BY <1>3, <2>1 DEF HoldersNamed
  <2>3. HoldersNamed'
    BY <1>2, <1>6, <2>1, <2>2 DEF HoldersNamed
  <2>4. ASSUME NEW q \in Procs \ opens, phase'[q] = "up" PROVE file'.full /\ running'
    <3>1. q = p
      BY <1>5, <2>1, <2>2, <2>4, UpIsNamed
    <3> QED BY <1>5, <1>6, <2>2, <2>4, <3>1
  <2> QED BY <1>2, <2>3, <2>4 DEF RecordAgrees
<1> QED BY <1>2, <1>5, <1>7, <1>8, <1>9, <1>10, OneMoves

\* A process gives way, exits or crashes; a child starts, or leaves.
LEMMA EndKeeps ==
  ASSUME ServeInv, NEW p \in Procs, UNCHANGED <<opens, gaveUp>>,
         GiveWay(p) \/ Exit(p) \/ Crash(p) \/ ChildStarts(p)
  PROVE  ServeInv'
<1>1. /\ ServeTypes /\ ServeShape(p) /\ port \subseteq children /\ children \subseteq Procs
      /\ announced \in BOOLEAN /\ forced \subseteq Procs /\ interrupted \subseteq alive
  BY TheProcess DEF ServeTypes
<1>2. UNCHANGED commandVars /\ CommandsGoOn
  <2>1. UNCHANGED commandVars
    BY DEF GiveWay, Exit, Crash, ChildStarts, Same
  <2> QED BY <1>1, <2>1, CommandsTyped
<1>3. CASE GiveWay(p) \/ Exit(p)
  <2>1. /\ p \in alive /\ phase[p] \in {"acquire", "release"} /\ Gone(p)
        /\ UNCHANGED <<forced, children, port, announced>>
    BY <1>3 DEF GiveWay, Exit, At, Doing, Same
  <2>2. p \in children => p \in gaveUp
    BY <1>1, <2>1 DEF ServeShape
  <2> QED BY <1>1, <1>2, <2>1, <2>2, GoneKeeps
<1>4. CASE Crash(p) /\ Gone(p)
  <2>1. p \in alive /\ phase[p] # "unborn" /\ announced' = announced
    BY <1>4 DEF Crash, Gone, Die
  <2>2. CASE forced' = forced \cup {p} /\ UNCHANGED <<children, port>>
    BY <1>1, <1>2, <1>4, <2>1, <2>2, GoneKeeps
  <2>3. CASE UNCHANGED <<recordVars, phase, interrupted, forced, database>>
    BY <1>4, <2>1, <2>3 DEF Gone, Die, recordVars, pidFileVars
  <2> QED BY <1>4, <2>2, <2>3 DEF Crash
<1>5. CASE Crash(p) /\ ~Gone(p)
  <2>1. /\ children' = children \ {p} /\ port' = port \ {p} /\ announced' = announced
        /\ UNCHANGED <<recordVars, phase, interrupted, forced, database>>
    BY <1>5 DEF Crash
  <2>2. port' = {} \/ \E q \in Procs : port' = {q}
    BY <1>1, <2>1 DEF ServeTypes
  <2> QED BY <1>1, <1>2, <2>1, <2>2, NobodyMoves
<1>6. CASE ChildStarts(p)
  <2>1. /\ UNCHANGED <<recordVars, phase, interrupted, forced, database>> /\ p \in children
        /\ \/ port' = {p} /\ announced' = TRUE /\ children' = children
           \/ children' = children \ {p} /\ p \notin port /\ UNCHANGED <<port, announced>>
    BY <1>6 DEF ChildStarts, Same
  <2>2. port' = {} \/ \E q \in Procs : port' = {q}
    BY <1>1, <2>1 DEF ServeTypes
  <2> QED BY <1>1, <1>2, <2>1, <2>2, NobodyMoves
<1> QED BY <1>3, <1>4, <1>5, <1>6

\* A process gives up, and what it has open and running stays until it leaves.
LEMMA GivesUpKeeps ==
  ASSUME ServeInv, NEW p \in Procs, UNCHANGED opens, GivesUp(p)
  PROVE  ServeInv'
<1>1. /\ ServeTypes /\ ServeShape(p) /\ ClaimAgrees(p)
      /\ database \subseteq alive /\ children \subseteq Procs /\ port \subseteq children
      /\ announced \in BOOLEAN /\ gaveUp \subseteq Procs
  BY TheProcess DEF ServeTypes
<1>2. /\ p \in alive /\ phase[p] \in {"mark", "fill", "close"} /\ Enter(p, "release")
      /\ gaveUp' = gaveUp \cup {p}
      /\ UNCHANGED <<recordVars, interrupted, instanceVars, forced, commandVars>>
  BY DEF GivesUp, Same
<1>3. UNCHANGED <<claim, alive, launcher, stop, database, children, port, announced>>
  BY <1>2 DEF recordVars, pidFileVars, commandVars, instanceVars
<1>4. phase'[p] = "release"
  BY <1>1, <1>2 DEF Enter, ServeTypes
<1>5. p \notin opens => claim[p].at = "held"
  BY <1>1, <1>2 DEF ClaimAgrees, Serving, Looping
<1>6. ClaimAgrees(p)'
  BY <1>1, <1>2, <1>3, <1>4, <1>5 DEF ClaimAgrees, Serving, Looping
<1>7. ServeShape(p)'
  BY <1>1, <1>2, <1>3, <1>4, <1>6 DEF ServeShape
<1>8. "release" \in Phases \ {"unborn"} /\ gaveUp \subseteq gaveUp' /\ gaveUp' \subseteq Procs
  BY <1>1, <1>2 DEF Phases
<1> QED BY <1>1, <1>2, <1>3, <1>7, <1>8, PhaseMoves

-----------------------------------------------------------------------------
(* Whatever happens.                                                        *)

\* Every step keeps the invariant.
LEMMA NextKeeps ==
  ASSUME ServeInv, [Next]_vars PROVE ServeInv'
<1>1. ASSUME NEW p \in Procs, \/ Open(p) /\ UNCHANGED gaveUp
                              \/ GivesUp(p) /\ UNCHANGED opens
      PROVE  ServeInv'
  BY <1>1, OpenKeeps, GivesUpKeeps
<1>2. ASSUME NEW p \in Procs, UNCHANGED <<opens, gaveUp>>,
             StartCommand(p) \/ StartForeground(p) \/ Launch(p)
      PROVE  ServeInv'
  BY <1>2, StartKeeps
<1>3. ASSUME NEW p \in Procs, UNCHANGED <<opens, gaveUp>>,
             Interrupt(p) \/ Run(p) \/ ChildStarts(p) \/ Crash(p)
      PROVE  ServeInv'
  <2>1. CASE Interrupt(p) \/ OpenCheck(p) \/ Detach(p)
    BY <1>3, <2>1, OpenKeeps
  <2>2. CASE \/ Acquired(p) \/ OpenDatabase(p) \/ SpawnChildren(p) \/ StartFails(p) \/ Ready(p)
             \/ NotReady(p) \/ Interrupted(p) \/ StopChildren(p) \/ CloseDatabase(p)
    BY <1>3, <2>2, WorkKeeps
  <2>3. CASE AcquireRecord(p) \/ ReleaseRecord(p)
    BY <1>3, <2>3, ClaimKeeps
  <2>4. CASE MarkRunning(p) \/ FillRunning(p)
    BY <1>3, <2>4, MarkKeeps
  <2>5. CASE GiveWay(p) \/ Exit(p) \/ Crash(p) \/ ChildStarts(p)
    BY <1>3, <2>5, EndKeeps
  <2> QED BY <1>3, <2>1, <2>2, <2>3, <2>4, <2>5 DEF Run
<1>4. ASSUME NEW x \in Stops, Stop(x), UNCHANGED <<opens, gaveUp>> PROVE ServeInv'
  BY <1>4, StopKeeps
<1>5. CASE UNCHANGED vars
  <2>1. /\ UNCHANGED <<file, claim, alive, running, overreached, opens, gaveUp, phase, interrupted>>
        /\ UNCHANGED <<forced, database, children, port, announced, launcher, stop>>
    BY <1>5 DEF vars, recordVars, pidFileVars, instanceVars, commandVars
  <2> QED BY <2>1 DEF ServeInv, ServeTypes, ServeShape, ClaimAgrees, NamedAreBorn,
          RecordAgrees, HoldersNamed
<1> QED BY <1>1, <1>2, <1>3, <1>4, <1>5 DEF Next

\* At first nothing runs.
LEMMA InitEstablishes ==
  ASSUME Init PROVE ServeInv
<1>1. /\ file = NoFile /\ claim = [p \in Procs |-> Unclaimed] /\ alive = Procs
      /\ running = FALSE /\ opens = {} /\ phase = [p \in Procs |-> "unborn"]
      /\ interrupted = {} /\ forced = {} /\ gaveUp = {} /\ launcher = [p \in Procs |-> Nobody]
      /\ stop = [x \in Stops |-> Nobody] /\ database = {} /\ children = {} /\ port = {}
      /\ announced = FALSE /\ overreached = FALSE
  BY DEF Init, PidFileInit
<1>2. /\ NoFile \in Records /\ NoFile.owner = {} /\ Unclaimed \in Claims /\ Unclaimed.at = "out"
      /\ Nobody \in Launches /\ Nobody \in StopRuns /\ Nobody.at = "none" /\ Nobody.who = {}
  BY AttemptsAssumption DEF NoFile, Records, Owners, Unclaimed, Claims, Steps, Nobody, Launches, StopRuns
<1>3. ServeTypes
  BY <1>1, <1>2 DEF ServeTypes, Phases
<1>4. \A p \in Procs : ServeShape(p)
  BY <1>1, <1>2 DEF ServeShape, ClaimAgrees, Serving, Looping
<1>5. NamedAreBorn /\ RecordAgrees
  BY <1>1, <1>2 DEF NamedAreBorn, RecordAgrees, HoldersNamed
<1> QED BY <1>3, <1>4, <1>5 DEF ServeInv

\* What the code relies on, in every state: the claim, the database and the children of a
\* process go with the phase it is in.
THEOREM ServeInvariant == Spec => []ServeInv
<1>1. Init => ServeInv
  BY InitEstablishes
<1>2. ServeInv /\ [Next]_vars => ServeInv'
  BY NextKeeps
<1> QED BY <1>1, <1>2, PTL DEF Spec

\* The API server and the embedder are left behind only by a process that was killed, that
\* left at a second signal or that could not write its record or close its database
\* (startLocalInstance, its stop, and the catch of serve start), for any number of starts,
\* opens and stops at once.
THEOREM OrphansHaveCauses == Spec => []OrphansAccounted
<1>1. ServeInv => OrphansAccounted
  BY DEF ServeInv, ServeTypes, ServeShape, OrphansAccounted
<1> QED BY <1>1, ServeInvariant, PTL

\* Who has the database open, is no mdloop open and did not give up is named in the record.
LEMMA DatabaseIsNamed ==
  ASSUME ServeInv, ~overreached, NEW p \in database, p \notin opens \cup gaveUp
  PROVE  file.owner = {p}
<1>1. p \in Procs
  BY DEF ServeInv, ServeTypes
<1>2. claim[p].at = "held"
  BY <1>1, TheProcess DEF ServeShape, ClaimAgrees, Serving, Looping
<1> QED BY <1>1, <1>2 DEF ServeInv, RecordAgrees, HoldersNamed

\* As long as nobody removed the record of a living process, two supervisors never have
\* the data directory's database open at once (acquireInstanceRecord).
THEOREM OneSupervisorServes == Spec => []OneServeDatabase
<1>1. ServeInv => OneServeDatabase
  <2> DEFINE serving == database \ (opens \cup gaveUp)
  <2> SUFFICES ASSUME ServeInv, ~overreached PROVE Cardinality(serving) <= 1
    BY DEF OneServeDatabase
  <2>1. CASE serving = {}
    BY <2>1, FS_EmptySet
  <2>2. CASE serving # {}
    <3> PICK p \in serving : TRUE
      BY <2>2
    <3>1. \A q \in serving : file.owner = {q}
      BY DatabaseIsNamed
    <3>2. serving = {p}
      BY <3>1
    <3>3. Cardinality({p}) = 1
      BY FS_Singleton
    <3> QED BY <3>2, <3>3
  <2> QED BY <2>1, <2>2
<1> QED BY <1>1, ServeInvariant, PTL

\* With the same exception an instance that serve start brought up is found by its record,
\* and the record of a living process is not another's (markInstanceRunning,
\* releaseInstanceRecord, liveInstance).
THEOREM RecordTellsTrue == Spec => []RecordIsTrue
<1>1. ServeInv => ServeTypeOK
  <2> SUFFICES ASSUME ServeInv PROVE ServeTypeOK
    OBVIOUS
  <2>1. Cardinality(port) <= 1
    <3>1. CASE port = {}
      BY <3>1, FS_EmptySet
    <3>2. ASSUME NEW p \in Procs, port = {p} PROVE Cardinality(port) <= 1
      <4>1. Cardinality({p}) = 1
        BY FS_Singleton
      <4> QED BY <3>2, <4>1
    <3> QED BY <3>1, <3>2 DEF ServeInv, ServeTypes
  <2> QED BY <2>1 DEF ServeInv, ServeTypes, ServeTypeOK, PidFileTypeOK, Records, Owners, Claims, Steps,
          Launches, StopRuns
<1>2. ServeInv => UpIsRecorded
  BY UpIsNamed DEF UpIsRecorded, SaysRunning
<1>3. ServeInv => RunningIsItsOwn
  <2> SUFFICES ASSUME ServeInv, ~overreached, opens = {}, NEW p \in port \cap database
               PROVE  p \in file.owner \cup gaveUp
    BY DEF RunningIsItsOwn
  <2>1. p \notin gaveUp => file.owner = {p}
    BY DatabaseIsNamed
  <2> QED BY <2>1
<1> QED BY <1>1, <1>2, <1>3, ServeInvariant, PTL DEF RecordIsTrue
=============================================================================
