------------------------------ MODULE PushProofs -----------------------------
(***************************************************************************)
(* What holds of the pushes of one folder for any number of processes,     *)
(* files, versions and faults, checked by TLAPS.                           *)
(*                                                                         *)
(* Whose push it is does not matter to the entries: they are true since    *)
(* the server only appends, and since a file has one job at a time.  What  *)
(* the lock does matters to two properties: that one push works at a time, *)
(* and that no upload is forgotten.  Both hold until somebody removes the  *)
(* lock of a living process, which takes three processes one of which died *)
(* or left.                                                                *)
(***************************************************************************)
EXTENDS Push, FiniteSetTheorems, SequenceTheorems, TLAPS

\* The types of PushTypeOK, by name.
Steps == {"out", "create", "fill", "read", "probe", "steal", "held", "refused", "remove"}

Owners == {{}} \cup {{p} : p \in Procs}

Claims == [at : Steps, attempts : 0 .. MaxAttempts, sees : Owners]

Locks == [owner : Owners, full : BOOLEAN]

RunRecord ==
  [pc : {"idle", "acquire", "connect", "push", "save", "fill", "release", "ended"},
   base : Files, work : Files, saw : [Paths -> Nat], todo : SUBSET Paths,
   force : BOOLEAN, stop : BOOLEAN, bad : BOOLEAN]

JobRecord == Jobs \cup {NoJob}

PushTypes ==
  /\ PidFileTypeOK
  /\ disk \in [Paths -> Contents \cup {None}]
  /\ server \in [Paths -> Seq(Contents)]
  /\ manifest \in [torn : BOOLEAN, files : Files]
  /\ run \in [Procs -> RunRecord]
  /\ job \in [Procs -> [Paths -> JobRecord]]
  /\ watch \in [on : BOOLEAN, timers : SUBSET Paths, queued : BOOLEAN, inFlight : BOOLEAN]
  /\ overtaken \in BOOLEAN

\* An entry is of a version the server has.
EntryTrue(e, f) == e = NoEntry \/ (e.seq \in 1 .. Top(f) /\ server[f][e.seq] = e.hash)

\* Steps of the loop in acquireLock, and all of its steps.
Looping == {"create", "read", "probe", "steal"}
AcquireSteps == Looping \cup {"fill", "held", "refused"}

\* The step of a push and the step of its claim on the lock go together.
ClaimAgrees(p) ==
  /\ claim[p].at \in Looping => claim[p].attempts < MaxAttempts
  /\ run[p].pc \in {"idle", "ended"} => claim[p].at = "out"
  /\ run[p].pc = "acquire" => claim[p].at \in AcquireSteps
  /\ run[p].pc \in {"connect", "push", "save", "fill"} => claim[p].at = "held"
  /\ run[p].pc = "release" => claim[p].at \in {"held", "remove", "out"}
  /\ p \notin alive => run[p].pc \in {"idle", "ended"}

\* What a push knows of a file: its entry is true and no older than the one it read, an
\* answer names what was uploaded, and an update passed the status check.
FileShape(p, f) ==
  /\ job[p][f] = NoJob \/ run[p].pc = "push"
  /\ EntryTrue(run[p].work[f], f)
  /\ run[p].base[f].seq <= run[p].work[f].seq
  /\ run[p].pc \in {"acquire", "connect"} => run[p].work = run[p].base
  /\ run[p].saw[f] <= Top(f)
  /\ job[p][f].step = "update" /\ ~run[p].force => run[p].saw[f] <= run[p].work[f].seq
  /\ job[p][f].step = "answered" =>
       /\ job[p][f].seq \in 1 .. Top(f) /\ server[f][job[p][f].seq] = job[p][f].text
       /\ run[p].work[f].seq <= job[p][f].seq

PushShape(p) == ClaimAgrees(p) /\ \A f \in Paths : FileShape(p, f)

WatchShape ==
  /\ watch.on \/ watch.inFlight => Watcher \in alive
  /\ watch.timers # {} => watch.on
  /\ ~watch.inFlight => run[Watcher].pc = "idle"

PushInv ==
  /\ PushTypes
  /\ \A p \in Procs : PushShape(p)
  /\ \A f \in Paths : EntryTrue(manifest.files[f], f)
  /\ WatchShape

\* The steps of a push that has the lock and is not yet giving it up.
LockedSteps == {"connect", "push", "save", "fill"}

\* What a push was told it uploaded is in a table of files.
KeptIn(p, files) ==
  \A f \in Paths : run[p].work[f].seq > run[p].base[f].seq =>
    files[f].seq >= run[p].work[f].seq

\* The file names whoever has created it and not removed it.
LockNamesHolder ==
  \A p \in Procs : claim[p].at \in {"fill", "held", "remove"} => file.owner = {p}

\* Whoever works has read the manifest as it is, and what others did is in what was read.
Passed ==
  ~overtaken =>
    /\ \A p \in Procs : run[p].pc \in {"connect", "push", "save"} =>
         manifest = [torn |-> FALSE, files |-> run[p].base]
    /\ \A p, q \in Procs : run[p].pc \in {"release", "ended"} /\ run[q].pc \in LockedSteps =>
         KeptIn(p, run[q].base)
    /\ \A p \in Procs : run[p].pc \in {"release", "ended"} /\ ~manifest.torn =>
         KeptIn(p, manifest.files)

LockInv == ~overreached => (LockNamesHolder /\ Passed)

-----------------------------------------------------------------------------
(* Records and entries.                                                     *)

\* An entry of a table of files has a number.
LEMMA EntriesTyped ==
  ASSUME NEW w \in Files, NEW f \in Paths
  PROVE  w[f] \in [hash : Contents, seq : Nat \ {0}] \cup {NoEntry} /\ w[f].seq \in Nat
<1>1. w[f] \in [hash : Contents, seq : Nat \ {0}] \cup {NoEntry}
  BY DEF Files
<1> QED BY <1>1 DEF NoEntry

\* An empty table, a push not begun and a file not worked on are of their types.
LEMMA EmptyTyped ==
  /\ NoFiles \in Files
  /\ NoRun \in RunRecord
  /\ [f \in Paths |-> NoJob] \in [Paths -> JobRecord]
<1>1. NoFiles \in Files
  BY DEF NoFiles, Files
<1>2. NoRun \in RunRecord
  BY <1>1 DEF NoRun, RunRecord
<1> QED BY <1>1, <1>2 DEF JobRecord

\* The server only ever appends.
ServerGrows ==
  \A f \in Paths : /\ Top(f) <= Top(f)'
                   /\ \A i \in 1 .. Top(f) : server'[f][i] = server[f][i]

\* Versions are numbered.
LEMMA TopTyped ==
  ASSUME PushTypes, NEW f \in Paths
  PROVE  Top(f) \in Nat /\ server[f] \in Seq(Contents)
<1>1. server[f] \in Seq(Contents)
  BY DEF PushTypes
<1> QED BY <1>1, LenProperties DEF Top

\* A server that does not change only appends.
LEMMA SameServerGrows ==
  ASSUME PushTypes, server' = server PROVE ServerGrows
  BY TopTyped DEF ServerGrows, Top

\* An upload appends.
LEMMA UploadGrows ==
  ASSUME PushTypes, NEW f \in Paths, NEW text \in Contents,
         server' = [server EXCEPT ![f] = Append(server[f], text)]
  PROVE  /\ server' \in [Paths -> Seq(Contents)] /\ ServerGrows
         /\ Top(f)' = Top(f) + 1 /\ server'[f][Top(f) + 1] = text
<1>1. server \in [Paths -> Seq(Contents)]
  BY DEF PushTypes
<1>2. server[f] \in Seq(Contents) /\ Top(f) \in Nat
  BY TopTyped
<1>3. /\ Append(server[f], text) \in Seq(Contents)
      /\ Len(Append(server[f], text)) = Top(f) + 1
      /\ \A i \in 1 .. Top(f) : Append(server[f], text)[i] = server[f][i]
      /\ Append(server[f], text)[Top(f) + 1] = text
  BY <1>2, AppendProperties DEF Top
<1>4. server'[f] = Append(server[f], text) /\ \A g \in Paths \ {f} : server'[g] = server[g]
  BY <1>1
<1>5. server' \in [Paths -> Seq(Contents)]
  BY <1>1, <1>3
<1>6. Top(f)' = Top(f) + 1 /\ server'[f][Top(f) + 1] = text
  BY <1>3, <1>4 DEF Top
<1>7. ASSUME NEW g \in Paths
      PROVE  Top(g) <= Top(g)' /\ \A i \in 1 .. Top(g) : server'[g][i] = server[g][i]
  <2>1. Top(g) \in Nat
    BY TopTyped
  <2>2. CASE g = f
    BY <1>2, <1>3, <1>4, <1>6, <2>2
  <2>3. CASE g # f
    BY <1>4, <2>1, <2>3 DEF Top
  <2> QED BY <2>2, <2>3
<1> QED BY <1>5, <1>6, <1>7 DEF ServerGrows

\* What an entry says stays true.
LEMMA EntryStays ==
  ASSUME PushTypes, ServerGrows, server' \in [Paths -> Seq(Contents)],
         NEW f \in Paths, NEW e, EntryTrue(e, f)
  PROVE  EntryTrue(e, f)'
<1>1. Top(f) \in Nat
  BY TopTyped
<1>2. Top(f)' \in Nat
  BY LenProperties DEF Top
<1>3. Top(f) <= Top(f)' /\ \A i \in 1 .. Top(f) : server'[f][i] = server[f][i]
  BY DEF ServerGrows
<1>4. ASSUME e.seq \in 1 .. Top(f), server[f][e.seq] = e.hash
      PROVE  e.seq \in 1 .. Top(f)' /\ server'[f][e.seq] = e.hash
  BY <1>1, <1>2, <1>3, <1>4
<1> QED BY <1>4 DEF EntryTrue

\* A push that does nothing keeps what it knows of a file, whatever is uploaded.
LEMMA FileShapeStays ==
  ASSUME PushTypes, ServerGrows, server' \in [Paths -> Seq(Contents)],
         NEW p \in Procs, NEW f \in Paths, FileShape(p, f),
         run'[p] = run[p], job'[p][f] = job[p][f]
  PROVE  FileShape(p, f)'
<1>1. Top(f) \in Nat
  BY TopTyped
<1>2. Top(f)' \in Nat
  BY LenProperties DEF Top
<1>3. Top(f) <= Top(f)' /\ \A i \in 1 .. Top(f) : server'[f][i] = server[f][i]
  BY DEF ServerGrows
<1>4. EntryTrue(run[p].work[f], f)'
  <2> PICK e : e = run[p].work[f]
    OBVIOUS
  <2>1. EntryTrue(e, f)
    BY DEF FileShape
  <2>2. EntryTrue(e, f)'
    BY <2>1, EntryStays
  <2> QED BY <2>2 DEF EntryTrue
<1>5. run[p].saw[f] <= Top(f)'
  <2>1. run[p].saw[f] \in Nat /\ run[p].saw[f] <= Top(f)
    BY DEF PushTypes, RunRecord, FileShape
  <2> QED BY <1>1, <1>2, <1>3, <2>1
<1>6. job[p][f].step = "answered" =>
        /\ job[p][f].seq \in 1 .. Top(f)' /\ server'[f][job[p][f].seq] = job[p][f].text
        /\ run[p].work[f].seq <= job[p][f].seq
  <2> SUFFICES ASSUME job[p][f].step = "answered"
               PROVE  /\ job[p][f].seq \in 1 .. Top(f)'
                      /\ server'[f][job[p][f].seq] = job[p][f].text
                      /\ run[p].work[f].seq <= job[p][f].seq
    OBVIOUS
  <2>1. /\ job[p][f].seq \in 1 .. Top(f) /\ server[f][job[p][f].seq] = job[p][f].text
        /\ run[p].work[f].seq <= job[p][f].seq
    BY DEF FileShape
  <2>2. job[p][f].seq \in 1 .. Top(f)'
    BY <1>1, <1>2, <1>3, <2>1
  <2> QED BY <1>3, <2>1, <2>2
<1> QED BY <1>4, <1>5, <1>6 DEF FileShape

\* A process that does nothing keeps what is said of it.
LEMMA OthersStay ==
  ASSUME PushTypes, ServerGrows, server' \in [Paths -> Seq(Contents)],
         NEW p \in Procs, PushShape(p),
         run'[p] = run[p], job'[p] = job[p], claim'[p] = claim[p],
         p \in alive <=> p \in alive'
  PROVE  PushShape(p)'
<1>1. \A f \in Paths : FileShape(p, f)'
  BY FileShapeStays DEF PushShape
<1>2. ClaimAgrees(p)'
  BY DEF PushShape, ClaimAgrees
<1> QED BY <1>1, <1>2 DEF PushShape

\* Entries of the manifest, if that does not change, stay true.
LEMMA ManifestStays ==
  ASSUME PushInv, ServerGrows, server' \in [Paths -> Seq(Contents)], manifest' = manifest
  PROVE  \A f \in Paths : EntryTrue(manifest.files[f], f)'
<1> TAKE f \in Paths
<1> PICK e : e = manifest.files[f]
  OBVIOUS
<1>1. EntryTrue(e, f)
  BY DEF PushInv
<1>2. EntryTrue(e, f)'
  BY <1>1, EntryStays DEF PushInv
<1> QED BY <1>2 DEF EntryTrue

\* One process moves: what remains to be shown is about it.
LEMMA OneMoves ==
  ASSUME PushInv, NEW p \in Procs, PushTypes', PushShape(p)', ServerGrows,
         \A q \in Procs \ {p} : /\ run'[q] = run[q] /\ job'[q] = job[q] /\ claim'[q] = claim[q]
                                /\ q \in alive <=> q \in alive',
         \A f \in Paths : EntryTrue(manifest.files[f], f)',
         WatchShape'
  PROVE  PushInv'
<1>1. ASSUME NEW q \in Procs \ {p} PROVE PushShape(q)'
  <2>1. server' \in [Paths -> Seq(Contents)]
    BY DEF PushTypes
  <2> QED BY <2>1, OthersStay DEF PushInv
<1>2. \A q \in Procs : PushShape(q)'
  BY <1>1
<1> QED BY <1>2 DEF PushInv

-----------------------------------------------------------------------------
(* Steps that move one push.                                                *)

\* The watcher is as it was, unless its push begins or it dies.
LEMMA WatchStays ==
  ASSUME PushInv, watch' = watch, alive' = alive,
         run[Watcher].pc = "idle" => run'[Watcher].pc = "idle"
  PROVE  WatchShape'
  BY DEF PushInv, WatchShape

\* A push goes on to another step, with the same entries.
LEMMA RunMoves ==
  ASSUME PushInv, NEW p \in Procs, NEW r \in RunRecord,
         run' = [run EXCEPT ![p] = r],
         r.work = run[p].work, r.base = run[p].base, r.saw = run[p].saw,
         r.force = run[p].force,
         r.pc \in {"acquire", "connect"} => run[p].pc \in {"acquire", "connect"},
         \/ r.pc = "push"
         \/ \A f \in Paths : job[p][f] = NoJob,
         run[p].pc = "idle" => r.pc = "idle",
         ClaimAgrees(p)',
         UNCHANGED <<pidFileVars, job, disk, watch, server>>,
         manifest' \in [torn : BOOLEAN, files : Files],
         \A f \in Paths : EntryTrue(manifest'.files[f], f),
         overtaken' \in BOOLEAN
  PROVE  PushInv'
<1>1. /\ run'[p] = r /\ \A q \in Procs \ {p} : run'[q] = run[q]
      /\ run' \in [Procs -> RunRecord]
  BY DEF PushInv, PushTypes
<1>2. PushTypes'
  BY <1>1 DEF PushInv, PushTypes, PidFileTypeOK, pidFileVars
<1>3. ASSUME NEW f \in Paths PROVE FileShape(p, f)'
  <2>1. FileShape(p, f)
    BY DEF PushInv, PushShape
  <2>2. r.pc = "push" \/ job[p][f] = NoJob
    OBVIOUS
  <2> QED BY <1>1, <2>1, <2>2 DEF FileShape, EntryTrue, Top
<1>4. PushShape(p)'
  BY <1>3 DEF PushShape
<1>5. \A f \in Paths : EntryTrue(manifest.files[f], f)'
  BY DEF EntryTrue, Top
<1>6. WatchShape'
  BY <1>1, WatchStays DEF pidFileVars
<1>7. ServerGrows
  BY SameServerGrows DEF PushInv
<1> QED BY <1>1, <1>2, <1>4, <1>5, <1>6, <1>7, OneMoves DEF pidFileVars

\* A push goes on with one of its files.
LEMMA FileMoves ==
  ASSUME PushInv, NEW p \in Procs, NEW f \in Paths, NEW r \in RunRecord, NEW j \in JobRecord,
         run[p].pc = "push", run' = [run EXCEPT ![p] = r], job' = [job EXCEPT ![p][f] = j],
         r.pc = "push", r.base = run[p].base, r.saw = run[p].saw, r.force = run[p].force,
         \A g \in Paths \ {f} : r.work[g] = run[p].work[g],
         server' \in [Paths -> Seq(Contents)], ServerGrows,
         UNCHANGED <<pidFileVars, disk, watch, manifest, overtaken>>,
         FileShape(p, f)'
  PROVE  PushInv'
<1>1. /\ run \in [Procs -> RunRecord] /\ job \in [Procs -> [Paths -> JobRecord]]
  BY DEF PushInv, PushTypes
<1>2. /\ run'[p] = r /\ \A q \in Procs \ {p} : run'[q] = run[q]
      /\ run' \in [Procs -> RunRecord]
  BY <1>1
<1>3. /\ job'[p][f] = j /\ \A g \in Paths \ {f} : job'[p][g] = job[p][g]
      /\ \A q \in Procs \ {p} : job'[q] = job[q]
      /\ job' \in [Procs -> [Paths -> JobRecord]]
  BY <1>1
<1>4. PushTypes'
  BY <1>2, <1>3 DEF PushInv, PushTypes, PidFileTypeOK, pidFileVars
<1>5. ASSUME NEW g \in Paths \ {f} PROVE FileShape(p, g)'
  <2>1. FileShape(p, g) /\ PushTypes
    BY DEF PushInv, PushShape
  <2>2. Top(g) \in Nat /\ Top(g)' \in Nat
    BY <2>1, TopTyped, LenProperties DEF Top
  <2>3. Top(g) <= Top(g)' /\ \A i \in 1 .. Top(g) : server'[g][i] = server[g][i]
    BY DEF ServerGrows
  <2>4. EntryTrue(run[p].work[g], g)'
    <3> PICK e : e = run[p].work[g]
      OBVIOUS
    <3>1. EntryTrue(e, g)'
      BY <2>1, EntryStays DEF FileShape
    <3>2. run'[p].work[g] = e
      BY <1>2
    <3> QED BY <3>1, <3>2 DEF EntryTrue
  <2>5. r.saw[g] <= Top(g)'
    <3>1. r.saw[g] \in Nat /\ r.saw[g] <= Top(g)
      BY <2>1 DEF RunRecord, FileShape
    <3> QED BY <2>2, <2>3, <3>1
  <2>6. ASSUME job[p][g].step = "answered"
        PROVE  /\ job[p][g].seq \in 1 .. Top(g)' /\ server'[g][job[p][g].seq] = job[p][g].text
               /\ r.work[g].seq <= job[p][g].seq
    <3>1. /\ job[p][g].seq \in 1 .. Top(g) /\ server[g][job[p][g].seq] = job[p][g].text
          /\ run[p].work[g].seq <= job[p][g].seq
      BY <2>1, <2>6 DEF FileShape
    <3>2. job[p][g].seq \in 1 .. Top(g)'
      BY <2>2, <2>3, <3>1
    <3> QED BY <2>3, <3>1, <3>2
  <2> QED BY <1>2, <1>3, <2>1, <2>4, <2>5, <2>6 DEF FileShape
<1>6. ClaimAgrees(p)'
  <2>1. ClaimAgrees(p)
    BY DEF PushInv, PushShape
  <2> QED BY <1>2, <2>1 DEF ClaimAgrees, pidFileVars
<1>7. PushShape(p)'
  BY <1>5, <1>6 DEF PushShape
<1>8. \A g \in Paths : EntryTrue(manifest.files[g], g)'
  BY ManifestStays
<1>9. WatchShape'
  BY <1>2, WatchStays DEF pidFileVars
<1> QED BY <1>2, <1>3, <1>4, <1>7, <1>8, <1>9, OneMoves DEF pidFileVars

\* The lock moves, within a step of a push.
LEMMA ClaimMoves ==
  ASSUME PushInv, NEW p \in Procs, PidFileTypeOK', alive' = alive,
         \A q \in Procs \ {p} : claim'[q] = claim[q],
         ClaimAgrees(p)',
         UNCHANGED <<run, job, disk, watch, server, manifest, overtaken>>
  PROVE  PushInv'
<1>1. PushTypes'
  BY DEF PushInv, PushTypes
<1>2. ServerGrows
  BY SameServerGrows DEF PushInv
<1>3. \A f \in Paths : FileShape(p, f)'
  BY DEF PushInv, PushShape, FileShape, EntryTrue, Top
<1>4. PushShape(p)'
  BY <1>3 DEF PushShape
<1>5. \A f \in Paths : EntryTrue(manifest.files[f], f)'
  BY DEF PushInv, EntryTrue, Top
<1>6. WatchShape'
  BY WatchStays
<1> QED BY <1>1, <1>2, <1>4, <1>5, <1>6, OneMoves

-----------------------------------------------------------------------------
(* The lock.                                                                *)

\* The types of the lock.
LEMMA LockTyped ==
  ASSUME PushInv
  PROVE  /\ file \in Locks /\ claim \in [Procs -> Claims] /\ alive \subseteq Procs
         /\ overreached \in BOOLEAN
  BY DEF PushInv, PushTypes, PidFileTypeOK, Locks, Claims, Steps, Owners

\* A lock that is of its types.
LEMMA LockStaysTyped ==
  ASSUME file' \in Locks, claim' \in [Procs -> Claims], alive' \subseteq Procs,
         overreached' \in BOOLEAN
  PROVE  PidFileTypeOK'
  BY DEF PidFileTypeOK, Locks, Claims, Steps, Owners

\* A lock that is created, or removed, is one.
LEMMA NewLockTyped ==
  ASSUME NEW p \in Procs
  PROVE  NoFile \in Locks /\ [owner |-> {p}, full |-> FALSE] \in Locks
  BY DEF NoFile, Locks, Owners

\* Steps of a claim keep the types and other claims.
LEMMA ClaimTyped ==
  ASSUME claim \in [Procs -> Claims], NEW p \in Procs, NEW step \in Steps, MoveTo(p, step)
  PROVE  /\ claim' \in [Procs -> Claims] /\ claim'[p].at = step
         /\ claim'[p].attempts = claim[p].attempts
         /\ \A q \in Procs \ {p} : claim'[q] = claim[q]
<1> PICK c \in Claims : c = claim[p]
  OBVIOUS
<1>1. /\ [c EXCEPT !.at = step] \in Claims /\ [c EXCEPT !.at = step].at = step
      /\ [c EXCEPT !.at = step].attempts = c.attempts
  BY DEF Claims
<1>2. claim' = [claim EXCEPT ![p] = [c EXCEPT !.at = step]]
  BY DEF MoveTo
<1> QED BY <1>1, <1>2

\* So does what a claim has read of the lock.
LEMMA LookTyped ==
  ASSUME claim \in [Procs -> Claims], NEW p \in Procs, NEW step \in Steps, NEW who \in Owners,
         claim' = [claim EXCEPT ![p].at = step, ![p].sees = who]
  PROVE  /\ claim' \in [Procs -> Claims] /\ claim'[p].at = step
         /\ claim'[p].attempts = claim[p].attempts
         /\ \A q \in Procs \ {p} : claim'[q] = claim[q]
<1> PICK c \in Claims : c = claim[p]
  OBVIOUS
<1> DEFINE d == [c EXCEPT !.at = step, !.sees = who]
<1>1. d \in Claims /\ d.at = step /\ d.attempts = c.attempts
  BY DEF Claims
<1>2. claim' = [claim EXCEPT ![p] = d]
  OBVIOUS
<1> HIDE DEF d
<1> QED BY <1>1, <1>2

\* A claim that begins, begins at the first attempt; one that is dropped is none.
LEMMA ClaimBegins ==
  ASSUME claim \in [Procs -> Claims], NEW p \in Procs
  PROVE  /\ Acquire(p) => /\ claim' \in [Procs -> Claims]
                          /\ claim'[p].at = "create" /\ claim'[p].attempts < MaxAttempts
                          /\ \A q \in Procs \ {p} : claim'[q] = claim[q]
         /\ claim' = [claim EXCEPT ![p] = Unclaimed] =>
              /\ claim' \in [Procs -> Claims] /\ claim'[p].at = "out"
              /\ \A q \in Procs \ {p} : claim'[q] = claim[q]
<1>1. /\ [at |-> "create", attempts |-> 0, sees |-> {}] \in Claims /\ Unclaimed \in Claims
      /\ Unclaimed.at = "out" /\ 0 < MaxAttempts
  BY AttemptsAssumption DEF Claims, Steps, Owners, Unclaimed
<1> QED BY <1>1 DEF Acquire

\* The next round of the loop, or none.
LEMMA AgainTyped ==
  ASSUME claim \in [Procs -> Claims], NEW p \in Procs, claim[p].attempts < MaxAttempts, Again(p)
  PROVE  /\ claim' \in [Procs -> Claims] /\ claim'[p].at \in {"create", "refused"}
         /\ claim'[p].at = "create" => claim'[p].attempts < MaxAttempts
         /\ \A q \in Procs \ {p} : claim'[q] = claim[q]
<1> PICK n \in 0 .. MaxAttempts : n = claim[p].attempts
  BY DEF Claims
<1>1. n + 1 \in 0 .. MaxAttempts /\ (n + 1 # MaxAttempts => n + 1 < MaxAttempts)
  BY AttemptsAssumption
<1> PICK c : c = [at |-> IF n + 1 = MaxAttempts THEN "refused" ELSE "create",
                  attempts |-> n + 1, sees |-> {}]
  OBVIOUS
<1>2. /\ c \in Claims /\ c.at \in {"create", "refused"}
      /\ c.at = "create" => c.attempts < MaxAttempts
  BY <1>1 DEF Claims, Steps, Owners
<1>3. claim' = [claim EXCEPT ![p] = c]
  BY DEF Again
<1> QED BY <1>2, <1>3

\* Reading the lock and asking for its owner decide what comes next, and nothing else.
LEMMA LookingKeeps ==
  ASSUME file \in Locks, claim \in [Procs -> Claims], NEW p \in Procs,
         ReadExisting(p) \/ Probe(p), claim[p].attempts < MaxAttempts
  PROVE  /\ file' = file /\ alive' = alive /\ overreached' = overreached
         /\ claim' \in [Procs -> Claims]
         /\ claim'[p].at \in {"create", "refused", "probe", "steal"}
         /\ claim'[p].at \in {"create", "probe", "steal"} => claim'[p].attempts < MaxAttempts
         /\ \A q \in Procs \ {p} : claim'[q] = claim[q]
<1>1. /\ file' = file /\ alive' = alive /\ overreached' = overreached
      /\ \/ Again(p) \/ MoveTo(p, "refused")
         \/ \E step \in {"probe", "refused", "steal"}, who \in Owners :
              claim' = [claim EXCEPT ![p].at = step, ![p].sees = who]
  BY DEF ReadExisting, Probe, Sees, Locks, Owners
<1>2. CASE Again(p)
  BY <1>1, <1>2, AgainTyped
<1>3. CASE MoveTo(p, "refused")
  BY <1>1, <1>3, ClaimTyped DEF Steps
<1>4. ASSUME NEW step \in {"probe", "refused", "steal"}, NEW who \in Owners,
             claim' = [claim EXCEPT ![p].at = step, ![p].sees = who]
      PROVE  /\ claim' \in [Procs -> Claims]
             /\ claim'[p].at \in {"create", "refused", "probe", "steal"}
             /\ claim'[p].attempts < MaxAttempts
             /\ \A q \in Procs \ {p} : claim'[q] = claim[q]
  BY <1>4, LookTyped DEF Steps
<1> QED BY <1>1, <1>2, <1>3, <1>4

\* Taking the lock.
LEMMA AcquiringKeeps ==
  ASSUME PidFileTypeOK, file \in Locks, claim \in [Procs -> Claims], NEW p \in Procs,
         Acquiring(p), claim[p].at \in Looping => claim[p].attempts < MaxAttempts
  PROVE  /\ PidFileTypeOK' /\ claim' \in [Procs -> Claims] /\ alive' = alive
         /\ \A q \in Procs \ {p} : claim'[q] = claim[q]
         /\ claim'[p].at \in AcquireSteps
         /\ claim'[p].at \in Looping => claim'[p].attempts < MaxAttempts
<1>a. alive \subseteq Procs /\ overreached \in BOOLEAN
  BY DEF PidFileTypeOK
<1>1. CASE Create(p)
  <2>1. claim[p].attempts < MaxAttempts /\ alive' = alive /\ overreached' = overreached
    BY <1>1 DEF Create, At, Looping
  <2>2. file' \in Locks
    <3>1. file' = [owner |-> {p}, full |-> FALSE] \/ file' = file
      BY <1>1 DEF Create
    <3> QED BY <3>1, NewLockTyped
  <2>3. PICK step \in {"fill", "read"} : MoveTo(p, step)
    BY <1>1 DEF Create
  <2>4. /\ claim' \in [Procs -> Claims] /\ claim'[p].at = step
        /\ claim'[p].attempts = claim[p].attempts
        /\ \A q \in Procs \ {p} : claim'[q] = claim[q]
    BY <2>3, ClaimTyped DEF Steps
  <2> QED BY <1>a, <2>1, <2>2, <2>3, <2>4, LockStaysTyped DEF AcquireSteps, Looping
<1>2. CASE Fill(p)
  <2>1. file' \in Locks /\ alive' = alive /\ overreached' = overreached
    BY <1>2 DEF Fill, Locks
  <2>2. MoveTo(p, "held")
    BY <1>2 DEF Fill
  <2>3. /\ claim' \in [Procs -> Claims] /\ claim'[p].at = "held"
        /\ \A q \in Procs \ {p} : claim'[q] = claim[q]
    BY <2>2, ClaimTyped DEF Steps
  <2> QED BY <1>a, <2>1, <2>3, LockStaysTyped DEF AcquireSteps, Looping
<1>3. CASE ReadExisting(p) \/ Probe(p)
  <2>1. claim[p].attempts < MaxAttempts
    BY <1>3 DEF ReadExisting, Probe, At, Looping
  <2>2. /\ file' = file /\ alive' = alive /\ overreached' = overreached
        /\ claim' \in [Procs -> Claims]
        /\ claim'[p].at \in {"create", "refused", "probe", "steal"}
        /\ claim'[p].at \in {"create", "probe", "steal"} => claim'[p].attempts < MaxAttempts
        /\ \A q \in Procs \ {p} : claim'[q] = claim[q]
    BY <1>3, <2>1, LookingKeeps
  <2> QED BY <1>a, <2>2, LockStaysTyped DEF AcquireSteps, Looping
<1>4. CASE Steal(p)
  <2>1. /\ claim[p].attempts < MaxAttempts /\ file' = NoFile /\ alive' = alive /\ Again(p)
        /\ overreached' \in BOOLEAN
    BY <1>a, <1>4 DEF Steal, Remove, At, Looping
  <2>2. file' \in Locks
    BY <2>1, NewLockTyped
  <2>3. /\ claim' \in [Procs -> Claims] /\ claim'[p].at \in {"create", "refused"}
        /\ claim'[p].at = "create" => claim'[p].attempts < MaxAttempts
        /\ \A q \in Procs \ {p} : claim'[q] = claim[q]
    BY <2>1, AgainTyped
  <2> QED BY <1>a, <2>1, <2>2, <2>3, LockStaysTyped DEF AcquireSteps, Looping
<1> QED BY <1>1, <1>2, <1>3, <1>4 DEF Acquiring

-----------------------------------------------------------------------------
(* Steps of a push.                                                         *)

\* What the invariant says of a push.
LEMMA ThePush ==
  ASSUME PushInv, NEW p \in Procs
  PROVE  /\ PushTypes /\ ClaimAgrees(p) /\ \A f \in Paths : FileShape(p, f)
         /\ run[p] \in RunRecord /\ run \in [Procs -> RunRecord]
         /\ manifest \in [torn : BOOLEAN, files : Files]
         /\ \A f \in Paths : EntryTrue(manifest.files[f], f)
         /\ overtaken \in BOOLEAN
  BY DEF PushInv, PushShape, PushTypes

\* A push begins: by hand, by a timer, or because a change came during the last one.
LEMMA StartPushKeeps ==
  ASSUME PushInv, NEW p \in Procs, p \in alive, NEW force \in BOOLEAN, StartPush(p, force),
         run[p].pc \in {"idle", "ended"},
         UNCHANGED <<file, alive, overreached, job, disk, server, manifest, overtaken>>,
         watch' \in [on : BOOLEAN, timers : SUBSET Paths, queued : BOOLEAN, inFlight : BOOLEAN],
         WatchShape'
  PROVE  PushInv'
<1>1. /\ PushTypes /\ ClaimAgrees(p) /\ \A f \in Paths : FileShape(p, f)
      /\ run \in [Procs -> RunRecord]
      /\ manifest \in [torn : BOOLEAN, files : Files]
      /\ \A f \in Paths : EntryTrue(manifest.files[f], f)
  BY ThePush
<1>2. /\ claim[p].at = "out" /\ \A f \in Paths : job[p][f] = NoJob
  BY <1>1 DEF ClaimAgrees, FileShape
<1>3. ServerGrows /\ server' \in [Paths -> Seq(Contents)]
  BY <1>1, SameServerGrows DEF PushTypes
<1>4. \A f \in Paths : EntryTrue(manifest.files[f], f)'
  BY <1>1 DEF EntryTrue, Top
<1>5. \A f \in Paths : Top(f) \in Nat /\ Top(f)' = Top(f)
  BY <1>1, TopTyped DEF Top
<1>a. CASE manifest.torn
  <2> PICK r : r = [NoRun EXCEPT !.pc = "ended", !.bad = TRUE]
    OBVIOUS
  <2>1. r \in RunRecord /\ r.pc = "ended" /\ r.work = NoFiles /\ r.base = NoFiles
        /\ r.saw = [f \in Paths |-> 0]
    BY EmptyTyped DEF NoRun, RunRecord
  <2>2. run' = [run EXCEPT ![p] = r] /\ claim' = claim
    BY <1>a DEF StartPush
  <2>3. run'[p] = r /\ (\A q \in Procs \ {p} : run'[q] = run[q]) /\ run' \in [Procs -> RunRecord]
    BY <1>1, <2>1, <2>2
  <2>4. PushTypes'
    BY <1>1, <2>2, <2>3 DEF PushTypes, PidFileTypeOK
  <2>5. ClaimAgrees(p)'
    BY <1>1, <1>2, <2>1, <2>2, <2>3 DEF ClaimAgrees
  <2>6. ASSUME NEW f \in Paths PROVE FileShape(p, f)'
    BY <1>2, <1>5, <2>1, <2>3 DEF FileShape, EntryTrue, NoFiles, NoJob, NoEntry
  <2>7. PushShape(p)'
    BY <2>5, <2>6 DEF PushShape
  <2> QED BY <1>3, <1>4, <2>2, <2>3, <2>4, <2>7, OneMoves
<1>b. CASE ~manifest.torn
  <2> PICK saw : saw = [f \in Paths |-> IF force THEN 0 ELSE Top(f)]
    OBVIOUS
  <2>1. saw \in [Paths -> Nat] /\ \A f \in Paths : saw[f] <= Top(f)
    BY <1>5
  <2> PICK r : r = [NoRun EXCEPT !.pc = "acquire", !.base = manifest.files,
                                 !.work = manifest.files, !.force = force, !.saw = saw]
    OBVIOUS
  <2>2. manifest.files \in Files
    BY <1>1
  <2>3. /\ r \in RunRecord /\ r.pc = "acquire" /\ r.work = manifest.files
        /\ r.base = manifest.files /\ r.saw = saw
    BY <2>1, <2>2, EmptyTyped DEF NoRun, RunRecord
  <2>4. run' = [run EXCEPT ![p] = r] /\ Acquire(p)
    BY <1>b DEF StartPush
  <2>5. run'[p] = r /\ (\A q \in Procs \ {p} : run'[q] = run[q]) /\ run' \in [Procs -> RunRecord]
    BY <1>1, <2>3, <2>4
  <2>6. /\ claim' \in [Procs -> Claims]
        /\ claim'[p].at = "create" /\ claim'[p].attempts < MaxAttempts
        /\ \A q \in Procs \ {p} : claim'[q] = claim[q]
    BY <2>4, LockTyped, ClaimBegins
  <2>7. PushTypes'
    <3>1. PidFileTypeOK'
      BY <2>6, LockTyped, LockStaysTyped
    <3> QED BY <1>1, <2>5, <3>1 DEF PushTypes
  <2>9. ClaimAgrees(p)'
    BY <1>1, <2>3, <2>5, <2>6 DEF ClaimAgrees, Looping, AcquireSteps
  <2>10. ASSUME NEW f \in Paths PROVE FileShape(p, f)'
    <3>1. manifest.files[f].seq \in Nat
      BY <2>2, EntriesTyped
    <3>2. manifest.files[f].seq <= manifest.files[f].seq
      BY <3>1
    <3>3. EntryTrue(run[p].work[f], f)'
      BY <1>4, <2>3, <2>5 DEF EntryTrue
    <3> QED BY <1>2, <1>5, <2>1, <2>3, <2>5, <3>2, <3>3 DEF FileShape, NoJob
  <2>11. PushShape(p)'
    BY <2>9, <2>10 DEF PushShape
  <2> QED BY <1>3, <1>4, <2>5, <2>6, <2>7, <2>11, OneMoves
<1> QED BY <1>a, <1>b

\* A push by hand.
LEMMA PushKeeps ==
  ASSUME PushInv, NEW p \in Procs, Push(p) PROVE PushInv'
<1>1. /\ p \in alive /\ p # Watcher /\ run[p].pc \in {"idle", "ended"}
      /\ UNCHANGED <<file, alive, overreached, job, disk, watch, server, manifest, overtaken>>
  BY DEF Push, Manual, worldVars
<1> PICK force \in BOOLEAN : StartPush(p, force)
  BY DEF Push
<1>2. run'[Watcher] = run[Watcher]
  BY <1>1, ThePush, PushAssumption DEF StartPush
<1>3. WatchShape'
  BY <1>1, <1>2, WatchStays
<1> QED BY <1>1, <1>3, StartPushKeeps DEF PushInv, PushTypes

\* The lock is sought, and found or refused.
LEMMA LockStepsKeep ==
  ASSUME PushInv, NEW p \in Procs, ClaimLock(p) \/ LockRefused(p) \/ LockTaken(p)
  PROVE  PushInv'
<1>1. /\ PushTypes /\ ClaimAgrees(p) /\ \A f \in Paths : FileShape(p, f)
      /\ run[p] \in RunRecord /\ manifest \in [torn : BOOLEAN, files : Files]
      /\ \A f \in Paths : EntryTrue(manifest.files[f], f)
      /\ overtaken \in BOOLEAN
  BY ThePush
<1>2. run[p].pc = "acquire" /\ \A f \in Paths : job[p][f] = NoJob
  BY <1>1 DEF ClaimLock, LockRefused, LockTaken, FileShape
<1>3. CASE ClaimLock(p)
  <2>1. /\ PidFileTypeOK' /\ alive' = alive
        /\ \A q \in Procs \ {p} : claim'[q] = claim[q]
        /\ claim'[p].at \in AcquireSteps
        /\ claim'[p].at \in Looping => claim'[p].attempts < MaxAttempts
    BY <1>1, <1>3, LockTyped, AcquiringKeeps DEF ClaimLock, ClaimAgrees, PushTypes
  <2>2. UNCHANGED <<run, job, disk, watch, server, manifest, overtaken>>
    BY <1>3 DEF ClaimLock, pushVars, worldVars
  <2>3. ClaimAgrees(p)'
    BY <1>1, <1>2, <2>1, <2>2 DEF ClaimAgrees
  <2> QED BY <2>1, <2>2, <2>3, ClaimMoves
<1>4. CASE LockRefused(p)
  <2> PICK r : r = [run[p] EXCEPT !.pc = "ended", !.bad = TRUE]
    OBVIOUS
  <2>1. /\ r \in RunRecord /\ r.pc = "ended" /\ r.work = run[p].work /\ r.base = run[p].base
        /\ r.saw = run[p].saw /\ r.force = run[p].force
    BY <1>1 DEF RunRecord
  <2>2. /\ run' = [run EXCEPT ![p] = r] /\ MoveTo(p, "out") /\ p \in alive
        /\ UNCHANGED <<file, alive, overreached, job, disk, watch, server, manifest, overtaken>>
    BY <1>4 DEF LockRefused, worldVars, At
  <2>3. /\ claim' \in [Procs -> Claims] /\ claim'[p].at = "out"
        /\ \A q \in Procs \ {p} : claim'[q] = claim[q]
    BY <2>2, LockTyped, ClaimTyped DEF Steps
  <2>4. /\ run'[p] = r /\ \A q \in Procs \ {p} : run'[q] = run[q]
        /\ run' \in [Procs -> RunRecord]
    BY <1>1, <2>1, <2>2 DEF PushTypes
  <2>5. PushTypes'
    <3>1. PidFileTypeOK'
      BY <2>2, <2>3, LockTyped, LockStaysTyped
    <3> QED BY <1>1, <2>2, <2>4, <3>1 DEF PushTypes
  <2>6. \A f \in Paths : FileShape(p, f)'
    BY <1>1, <1>2, <2>1, <2>2, <2>4 DEF FileShape, EntryTrue, Top
  <2>7. ClaimAgrees(p)'
    BY <2>1, <2>2, <2>3, <2>4 DEF ClaimAgrees, Looping
  <2>8. \A f \in Paths : EntryTrue(manifest.files[f], f)'
    BY <1>1, <2>2 DEF EntryTrue, Top
  <2>9. WatchShape'
    BY <1>2, <2>2, <2>4, WatchStays
  <2>10. ServerGrows
    BY <1>1, <2>2, SameServerGrows
  <2> QED BY <2>2, <2>3, <2>4, <2>5, <2>6, <2>7, <2>8, <2>9, <2>10, OneMoves DEF PushShape
<1>5. CASE LockTaken(p)
  <2> PICK r : r = [run[p] EXCEPT !.pc = "connect"]
    OBVIOUS
  <2>1. /\ r \in RunRecord /\ r.pc = "connect" /\ r.work = run[p].work /\ r.base = run[p].base
        /\ r.saw = run[p].saw /\ r.force = run[p].force
    BY <1>1 DEF RunRecord
  <2>2. /\ run' = [run EXCEPT ![p] = r] /\ p \in alive /\ claim[p].at = "held"
        /\ UNCHANGED <<pidFileVars, job, disk, watch, server, manifest>>
    BY <1>5 DEF LockTaken, worldVars, At
  <2>3. run'[p] = r
    BY <1>1, <2>2 DEF PushTypes
  <2>4. ClaimAgrees(p)'
    BY <2>1, <2>2, <2>3 DEF ClaimAgrees, Looping, pidFileVars
  <2>5. overtaken' \in BOOLEAN
    BY <1>5 DEF LockTaken
  <2> QED BY <1>1, <1>2, <2>1, <2>2, <2>4, <2>5, RunMoves
<1> QED BY <1>3, <1>4, <1>5

\* Connecting, or failing to; the workers are done.
LEMMA ConnectKeeps ==
  ASSUME PushInv, NEW p \in Procs, Connect(p) \/ ConnectFails(p) \/ WorkersDone(p)
  PROVE  PushInv'
<1>1. /\ PushTypes /\ ClaimAgrees(p) /\ \A f \in Paths : FileShape(p, f)
      /\ run[p] \in RunRecord /\ manifest \in [torn : BOOLEAN, files : Files]
      /\ \A f \in Paths : EntryTrue(manifest.files[f], f)
      /\ overtaken \in BOOLEAN
  BY ThePush
<1>2. /\ p \in alive /\ run[p].pc \in {"connect", "push"} /\ claim[p].at = "held"
      /\ UNCHANGED <<pidFileVars, job, disk, watch, server, manifest, overtaken>>
  BY <1>1 DEF Connect, ConnectFails, WorkersDone, worldVars, ClaimAgrees
<1>3. ASSUME NEW r \in RunRecord, run' = [run EXCEPT ![p] = r],
             r.pc \in {"push", "save"}, r.work = run[p].work, r.base = run[p].base,
             r.saw = run[p].saw, r.force = run[p].force,
             r.pc = "push" \/ \A f \in Paths : job[p][f] = NoJob
      PROVE  PushInv'
  <2>1. run'[p] = r
    BY <1>1, <1>3 DEF PushTypes
  <2>2. ClaimAgrees(p)'
    BY <1>2, <1>3, <2>1 DEF ClaimAgrees, Looping, pidFileVars
  <2> QED BY <1>1, <1>2, <1>3, <2>2, RunMoves
<1>4. CASE Connect(p)
  <2> PICK todo \in SUBSET Paths : todo = {f \in Paths : disk[f] # None}
    OBVIOUS
  <2> PICK r : r = [run[p] EXCEPT !.pc = "push", !.todo = todo]
    OBVIOUS
  <2>1. /\ r \in RunRecord /\ r.pc = "push" /\ r.work = run[p].work /\ r.base = run[p].base
        /\ r.saw = run[p].saw /\ r.force = run[p].force
    BY <1>1 DEF RunRecord
  <2>2. run' = [run EXCEPT ![p] = r]
    BY <1>4 DEF Connect
  <2> QED BY <1>3, <2>1, <2>2
<1>5. CASE ConnectFails(p)
  <2> PICK r : r = [run[p] EXCEPT !.pc = "save", !.bad = TRUE]
    OBVIOUS
  <2>1. /\ r \in RunRecord /\ r.pc = "save" /\ r.work = run[p].work /\ r.base = run[p].base
        /\ r.saw = run[p].saw /\ r.force = run[p].force
    BY <1>1 DEF RunRecord
  <2>2. run' = [run EXCEPT ![p] = r]
    BY <1>5 DEF ConnectFails
  <2>3. \A f \in Paths : job[p][f] = NoJob
    BY <1>1, <1>5 DEF ConnectFails, FileShape
  <2> QED BY <1>3, <2>1, <2>2, <2>3
<1>6. CASE WorkersDone(p)
  <2> PICK r : r = [run[p] EXCEPT !.pc = "save"]
    OBVIOUS
  <2>1. /\ r \in RunRecord /\ r.pc = "save" /\ r.work = run[p].work /\ r.base = run[p].base
        /\ r.saw = run[p].saw /\ r.force = run[p].force
    BY <1>1 DEF RunRecord
  <2>2. run' = [run EXCEPT ![p] = r]
    BY <1>6 DEF WorkersDone
  <2>3. \A f \in Paths : job[p][f] = NoJob
    <3> TAKE f \in Paths
    <3>1. job[p][f].step = "none" /\ job[p][f] \in JobRecord
      BY <1>1, <1>6 DEF WorkersDone, Busy, PushTypes
    <3> QED BY <3>1 DEF JobRecord, Jobs
  <2> QED BY <1>3, <2>1, <2>2, <2>3
<1> QED BY <1>4, <1>5, <1>6

-----------------------------------------------------------------------------
(* Steps of a file.                                                         *)

\* A job that ends, or goes on without the server having anything new.
LEMMA JobMoves ==
  ASSUME PushInv, NEW p \in Procs, NEW f \in Paths, NEW r \in RunRecord, NEW j \in JobRecord,
         run[p].pc = "push", run' = [run EXCEPT ![p] = r], job' = [job EXCEPT ![p][f] = j],
         r.pc = "push", r.base = run[p].base, r.saw = run[p].saw, r.force = run[p].force,
         \A g \in Paths \ {f} : r.work[g] = run[p].work[g],
         UNCHANGED <<pidFileVars, disk, watch, server, manifest, overtaken>>,
         EntryTrue(r.work[f], f), run[p].base[f].seq <= r.work[f].seq,
         j.step = "update" /\ ~r.force => r.saw[f] <= r.work[f].seq,
         j.step # "answered"
  PROVE  PushInv'
<1>1. PushTypes /\ FileShape(p, f)
  BY ThePush
<1>2. run'[p] = r /\ job'[p][f] = j
  BY <1>1 DEF PushTypes
<1>3. FileShape(p, f)'
  BY <1>1, <1>2 DEF FileShape, EntryTrue, Top
<1>4. ServerGrows /\ server' \in [Paths -> Seq(Contents)]
  BY <1>1, SameServerGrows DEF PushTypes
<1> QED BY <1>3, <1>4, FileMoves

\* A worker takes a file, checks its status, or gives it up.
LEMMA StartFileKeeps ==
  ASSUME PushInv, NEW p \in Procs, NEW f \in Paths,
         StartFile(p, f) \/ CheckStatus(p, f) \/ FileFails(p, f)
  PROVE  PushInv'
<1>1. /\ PushTypes /\ FileShape(p, f) /\ run[p] \in RunRecord
      /\ job \in [Procs -> [Paths -> JobRecord]] /\ job[p][f] \in JobRecord
      /\ disk[f] \in Contents \cup {None}
      /\ EntryTrue(run[p].work[f], f) /\ run[p].base[f].seq <= run[p].work[f].seq
  BY ThePush DEF PushTypes, FileShape
<1>2. /\ run[p].pc = "push"
      /\ UNCHANGED <<pidFileVars, disk, watch, server, manifest, overtaken>>
  BY <1>1 DEF StartFile, CheckStatus, FileFails, Working, Frame, worldVars, Busy, FileShape, NoJob
<1>3. NoJob \in JobRecord /\ NoJob.step = "none"
  BY DEF JobRecord, NoJob
<1>4. CASE StartFile(p, f)
  <2> PICK r : r = [run[p] EXCEPT !.todo = @ \ {f}, !.bad = @ \/ disk[f] = None]
    OBVIOUS
  <2>1. /\ r \in RunRecord /\ r.pc = "push" /\ r.work = run[p].work /\ r.base = run[p].base
        /\ r.saw = run[p].saw /\ r.force = run[p].force
    BY <1>1, <1>2 DEF RunRecord
  <2> PICK j : j = JobFor(p, f)
    OBVIOUS
  <2>2. j \in JobRecord /\ j.step \in {"none", "create", "status"}
    <3>1. CASE disk[f] = None \/ Unchanged(p, f)
      BY <1>3, <3>1 DEF JobFor
    <3>2. CASE ~(disk[f] = None \/ Unchanged(p, f))
      BY <1>1, <3>2 DEF JobFor, NewJob, JobRecord, Jobs
    <3> QED BY <3>1, <3>2
  <2>3. run' = [run EXCEPT ![p] = r] /\ job' = [job EXCEPT ![p][f] = j]
    BY <1>4 DEF StartFile
  <2> QED BY <1>1, <1>2, <2>1, <2>2, <2>3, JobMoves
<1>5. CASE CheckStatus(p, f) /\ Conflicts(p, f)
  <2> PICK r : r = [run[p] EXCEPT !.bad = TRUE]
    OBVIOUS
  <2>1. /\ r \in RunRecord /\ r.pc = "push" /\ r.work = run[p].work /\ r.base = run[p].base
        /\ r.saw = run[p].saw /\ r.force = run[p].force
    BY <1>1, <1>2 DEF RunRecord
  <2>2. run' = [run EXCEPT ![p] = r] /\ job' = [job EXCEPT ![p][f] = NoJob]
    BY <1>5 DEF CheckStatus, FinishFile
  <2> QED BY <1>1, <1>2, <1>3, <2>1, <2>2, JobMoves
<1>6. CASE CheckStatus(p, f) /\ ~Conflicts(p, f)
  <2> PICK r : r = run[p]
    OBVIOUS
  <2>1. r \in RunRecord /\ r.pc = "push" /\ run' = [run EXCEPT ![p] = r]
    BY <1>1, <1>2, <1>6 DEF CheckStatus, PushTypes
  <2> PICK j : j = [job[p][f] EXCEPT !.step = "update"]
    OBVIOUS
  <2>2. job[p][f] \in Jobs
    BY <1>1, <1>6 DEF CheckStatus, Working, JobRecord, NoJob
  <2>3. j \in JobRecord /\ j.step = "update"
    BY <2>2 DEF JobRecord, Jobs
  <2>4. job' = [job EXCEPT ![p][f] = j]
    BY <1>6 DEF CheckStatus
  <2>5. ~r.force => r.saw[f] <= r.work[f].seq
    BY <1>1, <1>6 DEF Conflicts, FileShape
  <2> QED BY <1>1, <1>2, <2>1, <2>3, <2>4, <2>5, JobMoves
<1>7. CASE FileFails(p, f)
  <2> PICK r : r = [run[p] EXCEPT !.bad = TRUE]
    OBVIOUS
  <2>1. /\ r \in RunRecord /\ r.pc = "push" /\ r.work = run[p].work /\ r.base = run[p].base
        /\ r.saw = run[p].saw /\ r.force = run[p].force
    BY <1>1, <1>2 DEF RunRecord
  <2>2. run' = [run EXCEPT ![p] = r] /\ job' = [job EXCEPT ![p][f] = NoJob]
    BY <1>7 DEF FileFails, FinishFile
  <2> QED BY <1>1, <1>2, <1>3, <2>1, <2>2, JobMoves
<1> QED BY <1>4, <1>5, <1>6, <1>7

\* The answer to an upload is the number of a version that reads as the text sent.
AnsweredBy(p, f, n) ==
  /\ Top(f) <= n
  /\ server'[f][n] = job[p][f].text
  /\ job' = [job EXCEPT ![p][f] = [job[p][f] EXCEPT !.step = "answered", !.seq = n]]

\* The server answers with a version it has that reads as the text sent.
LEMMA AnswerIsTrue ==
  ASSUME PushTypes, NEW p \in Procs, NEW f \in Paths, job[p][f] \in Jobs, ServerAnswers(p, f)
  PROVE  /\ server' \in [Paths -> Seq(Contents)] /\ ServerGrows /\ run' = run
         /\ \E n \in 1 .. Top(f)' : AnsweredBy(p, f, n)
<1> DEFINE text == job[p][f].text
           same == Top(f) > 0 /\ server[f][Top(f)] = text
<1>1. text \in Contents
  BY DEF Jobs
<1>2. Top(f) \in Nat /\ server[f] \in Seq(Contents) /\ server \in [Paths -> Seq(Contents)]
  BY TopTyped DEF PushTypes
<1>3. /\ server' = [server EXCEPT ![f] = IF same THEN server[f] ELSE Append(server[f], text)]
      /\ job' = [job EXCEPT ![p][f] =
                  [job[p][f] EXCEPT !.step = "answered",
                     !.seq = Len(IF same THEN server[f] ELSE Append(server[f], text))]]
      /\ run' = run
  BY DEF ServerAnswers
<1>4. CASE same
  <2>1. server' = server
    BY <1>2, <1>3, <1>4
  <2>2. /\ Top(f) \in 1 .. Top(f)' /\ Top(f) <= Top(f) /\ server'[f][Top(f)] = text
        /\ job' = [job EXCEPT ![p][f] = [job[p][f] EXCEPT !.step = "answered", !.seq = Top(f)]]
    BY <1>2, <1>3, <1>4, <2>1 DEF Top
  <2> QED BY <1>2, <1>3, <2>1, <2>2, SameServerGrows DEF AnsweredBy
<1>5. CASE ~same
  <2>1. server' = [server EXCEPT ![f] = Append(server[f], text)]
    BY <1>3, <1>5
  <2>2. /\ server' \in [Paths -> Seq(Contents)] /\ ServerGrows
        /\ Top(f)' = Top(f) + 1 /\ server'[f][Top(f) + 1] = text
    BY <1>1, <2>1, UploadGrows
  <2>3. Len(Append(server[f], text)) = Top(f) + 1
    BY <1>1, <1>2, AppendProperties DEF Top
  <2>4. job' = [job EXCEPT ![p][f] =
                 [job[p][f] EXCEPT !.step = "answered", !.seq = Top(f) + 1]]
    BY <1>3, <1>5, <2>3
  <2>5. Top(f) + 1 \in 1 .. Top(f)' /\ Top(f) <= Top(f) + 1
    BY <1>2, <2>2
  <2> QED BY <1>3, <2>2, <2>4, <2>5 DEF AnsweredBy
<1> QED BY <1>4, <1>5

\* An upload, answered or refused.
LEMMA UploadKeeps ==
  ASSUME PushInv, NEW p \in Procs, NEW f \in Paths, Upload(p, f) PROVE PushInv'
<1>1. /\ PushTypes /\ FileShape(p, f) /\ run[p] \in RunRecord
      /\ job \in [Procs -> [Paths -> JobRecord]] /\ job[p][f] \in JobRecord
      /\ EntryTrue(run[p].work[f], f) /\ run[p].base[f].seq <= run[p].work[f].seq
      /\ run[p].work \in Files
  BY ThePush DEF PushTypes, FileShape, RunRecord
<1>2. /\ run[p].pc = "push" /\ job[p][f].step \in {"update", "create"}
      /\ UNCHANGED <<pidFileVars, disk, watch, manifest, overtaken>>
  BY DEF Upload, Working, Frame, worldVars
<1>3. CASE ServerAnswers(p, f)
  <2>1. job[p][f] \in Jobs
    BY <1>1, <1>2 DEF JobRecord, NoJob
  <2>2. server' \in [Paths -> Seq(Contents)] /\ ServerGrows /\ run' = run
    BY <1>1, <1>3, <2>1, AnswerIsTrue
  <2> PICK n \in 1 .. Top(f)' : AnsweredBy(p, f, n)
    BY <1>1, <1>3, <2>1, AnswerIsTrue
  <2>3. /\ n \in 1 .. Top(f)' /\ Top(f) <= n
        /\ server'[f][n] = job[p][f].text
        /\ job' = [job EXCEPT ![p][f] = [job[p][f] EXCEPT !.step = "answered", !.seq = n]]
    BY DEF AnsweredBy
  <2> PICK j : j = [job[p][f] EXCEPT !.step = "answered", !.seq = n]
    OBVIOUS
  <2>4. Top(f) \in Nat /\ Top(f)' \in Nat /\ n \in Nat
    BY <1>1, <2>2, TopTyped, LenProperties DEF Top
  <2>5. /\ j \in JobRecord /\ j.step = "answered" /\ j.seq = n /\ j.text = job[p][f].text
    BY <2>1, <2>4 DEF JobRecord, Jobs
  <2> PICK r : r = run[p]
    OBVIOUS
  <2>6. r \in RunRecord /\ run' = [run EXCEPT ![p] = r] /\ run'[p] = r
    BY <1>1, <2>2 DEF PushTypes
  <2>7. job'[p][f] = j
    BY <1>1, <2>3
  <2>8. r.work[f].seq \in Nat /\ r.work[f].seq <= Top(f)
    BY <1>1, <2>4, EntriesTyped DEF EntryTrue, NoEntry
  <2>9. r.work[f].seq <= n
    BY <2>3, <2>4, <2>8
  <2>10. EntryTrue(run[p].work[f], f)'
    <3> PICK e : e = r.work[f]
      OBVIOUS
    <3>1. EntryTrue(e, f)'
      BY <1>1, <2>2, EntryStays
    <3> QED BY <2>6, <3>1 DEF EntryTrue
  <2>11. r.saw[f] <= Top(f)'
    <3>1. r.saw[f] \in Nat /\ r.saw[f] <= Top(f) /\ Top(f) <= Top(f)'
      BY <1>1, <2>2 DEF FileShape, RunRecord, ServerGrows
    <3> QED BY <2>4, <3>1
  <2>12. FileShape(p, f)'
    BY <1>1, <1>2, <2>3, <2>5, <2>6, <2>7, <2>9, <2>10, <2>11 DEF FileShape
  <2> QED BY <1>2, <2>2, <2>3, <2>5, <2>6, <2>12, FileMoves
<1>4. CASE ~ServerAnswers(p, f)
  <2> PICK r : r = [run[p] EXCEPT !.bad = TRUE]
    OBVIOUS
  <2>1. /\ r \in RunRecord /\ r.pc = "push" /\ r.work = run[p].work /\ r.base = run[p].base
        /\ r.saw = run[p].saw /\ r.force = run[p].force
    BY <1>1, <1>2 DEF RunRecord
  <2>2. run' = [run EXCEPT ![p] = r] /\ job' = [job EXCEPT ![p][f] = NoJob] /\ server' = server
    BY <1>4 DEF Upload, FinishFile
  <2>3. NoJob \in JobRecord /\ NoJob.step = "none"
    BY DEF JobRecord, NoJob
  <2> QED BY <1>1, <1>2, <2>1, <2>2, <2>3, JobMoves
<1> QED BY <1>3, <1>4

\* The answer is recorded.
LEMMA RecordKeeps ==
  ASSUME PushInv, NEW p \in Procs, NEW f \in Paths, Record(p, f) PROVE PushInv'
<1>1. /\ PushTypes /\ FileShape(p, f) /\ run[p] \in RunRecord /\ run[p].work \in Files
      /\ run[p].base \in Files /\ job[p][f] \in JobRecord
  BY ThePush DEF PushTypes, RunRecord
<1>2. /\ run[p].pc = "push" /\ job[p][f].step = "answered"
      /\ UNCHANGED <<pidFileVars, disk, watch, server, manifest, overtaken>>
      /\ job' = [job EXCEPT ![p][f] = NoJob]
      /\ run' = [run EXCEPT ![p].work[f] = EntryAnswered(p, f)]
  BY DEF Record, Working, Frame, worldVars, FinishFile
<1> PICK e : e = EntryAnswered(p, f)
  OBVIOUS
<1>3. job[p][f] \in Jobs
  BY <1>1, <1>2 DEF JobRecord, NoJob
<1>4. /\ job[p][f].seq \in 1 .. Top(f) /\ server[f][job[p][f].seq] = job[p][f].text
      /\ run[p].work[f].seq <= job[p][f].seq
  BY <1>1, <1>2 DEF FileShape
<1>5. Top(f) \in Nat
  BY <1>1, TopTyped
<1>6. e.seq = job[p][f].seq /\ e.hash = job[p][f].text /\ EntryTrue(e, f)
  BY <1>4 DEF EntryAnswered, EntryTrue
<1>7. e \in [hash : Contents, seq : Nat \ {0}]
  <2>1. job[p][f].text \in Contents
    BY <1>3 DEF Jobs
  <2>2. job[p][f].seq \in Nat \ {0}
    BY <1>4, <1>5
  <2> QED BY <2>1, <2>2 DEF EntryAnswered
<1> PICK work : work = [run[p].work EXCEPT ![f] = e]
  OBVIOUS
<1>8. work \in Files /\ work[f] = e /\ \A g \in Paths \ {f} : work[g] = run[p].work[g]
  BY <1>1, <1>7 DEF Files
<1> PICK r : r = [run[p] EXCEPT !.work = work]
  OBVIOUS
<1>9. /\ r \in RunRecord /\ r.pc = "push" /\ r.work = work /\ r.base = run[p].base
      /\ r.saw = run[p].saw /\ r.force = run[p].force
  BY <1>1, <1>2, <1>8 DEF RunRecord
<1>10. run' = [run EXCEPT ![p] = r]
  BY <1>2
<1>11. run[p].base[f].seq <= r.work[f].seq
  <2>1. run[p].base[f].seq \in Nat /\ run[p].work[f].seq \in Nat
    BY <1>1, EntriesTyped
  <2>2. run[p].base[f].seq <= run[p].work[f].seq
    BY <1>1 DEF FileShape
  <2> QED BY <1>4, <1>5, <1>6, <1>8, <1>9, <2>1, <2>2
<1>12. NoJob \in JobRecord /\ NoJob.step = "none"
  BY DEF JobRecord, NoJob
<1>13. EntryTrue(r.work[f], f)
  BY <1>6, <1>8, <1>9
<1>14. \A g \in Paths \ {f} : r.work[g] = run[p].work[g]
  BY <1>8, <1>9
<1> QED BY <1>2, <1>9, <1>10, <1>11, <1>12, <1>13, <1>14, JobMoves

-----------------------------------------------------------------------------
(* The end of a push.                                                       *)

\* The manifest is truncated, and written.
LEMMA ManifestKeeps ==
  ASSUME PushInv, NEW p \in Procs, Truncate(p) \/ WriteManifest(p) PROVE PushInv'
<1>1. /\ PushTypes /\ ClaimAgrees(p) /\ \A f \in Paths : FileShape(p, f)
      /\ run[p] \in RunRecord /\ run[p].work \in Files /\ overtaken \in BOOLEAN
  BY ThePush DEF RunRecord
<1>2. /\ p \in alive /\ run[p].pc \in {"save", "fill"} /\ claim[p].at = "held"
      /\ UNCHANGED <<pidFileVars, job, disk, watch, server, overtaken>>
      /\ \A f \in Paths : job[p][f] = NoJob
  BY <1>1 DEF Truncate, WriteManifest, worldVars, ClaimAgrees, FileShape
<1>3. /\ manifest' \in [torn : BOOLEAN, files : Files]
      /\ \A f \in Paths : EntryTrue(manifest'.files[f], f)
  <2>1. CASE Truncate(p)
    BY <2>1, EmptyTyped DEF Truncate, Torn, NoFiles, EntryTrue
  <2>2. CASE WriteManifest(p)
    BY <1>1, <2>2 DEF WriteManifest, FileShape
  <2> QED BY <2>1, <2>2
<1>4. PICK pc \in {"fill", "release"} : run' = [run EXCEPT ![p].pc = pc]
  BY DEF Truncate, WriteManifest
<1> PICK r : r = [run[p] EXCEPT !.pc = pc]
  OBVIOUS
<1>5. /\ r \in RunRecord /\ r.pc = pc /\ r.work = run[p].work /\ r.base = run[p].base
      /\ r.saw = run[p].saw /\ r.force = run[p].force
  BY <1>1, <1>4 DEF RunRecord
<1>6. run' = [run EXCEPT ![p] = r] /\ run'[p] = r
  BY <1>1, <1>4 DEF PushTypes
<1>7. ClaimAgrees(p)'
  BY <1>2, <1>4, <1>5, <1>6 DEF ClaimAgrees, Looping, pidFileVars
<1> QED BY <1>1, <1>2, <1>3, <1>4, <1>5, <1>6, <1>7, RunMoves

\* The lock is given up, if it is still there to give up.
LEMMA ReleaseKeeps ==
  ASSUME PushInv, NEW p \in Procs, Release(p) PROVE PushInv'
<1>1. PushTypes /\ PidFileTypeOK /\ ClaimAgrees(p) /\ run[p].pc = "release"
  BY ThePush DEF Release, PushTypes
<1>2. UNCHANGED <<run, job, disk, watch, server, manifest, overtaken>>
  BY DEF Release, pushVars, worldVars
<1>3. PICK step \in {"remove", "out"} : MoveTo(p, step)
  BY DEF Release, CheckOwner, RemoveOwn
<1>4. /\ file' = file \/ file' = NoFile
      /\ alive' = alive /\ p \in alive /\ overreached' \in BOOLEAN
  BY LockTyped DEF Release, CheckOwner, RemoveOwn, Remove, At
<1>5. /\ claim' \in [Procs -> Claims] /\ claim'[p].at = step
      /\ \A q \in Procs \ {p} : claim'[q] = claim[q]
  BY <1>3, LockTyped, ClaimTyped DEF Steps
<1>6. file' \in Locks
  BY <1>4, LockTyped, NewLockTyped
<1>7. PidFileTypeOK'
  BY <1>4, <1>5, <1>6, LockTyped, LockStaysTyped
<1>8. ClaimAgrees(p)'
  BY <1>1, <1>2, <1>3, <1>4, <1>5 DEF ClaimAgrees, Looping
<1> QED BY <1>2, <1>4, <1>5, <1>7, <1>8, ClaimMoves

\* The push returns.
LEMMA ReturnKeeps ==
  ASSUME PushInv, NEW p \in Procs, Return(p) PROVE PushInv'
<1>1. /\ PushTypes /\ ClaimAgrees(p) /\ \A f \in Paths : FileShape(p, f)
      /\ run[p] \in RunRecord
  BY ThePush
<1>2. /\ run[p].pc = "release" /\ p \in alive /\ claim[p].at = "out"
      /\ UNCHANGED <<pidFileVars, job, disk, watch, server, manifest, overtaken>>
  BY DEF Return, At, worldVars
<1> PICK bad \in BOOLEAN : bad = (run[p].bad \/ run[p].stop)
  OBVIOUS
<1> PICK r : r = [run[p] EXCEPT !.pc = "ended", !.bad = bad, !.saw = [f \in Paths |-> 0],
                                !.todo = {}, !.force = FALSE]
  OBVIOUS
<1>3. /\ r \in RunRecord /\ r.pc = "ended" /\ r.work = run[p].work /\ r.base = run[p].base
      /\ r.saw = [f \in Paths |-> 0]
  BY <1>1 DEF RunRecord
<1>4. /\ run' = [run EXCEPT ![p] = r] /\ run'[p] = r
      /\ \A q \in Procs \ {p} : run'[q] = run[q]
      /\ run' \in [Procs -> RunRecord]
  <2>1. run' = [run EXCEPT ![p] = r]
    BY DEF Return
  <2>2. run \in [Procs -> RunRecord]
    BY <1>1 DEF PushTypes
  <2> QED BY <1>3, <2>1, <2>2
<1>5. PushTypes'
  BY <1>1, <1>2, <1>4 DEF PushTypes, PidFileTypeOK, pidFileVars
<1>6. ClaimAgrees(p)'
  BY <1>2, <1>3, <1>4 DEF ClaimAgrees, Looping, pidFileVars
<1>7. ASSUME NEW f \in Paths PROVE FileShape(p, f)'
  <2>1. Top(f) \in Nat /\ Top(f)' = Top(f) /\ FileShape(p, f)
    BY <1>1, <1>2, TopTyped DEF Top
  <2>2. job[p][f] = NoJob
    BY <1>2, <2>1 DEF FileShape
  <2> QED BY <1>2, <1>3, <1>4, <2>1, <2>2 DEF FileShape, EntryTrue, Top, NoJob
<1>8. PushShape(p)'
  BY <1>6, <1>7 DEF PushShape
<1>9. WatchShape'
  BY <1>2, <1>4, WatchStays DEF pidFileVars
<1>10. ServerGrows /\ \A f \in Paths : EntryTrue(manifest.files[f], f)'
  BY <1>1, <1>2, SameServerGrows DEF PushInv, EntryTrue, Top
<1> QED BY <1>2, <1>4, <1>5, <1>8, <1>9, <1>10, OneMoves DEF pidFileVars

-----------------------------------------------------------------------------
(* Signals, deaths and the world.                                           *)

\* Nobody's push moves.
LEMMA NobodyMoves ==
  ASSUME PushInv, PushTypes', ServerGrows,
         UNCHANGED <<run, job, claim, alive, manifest>>, WatchShape'
  PROVE  PushInv'
<1>1. server' \in [Paths -> Seq(Contents)]
  BY DEF PushTypes
<1>2. PushTypes /\ \A p \in Procs : PushShape(p)
  BY DEF PushInv
<1>3. \A p \in Procs : PushShape(p)'
  BY <1>1, <1>2, OthersStay
<1>4. \A f \in Paths : EntryTrue(manifest.files[f], f)'
  BY <1>1, ManifestStays
<1> QED BY <1>3, <1>4 DEF PushInv

\* A signal is noted.
LEMMA InterruptKeeps ==
  ASSUME PushInv, NEW p \in Procs, Interrupt(p) PROVE PushInv'
<1>1. /\ PushTypes /\ ClaimAgrees(p) /\ \A f \in Paths : FileShape(p, f)
      /\ run[p] \in RunRecord /\ manifest \in [torn : BOOLEAN, files : Files]
      /\ \A f \in Paths : EntryTrue(manifest.files[f], f)
      /\ overtaken \in BOOLEAN
  BY ThePush
<1>2. /\ run[p].pc \in {"connect", "push", "save", "fill"}
      /\ UNCHANGED <<pidFileVars, job, disk, watch, server, manifest, overtaken>>
  BY DEF Interrupt, ListensToSignals, worldVars
<1> PICK r : r = [run[p] EXCEPT !.stop = TRUE]
  OBVIOUS
<1>3. /\ r \in RunRecord /\ r.pc = run[p].pc /\ r.work = run[p].work /\ r.base = run[p].base
      /\ r.saw = run[p].saw /\ r.force = run[p].force
  BY <1>1 DEF RunRecord
<1>4. run' = [run EXCEPT ![p] = r] /\ run'[p] = r
  BY <1>1, <1>3 DEF PushTypes, Interrupt, StopSoon
<1>5. ClaimAgrees(p)'
  BY <1>1, <1>2, <1>3, <1>4 DEF ClaimAgrees, pidFileVars
<1>6. r.pc = "push" \/ \A f \in Paths : job[p][f] = NoJob
  BY <1>1, <1>3 DEF FileShape
<1>7. /\ r.pc \in {"acquire", "connect"} => run[p].pc \in {"acquire", "connect"}
      /\ run[p].pc = "idle" => r.pc = "idle"
      /\ manifest' \in [torn : BOOLEAN, files : Files]
      /\ \A f \in Paths : EntryTrue(manifest'.files[f], f)
      /\ overtaken' \in BOOLEAN
  BY <1>1, <1>2, <1>3
<1> QED BY <1>2, <1>3, <1>4, <1>5, <1>6, <1>7, RunMoves

\* A process dies.
LEMMA CrashKeeps ==
  ASSUME PushInv, NEW p \in Procs, Crash(p) PROVE PushInv'
<1>1. PushTypes /\ WatchShape /\ PidFileTypeOK
  BY DEF PushInv, PushTypes
<1>2. /\ run' = [run EXCEPT ![p] = NoRun]
      /\ job' = [job EXCEPT ![p] = [f \in Paths |-> NoJob]]
      /\ claim' = [claim EXCEPT ![p] = Unclaimed]
      /\ alive' = alive \ {p} /\ file' = file /\ overreached' = overreached
      /\ UNCHANGED <<disk, server, manifest, overtaken>>
  BY DEF Crash, Die
<1>3. /\ run'[p] = NoRun /\ (\A q \in Procs \ {p} : run'[q] = run[q])
      /\ run' \in [Procs -> RunRecord]
  BY <1>1, <1>2, EmptyTyped DEF PushTypes
<1>4. /\ job'[p] = [f \in Paths |-> NoJob] /\ (\A q \in Procs \ {p} : job'[q] = job[q])
      /\ job' \in [Procs -> [Paths -> JobRecord]]
  BY <1>1, <1>2, EmptyTyped DEF PushTypes
<1>5. /\ claim' \in [Procs -> Claims] /\ claim'[p].at = "out"
      /\ \A q \in Procs \ {p} : claim'[q] = claim[q]
  BY <1>2, LockTyped, ClaimBegins
<1>6. watch' \in [on : BOOLEAN, timers : SUBSET Paths, queued : BOOLEAN, inFlight : BOOLEAN]
  <2>1. CASE p = Watcher
    BY <2>1 DEF Crash
  <2>2. CASE p # Watcher
    BY <1>1, <2>2 DEF Crash, PushTypes
  <2> QED BY <2>1, <2>2
<1>7. PushTypes'
  <2>1. PidFileTypeOK'
    BY <1>2, <1>5, LockTyped, LockStaysTyped
  <2> QED BY <1>1, <1>2, <1>3, <1>4, <1>6, <2>1 DEF PushTypes
<1>8. ClaimAgrees(p)'
  BY <1>2, <1>3, <1>5 DEF ClaimAgrees, NoRun, Looping
<1>9. ASSUME NEW f \in Paths PROVE FileShape(p, f)'
  <2>1. Top(f)' \in Nat
    BY <1>7, LenProperties DEF Top, PushTypes
  <2> QED BY <1>3, <1>4, <2>1 DEF FileShape, EntryTrue, NoRun, NoFiles, NoJob, NoEntry
<1>10. PushShape(p)'
  BY <1>8, <1>9 DEF PushShape
<1>11. WatchShape'
  <2>1. CASE p = Watcher
    BY <1>3, <2>1 DEF Crash, WatchShape, NoRun
  <2>2. CASE p # Watcher
    BY <1>1, <1>2, <1>3, <2>2, PushAssumption DEF Crash, WatchShape
  <2> QED BY <2>1, <2>2
<1>12. ServerGrows /\ \A f \in Paths : EntryTrue(manifest.files[f], f)'
  BY <1>1, <1>2, SameServerGrows DEF PushInv, EntryTrue, Top
<1> QED BY <1>2, <1>3, <1>4, <1>5, <1>7, <1>10, <1>11, <1>12, OneMoves

\* The process of a push run by hand exits.
LEMMA LeaveKeeps ==
  ASSUME PushInv, NEW p \in Procs, Leave(p) PROVE PushInv'
<1>1. PushTypes /\ WatchShape /\ PushShape(p)
  BY DEF PushInv
<1>2. /\ run[p].pc = "ended" /\ p # Watcher
      /\ claim' = [claim EXCEPT ![p] = Unclaimed]
      /\ alive' = alive \ {p} /\ file' = file /\ overreached' = overreached
      /\ UNCHANGED <<run, job, disk, watch, server, manifest, overtaken>>
  BY DEF Leave, Manual, Die, pushVars, worldVars
<1>3. /\ claim' \in [Procs -> Claims] /\ claim'[p].at = "out"
      /\ \A q \in Procs \ {p} : claim'[q] = claim[q]
  BY <1>2, LockTyped, ClaimBegins
<1>4. PushTypes'
  <2>1. PidFileTypeOK'
    BY <1>2, <1>3, LockTyped, LockStaysTyped
  <2> QED BY <1>1, <1>2, <2>1 DEF PushTypes
<1>5. ClaimAgrees(p)'
  BY <1>2, <1>3 DEF ClaimAgrees, Looping
<1>6. ServerGrows /\ server' \in [Paths -> Seq(Contents)]
  BY <1>1, <1>2, SameServerGrows DEF PushTypes
<1>7. \A f \in Paths : FileShape(p, f)'
  BY <1>1, <1>2, <1>6, FileShapeStays DEF PushShape
<1>8. PushShape(p)'
  BY <1>5, <1>7 DEF PushShape
<1>9. WatchShape'
  BY <1>1, <1>2, PushAssumption DEF WatchShape
<1>10. \A f \in Paths : EntryTrue(manifest.files[f], f)'
  BY <1>2 DEF PushInv, EntryTrue, Top
<1> QED BY <1>2, <1>3, <1>4, <1>6, <1>8, <1>9, <1>10, OneMoves

\* A timer fires, or the watcher's push is over.
LEMMA WatchStepKeeps ==
  ASSUME PushInv, WatchStep PROVE PushInv'
<1>1. /\ PushTypes /\ WatchShape /\ ClaimAgrees(Watcher) /\ Watcher \in Procs
      /\ \A f \in Paths : FileShape(Watcher, f)
      /\ run \in [Procs -> RunRecord]
  BY PushAssumption, ThePush DEF PushInv
<1> PICK w : w = watch
  OBVIOUS
<1>2. w \in [on : BOOLEAN, timers : SUBSET Paths, queued : BOOLEAN, inFlight : BOOLEAN]
  BY <1>1 DEF PushTypes
<1>3. UNCHANGED <<file, alive, overreached, job, disk, server, manifest, overtaken>>
  BY DEF WatchStep, NextPush, Settle
<1>4. ASSUME NEW timers \in SUBSET Paths, NEW queued \in BOOLEAN, timers \subseteq w.timers,
             watch' = [w EXCEPT !.timers = timers, !.queued = queued, !.inFlight = TRUE],
             w.inFlight \/ w.timers # {},
             run[Watcher].pc \in {"idle", "ended"}, StartPush(Watcher, FALSE)
      PROVE  PushInv'
  <2>1. Watcher \in alive
    BY <1>1, <1>4 DEF WatchShape
  <2>2. /\ watch' \in [on : BOOLEAN, timers : SUBSET Paths, queued : BOOLEAN, inFlight : BOOLEAN]
        /\ watch'.on = w.on /\ watch'.inFlight /\ watch'.timers = timers
    BY <1>2, <1>4
  <2>3. WatchShape'
    BY <1>1, <1>3, <1>4, <2>1, <2>2 DEF WatchShape
  <2> QED BY <1>1, <1>3, <1>4, <2>1, <2>2, <2>3, StartPushKeeps
<1>5. ASSUME NEW f \in Paths, Settle(f), ~w.inFlight PROVE PushInv'
  <2>1. /\ watch' = [w EXCEPT !.timers = w.timers \ {f}, !.inFlight = TRUE]
        /\ StartPush(Watcher, FALSE) /\ f \in w.timers
    BY <1>5 DEF Settle, SchedulePush
  <2> PICK timers : timers = w.timers \ {f}
    OBVIOUS
  <2> PICK queued : queued = w.queued
    OBVIOUS
  <2>2. /\ watch' = [w EXCEPT !.timers = timers, !.queued = queued, !.inFlight = TRUE]
        /\ timers \in SUBSET Paths /\ queued \in BOOLEAN /\ timers \subseteq w.timers
    BY <1>2, <2>1
  <2>3. run[Watcher].pc = "idle"
    BY <1>1, <1>5 DEF WatchShape
  <2> QED BY <1>4, <2>1, <2>2, <2>3
<1>6. ASSUME NEW f \in Paths, Settle(f), w.inFlight PROVE PushInv'
  <2>1. /\ watch' = [w EXCEPT !.timers = w.timers \ {f}, !.queued = TRUE]
        /\ UNCHANGED <<run, claim>>
    BY <1>6 DEF Settle, SchedulePush
  <2>2. /\ watch' \in [on : BOOLEAN, timers : SUBSET Paths, queued : BOOLEAN, inFlight : BOOLEAN]
        /\ watch'.on = w.on /\ watch'.inFlight = w.inFlight /\ watch'.timers = w.timers \ {f}
    BY <1>2, <2>1
  <2>3. PushTypes'
    BY <1>1, <1>3, <2>1, <2>2 DEF PushTypes, PidFileTypeOK
  <2>4. WatchShape'
    BY <1>1, <1>3, <2>1, <2>2 DEF WatchShape
  <2>5. ServerGrows
    BY <1>1, <1>3, SameServerGrows
  <2> QED BY <1>3, <2>1, <2>3, <2>4, <2>5, NobodyMoves
<1>7. CASE NextPush /\ w.queued /\ ~run[Watcher].stop
  <2> PICK timers : timers = w.timers
    OBVIOUS
  <2>1. w.inFlight /\ run[Watcher].pc = "ended" /\ StartPush(Watcher, FALSE)
    BY <1>7 DEF NextPush
  <2>2. watch' = [w EXCEPT !.queued = FALSE]
    BY <1>7 DEF NextPush
  <2>3. watch' = [w EXCEPT !.timers = timers, !.queued = FALSE, !.inFlight = TRUE]
    BY <1>2, <2>1, <2>2
  <2>4. timers \in SUBSET Paths /\ timers \subseteq w.timers
    BY <1>2
  <2> QED BY <1>4, <2>1, <2>3, <2>4
<1>8. CASE NextPush /\ ~(w.queued /\ ~run[Watcher].stop)
  <2>1. /\ watch' = [w EXCEPT !.queued = FALSE, !.inFlight = FALSE]
        /\ run' = [run EXCEPT ![Watcher] = NoRun] /\ claim' = claim
        /\ run[Watcher].pc = "ended"
    BY <1>8 DEF NextPush
  <2>2. /\ watch' \in [on : BOOLEAN, timers : SUBSET Paths, queued : BOOLEAN, inFlight : BOOLEAN]
        /\ watch'.on = w.on /\ watch'.inFlight = FALSE /\ watch'.timers = w.timers
    BY <1>2, <2>1
  <2>3. /\ run'[Watcher] = NoRun /\ (\A q \in Procs \ {Watcher} : run'[q] = run[q])
        /\ run' \in [Procs -> RunRecord]
    BY <1>1, <2>1, EmptyTyped
  <2>4. PushTypes'
    BY <1>1, <1>3, <2>1, <2>2, <2>3 DEF PushTypes, PidFileTypeOK
  <2>5. WatchShape'
    BY <1>1, <1>3, <2>2, <2>3 DEF WatchShape, NoRun
  <2>6. ClaimAgrees(Watcher)'
    BY <1>1, <1>3, <2>1, <2>3 DEF ClaimAgrees, NoRun
  <2>7. ASSUME NEW f \in Paths PROVE FileShape(Watcher, f)'
    <3>1. Top(f)' \in Nat
      BY <2>4, LenProperties DEF Top, PushTypes
    <3>2. job[Watcher][f] = NoJob
      BY <1>1, <2>1 DEF FileShape
    <3> QED BY <1>3, <2>3, <3>1, <3>2 DEF FileShape, EntryTrue, NoRun, NoFiles, NoJob, NoEntry
  <2>8. PushShape(Watcher)'
    BY <2>6, <2>7 DEF PushShape
  <2>9. ServerGrows /\ \A f \in Paths : EntryTrue(manifest.files[f], f)'
    BY <1>1, <1>3, SameServerGrows DEF PushInv, EntryTrue, Top
  <2> QED BY <1>1, <1>3, <2>1, <2>3, <2>4, <2>5, <2>8, <2>9, OneMoves
<1> QED BY <1>5, <1>6, <1>7, <1>8 DEF WatchStep

\* The watcher is told to stop.
LEMMA StopWatchKeeps ==
  ASSUME PushInv, StopWatch PROVE PushInv'
<1>1. /\ PushTypes /\ WatchShape /\ ClaimAgrees(Watcher) /\ Watcher \in Procs
      /\ \A f \in Paths : FileShape(Watcher, f)
      /\ run[Watcher] \in RunRecord /\ run \in [Procs -> RunRecord]
  BY PushAssumption, ThePush DEF PushInv
<1>2. UNCHANGED <<pidFileVars, job, disk, server, manifest, overtaken>>
  BY DEF StopWatch
<1>3. /\ watch' \in [on : BOOLEAN, timers : SUBSET Paths, queued : BOOLEAN, inFlight : BOOLEAN]
      /\ ~watch'.on /\ watch'.inFlight = watch.inFlight /\ watch'.timers = {}
  <2> PICK w : w = watch
    OBVIOUS
  <2>1. w \in [on : BOOLEAN, timers : SUBSET Paths, queued : BOOLEAN, inFlight : BOOLEAN]
    BY <1>1 DEF PushTypes
  <2>2. watch' = [w EXCEPT !.on = FALSE, !.timers = {}]
    BY DEF StopWatch
  <2> QED BY <2>1, <2>2
<1> PICK r : r = IF ListensToSignals(Watcher) THEN [run[Watcher] EXCEPT !.stop = TRUE]
                 ELSE run[Watcher]
  OBVIOUS
<1>4. /\ r \in RunRecord /\ r.pc = run[Watcher].pc /\ r.work = run[Watcher].work
      /\ r.base = run[Watcher].base /\ r.saw = run[Watcher].saw
      /\ r.force = run[Watcher].force
  BY <1>1 DEF RunRecord
<1>5. /\ run'[Watcher] = r /\ (\A q \in Procs \ {Watcher} : run'[q] = run[q])
      /\ run' \in [Procs -> RunRecord]
  <2>1. CASE ListensToSignals(Watcher)
    <3>1. run' = [run EXCEPT ![Watcher] = r]
      BY <2>1 DEF StopWatch, StopSoon
    <3> QED BY <1>1, <1>4, <3>1
  <2>2. CASE ~ListensToSignals(Watcher)
    BY <1>1, <2>2 DEF StopWatch
  <2> QED BY <2>1, <2>2
<1>6. PushTypes'
  BY <1>1, <1>2, <1>3, <1>5 DEF PushTypes, PidFileTypeOK, pidFileVars
<1>7. WatchShape'
  BY <1>1, <1>2, <1>3, <1>4, <1>5 DEF WatchShape, pidFileVars
<1>8. ClaimAgrees(Watcher)'
  BY <1>1, <1>2, <1>4, <1>5 DEF ClaimAgrees, pidFileVars
<1>9. \A f \in Paths : FileShape(Watcher, f)'
  BY <1>1, <1>2, <1>4, <1>5 DEF FileShape, EntryTrue, Top
<1>10. PushShape(Watcher)'
  BY <1>8, <1>9 DEF PushShape
<1>11. ServerGrows /\ \A f \in Paths : EntryTrue(manifest.files[f], f)'
  BY <1>1, <1>2, SameServerGrows DEF PushInv, EntryTrue, Top
<1> QED BY <1>1, <1>2, <1>5, <1>6, <1>7, <1>10, <1>11, OneMoves DEF pidFileVars

\* A file is edited.
LEMMA EditKeeps ==
  ASSUME PushInv, NEW f \in Paths, NEW text \in Contents \cup {None}, Edit(f, text)
  PROVE  PushInv'
<1>1. PushTypes /\ WatchShape
  BY DEF PushInv
<1>2. /\ disk' = [disk EXCEPT ![f] = text]
      /\ UNCHANGED <<pidFileVars, run, job, server, manifest, overtaken>>
  BY DEF Edit, pushVars
<1>3. /\ watch' \in [on : BOOLEAN, timers : SUBSET Paths, queued : BOOLEAN, inFlight : BOOLEAN]
      /\ watch'.on = watch.on /\ watch'.inFlight = watch.inFlight
      /\ watch'.timers # {} => watch.timers # {} \/ watch.on
  <2> PICK w : w = watch
    OBVIOUS
  <2>1. w \in [on : BOOLEAN, timers : SUBSET Paths, queued : BOOLEAN, inFlight : BOOLEAN]
    BY <1>1 DEF PushTypes
  <2>2. (w.on /\ watch' = [w EXCEPT !.timers = w.timers \cup {f}]) \/ watch' = w
    BY DEF Edit
  <2> QED BY <2>1, <2>2
<1>4. disk' \in [Paths -> Contents \cup {None}]
  BY <1>1, <1>2 DEF PushTypes
<1>5. PushTypes'
  BY <1>1, <1>2, <1>3, <1>4 DEF PushTypes, PidFileTypeOK, pidFileVars
<1>6. WatchShape'
  BY <1>1, <1>2, <1>3 DEF WatchShape, pidFileVars
<1>7. ServerGrows
  BY <1>1, <1>2, SameServerGrows
<1> QED BY <1>2, <1>5, <1>6, <1>7, NobodyMoves DEF pidFileVars

\* A document is uploaded from elsewhere.
LEMMA ElsewhereKeeps ==
  ASSUME PushInv, NEW f \in Paths, NEW text \in Contents, UploadElsewhere(f, text)
  PROVE  PushInv'
<1>1. PushTypes
  BY DEF PushInv
<1>2. /\ server' = [server EXCEPT ![f] = Append(server[f], text)]
      /\ UNCHANGED <<pidFileVars, run, job, disk, watch, manifest, overtaken>>
  BY DEF UploadElsewhere, pushVars, worldVars
<1>3. server' \in [Paths -> Seq(Contents)] /\ ServerGrows
  BY <1>1, <1>2, UploadGrows
<1>4. PushTypes'
  BY <1>1, <1>2, <1>3 DEF PushTypes, PidFileTypeOK, pidFileVars
<1>5. WatchShape'
  BY <1>2, WatchStays DEF pidFileVars
<1> QED BY <1>2, <1>3, <1>4, <1>5, NobodyMoves DEF pidFileVars

-----------------------------------------------------------------------------
(* Whatever happens.                                                        *)

\* A step of a push keeps the invariant.
LEMMA PushStepKeeps ==
  ASSUME PushInv, NEW p \in Procs, PushStep(p) PROVE PushInv'
<1>1. CASE ClaimLock(p) \/ LockRefused(p) \/ LockTaken(p)
  BY <1>1, LockStepsKeep
<1>2. CASE Connect(p) \/ ConnectFails(p) \/ WorkersDone(p)
  BY <1>2, ConnectKeeps
<1>3. ASSUME NEW f \in Paths, FileStep(p, f) PROVE PushInv'
  BY <1>3, StartFileKeeps, UploadKeeps, RecordKeeps DEF FileStep
<1>4. CASE Truncate(p) \/ WriteManifest(p)
  BY <1>4, ManifestKeeps
<1>5. CASE Release(p)
  BY <1>5, ReleaseKeeps
<1>6. CASE Return(p)
  BY <1>6, ReturnKeeps
<1> QED BY <1>1, <1>2, <1>3, <1>4, <1>5, <1>6 DEF PushStep

\* So does every step.
LEMMA NextKeeps ==
  ASSUME PushInv, [Next]_vars PROVE PushInv'
<1>1. ASSUME NEW p \in Procs, PushStep(p) \/ Push(p) \/ Leave(p) \/ Interrupt(p) \/ Crash(p)
      PROVE  PushInv'
  BY <1>1, PushStepKeeps, PushKeeps, LeaveKeeps, InterruptKeeps, CrashKeeps
<1>2. CASE WatchStep \/ StopWatch
  BY <1>2, WatchStepKeeps, StopWatchKeeps
<1>3. ASSUME NEW f \in Paths, NEW text \in Contents \cup {None}, Edit(f, text)
      PROVE  PushInv'
  BY <1>3, EditKeeps
<1>4. ASSUME NEW f \in Paths, NEW text \in Contents, UploadElsewhere(f, text)
      PROVE  PushInv'
  BY <1>4, ElsewhereKeeps
<1>5. CASE UNCHANGED vars
  <2>1. UNCHANGED <<pidFileVars, run, job, disk, watch, server, manifest, overtaken>>
    BY <1>5 DEF vars, pushVars, worldVars
  <2>2. PushTypes'
    BY <2>1 DEF PushInv, PushTypes, PidFileTypeOK, pidFileVars
  <2>3. ServerGrows
    BY <2>1, SameServerGrows DEF PushInv
  <2>4. WatchShape'
    BY <2>1, WatchStays DEF pidFileVars
  <2> QED BY <2>1, <2>2, <2>3, <2>4, NobodyMoves DEF pidFileVars
<1> QED BY <1>1, <1>2, <1>3, <1>4, <1>5 DEF Next

\* The folder as it is linked: nothing known, nothing uploaded.
LEMMA InitEstablishes ==
  ASSUME Init PROVE PushInv
<1> PICK first \in Beginnings :
      /\ disk = first.disk /\ alive = first.procs
      /\ watch = [on |-> Watcher \in alive, timers |-> first.noticed,
                  queued |-> FALSE, inFlight |-> FALSE]
  BY DEF Init
<1>1. /\ run = [p \in Procs |-> NoRun] /\ job = [p \in Procs |-> [f \in Paths |-> NoJob]]
      /\ claim = [p \in Procs |-> Unclaimed] /\ file = NoFile /\ overreached = FALSE
      /\ server = [f \in Paths |-> <<>>]
      /\ manifest = [torn |-> FALSE, files |-> NoFiles] /\ overtaken = FALSE
  BY DEF Init, PidFileInit
<1>a. /\ first.disk \in [Paths -> Contents \cup {None}] /\ first.noticed \in SUBSET Paths
      /\ first.procs \in SUBSET Procs
      /\ first.noticed # {} => Watcher \in first.procs
  BY BeginningsAssumption
<1>2. PidFileTypeOK
  <2>1. Unclaimed \in Claims /\ NoFile \in Locks
    BY AttemptsAssumption DEF Unclaimed, Claims, Steps, Owners, NoFile, Locks
  <2>2. claim \in [Procs -> Claims] /\ file \in Locks
    BY <1>1, <2>1
  <2> QED BY <1>1, <1>a, <2>2 DEF PidFileTypeOK, Claims, Steps, Owners, Locks
<1>3. <<>> \in Seq(Contents) /\ Len(<<>>) = 0
  OBVIOUS
<1>4. PushTypes
  <2>1. server \in [Paths -> Seq(Contents)]
    BY <1>1, <1>3
  <2>2. manifest \in [torn : BOOLEAN, files : Files]
    BY <1>1, EmptyTyped
  <2>3. run \in [Procs -> RunRecord] /\ job \in [Procs -> [Paths -> JobRecord]]
    BY <1>1, EmptyTyped
  <2>4. watch \in [on : BOOLEAN, timers : SUBSET Paths, queued : BOOLEAN, inFlight : BOOLEAN]
    BY <1>a
  <2> QED BY <1>1, <1>2, <1>a, <2>1, <2>2, <2>3, <2>4 DEF PushTypes
<1>5. ASSUME NEW p \in Procs PROVE PushShape(p)
  <2>1. ClaimAgrees(p)
    BY <1>1 DEF ClaimAgrees, NoRun, Unclaimed, Looping
  <2>2. ASSUME NEW f \in Paths PROVE FileShape(p, f)
    <3>1. Top(f) = 0
      BY <1>1, <1>3 DEF Top
    <3> QED BY <1>1, <3>1 DEF FileShape, EntryTrue, NoRun, NoFiles, NoJob, NoEntry
  <2> QED BY <2>1, <2>2 DEF PushShape
<1>6. \A f \in Paths : EntryTrue(manifest.files[f], f)
  BY <1>1 DEF EntryTrue, NoFiles
<1>7. WatchShape
  BY <1>1, <1>a, PushAssumption DEF WatchShape, NoRun
<1> QED BY <1>4, <1>5, <1>6, <1>7 DEF PushInv

\* What the code relies on without ever checking it, in every state: a push that works
\* holds a claim on the lock, entries are true, and a job names what it uploads.
THEOREM PushInvariant == Spec => []PushInv
<1>1. Init => PushInv
  BY InitEstablishes
<1>2. PushInv /\ [Next]_vars => PushInv'
  BY NextKeeps
<1> QED BY <1>1, <1>2, PTL DEF Spec

\* An entry of the manifest, or of a push under way, names a version the server has and
\* the content it has (recordResult, writeManifest), for any number of pushes at once.
THEOREM PushEntriesTrue == Spec => []EntriesAreTrue
<1>1. PushInv => EntriesAreTrue
  <2> SUFFICES ASSUME PushInv PROVE EntriesAreTrue
    OBVIOUS
  <2>1. ASSUME NEW f \in Paths, NEW p \in Procs
        PROVE  EntryTrue(manifest.files[f], f) /\ EntryTrue(run[p].work[f], f)
    BY DEF PushInv, PushShape, FileShape
  <2>2. \A f \in Paths : EntryTrue(manifest.files[f], f)
    BY DEF PushInv
  <2> QED BY <2>1, <2>2 DEF EntriesAreTrue, EntryTrue
<1> QED BY <1>1, PushInvariant, PTL

\* Every variable stays in its type.
THEOREM PushTypesHold == Spec => []PushTypeOK
<1>1. PushInv => PushTypeOK
  BY DEF PushInv, PushTypes, PushTypeOK, RunRecord, JobRecord
<1> QED BY <1>1, PushInvariant, PTL

\* An update passed the status check at a number no older than what the server had when
\* the push began: without --force nothing is uploaded over a version the folder does not
\* know and could have known (pushOneFile).
THEOREM PushBuriesNothing == Spec => NothingBuriedUnseen
<1>1. PushInv /\ [Next]_vars =>
        [\A p \in Procs, f \in Paths :
           job[p][f].step = "update" /\ job'[p][f].step = "answered" /\ ~run[p].force =>
             run[p].saw[f] <= run[p].work[f].seq]_vars
  BY DEF PushInv, PushShape, FileShape
<1> QED BY <1>1, PushInvariant, PTL DEF Spec, NothingBuriedUnseen

-----------------------------------------------------------------------------
(* The lock, until somebody removes that of a living process.               *)

\* Whoever has a push to work for has the lock, and so it alone.
LEMMA OneWorks ==
  ASSUME PushInv, LockNamesHolder, NEW p \in Procs, run[p].pc \in LockedSteps,
         NEW q \in Procs, run[q].pc \in LockedSteps
  PROVE  p = q
<1>1. claim[p].at = "held" /\ claim[q].at = "held"
  BY ThePush DEF ClaimAgrees, LockedSteps
<1>2. file.owner = {p} /\ file.owner = {q}
  BY <1>1 DEF LockNamesHolder
<1> QED BY <1>2

\* A step that moves the claim of one process, and not to where it would have the lock,
\* and leaves the file.
LEMMA NamesStay ==
  ASSUME LockNamesHolder, NEW p \in Procs, file' = file,
         \A q \in Procs \ {p} : claim'[q] = claim[q],
         \/ claim'[p] = claim[p]
         \/ claim'[p].at \notin {"fill", "held", "remove"}
         \/ claim[p].at \in {"fill", "held", "remove"}
  PROVE  LockNamesHolder'
  BY DEF LockNamesHolder

\* While the lock is sought.
LEMMA AcquiringNames ==
  ASSUME PushInv, LockNamesHolder, NEW p \in Procs, Acquiring(p), ~overreached'
  PROVE  LockNamesHolder'
<1>1. PushTypes /\ PidFileTypeOK /\ ClaimAgrees(p) /\ claim \in [Procs -> Claims] /\ file \in Locks
  BY ThePush, LockTyped DEF PushTypes
<1>2. \A q \in Procs \ {p} : claim'[q] = claim[q]
  BY <1>1, AcquiringKeeps DEF ClaimAgrees
<1>3. CASE Create(p) /\ file.owner = {}
  <2>1. file' = [owner |-> {p}, full |-> FALSE]
    BY <1>3 DEF Create
  <2>2. \A q \in Procs : claim[q].at \notin {"fill", "held", "remove"}
    BY <1>3 DEF LockNamesHolder
  <2>3. file'.owner = {p}
    BY <2>1
  <2>4. \A q \in Procs : claim'[q].at \in {"fill", "held", "remove"} => q = p
    BY <1>2, <2>2
  <2> QED BY <2>3, <2>4 DEF LockNamesHolder
<1>4. CASE Create(p) /\ file.owner # {}
  <2>1. file' = file /\ MoveTo(p, "read")
    BY <1>4 DEF Create
  <2>2. claim'[p].at = "read"
    BY <1>1, <2>1, ClaimTyped DEF Steps
  <2> QED BY <1>2, <2>1, <2>2, NamesStay
<1>5. CASE Fill(p)
  <2>1. claim[p].at = "fill" /\ MoveTo(p, "held")
    BY <1>5 DEF Fill, At
  <2>2. file.owner = {p}
    BY <2>1 DEF LockNamesHolder
  <2>3. file'.owner = {p}
    <3> PICK f : f = file
      OBVIOUS
    <3>1. f \in Locks
      BY <1>1
    <3>2. file' = [f EXCEPT !.full = TRUE]
      BY <1>5, <2>2 DEF Fill
    <3> QED BY <2>2, <3>1, <3>2 DEF Locks
  <2>4. \A q \in Procs : claim'[q].at \in {"fill", "held", "remove"} => q = p
    <3> TAKE q \in Procs
    <3> SUFFICES ASSUME q # p, claim'[q].at \in {"fill", "held", "remove"} PROVE FALSE
      OBVIOUS
    <3>1. file.owner = {q}
      BY <1>2 DEF LockNamesHolder
    <3> QED BY <2>2, <3>1
  <2> QED BY <2>3, <2>4 DEF LockNamesHolder
<1>6. CASE ReadExisting(p) \/ Probe(p)
  <2>1. claim[p].attempts < MaxAttempts
    BY <1>1, <1>6 DEF ReadExisting, Probe, ClaimAgrees, At, Looping
  <2>2. file' = file /\ claim'[p].at \notin {"fill", "held", "remove"}
    BY <1>1, <1>6, <2>1, LookingKeeps
  <2> QED BY <1>2, <2>2, NamesStay
<1>7. CASE Steal(p)
  <2>1. claim[p].at = "steal" /\ claim[p].attempts < MaxAttempts /\ Again(p) /\ Remove({p})
    BY <1>1, <1>7 DEF Steal, ClaimAgrees, At, Looping
  <2>2. claim'[p].at \notin {"fill", "held", "remove"}
    BY <1>1, <2>1, AgainTyped
  <2>3. ASSUME NEW q \in Procs \ {p}, claim[q].at \in {"fill", "held", "remove"} PROVE FALSE
    <3>1. q \in alive
      BY <2>3, ThePush DEF ClaimAgrees
    <3>2. file.owner = {q}
      BY <2>3 DEF LockNamesHolder
    <3> QED BY <2>1, <2>3, <3>1, <3>2 DEF Remove
  <2> QED BY <1>2, <2>2, <2>3 DEF LockNamesHolder
<1> QED BY <1>3, <1>4, <1>5, <1>6, <1>7 DEF Acquiring

\* When the lock is given up.
LEMMA ReleaseNames ==
  ASSUME PushInv, LockNamesHolder, NEW p \in Procs, Release(p) PROVE LockNamesHolder'
<1>1. claim \in [Procs -> Claims]
  BY LockTyped
<1>2. CASE CheckOwner(p)
  <2>1. claim[p].at = "held" /\ file' = file
    BY <1>2 DEF CheckOwner, At
  <2>2. \A q \in Procs \ {p} : claim'[q] = claim[q]
    BY <1>1, <1>2, ClaimTyped DEF CheckOwner, Steps
  <2> QED BY <2>1, <2>2, NamesStay
<1>3. CASE RemoveOwn(p)
  <2>1. claim[p].at = "remove" /\ MoveTo(p, "out")
    BY <1>3 DEF RemoveOwn, At
  <2>2. claim'[p].at = "out" /\ \A q \in Procs \ {p} : claim'[q] = claim[q]
    BY <1>1, <2>1, ClaimTyped DEF Steps
  <2>3. ASSUME NEW q \in Procs \ {p}, claim[q].at \in {"fill", "held", "remove"} PROVE FALSE
    BY <2>1, <2>3 DEF LockNamesHolder
  <2> QED BY <2>2, <2>3 DEF LockNamesHolder
<1> QED BY <1>2, <1>3 DEF Release

\* A push that begins, or is refused, does not touch the lock.
LEMMA StartNames ==
  ASSUME PushInv, LockNamesHolder, NEW p \in Procs, NEW force \in BOOLEAN,
         StartPush(p, force), file' = file
  PROVE  LockNamesHolder'
<1>1. claim' = claim \/ Acquire(p)
  BY DEF StartPush
<1>2. CASE claim' = claim
  BY <1>2, NamesStay
<1>3. CASE Acquire(p)
  <2>1. claim'[p].at = "create" /\ \A q \in Procs \ {p} : claim'[q] = claim[q]
    BY <1>3, LockTyped, ClaimBegins
  <2> QED BY <2>1, NamesStay
<1> QED BY <1>1, <1>2, <1>3

\* The file goes on to name whoever has the lock.
LEMMA NamesKept ==
  ASSUME PushInv, LockNamesHolder, [Next]_vars, ~overreached' PROVE LockNamesHolder'
<1>1. claim \in [Procs -> Claims] /\ Watcher \in Procs
  BY PushAssumption, LockTyped
<1>2. CASE UNCHANGED <<file, claim>>
  BY <1>2 DEF LockNamesHolder
<1>3. ASSUME NEW p \in Procs, ClaimLock(p) PROVE LockNamesHolder'
  BY <1>3, AcquiringNames DEF ClaimLock
<1>4. ASSUME NEW p \in Procs, LockRefused(p) PROVE LockNamesHolder'
  <2>1. file' = file /\ MoveTo(p, "out")
    BY <1>4 DEF LockRefused
  <2>2. claim'[p].at = "out" /\ \A q \in Procs \ {p} : claim'[q] = claim[q]
    BY <1>1, <2>1, ClaimTyped DEF Steps
  <2> QED BY <2>1, <2>2, NamesStay
<1>5. ASSUME NEW p \in Procs,
             \/ LockTaken(p) \/ Connect(p) \/ ConnectFails(p) \/ WorkersDone(p)
             \/ Truncate(p) \/ WriteManifest(p) \/ Return(p) \/ Interrupt(p)
      PROVE  LockNamesHolder'
  BY <1>2, <1>5 DEF LockTaken, Connect, ConnectFails, WorkersDone, Truncate, WriteManifest,
     Return, Interrupt, pidFileVars
<1>6. ASSUME NEW p \in Procs, NEW f \in Paths, FileStep(p, f) PROVE LockNamesHolder'
  BY <1>2, <1>6 DEF FileStep, StartFile, CheckStatus, Upload, Record, FileFails, Frame,
     pidFileVars
<1>7. ASSUME NEW p \in Procs, Release(p) PROVE LockNamesHolder'
  BY <1>7, ReleaseNames
<1>8. ASSUME NEW p \in Procs, Push(p) PROVE LockNamesHolder'
  BY <1>8, StartNames DEF Push
<1>9. ASSUME NEW p \in Procs, Crash(p) \/ Leave(p) PROVE LockNamesHolder'
  <2>1. file' = file /\ claim' = [claim EXCEPT ![p] = Unclaimed]
    BY <1>9 DEF Crash, Leave, Die
  <2>2. claim'[p].at = "out" /\ \A q \in Procs \ {p} : claim'[q] = claim[q]
    BY <1>1, <2>1, ClaimBegins
  <2> QED BY <2>1, <2>2, NamesStay
<1>10. CASE WatchStep
  <2>1. file' = file /\ (claim' = claim \/ StartPush(Watcher, FALSE))
    BY <1>10 DEF WatchStep, NextPush, Settle, SchedulePush
  <2> QED BY <1>1, <1>2, <2>1, StartNames
<1>11. CASE \/ StopWatch
            \/ \E f \in Paths, text \in Contents \cup {None} : Edit(f, text)
            \/ \E f \in Paths, text \in Contents : UploadElsewhere(f, text)
            \/ UNCHANGED vars
  BY <1>2, <1>11 DEF StopWatch, Edit, UploadElsewhere, vars, pidFileVars
<1> QED BY <1>3, <1>4, <1>5, <1>6, <1>7, <1>8, <1>9, <1>10, <1>11 DEF Next, PushStep

-----------------------------------------------------------------------------
(* What others saved is not lost.                                           *)

\* One push moves and leaves the manifest; it does not begin to work, and if it is over
\* it was before, or has nothing to keep.
LEMMA PassedStays ==
  ASSUME Passed, NEW p \in Procs, overtaken' = overtaken, manifest' = manifest,
         \A q \in Procs \ {p} : run'[q] = run[q],
         run'[p].pc \in {"connect", "push", "save"} =>
           run[p].pc \in {"connect", "push", "save"} /\ run'[p].base = run[p].base,
         run'[p].pc \in LockedSteps => run[p].pc \in LockedSteps /\ run'[p].base = run[p].base,
         run'[p].pc \in {"release", "ended"} =>
           \/ /\ run[p].pc \in {"release", "ended"}
              /\ run'[p].base = run[p].base /\ run'[p].work = run[p].work
           \/ \A files : KeptIn(p, files)'
  PROVE  Passed'
<1> SUFFICES ASSUME ~overtaken' PROVE
      /\ \A q \in Procs : run'[q].pc \in {"connect", "push", "save"} =>
           manifest' = [torn |-> FALSE, files |-> run'[q].base]
      /\ \A q, s \in Procs : run'[q].pc \in {"release", "ended"} /\ run'[s].pc \in LockedSteps =>
           KeptIn(q, run[s].base)'
      /\ \A q \in Procs : run'[q].pc \in {"release", "ended"} /\ ~manifest'.torn =>
           KeptIn(q, manifest.files)'
  BY DEF Passed, LockedSteps
<1>1. ~overtaken
  OBVIOUS
<1>2. ASSUME NEW q \in Procs, run'[q].pc \in {"connect", "push", "save"}
      PROVE  manifest' = [torn |-> FALSE, files |-> run'[q].base]
  BY <1>1, <1>2 DEF Passed
<1>3. ASSUME NEW q \in Procs, run'[q].pc \in {"release", "ended"}
      PROVE  \/ /\ run[q].pc \in {"release", "ended"}
                /\ \A files : KeptIn(q, files) => KeptIn(q, files)'
             \/ \A files : KeptIn(q, files)'
  BY <1>3 DEF KeptIn
<1>4. ASSUME NEW q \in Procs, run'[q].pc \in {"release", "ended"},
             NEW s \in Procs, run'[s].pc \in LockedSteps
      PROVE  KeptIn(q, run[s].base)'
  <2>1. run[s].pc \in LockedSteps /\ run'[s].base = run[s].base
    BY <1>4
  <2> PICK files : files = run[s].base
    OBVIOUS
  <2>2. CASE run[q].pc \in {"release", "ended"} /\ (KeptIn(q, files) => KeptIn(q, files)')
    <3>1. KeptIn(q, files)
      BY <1>1, <2>1, <2>2 DEF Passed
    <3>2. KeptIn(q, files)'
      BY <2>2, <3>1
    <3> QED BY <2>1, <3>2 DEF KeptIn
  <2>3. CASE \A other : KeptIn(q, other)'
    <3>1. KeptIn(q, files)'
      BY <2>3
    <3> QED BY <2>1, <3>1 DEF KeptIn
  <2> QED BY <1>3, <1>4, <2>2, <2>3
<1>5. ASSUME NEW q \in Procs, run'[q].pc \in {"release", "ended"}, ~manifest'.torn
      PROVE  KeptIn(q, manifest.files)'
  <2> PICK files : files = manifest.files
    OBVIOUS
  <2>1. CASE run[q].pc \in {"release", "ended"} /\ (KeptIn(q, files) => KeptIn(q, files)')
    <3>1. KeptIn(q, files)
      BY <1>1, <1>5, <2>1 DEF Passed
    <3>2. KeptIn(q, files)'
      BY <2>1, <3>1
    <3> QED BY <3>2 DEF KeptIn
  <2>2. CASE \A other : KeptIn(q, other)'
    <3>1. KeptIn(q, files)'
      BY <2>2
    <3> QED BY <3>1 DEF KeptIn
  <2> QED BY <1>3, <1>5, <2>1, <2>2
<1> QED BY <1>2, <1>4, <1>5

\* Who has uploaded nothing new has nothing to keep.
LEMMA NothingToKeep ==
  ASSUME NEW p \in Procs, run[p].work = run[p].base, run[p].work \in Files
  PROVE  \A files : KeptIn(p, files)
<1> TAKE files
<1>1. ASSUME NEW f \in Paths PROVE ~(run[p].work[f].seq > run[p].base[f].seq)
  BY EntriesTyped
<1> QED BY <1>1 DEF KeptIn

\* The steps of a push that works, but for those on the manifest.
LEMMA WorkPasses ==
  ASSUME PushInv, Passed, NEW p \in Procs,
         \/ Connect(p) \/ ConnectFails(p) \/ WorkersDone(p) \/ Interrupt(p)
         \/ \E f \in Paths : FileStep(p, f)
  PROVE  Passed'
<1>1. run \in [Procs -> RunRecord] /\ \A f \in Paths : FileShape(p, f)
  BY ThePush
<1>2. overtaken' = overtaken /\ manifest' = manifest
  BY DEF Connect, ConnectFails, WorkersDone, Interrupt, FileStep, StartFile, CheckStatus,
     Upload, Record, FileFails, Frame
<1>3. run[p].pc \in LockedSteps
  <2>1. CASE Connect(p) \/ ConnectFails(p) \/ WorkersDone(p) \/ Interrupt(p)
    BY <2>1 DEF Connect, ConnectFails, WorkersDone, Interrupt, ListensToSignals, LockedSteps
  <2>2. ASSUME NEW f \in Paths, FileStep(p, f) PROVE run[p].pc \in LockedSteps
    <3>1. CASE StartFile(p, f) \/ CheckStatus(p, f) \/ Upload(p, f) \/ Record(p, f)
      BY <3>1 DEF StartFile, CheckStatus, Upload, Record, Working, LockedSteps
    <3>2. CASE FileFails(p, f)
      BY <1>1, <3>2 DEF FileFails, Busy, FileShape, NoJob, LockedSteps
    <3> QED BY <2>2, <3>1, <3>2 DEF FileStep
  <2> QED BY <2>1, <2>2
<1>4. \A q \in Procs \ {p} : run'[q] = run[q]
  BY <1>1 DEF Connect, ConnectFails, WorkersDone, Interrupt, StopSoon, FileStep, StartFile,
     CheckStatus, Upload, ServerAnswers, Record, FileFails
<1>5. /\ run'[p].base = run[p].base
      /\ \/ run'[p].pc = run[p].pc
         \/ /\ run'[p].pc \in {"connect", "push", "save"}
            /\ run[p].pc \in {"connect", "push", "save"}
  <2>1. CASE Connect(p)
    BY <1>1, <2>1 DEF Connect, RunRecord
  <2>2. CASE ConnectFails(p) \/ WorkersDone(p)
    BY <1>1, <2>2 DEF ConnectFails, WorkersDone, RunRecord
  <2>3. CASE Interrupt(p)
    BY <1>1, <2>3 DEF Interrupt, StopSoon, RunRecord
  <2>4. ASSUME NEW f \in Paths, FileStep(p, f)
        PROVE  run'[p].base = run[p].base /\ run'[p].pc = run[p].pc
    <3>1. CASE StartFile(p, f)
      BY <1>1, <3>1 DEF StartFile, RunRecord
    <3>2. CASE CheckStatus(p, f) \/ Upload(p, f)
      BY <1>1, <3>2 DEF CheckStatus, Upload, ServerAnswers, RunRecord
    <3>3. CASE Record(p, f) \/ FileFails(p, f)
      BY <1>1, <3>3 DEF Record, FileFails, RunRecord
    <3> QED BY <2>4, <3>1, <3>2, <3>3 DEF FileStep
  <2> QED BY <2>1, <2>2, <2>3, <2>4
<1> QED BY <1>2, <1>3, <1>4, <1>5, PassedStays DEF LockedSteps

\* The manifest is written by the only push that works.
LEMMA WritePasses ==
  ASSUME PushInv, LockNamesHolder, Passed, NEW p \in Procs, Truncate(p) \/ WriteManifest(p)
  PROVE  Passed'
<1>1. run \in [Procs -> RunRecord] /\ \A f \in Paths : FileShape(p, f)
  BY ThePush
<1>2. /\ run[p].work \in Files /\ run[p].base \in Files /\ run[p].pc \in LockedSteps
      /\ \A q \in Procs : run[q].work \in Files
  BY <1>1 DEF RunRecord, Truncate, WriteManifest, LockedSteps
<1>3. /\ run'[p].base = run[p].base /\ run'[p].work = run[p].work
      /\ \A q \in Procs \ {p} : run'[q] = run[q]
      /\ overtaken' = overtaken
  BY <1>1 DEF Truncate, WriteManifest, RunRecord
<1>4. \A q \in Procs : run[q].pc \in LockedSteps => q = p
  BY <1>2, OneWorks
<1>5. CASE Truncate(p)
  <2>1. run'[p].pc = "fill" /\ manifest'.torn /\ run[p].pc = "save"
    BY <1>1, <1>5 DEF Truncate, Torn
  <2>2. \A q \in Procs : run'[q].pc \notin {"connect", "push", "save"}
    BY <1>3, <1>4, <2>1 DEF LockedSteps
  <2>3. ASSUME ~overtaken, NEW q \in Procs, run'[q].pc \in {"release", "ended"},
               NEW s \in Procs, run'[s].pc \in LockedSteps
        PROVE  KeptIn(q, run[s].base)'
    <3>1. q # p /\ run[q].pc \in {"release", "ended"} /\ run'[q] = run[q]
      BY <1>3, <2>1, <2>3
    <3>2. run[s].pc \in LockedSteps /\ run'[s].base = run[s].base
      BY <1>2, <1>3, <2>3
    <3>3. KeptIn(q, run[s].base)
      BY <2>3, <3>1, <3>2 DEF Passed
    <3> QED BY <3>1, <3>2, <3>3 DEF KeptIn
  <2> QED BY <1>3, <2>1, <2>2, <2>3 DEF Passed
<1>6. CASE WriteManifest(p)
  <2>1. run'[p].pc = "release" /\ manifest'.files = run[p].work /\ run[p].pc = "fill"
    BY <1>1, <1>6 DEF WriteManifest
  <2>2. \A q \in Procs : run'[q].pc \notin LockedSteps
    BY <1>3, <1>4, <2>1 DEF LockedSteps
  <2>3. ASSUME ~overtaken, NEW q \in Procs, run'[q].pc \in {"release", "ended"}
        PROVE  KeptIn(q, manifest.files)'
    <3>1. CASE q = p
      <4>1. ASSUME NEW f \in Paths PROVE run[p].work[f].seq >= run[p].work[f].seq
        BY <1>2, EntriesTyped
      <4> QED BY <1>3, <2>1, <3>1, <4>1 DEF KeptIn
    <3>2. CASE q # p
      <4>1. run[q].pc \in {"release", "ended"} /\ run'[q] = run[q]
        BY <1>3, <2>3, <3>2
      <4>2. KeptIn(q, run[p].base)
        BY <1>2, <2>3, <4>1 DEF Passed
      <4>3. ASSUME NEW f \in Paths, run[q].work[f].seq > run[q].base[f].seq
            PROVE  run[p].work[f].seq >= run[q].work[f].seq
        <5>1. /\ run[p].work[f].seq \in Nat /\ run[p].base[f].seq \in Nat
              /\ run[q].work[f].seq \in Nat
          BY <1>2, EntriesTyped
        <5>2. run[p].base[f].seq <= run[p].work[f].seq
          BY <1>1 DEF FileShape
        <5>3. run[p].base[f].seq >= run[q].work[f].seq
          BY <4>2, <4>3 DEF KeptIn
        <5> QED BY <5>1, <5>2, <5>3
      <4> QED BY <2>1, <4>1, <4>3 DEF KeptIn
    <3> QED BY <3>1, <3>2
  <2>4. {"connect", "push", "save"} \subseteq LockedSteps
    BY DEF LockedSteps
  <2> QED BY <1>3, <2>2, <2>3, <2>4 DEF Passed
<1> QED BY <1>5, <1>6

\* The lock is taken, and the manifest is as it was read, or the push is overtaken.
LEMMA TakingPasses ==
  ASSUME PushInv, Passed, NEW p \in Procs, LockTaken(p) PROVE Passed'
<1>1. run \in [Procs -> RunRecord]
  BY ThePush
<1>2. /\ run'[p].pc = "connect" /\ run'[p].base = run[p].base
      /\ \A q \in Procs \ {p} : run'[q] = run[q]
      /\ manifest' = manifest
  BY <1>1 DEF LockTaken
<1> SUFFICES ASSUME ~overtaken' PROVE Passed'
  BY DEF Passed
<1>3. ~overtaken /\ manifest = [torn |-> FALSE, files |-> run[p].base]
  BY DEF LockTaken
<1>4. \A q \in Procs : run'[q].pc \in {"connect", "push", "save"} =>
        manifest' = [torn |-> FALSE, files |-> run'[q].base]
  BY <1>2, <1>3 DEF Passed
<1>5. ASSUME NEW q \in Procs, run'[q].pc \in {"release", "ended"}
      PROVE  /\ run[q].pc \in {"release", "ended"} /\ run'[q] = run[q]
             /\ KeptIn(q, manifest.files)' /\ KeptIn(q, run[p].base)
  <2>1. run[q].pc \in {"release", "ended"} /\ run'[q] = run[q]
    BY <1>2, <1>5
  <2>2. ~manifest.torn /\ manifest.files = run[p].base
    BY <1>3
  <2>3. KeptIn(q, manifest.files)
    BY <1>3, <2>1, <2>2 DEF Passed
  <2> QED BY <1>2, <2>1, <2>2, <2>3 DEF KeptIn
<1>6. ASSUME NEW q \in Procs, run'[q].pc \in {"release", "ended"},
             NEW s \in Procs, run'[s].pc \in LockedSteps
      PROVE  KeptIn(q, run[s].base)'
  <2>1. CASE s = p
    BY <1>2, <1>5, <1>6, <2>1 DEF KeptIn
  <2>2. CASE s # p
    <3>1. run'[s] = run[s]
      BY <1>2, <2>2
    <3>2. KeptIn(q, run[s].base)
      BY <1>3, <1>5, <1>6, <3>1 DEF Passed
    <3> QED BY <1>5, <1>6, <3>1, <3>2 DEF KeptIn
  <2> QED BY <2>1, <2>2
<1> QED BY <1>4, <1>5, <1>6 DEF Passed

\* A push begins, with what the manifest holds, or it fails with nothing.
LEMMA StartPasses ==
  ASSUME PushInv, Passed, NEW p \in Procs, NEW force \in BOOLEAN, StartPush(p, force),
         manifest' = manifest, overtaken' = overtaken
  PROVE  Passed'
<1>1. run \in [Procs -> RunRecord]
  BY ThePush
<1>2. CASE manifest.torn
  <2>1. run' = [run EXCEPT ![p] = [NoRun EXCEPT !.pc = "ended", !.bad = TRUE]]
    BY <1>2 DEF StartPush
  <2>2. /\ run'[p].pc = "ended" /\ run'[p].work = NoFiles /\ run'[p].base = NoFiles
        /\ \A q \in Procs \ {p} : run'[q] = run[q]
    BY <1>1, <2>1 DEF NoRun
  <2>3. \A files : KeptIn(p, files)'
    BY <2>2, EmptyTyped DEF KeptIn, NoFiles, NoEntry
  <2> QED BY <2>2, <2>3, PassedStays DEF LockedSteps
<1>3. CASE ~manifest.torn
  <2>1. run'[p].pc = "acquire" /\ \A q \in Procs \ {p} : run'[q] = run[q]
    BY <1>1, <1>3 DEF StartPush, NoRun
  <2> QED BY <2>1, PassedStays DEF LockedSteps
<1> QED BY <1>2, <1>3

\* A push returns, is refused the lock, or dies.
LEMMA EndPasses ==
  ASSUME PushInv, Passed, NEW p \in Procs, LockRefused(p) \/ Return(p) \/ Crash(p)
  PROVE  Passed'
<1>1. /\ run \in [Procs -> RunRecord] /\ run[p].work \in Files
      /\ \A f \in Paths : FileShape(p, f)
  BY ThePush DEF RunRecord
<1>2. /\ overtaken' = overtaken /\ manifest' = manifest
      /\ \A q \in Procs \ {p} : run'[q] = run[q]
  BY <1>1 DEF LockRefused, Return, Crash
<1>3. CASE LockRefused(p)
  <2>1. /\ run'[p].pc = "ended" /\ run'[p].base = run[p].base /\ run'[p].work = run[p].work
        /\ run[p].pc = "acquire"
    BY <1>1, <1>3 DEF LockRefused, RunRecord
  <2>2. \A files : KeptIn(p, files)'
    <3> TAKE files
    <3>1. ASSUME NEW f \in Paths PROVE ~(run[p].work[f].seq > run[p].base[f].seq)
      <4>1. run[p].work = run[p].base
        BY <1>1, <2>1 DEF FileShape
      <4> QED BY <1>1, <4>1, EntriesTyped
    <3> QED BY <2>1, <3>1 DEF KeptIn
  <2> QED BY <1>2, <2>1, <2>2, PassedStays DEF LockedSteps
<1>4. CASE Return(p)
  <2>1. /\ run'[p].pc = "ended" /\ run'[p].base = run[p].base /\ run'[p].work = run[p].work
        /\ run[p].pc = "release"
    BY <1>1, <1>4 DEF Return, RunRecord
  <2> QED BY <1>2, <2>1, PassedStays DEF LockedSteps
<1>5. CASE Crash(p)
  <2>1. run'[p].pc = "idle"
    BY <1>1, <1>5 DEF Crash, NoRun
  <2> QED BY <1>2, <2>1, PassedStays DEF LockedSteps
<1> QED BY <1>3, <1>4, <1>5

\* The watcher.
LEMMA WatchPasses ==
  ASSUME PushInv, Passed, WatchStep \/ StopWatch PROVE Passed'
<1>1. Watcher \in Procs /\ run \in [Procs -> RunRecord]
  BY PushAssumption, ThePush
<1>2. overtaken' = overtaken /\ manifest' = manifest
  BY DEF WatchStep, Settle, NextPush, StopWatch
<1>3. CASE StartPush(Watcher, FALSE)
  BY <1>1, <1>2, <1>3, StartPasses
<1>4. CASE run' = run
  BY <1>2, <1>4 DEF Passed, KeptIn
<1>5. CASE run' = [run EXCEPT ![Watcher] = NoRun]
  <2>1. run'[Watcher].pc = "idle" /\ \A q \in Procs \ {Watcher} : run'[q] = run[q]
    BY <1>1, <1>5 DEF NoRun
  <2> QED BY <1>1, <1>2, <2>1, PassedStays DEF LockedSteps
<1>6. CASE ListensToSignals(Watcher) /\ StopSoon(Watcher)
  <2>1. /\ run'[Watcher].pc = run[Watcher].pc /\ run'[Watcher].base = run[Watcher].base
        /\ \A q \in Procs \ {Watcher} : run'[q] = run[q]
        /\ run[Watcher].pc \in LockedSteps
    BY <1>1, <1>6 DEF StopSoon, RunRecord, ListensToSignals, LockedSteps
  <2> QED BY <1>1, <1>2, <2>1, PassedStays DEF LockedSteps
<1>7. StartPush(Watcher, FALSE) \/ run' = run \/ run' = [run EXCEPT ![Watcher] = NoRun]
        \/ (ListensToSignals(Watcher) /\ StopSoon(Watcher))
  BY DEF WatchStep, Settle, SchedulePush, NextPush, StopWatch
<1> QED BY <1>3, <1>4, <1>5, <1>6, <1>7

\* A removal that overreached is not undone, and is one of two steps.
LEMMA OverreachStays ==
  ASSUME [Next]_vars
  PROVE  overreached' = overreached \/ \E p \in Procs : Steal(p) \/ RemoveOwn(p)
<1>1. ASSUME NEW p \in Procs, ClaimLock(p) \/ Release(p)
      PROVE  overreached' = overreached \/ Steal(p) \/ RemoveOwn(p)
  BY <1>1 DEF ClaimLock, Release, Acquiring, Create, Fill, ReadExisting, Probe, CheckOwner
<1>2. ASSUME NEW p \in Procs,
             \/ LockRefused(p) \/ LockTaken(p) \/ Connect(p) \/ ConnectFails(p)
             \/ WorkersDone(p) \/ Truncate(p) \/ WriteManifest(p) \/ Return(p)
             \/ Push(p) \/ Leave(p) \/ Interrupt(p) \/ Crash(p)
      PROVE  overreached' = overreached
  BY <1>2 DEF LockRefused, LockTaken, Connect, ConnectFails, WorkersDone, Truncate,
     WriteManifest, Return, Push, Leave, Interrupt, Crash, Die, pidFileVars
<1>3. ASSUME NEW p \in Procs, NEW f \in Paths, FileStep(p, f)
      PROVE  overreached' = overreached
  BY <1>3 DEF FileStep, StartFile, CheckStatus, Upload, Record, FileFails, Frame, pidFileVars
<1>4. ASSUME \/ WatchStep \/ StopWatch
             \/ \E f \in Paths, text \in Contents \cup {None} : Edit(f, text)
             \/ \E f \in Paths, text \in Contents : UploadElsewhere(f, text)
             \/ UNCHANGED vars
      PROVE  overreached' = overreached
  BY <1>4 DEF WatchStep, NextPush, Settle, StopWatch, Edit, UploadElsewhere, vars, pidFileVars
<1> QED BY <1>1, <1>2, <1>3, <1>4 DEF Next, PushStep

\* What was saved stays saved, whatever happens but an overreach.
LEMMA LockKept ==
  ASSUME PushInv, LockInv, [Next]_vars PROVE LockInv'
<1> SUFFICES ASSUME ~overreached' PROVE LockNamesHolder' /\ Passed'
  BY DEF LockInv
<1>a. ~overreached
  BY OverreachStays DEF Steal, RemoveOwn, Remove
<1>1. LockNamesHolder'
  BY <1>a, NamesKept DEF LockInv
<1>2. LockNamesHolder /\ Passed
  BY <1>a DEF LockInv
<1>3. ASSUME UNCHANGED <<run, manifest, overtaken>> PROVE Passed'
  BY <1>2, <1>3 DEF Passed, KeptIn
<1>4. ASSUME NEW p \in Procs, ClaimLock(p) \/ Release(p) \/ Leave(p) PROVE Passed'
  BY <1>3, <1>4 DEF ClaimLock, Release, Leave, pushVars
<1>5. ASSUME NEW p \in Procs,
             \/ Connect(p) \/ ConnectFails(p) \/ WorkersDone(p) \/ Interrupt(p)
             \/ \E f \in Paths : FileStep(p, f)
      PROVE  Passed'
  BY <1>2, <1>5, WorkPasses
<1>6. ASSUME NEW p \in Procs, Truncate(p) \/ WriteManifest(p) PROVE Passed'
  BY <1>2, <1>6, WritePasses
<1>7. ASSUME NEW p \in Procs, LockRefused(p) \/ Return(p) \/ Crash(p) PROVE Passed'
  BY <1>2, <1>7, EndPasses
<1>8. ASSUME NEW p \in Procs, LockTaken(p) PROVE Passed'
  BY <1>2, <1>8, TakingPasses
<1>9. ASSUME NEW p \in Procs, Push(p) PROVE Passed'
  BY <1>2, <1>9, StartPasses DEF Push
<1>10. ASSUME WatchStep \/ StopWatch PROVE Passed'
  BY <1>2, <1>10, WatchPasses
<1>11. ASSUME \/ \E f \in Paths, text \in Contents \cup {None} : Edit(f, text)
              \/ \E f \in Paths, text \in Contents : UploadElsewhere(f, text)
              \/ UNCHANGED vars
       PROVE  Passed'
  BY <1>3, <1>11 DEF Edit, UploadElsewhere, vars, pushVars
<1>12. Passed'
  BY <1>4, <1>5, <1>6, <1>7, <1>8, <1>9, <1>10, <1>11 DEF Next, PushStep
<1> QED BY <1>1, <1>12

\* At first nobody has the lock or anything to keep.
LEMMA InitLocks ==
  ASSUME Init PROVE LockInv
<1>1. run = [p \in Procs |-> NoRun] /\ claim = [p \in Procs |-> Unclaimed]
  BY DEF Init, PidFileInit
<1> QED BY <1>1 DEF LockInv, LockNamesHolder, Passed, NoRun, Unclaimed

\* The lock excludes, and what was uploaded is in the manifest.
LEMMA LockGives ==
  ASSUME PushInv, LockInv
  PROVE  ~overreached => LockExclusive /\ (~overtaken => NothingForgotten)
<1> SUFFICES ASSUME ~overreached PROVE LockExclusive /\ (~overtaken => NothingForgotten)
  OBVIOUS
<1>1. LockNamesHolder /\ Passed
  BY DEF LockInv
<1>2. LockExclusive
  <2>1. CASE Holders = {}
    BY <2>1, FS_EmptySet DEF LockExclusive
  <2>2. CASE Holders # {}
    <3> PICK p \in Holders : TRUE
      BY <2>2
    <3>1. \A q \in Holders : file.owner = {q}
      BY <1>1 DEF Holders, LockNamesHolder
    <3>2. Holders = {p}
      BY <3>1
    <3>3. Cardinality({p}) = 1
      BY FS_Singleton
    <3> QED BY <3>2, <3>3 DEF LockExclusive
  <2> QED BY <2>1, <2>2
<1>3. ~overtaken => NothingForgotten
  BY <1>1 DEF Passed, KeptIn, Kept, NothingForgotten
<1> QED BY <1>2, <1>3

\* The lock and what was saved, in every state.
LEMMA LocksHold == Spec => [](PushInv /\ LockInv)
<1>1. Init => LockInv
  BY InitLocks
<1>2. PushInv /\ LockInv /\ [Next]_vars => LockInv'
  BY LockKept
<1> QED BY <1>1, <1>2, PushInvariant, PTL DEF Spec

\* Of any number of pushes one works at a time, and what one uploaded stays in the
\* manifest unless it was read too early (acquireLock, runPush), until somebody who found
\* an owner dead removes the lock that a living process took meanwhile.
THEOREM PushesExclude == Spec => [](OnePushAtATime /\ ForgottenOnlyIfOvertaken)
<1>1. PushInv => PushTypeOK
  BY DEF PushInv, PushTypes, PushTypeOK, RunRecord, JobRecord
<1>2. PushInv /\ LockInv => OnePushAtATime /\ ForgottenOnlyIfOvertaken
  BY <1>1, LockGives DEF OnePushAtATime, ForgottenOnlyIfOvertaken
<1> QED BY <1>2, LocksHold, PTL

-----------------------------------------------------------------------------
(* Two processes.                                                           *)

\* Who removes the lock of another has found someone gone.
StealsFromTheDead == \A p \in Procs : claim[p].at = "steal" => alive # Procs

\* Who is gone stays away, and only who asked for an owner decides to remove.
LEMMA StealingKept ==
  ASSUME PushInv, StealsFromTheDead, [Next]_vars PROVE StealsFromTheDead'
<1>1. PidFileTypeOK /\ claim \in [Procs -> Claims] /\ file \in Locks /\ Watcher \in Procs
  BY PushAssumption, LockTyped DEF PushInv, PushTypes
<1>2. ASSUME alive' = alive, NEW p \in Procs, \A q \in Procs \ {p} : claim'[q] = claim[q],
             claim'[p].at = "steal" => claim[p].at = "steal" \/ alive # Procs
      PROVE  StealsFromTheDead'
  BY <1>2 DEF StealsFromTheDead
<1>3. CASE UNCHANGED <<alive, claim>>
  BY <1>3 DEF StealsFromTheDead
<1>4. ASSUME NEW p \in Procs, ClaimLock(p) PROVE StealsFromTheDead'
  <2>1. ClaimAgrees(p) /\ Acquiring(p)
    BY <1>4, ThePush DEF ClaimLock
  <2>2. alive' = alive /\ \A q \in Procs \ {p} : claim'[q] = claim[q]
    BY <1>1, <2>1, AcquiringKeeps DEF ClaimAgrees
  <2>3. CASE Create(p) \/ Fill(p)
    <3>1. PICK step \in {"fill", "read", "held"} : MoveTo(p, step)
      BY <2>3 DEF Create, Fill
    <3>2. claim'[p].at # "steal"
      BY <1>1, <3>1, ClaimTyped DEF Steps
    <3> QED BY <1>2, <2>2, <3>2
  <2>4. CASE ReadExisting(p)
    <3>1. claim[p].attempts < MaxAttempts
      BY <2>1, <2>4 DEF ReadExisting, ClaimAgrees, At, Looping
    <3>2. CASE Again(p)
      BY <1>1, <1>2, <2>2, <3>1, <3>2, AgainTyped
    <3>3. CASE MoveTo(p, "refused")
      <4>1. claim'[p].at = "refused"
        BY <1>1, <3>3, ClaimTyped DEF Steps
      <4> QED BY <1>2, <2>2, <4>1
    <3>4. CASE Sees(p, file.owner)
      <4>1. claim'[p].at = "probe"
        BY <1>1, <3>4, LookTyped DEF Sees, Steps, Locks
      <4> QED BY <1>2, <2>2, <4>1
    <3> QED BY <2>4, <3>2, <3>3, <3>4 DEF ReadExisting
  <2>5. CASE Probe(p)
    <3>1. claim[p].sees \subseteq Procs
      BY <1>1 DEF Claims, Owners
    <3>2. CASE claim[p].sees \subseteq alive
      <4>1. claim' = [claim EXCEPT ![p].at = "refused", ![p].sees = {}]
        BY <2>5, <3>2 DEF Probe
      <4>2. claim'[p].at = "refused"
        BY <1>1, <4>1, LookTyped DEF Steps, Owners
      <4> QED BY <1>2, <2>2, <4>2
    <3>3. CASE ~(claim[p].sees \subseteq alive)
      <4>1. alive # Procs
        BY <3>1, <3>3
      <4> QED BY <1>2, <2>2, <4>1
    <3> QED BY <3>2, <3>3
  <2>6. CASE Steal(p)
    <3>1. claim[p].at = "steal"
      BY <2>6 DEF Steal, At
    <3> QED BY <1>2, <2>2, <3>1
  <2> QED BY <2>1, <2>3, <2>4, <2>5, <2>6 DEF Acquiring
<1>5. ASSUME NEW p \in Procs, LockRefused(p) \/ Release(p) PROVE StealsFromTheDead'
  <2>1. alive' = alive
    BY <1>5 DEF LockRefused, Release, CheckOwner, RemoveOwn
  <2>2. PICK step \in {"out", "remove"} : MoveTo(p, step)
    BY <1>5 DEF LockRefused, Release, CheckOwner, RemoveOwn
  <2>3. claim'[p].at # "steal" /\ \A q \in Procs \ {p} : claim'[q] = claim[q]
    BY <1>1, <2>2, ClaimTyped DEF Steps
  <2> QED BY <1>2, <2>1, <2>3
<1>6. ASSUME NEW p \in Procs,
             \/ LockTaken(p) \/ Connect(p) \/ ConnectFails(p) \/ WorkersDone(p)
             \/ Truncate(p) \/ WriteManifest(p) \/ Return(p) \/ Interrupt(p)
      PROVE  StealsFromTheDead'
  BY <1>3, <1>6 DEF LockTaken, Connect, ConnectFails, WorkersDone, Truncate, WriteManifest,
     Return, Interrupt, pidFileVars
<1>7. ASSUME NEW p \in Procs, NEW f \in Paths, FileStep(p, f) PROVE StealsFromTheDead'
  BY <1>3, <1>7 DEF FileStep, StartFile, CheckStatus, Upload, Record, FileFails, Frame,
     pidFileVars
<1>8. ASSUME NEW p \in Procs, NEW force \in BOOLEAN, StartPush(p, force), alive' = alive
      PROVE  StealsFromTheDead'
  <2>1. claim' = claim \/ Acquire(p)
    BY <1>8 DEF StartPush
  <2>2. claim'[p] = claim[p] \/ claim'[p].at = "create"
    BY <1>1, <2>1, ClaimBegins
  <2>3. \A q \in Procs \ {p} : claim'[q] = claim[q]
    BY <1>1, <2>1, ClaimBegins
  <2> QED BY <1>2, <1>8, <2>2, <2>3
<1>9. ASSUME NEW p \in Procs, Push(p) PROVE StealsFromTheDead'
  BY <1>8, <1>9 DEF Push
<1>10. ASSUME NEW p \in Procs, Crash(p) \/ Leave(p) PROVE StealsFromTheDead'
  <2>1. alive' # Procs
    BY <1>10 DEF Crash, Leave, Die
  <2> QED BY <2>1 DEF StealsFromTheDead
<1>11. CASE WatchStep
  <2>1. alive' = alive /\ (claim' = claim \/ StartPush(Watcher, FALSE))
    BY <1>11 DEF WatchStep, NextPush, Settle, SchedulePush
  <2> QED BY <1>1, <1>3, <1>8, <2>1
<1>12. CASE \/ StopWatch
            \/ \E f \in Paths, text \in Contents \cup {None} : Edit(f, text)
            \/ \E f \in Paths, text \in Contents : UploadElsewhere(f, text)
            \/ UNCHANGED vars
  BY <1>3, <1>12 DEF StopWatch, Edit, UploadElsewhere, vars, pidFileVars
<1> QED BY <1>4, <1>5, <1>6, <1>7, <1>9, <1>10, <1>11, <1>12 DEF Next, PushStep

\* It takes three to overreach: who removes, who lives, and who is gone.
LEMMA TwoDoNotOverreach ==
  ASSUME Cardinality(Procs) <= 2, PushInv, LockInv, StealsFromTheDead, ~overreached,
         [Next]_vars
  PROVE  ~overreached'
<1> SUFFICES ASSUME overreached' PROVE FALSE
  OBVIOUS
<1> PICK p \in Procs : Steal(p) \/ RemoveOwn(p)
  BY OverreachStays
<1> PICK q \in alive \ {p} : file.owner = {q}
  BY DEF Steal, RemoveOwn, Remove
<1>1. ~RemoveOwn(p)
  BY DEF RemoveOwn, At, LockInv, LockNamesHolder
<1>2. p \in alive /\ alive # Procs /\ alive \subseteq Procs
  BY <1>1, LockTyped DEF Steal, At, StealsFromTheDead
<1> PICK d \in Procs : d \notin alive
  BY <1>2
<1>3. q \in Procs /\ p # q /\ d \notin {p, q}
  BY <1>2
<1>4. IsFiniteSet({q}) /\ Cardinality({q}) = 1
  BY FS_Singleton
<1>5. IsFiniteSet({q} \cup {p}) /\ Cardinality({q} \cup {p}) = 2
  <2>1. p \notin {q}
    BY <1>3
  <2>2. /\ IsFiniteSet({q} \cup {p})
        /\ Cardinality({q} \cup {p}) = Cardinality({q}) + 1
    BY <1>4, <2>1, FS_AddElement
  <2> QED BY <1>4, <2>2
<1>6. Cardinality(({q} \cup {p}) \cup {d}) = 3
  <2>1. d \notin {q} \cup {p}
    BY <1>3
  <2>2. Cardinality(({q} \cup {p}) \cup {d}) = Cardinality({q} \cup {p}) + 1
    BY <1>5, <2>1, FS_AddElement
  <2> QED BY <1>5, <2>2
<1>7. ({q} \cup {p}) \cup {d} \subseteq Procs
  BY <1>3
<1>8. Cardinality(({q} \cup {p}) \cup {d}) <= Cardinality(Procs)
  BY <1>7, FS_Subset, ProcsAssumption
<1>9. Cardinality(Procs) \in Nat
  BY FS_CardinalityType, ProcsAssumption
<1> QED BY <1>6, <1>8, <1>9

\* A watcher and one push by hand exclude each other whoever dies, and nothing either
\* uploaded is missing from the manifest unless it was read too early.
THEOREM TwoPushesExclude ==
  ASSUME Cardinality(Procs) <= 2
  PROVE  Spec => [](LockExclusive /\ (~overtaken => NothingForgotten))
<1>1. Init => StealsFromTheDead /\ ~overreached
  BY DEF Init, PidFileInit, StealsFromTheDead, Unclaimed
<1>2. PushInv /\ LockInv /\ StealsFromTheDead /\ ~overreached /\ [Next]_vars
        => (StealsFromTheDead /\ ~overreached)'
  BY StealingKept, TwoDoNotOverreach
<1>3. PushInv /\ LockInv /\ ~overreached => LockExclusive /\ (~overtaken => NothingForgotten)
  BY LockGives
<1> QED BY <1>1, <1>2, <1>3, LocksHold, PTL DEF Spec
=============================================================================
