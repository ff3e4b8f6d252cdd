-------------------------------- MODULE Push --------------------------------
(***************************************************************************)
(* The command line client in one linked folder: mdloop push, run by hand  *)
(* or by a hook, and mdloop watch, which runs pushes of its own, beside    *)
(* edits of the files and uploads that reach the server by other ways.     *)
(*                                                                         *)
(* A push reads the manifest, takes the lock, works on a copy of what it   *)
(* read, and writes the copy back before it gives up the lock.  A document *)
(* of the server stands for its path: the client never moves one, and the  *)
(* server refuses a second one at the same path.                           *)
(***************************************************************************)
EXTENDS PidFile, Sequences

CONSTANTS
  Watcher,      \* the process that watches; the others push once and exit
  Hooks,        \* those run by a hook, which never use --force
  Paths,        \* markdown files of the folder
  Contents,     \* what they may contain
  None,         \* no content: the file is not there
  Concurrency,  \* workers of a push
  Beginnings    \* how a folder stands at first, who runs, and how much else may happen

ASSUME PushAssumption ==
  /\ Watcher \in Procs /\ Hooks \subseteq Procs
  /\ None \notin Contents
  /\ Concurrency \in Nat \ {0}

ASSUME BeginningsAssumption ==
  /\ Beginnings \subseteq [disk : [Paths -> Contents \cup {None}], noticed : SUBSET Paths,
                          procs : SUBSET Procs, edits : Nat, others : Nat, faults : Nat]
  /\ \A first \in Beginnings : first.noticed # {} => Watcher \in first.procs

VARIABLES
  disk,       \* the files
  server,     \* per path: the contents of its document's versions, seq by seq
  manifest,   \* manifest.json; torn while it is truncated and not yet written
  run,        \* each process's push
  job,        \* each push's work on each file
  watch,      \* the watcher: its debounce timers and pushState
  overtaken,  \* history: a push got the lock after what it had read was rewritten
  left        \* how much may still happen

pushVars == <<run, job>>
worldVars == <<disk, watch>>
vars == <<pidFileVars, pushVars, worldVars, server, manifest, overtaken, left>>

NoEntry == [hash |-> None, seq |-> 0]
NoFiles == [f \in Paths |-> NoEntry]
Torn == [torn |-> TRUE, files |-> NoFiles]
NoJob == [step |-> "none", text |-> None, seq |-> 0]
NoRun == [pc |-> "idle", base |-> NoFiles, work |-> NoFiles, saw |-> [f \in Paths |-> 0],
          todo |-> {}, force |-> FALSE, stop |-> FALSE, bad |-> FALSE]

Files == [Paths -> [hash : Contents, seq : Nat \ {0}] \cup {NoEntry}]
Jobs == [step : {"status", "update", "create", "answered"}, text : Contents, seq : Nat]

PushTypeOK ==
  /\ PidFileTypeOK
  /\ disk \in [Paths -> Contents \cup {None}]
  /\ \A f \in Paths : server[f] \in Seq(Contents)
  /\ manifest \in [torn : BOOLEAN, files : Files]
  /\ run \in [Procs -> [pc : {"idle", "acquire", "connect", "push", "save", "fill",
                              "release", "ended"},
                        base : Files, work : Files, saw : [Paths -> Nat],
                        todo : SUBSET Paths,
                        force : BOOLEAN, stop : BOOLEAN, bad : BOOLEAN]]
  /\ job \in [Procs -> [Paths -> Jobs \cup {NoJob}]]
  /\ watch \in [on : BOOLEAN, timers : SUBSET Paths, queued : BOOLEAN, inFlight : BOOLEAN]
  /\ overtaken \in BOOLEAN
-----------------------------------------------------------------------------
(* Starting a push, the lock, the connection.                               *)

Top(f) == Len(server[f])
Manual == Procs \ {Watcher}

\* runPush up to acquireLock; a torn manifest throws.
StartPush(p, force) ==
  IF manifest.torn
    THEN /\ run' = [run EXCEPT ![p] = [NoRun EXCEPT !.pc = "ended", !.bad = TRUE]]
         /\ UNCHANGED claim
    ELSE /\ run' = [run EXCEPT ![p] =
              [NoRun EXCEPT !.pc = "acquire", !.base = manifest.files,
                            !.work = manifest.files, !.force = force,
                            !.saw = [f \in Paths |-> IF force THEN 0 ELSE Top(f)]]]
         /\ Acquire(p)

Push(p) ==
  /\ p \in alive \cap Manual
  /\ run[p].pc = "idle"
  /\ \E force \in BOOLEAN : (force => p \notin Hooks) /\ StartPush(p, force)
  /\ UNCHANGED <<file, alive, overreached, job, worldVars, server, manifest, overtaken, left>>

ClaimLock(p) ==
  /\ run[p].pc = "acquire"
  /\ Acquiring(p)
  /\ UNCHANGED <<pushVars, worldVars, server, manifest, overtaken, left>>

LockRefused(p) ==
  /\ run[p].pc = "acquire" /\ At(p, "refused")
  /\ run' = [run EXCEPT ![p].pc = "ended", ![p].bad = TRUE]
  /\ MoveTo(p, "out")
  /\ UNCHANGED <<file, alive, overreached, job, worldVars, server, manifest, overtaken, left>>

LockTaken(p) ==
  /\ run[p].pc = "acquire" /\ At(p, "held")
  /\ run' = [run EXCEPT ![p].pc = "connect"]
  /\ overtaken' = (overtaken \/ manifest # [torn |-> FALSE, files |-> run[p].base])
  /\ UNCHANGED <<pidFileVars, job, worldVars, server, manifest, left>>

\* Connecting and walking the folder.
Connect(p) ==
  /\ p \in alive /\ run[p].pc = "connect"
  /\ run' = [run EXCEPT ![p].pc = "push",
                        ![p].todo = {f \in Paths : disk[f] # None}]
  /\ UNCHANGED <<pidFileVars, job, worldVars, server, manifest, overtaken, left>>

\* A failure of the network, a signal or a death, a bounded number of times.
Fault ==
  /\ left.faults > 0
  /\ left' = [left EXCEPT !.faults = @ - 1]

ConnectFails(p) ==
  /\ p \in alive /\ run[p].pc = "connect"
  /\ Fault
  /\ run' = [run EXCEPT ![p].pc = "save", ![p].bad = TRUE]
  /\ UNCHANGED <<pidFileVars, job, worldVars, server, manifest, overtaken>>

-----------------------------------------------------------------------------
(* pushOneFile, by one of the workers.                                      *)

Busy(p) == {f \in Paths : job[p][f].step # "none"}
Working(p, f, step) == p \in alive /\ run[p].pc = "push" /\ job[p][f].step = step

Frame == UNCHANGED <<pidFileVars, worldVars, manifest, overtaken>>

FinishFile(p, f) == job' = [job EXCEPT ![p][f] = NoJob]

NewJob(p, f) ==
  [step |-> IF run[p].work[f] = NoEntry THEN "create" ELSE "status",
   text |-> disk[f], seq |-> 0]

Unchanged(p, f) == run[p].work[f].hash = disk[f]

JobFor(p, f) == IF disk[f] = None \/ Unchanged(p, f) THEN NoJob ELSE NewJob(p, f)

\* The file is read, and compared with its entry; gone, unchanged, or to be sent.
StartFile(p, f) ==
  /\ p \in alive /\ run[p].pc = "push"
  /\ f \in run[p].todo
  /\ ~run[p].stop
  /\ Cardinality(Busy(p)) < Concurrency
  /\ job' = [job EXCEPT ![p][f] = JobFor(p, f)]
  /\ run' = [run EXCEPT ![p].todo = @ \ {f}, ![p].bad = @ \/ disk[f] = None]
  /\ Frame /\ UNCHANGED <<server, left>>

\* Wrong: only a server that is behind is a conflict.
ConflictsIfAhead(p, f) == Top(f) < run[p].work[f].seq /\ ~run[p].force

\* The guard: without --force the server must be at the seq of the entry.
Conflicts(p, f) == Top(f) # run[p].work[f].seq /\ ~run[p].force

CheckStatus(p, f) ==
  /\ Working(p, f, "status")
  /\ IF Conflicts(p, f)
       THEN FinishFile(p, f) /\ run' = [run EXCEPT ![p].bad = TRUE]
       ELSE job' = [job EXCEPT ![p][f].step = "update"] /\ UNCHANGED run
  /\ Frame /\ UNCHANGED <<server, left>>

\* upload_document, as the server answers it: content equal to the last version's
\* makes no new one, and a new document needs a path that is free.
ServerAnswers(p, f) ==
  LET text == job[p][f].text
      same == Top(f) > 0 /\ server[f][Top(f)] = text
      versions == IF same THEN server[f] ELSE Append(server[f], text)
  IN /\ server' = [server EXCEPT ![f] = versions]
     /\ job' = [job EXCEPT ![p][f].step = "answered", ![p][f].seq = Len(versions)]
     /\ UNCHANGED run

Upload(p, f) ==
  /\ \/ /\ Working(p, f, "update") /\ ServerAnswers(p, f)
     \/ /\ Working(p, f, "create") /\ Top(f) = 0 /\ ServerAnswers(p, f)
     \/ /\ Working(p, f, "create") /\ Top(f) > 0
        /\ FinishFile(p, f)
        /\ run' = [run EXCEPT ![p].bad = TRUE]
        /\ UNCHANGED server
  /\ Frame /\ UNCHANGED left

\* Wrong: the hash of the file as it is by now.
EntryRehashed(p, f) == [hash |-> disk[f], seq |-> job[p][f].seq]

EntryAnswered(p, f) == [hash |-> job[p][f].text, seq |-> job[p][f].seq]

\* recordResult, on the answer.
Record(p, f) ==
  /\ Working(p, f, "answered")
  /\ run' = [run EXCEPT ![p].work[f] = EntryAnswered(p, f)]
  /\ FinishFile(p, f)
  /\ Frame /\ UNCHANGED <<server, left>>

\* A request that does not arrive, or an answer that does not.
FileFails(p, f) ==
  /\ p \in alive /\ f \in Busy(p)
  /\ Fault
  /\ FinishFile(p, f)
  /\ run' = [run EXCEPT ![p].bad = TRUE]
  /\ Frame /\ UNCHANGED server

FileStep(p, f) ==
  StartFile(p, f) \/ CheckStatus(p, f) \/ Upload(p, f) \/ Record(p, f) \/ FileFails(p, f)

-----------------------------------------------------------------------------
(* The end of a push: the finally block.                                    *)

WorkersDone(p) ==
  /\ p \in alive /\ run[p].pc = "push"
  /\ Busy(p) = {}
  /\ run[p].todo = {} \/ run[p].stop
  /\ run' = [run EXCEPT ![p].pc = "save"]
  /\ UNCHANGED <<pidFileVars, job, worldVars, server, manifest, overtaken, left>>

\* writeManifest truncates the file and then writes it.
Truncate(p) ==
  /\ p \in alive /\ run[p].pc = "save"
  /\ manifest' = Torn
  /\ run' = [run EXCEPT ![p].pc = "fill"]
  /\ UNCHANGED <<pidFileVars, job, worldVars, server, overtaken, left>>

WriteManifest(p) ==
  /\ p \in alive /\ run[p].pc = "fill"
  /\ manifest' = [torn |-> FALSE, files |-> run[p].work]
  /\ run' = [run EXCEPT ![p].pc = "release"]
  /\ UNCHANGED <<pidFileVars, job, worldVars, server, overtaken, left>>

Release(p) ==
  /\ run[p].pc = "release"
  /\ CheckOwner(p) \/ RemoveOwn(p)
  /\ UNCHANGED <<pushVars, worldVars, server, manifest, overtaken, left>>

Return(p) ==
  /\ run[p].pc = "release" /\ At(p, "out")
  /\ run' = [run EXCEPT ![p].pc = "ended", ![p].bad = @ \/ run[p].stop,
                        ![p].saw = [f \in Paths |-> 0], ![p].todo = {}, ![p].force = FALSE]
  /\ UNCHANGED <<pidFileVars, job, worldVars, server, manifest, overtaken, left>>

\* The process of a push run by hand exits.
Leave(p) ==
  /\ p \in Manual /\ run[p].pc = "ended"
  /\ Die(p)
  /\ UNCHANGED <<pushVars, worldVars, server, manifest, overtaken, left>>

-----------------------------------------------------------------------------
(* Signals and deaths.                                                      *)

ListensToSignals(p) == run[p].pc \in {"connect", "push", "save", "fill"}

\* Wrong: the handler exits at once.
StopNow(p) ==
  run' = [run EXCEPT ![p].stop = TRUE, ![p].pc = "ended", ![p].bad = TRUE]

\* The handler only takes note.
StopSoon(p) == run' = [run EXCEPT ![p].stop = TRUE]

Interrupt(p) ==
  /\ p \in alive \cap Manual
  /\ ListensToSignals(p) /\ ~run[p].stop
  /\ Fault
  /\ StopSoon(p)
  /\ UNCHANGED <<pidFileVars, job, worldVars, server, manifest, overtaken>>

\* A crash, a kill, or a second signal.
Crash(p) ==
  /\ Fault
  /\ Die(p)
  /\ run' = [run EXCEPT ![p] = NoRun]
  /\ job' = [job EXCEPT ![p] = [f \in Paths |-> NoJob]]
  /\ watch' = IF p = Watcher THEN [on |-> FALSE, timers |-> {}, queued |-> FALSE, inFlight |-> FALSE]
              ELSE watch
  /\ UNCHANGED <<disk, server, manifest, overtaken>>

-----------------------------------------------------------------------------
(* mdloop watch.                                                            *)

\* onFsEvent hears of files written, not of files removed.
Edit(f, text) ==
  /\ left.edits > 0
  /\ left' = [left EXCEPT !.edits = @ - 1]
  /\ disk[f] # text
  /\ disk' = [disk EXCEPT ![f] = text]
  /\ watch' = IF watch.on /\ text # None
                THEN [watch EXCEPT !.timers = @ \cup {f}] ELSE watch
  /\ UNCHANGED <<pidFileVars, pushVars, server, manifest, overtaken>>

\* Wrong: a change that settles during a push is left to that push.
SchedulePushUnlessBusy(f) ==
  IF watch.inFlight
    THEN /\ watch' = [watch EXCEPT !.timers = @ \ {f}]
         /\ UNCHANGED <<run, claim>>
    ELSE /\ watch' = [watch EXCEPT !.timers = @ \ {f}, !.inFlight = TRUE]
         /\ StartPush(Watcher, FALSE)

\* schedulePush, when a file's timer fires; the first push starts at once.
SchedulePush(f) ==
  IF watch.inFlight
    THEN /\ watch' = [watch EXCEPT !.timers = @ \ {f}, !.queued = TRUE]
         /\ UNCHANGED <<run, claim>>
    ELSE /\ watch' = [watch EXCEPT !.timers = @ \ {f}, !.inFlight = TRUE]
         /\ StartPush(Watcher, FALSE)

Settle(f) ==
  /\ f \in watch.timers
  /\ SchedulePush(f)
  /\ UNCHANGED <<file, alive, overreached, job, disk, server, manifest, overtaken, left>>

\* The loop of runQueuedPushes, after a push; an interrupted one ended the process.
NextPush ==
  /\ watch.inFlight /\ run[Watcher].pc = "ended"
  /\ IF watch.queued /\ ~run[Watcher].stop
       THEN watch' = [watch EXCEPT !.queued = FALSE] /\ StartPush(Watcher, FALSE)
       ELSE /\ watch' = [watch EXCEPT !.queued = FALSE, !.inFlight = FALSE]
            /\ run' = [run EXCEPT ![Watcher] = NoRun]
            /\ UNCHANGED claim
  /\ UNCHANGED <<file, alive, overreached, job, disk, server, manifest, overtaken, left>>

\* A signal reaches the watcher and the push it may be running.
StopWatch ==
  /\ watch.on
  /\ Fault
  /\ watch' = [watch EXCEPT !.on = FALSE, !.timers = {}]
  /\ IF ListensToSignals(Watcher) THEN StopSoon(Watcher) ELSE UNCHANGED run
  /\ UNCHANGED <<pidFileVars, job, disk, server, manifest, overtaken>>

\* The same document, uploaded from elsewhere.
UploadElsewhere(f, text) ==
  /\ left.others > 0
  /\ left' = [left EXCEPT !.others = @ - 1]
  /\ Top(f) > 0 => server[f][Top(f)] # text
  /\ server' = [server EXCEPT ![f] = Append(@, text)]
  /\ UNCHANGED <<pidFileVars, pushVars, worldVars, manifest, overtaken>>

-----------------------------------------------------------------------------
\* A linked folder that was never pushed; the watcher may have noticed some files.
Init ==
  /\ PidFileInit
  /\ server = [f \in Paths |-> <<>>]
  /\ manifest = [torn |-> FALSE, files |-> NoFiles]
  /\ run = [p \in Procs |-> NoRun]
  /\ job = [p \in Procs |-> [f \in Paths |-> NoJob]]
  /\ overtaken = FALSE
  /\ \E first \in Beginnings :
       /\ disk = first.disk
       /\ alive = first.procs
       /\ watch = [on |-> Watcher \in alive, timers |-> first.noticed,
                   queued |-> FALSE, inFlight |-> FALSE]
       /\ left = [edits |-> first.edits, others |-> first.others, faults |-> first.faults]

PushStep(p) ==
  \/ ClaimLock(p) \/ LockRefused(p) \/ LockTaken(p)
  \/ Connect(p) \/ ConnectFails(p)
  \/ \E f \in Paths : FileStep(p, f)
  \/ WorkersDone(p) \/ Truncate(p) \/ WriteManifest(p) \/ Release(p) \/ Return(p)

WatchStep == NextPush \/ \E f \in Paths : Settle(f)

Next ==
  \/ \E p \in Procs : PushStep(p) \/ Push(p) \/ Leave(p) \/ Interrupt(p) \/ Crash(p)
  \/ WatchStep \/ StopWatch
  \/ \E f \in Paths, text \in Contents \cup {None} : Edit(f, text)
  \/ \E f \in Paths, text \in Contents : UploadElsewhere(f, text)

\* Running processes go on; nobody has to edit, push, interrupt or upload.
Fairness ==
  /\ \A p \in Procs : WF_vars(PushStep(p))
  /\ WF_vars(WatchStep)

Spec == Init /\ [][Next]_vars /\ Fairness

-----------------------------------------------------------------------------
(* Properties.                                                              *)

\* Not so: two running pushes never hold the lock of a folder at once, of three where one
\* died or left.
LockExclusive == Cardinality(Holders) <= 1

\* The state of every push stays in its type, and one holds the lock, until somebody who
\* found its owner dead removes the lock that another took meanwhile.
OnePushAtATime == PushTypeOK /\ (~overreached => LockExclusive)

\* Every entry, saved or about to be, names a version the server has and the content
\* it has, whatever was uploaded between the status check and the upload.
EntriesAreTrue ==
  LET True(e, f) == e = NoEntry \/ (e.seq \in 1 .. Top(f) /\ server[f][e.seq] = e.hash)
  IN \A f \in Paths :
       /\ True(manifest.files[f], f)
       /\ \A p \in Procs : True(run[p].work[f], f)

Kept(p, f) ==
  run[p].work[f].seq > run[p].base[f].seq =>
    manifest.files[f].seq >= run[p].work[f].seq

\* Not so: what a push was told it uploaded is in the manifest once that push ended,
\* interrupted or not.
NothingForgotten ==
  \A p \in Procs : run[p].pc = "ended" /\ ~manifest.torn => \A f \in Paths : Kept(p, f)

\* While locks are removed only of the dead, the one way an upload is forgotten, short of
\* a crash during the write, is a push that took the lock with a manifest read before
\* another push saved its own.
ForgottenOnlyIfOvertaken == ~overtaken /\ ~overreached => NothingForgotten

\* Without --force nothing is uploaded over a version that was on the server before
\* the push began and that the folder does not know.
NothingBuriedUnseen ==
  [][\A p \in Procs, f \in Paths :
       job[p][f].step = "update" /\ job'[p][f].step = "answered" /\ ~run[p].force =>
         run[p].saw[f] <= run[p].work[f].seq]_vars

\* A change the watcher noticed is saved in the manifest in the end, or a push of the
\* watcher reported a failure, or the file is gone, or the watcher stopped.
ChangesArePushedOrReported ==
  \A f \in Paths : f \in watch.timers ~>
    \/ disk[f] = None
    \/ manifest.files[f].hash = disk[f]
    \/ run[Watcher].pc = "ended" /\ run[Watcher].bad
    \/ ~watch.on
=============================================================================
