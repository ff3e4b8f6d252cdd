------------------------------- MODULE Serve --------------------------------
(***************************************************************************)
(* The local instance: mdloop serve start, its detached supervisor, serve  *)
(* stop, and mdloop open, which attaches to a running instance or starts   *)
(* one of its own.                                                         *)
(*                                                                         *)
(* An instance is a database opened by its process and two children that   *)
(* listen on fixed ports; the two are one here, "the children" of their    *)
(* process, and outlive it unless somebody stops them.  instance.json is   *)
(* the PidFile, with a field that says whether the instance is up.         *)
(***************************************************************************)
EXTENDS PidFile

CONSTANTS
  Stops,      \* serve stop commands
  MaxCommands, MaxFaults   \* how many are run, and how much may fail

VARIABLES
  running,      \* the record's state is "running"
  opens,        \* processes that are mdloop open; the others are supervisors
  phase,        \* per process: how far it is
  interrupted,  \* processes that noted a signal
  launcher,     \* per supervisor: its serve start, and whom that reported
  stop,         \* per serve stop: how far it is, and whom it stops
  database,     \* processes that have the data directory's database open
  children,     \* processes whose children run
  port,         \* whose children listen
  announced,    \* the port files are there
  forced,       \* history: processes that were killed, or that left at a second signal
  gaveUp,       \* history: processes whose record or database failed them at the end
  left          \* how much may still happen

recordVars == <<pidFileVars, running>>
instanceVars == <<database, children, port, announced>>
commandVars == <<launcher, stop>>
vars == <<recordVars, opens, phase, interrupted, forced, gaveUp, instanceVars, commandVars, left>>

Phases == {"unborn", "check", "attached", "acquire", "start", "boot", "wait", "mark",
           "fill", "up", "clean", "close", "release", "ended"}

Nobody == [at |-> "none", who |-> {}]

ServeTypeOK ==
  /\ PidFileTypeOK
  /\ running \in BOOLEAN
  /\ opens \subseteq Procs
  /\ phase \in [Procs -> Phases]
  /\ interrupted \subseteq alive
  /\ launcher \in [Procs -> [at : {"none", "check", "poll", "kill", "remove", "failed", "ok"},
                                   who : SUBSET Procs]]
  /\ stop \in [Stops -> [at : {"none", "kill", "wait", "remove", "done"}, who : SUBSET Procs]]
  /\ database \subseteq alive
  /\ children \subseteq Procs
  /\ port \subseteq children /\ Cardinality(port) <= 1
  /\ announced \in BOOLEAN
  /\ forced \subseteq Procs /\ gaveUp \subseteq Procs

-----------------------------------------------------------------------------
(* The record.                                                              *)

\* A file that is created or removed does not say running.
Track == running' = (running /\ file' = file)

Torn == file.owner # {} /\ ~file.full
SaysRunning == file.full /\ running

\* liveInstance: the record says running, its process lives, and the port it names
\* answers /readyz, which asks the database.
liveInstance == SaysRunning /\ file.owner \subseteq alive /\ port # {} /\ port \subseteq database

\* releaseInstanceRecord without an owner.
RemoveRecord ==
  /\ Remove({})
  /\ Track
  /\ UNCHANGED <<claim, alive>>

Enter(p, next) == phase' = [phase EXCEPT ![p] = next]

Doing(p, here) == p \in alive /\ phase[p] = here

\* A process ends; its children do not.
Gone(p) ==
  /\ Die(p)
  /\ Enter(p, "ended")
  /\ interrupted' = interrupted \ {p}
  /\ database' = database \ {p}
  /\ UNCHANGED running

\* A first signal is noted once the handlers are there; another one ends the process.
Signal(p) ==
  IF phase[p] \in {"check", "acquire"} \/ p \in interrupted
    THEN Gone(p) /\ forced' = forced \cup {p}
    ELSE /\ interrupted' = interrupted \cup {p}
         /\ UNCHANGED <<recordVars, phase, database, forced>>

Kill(who) ==
  IF who \subseteq alive
    THEN \E p \in who : Signal(p)
    ELSE UNCHANGED <<recordVars, phase, interrupted, database, forced>>

Fault == left.faults > 0 /\ left' = [left EXCEPT !.faults = @ - 1]

Command == left.commands > 0 /\ left' = [left EXCEPT !.commands = @ - 1]

-----------------------------------------------------------------------------
(* serve start, the launcher, and serve start --foreground.                 *)

LauncherGoto(p, next, who) == launcher' = [launcher EXCEPT ![p] = [at |-> next, who |-> who]]

StartCommand(p) ==
  /\ launcher[p].at = "none" /\ phase[p] = "unborn"
  /\ Command
  /\ LauncherGoto(p, "check", {})
  /\ UNCHANGED <<recordVars, phase, interrupted, forced, instanceVars, stop>>

StartForeground(p) ==
  /\ phase[p] = "unborn" /\ launcher[p].at = "none"
  /\ Command
  /\ Enter(p, "acquire") /\ Acquire(p)
  /\ UNCHANGED <<file, alive, running, overreached, interrupted, forced, instanceVars,
                 commandVars>>

\* A torn record throws, a live instance is reported, and else a supervisor is spawned.
LauncherCheck(p) ==
  /\ launcher[p].at = "check"
  /\ \/ Torn /\ LauncherGoto(p, "failed", {}) /\ UNCHANGED <<phase, claim>>
     \/ liveInstance /\ LauncherGoto(p, "ok", file.owner) /\ UNCHANGED <<phase, claim>>
     \/ /\ ~Torn /\ ~liveInstance
        /\ LauncherGoto(p, "poll", {})
        /\ Enter(p, "acquire") /\ Acquire(p)
  /\ UNCHANGED <<file, alive, running, overreached, interrupted, forced, instanceVars,
                 stop, left>>

\* One round of the poll: whatever record says running ends it; a dead supervisor, or
\* the deadline, gives up.
LauncherPoll(p) ==
  /\ launcher[p].at = "poll"
  /\ \/ Torn /\ LauncherGoto(p, "failed", {})
     \/ SaysRunning /\ LauncherGoto(p, "ok", file.owner)
     \/ ~Torn /\ ~SaysRunning /\ LauncherGoto(p, "kill", {p})
  /\ UNCHANGED <<recordVars, phase, interrupted, forced, instanceVars, stop, left>>

LauncherKill(p) ==
  /\ launcher[p].at = "kill"
  /\ Kill({p})
  /\ LauncherGoto(p, "remove", {})
  /\ UNCHANGED <<children, port, announced, stop, left>>

LauncherRemove(p) ==
  /\ launcher[p].at = "remove"
  /\ RemoveRecord
  /\ LauncherGoto(p, "failed", {})
  /\ UNCHANGED <<phase, interrupted, forced, instanceVars, stop, left>>

-----------------------------------------------------------------------------
(* serve stop.                                                              *)

StopGoto(x, next, who) == stop' = [stop EXCEPT ![x] = [at |-> next, who |-> who]]

\* Nobody, or a dead owner, is nothing to stop; a torn record throws.
StopRead(x) ==
  /\ stop[x].at = "none"
  /\ Command
  /\ IF file.full /\ file.owner \subseteq alive
       THEN StopGoto(x, "kill", file.owner)
       ELSE StopGoto(x, "done", {})
  /\ UNCHANGED <<recordVars, phase, interrupted, forced, instanceVars, launcher>>

StopKill(x) ==
  /\ stop[x].at = "kill"
  /\ Kill(stop[x].who)
  /\ StopGoto(x, "wait", stop[x].who)
  /\ UNCHANGED <<children, port, announced, launcher, left>>

\* Dead in time, or killed with its group at the deadline.
StopWait(x) ==
  /\ stop[x].at = "wait"
  /\ IF stop[x].who \subseteq alive
       THEN \E p \in stop[x].who :
              /\ Gone(p)
              /\ forced' = forced \cup {p}
              /\ children' = children \ {p} /\ port' = port \ {p}
       ELSE UNCHANGED <<recordVars, phase, interrupted, forced, database, children, port>>
  /\ StopGoto(x, "remove", {})
  /\ UNCHANGED <<announced, launcher, left>>

StopRemove(x) ==
  /\ stop[x].at = "remove"
  /\ RemoveRecord
  /\ StopGoto(x, "done", {})
  /\ UNCHANGED <<phase, interrupted, forced, instanceVars, launcher, left>>

-----------------------------------------------------------------------------
(* mdloop open: attach, or an instance of its own, which it does not record. *)

Open(p) ==
  /\ phase[p] = "unborn"
  /\ launcher[p].at = "none"
  /\ Command
  /\ opens' = opens \cup {p}
  /\ Enter(p, "check")
  /\ UNCHANGED <<recordVars, interrupted, forced, instanceVars, commandVars>>

OpenCheck(p) ==
  /\ Doing(p, "check")
  /\ \/ Torn /\ Gone(p)
     \/ /\ ~Torn /\ Enter(p, IF liveInstance THEN "attached" ELSE "start")
        /\ UNCHANGED <<recordVars, interrupted, database>>
  /\ UNCHANGED <<forced, children, port, announced, commandVars, left>>

\* Ctrl-C, which the terminal sends to open's children too.
Interrupt(p) ==
  /\ p \in alive \ interrupted /\ phase[p] \notin {"unborn", "check", "ended"}
  /\ Signal(p)
  /\ \/ UNCHANGED <<children, port>>
     \/ p \in children /\ children' = children \ {p} /\ port' = port \ {p}
  /\ UNCHANGED <<announced, commandVars, left>>

Detach(p) ==
  /\ Doing(p, "attached") /\ p \in interrupted
  /\ Gone(p)
  /\ UNCHANGED <<forced, children, port, announced, commandVars, left>>

-----------------------------------------------------------------------------
(* The supervisor and open's own mode: startLocalInstance, and its stop.    *)

Same == UNCHANGED <<forced, commandVars>>

AcquireRecord(p) ==
  /\ phase[p] = "acquire"
  /\ Acquiring(p) /\ Track
  /\ Same /\ UNCHANGED <<phase, interrupted, instanceVars, left>>

\* Somebody else's record, or one that cannot be read, or three attempts.
GiveWay(p) ==
  /\ phase[p] = "acquire" /\ At(p, "refused")
  /\ Gone(p)
  /\ Same /\ UNCHANGED <<children, port, announced, left>>

Acquired(p) ==
  /\ phase[p] = "acquire" /\ At(p, "held")
  /\ Enter(p, "start")
  /\ Same /\ UNCHANGED <<recordVars, interrupted, instanceVars, left>>

OpenDatabase(p) ==
  /\ Doing(p, "start")
  /\ database' = database \cup {p}
  /\ Enter(p, "boot")
  /\ Same /\ UNCHANGED <<recordVars, interrupted, children, port, announced, left>>

\* Migrations, the old port files removed, the children spawned.
SpawnChildren(p) ==
  /\ Doing(p, "boot")
  /\ announced' = FALSE
  /\ children' = children \cup {p}
  /\ Enter(p, "wait")
  /\ Same /\ UNCHANGED <<recordVars, interrupted, database, port, left>>

\* What fails before the children run: opening the database leaves nothing to clean.
StartFails(p) ==
  /\ Fault
  /\ \/ Doing(p, "start") /\ Enter(p, "release")
     \/ Doing(p, "boot") /\ Enter(p, "clean")
  /\ Same /\ UNCHANGED <<recordVars, interrupted, instanceVars>>

\* A child listens and announces its port, or finds the port or the database missing.
ChildStarts(p) ==
  /\ p \in children \ port
  /\ \/ port = {} /\ port' = {p} /\ announced' = TRUE /\ UNCHANGED children
     \/ /\ port # {} \/ p \notin database
        /\ children' = children \ {p}
        /\ UNCHANGED <<port, announced>>
  /\ Same /\ UNCHANGED <<recordVars, phase, interrupted, database, left>>

\* A port file, and an answer from whoever listens there.
Answered == announced /\ port # {} /\ port \subseteq database

Ready(p) ==
  /\ Doing(p, "wait") /\ Answered
  /\ Enter(p, IF p \in opens THEN "up" ELSE "mark")
  /\ Same /\ UNCHANGED <<recordVars, interrupted, instanceVars, left>>

\* Wrong: the start that failed leaves its children to themselves.
NotReadyAndGone(p) ==
  /\ Doing(p, "wait")
  /\ Enter(p, "close")
  /\ Same /\ UNCHANGED <<recordVars, interrupted, instanceVars, left>>

\* A child left early, or the time is over.
NotReady(p) ==
  /\ Doing(p, "wait")
  /\ Enter(p, "clean")
  /\ Same /\ UNCHANGED <<recordVars, interrupted, instanceVars, left>>

\* markInstanceRunning truncates or creates the file, whoever's it is, and writes it.
MarkRunning(p) ==
  /\ Doing(p, "mark")
  /\ file' = [owner |-> {p}, full |-> FALSE]
  /\ running' = FALSE
  /\ Enter(p, "fill")
  /\ Same /\ UNCHANGED <<claim, alive, overreached, interrupted, instanceVars, left>>

\* Wrong: the state of the record that was acquired wins over the new one.
FillStarting(p) ==
  /\ Doing(p, "fill")
  /\ file' = IF file.owner = {p} THEN [file EXCEPT !.full = TRUE] ELSE file
  /\ Enter(p, "up")
  /\ Same /\ UNCHANGED <<running, claim, alive, overreached, interrupted, instanceVars, left>>

FillRunning(p) ==
  /\ Doing(p, "fill")
  /\ IF file.owner = {p}
       THEN file' = [file EXCEPT !.full = TRUE] /\ running' = TRUE
       ELSE UNCHANGED <<file, running>>
  /\ Enter(p, "up")
  /\ Same /\ UNCHANGED <<claim, alive, overreached, interrupted, instanceVars, left>>

Interrupted(p) ==
  /\ Doing(p, "up") /\ p \in interrupted
  /\ Enter(p, "clean")
  /\ Same /\ UNCHANGED <<recordVars, interrupted, instanceVars, left>>

\* Wrong: waits for the exit of children that may have left before.
ChildrenOf(p) == p \in children

CanStopChildren(p) == TRUE

\* Wrong: the record is given up before the database is closed.
StopAndRelease(p) ==
  /\ Doing(p, "clean")
  /\ children' = children \ {p} /\ port' = port \ {p}
  /\ Enter(p, "release")
  /\ Same /\ UNCHANGED <<recordVars, interrupted, database, announced, left>>

\* stopChild of both, or neither if they were never spawned.
StopChildren(p) ==
  /\ Doing(p, "clean") /\ CanStopChildren(p)
  /\ children' = children \ {p} /\ port' = port \ {p}
  /\ Enter(p, "close")
  /\ Same /\ UNCHANGED <<recordVars, interrupted, database, announced, left>>

CloseDatabase(p) ==
  /\ Doing(p, "close")
  /\ database' = database \ {p}
  /\ Enter(p, "release")
  /\ Same /\ UNCHANGED <<recordVars, interrupted, children, port, announced, left>>

\* Writing the record fails before it is truncated or after it, or closing the database
\* does.  The one catch there is gives up the record and leaves what runs to itself.
GivesUp(p) ==
  /\ p \in alive /\ phase[p] \in {"mark", "fill", "close"}
  /\ Fault
  /\ gaveUp' = gaveUp \cup {p}
  /\ Enter(p, "release")
  /\ Same /\ UNCHANGED <<recordVars, interrupted, instanceVars>>

\* A supervisor removes its own record; open has none.
ReleaseRecord(p) ==
  /\ Doing(p, "release")
  /\ CheckOwner(p) \/ RemoveOwn(p)
  /\ Track
  /\ Same /\ UNCHANGED <<phase, interrupted, instanceVars, left>>

Exit(p) ==
  /\ Doing(p, "release") /\ At(p, "out")
  /\ Gone(p)
  /\ Same /\ UNCHANGED <<children, port, announced, left>>

\* A crash or a kill from outside, and children that crash.
Crash(p) ==
  /\ phase[p] # "unborn"
  /\ Fault
  /\ \/ /\ Gone(p)
        /\ forced' = forced \cup {p}
        /\ UNCHANGED <<children, port>>
     \/ /\ p \in children
        /\ children' = children \ {p} /\ port' = port \ {p}
        /\ UNCHANGED <<recordVars, phase, interrupted, forced, database>>
  /\ UNCHANGED <<announced, commandVars>>

-----------------------------------------------------------------------------
Init ==
  /\ PidFileInit
  /\ alive = Procs
  /\ running = FALSE
  /\ opens = {}
  /\ phase = [p \in Procs |-> "unborn"]
  /\ interrupted = {} /\ forced = {} /\ gaveUp = {}
  /\ launcher = [p \in Procs |-> Nobody]
  /\ stop = [x \in Stops |-> Nobody]
  /\ database = {} /\ children = {} /\ port = {}
  /\ announced = FALSE
  /\ left = [commands |-> MaxCommands, faults |-> MaxFaults]

Launch(p) ==
  LauncherCheck(p) \/ LauncherPoll(p) \/ LauncherKill(p) \/ LauncherRemove(p)

Stop(x) == StopRead(x) \/ StopKill(x) \/ StopWait(x) \/ StopRemove(x)

Run(p) ==
  \/ OpenCheck(p) \/ Detach(p)
  \/ AcquireRecord(p) \/ GiveWay(p) \/ Acquired(p)
  \/ OpenDatabase(p) \/ SpawnChildren(p) \/ StartFails(p)
  \/ Ready(p) \/ NotReady(p) \/ MarkRunning(p) \/ FillRunning(p)
  \/ Interrupted(p) \/ StopChildren(p) \/ CloseDatabase(p) \/ ReleaseRecord(p) \/ Exit(p)

Next ==
  \/ \E p \in Procs :
       \/ Open(p) /\ UNCHANGED gaveUp
       \/ GivesUp(p) /\ UNCHANGED opens
       \/ /\ \/ StartCommand(p) \/ StartForeground(p) \/ Launch(p)
             \/ p \in opens /\ Interrupt(p)
             \/ Run(p) \/ ChildStarts(p) \/ Crash(p)
          /\ UNCHANGED <<opens, gaveUp>>
  \/ \E x \in Stops : Stop(x) /\ UNCHANGED <<opens, gaveUp>>

\* Running processes go on; nobody has to start or stop one.
Fairness ==
  \A p \in Procs : /\ WF_vars(Run(p) /\ UNCHANGED <<opens, gaveUp>>)
                   /\ WF_vars(ChildStarts(p) /\ UNCHANGED <<opens, gaveUp>>)

Spec == Init /\ [][Next]_vars /\ Fairness

-----------------------------------------------------------------------------
(* Properties.                                                              *)

\* An instance that serve start brought up can be found: the record is its own and
\* says running, unless somebody removed the record of a living process.
UpIsRecorded ==
  ~overreached => \A p \in Procs \ opens : phase[p] = "up" => SaysRunning /\ file.owner = {p}

\* Where nobody uses open, the instance that answers while a living process's record
\* says running is that process's, or one's that gave up: a start is not told of another's.
RunningIsItsOwn ==
  ~overreached /\ opens = {} /\ SaysRunning /\ file.owner \subseteq alive =>
    port \cap database \subseteq file.owner \cup gaveUp

\* What the record says of an instance is true of it.
RecordIsTrue == ServeTypeOK /\ UpIsRecorded /\ RunningIsItsOwn

\* Supervisors never have the database open at once, with the same exceptions.
OneServeDatabase == ~overreached => Cardinality(database \ (opens \cup gaveUp)) <= 1

\* Children are left behind only by a process that was killed, or left at a second signal,
\* or could not write its record: no failed start, stop or child of any order leaves them.
OrphansAccounted == children \ alive \subseteq forced \cup gaveUp

\* Not so: children are left behind only by a process that was killed or left at a second
\* signal, since every other one calls stop.
OrphansAreForced == children \ alive \subseteq forced

\* A process that noted a signal ends.
SignalledEnds == \A p \in Procs : p \in interrupted ~> p \notin alive

\* Not so: an instance that serve start reports is its own supervisor's, or that of a
\* process which is alive and has it up.
StartMeansRunning ==
  [][\A p \in Procs :
       launcher[p].at # "ok" /\ launcher'[p].at = "ok" /\ launcher'[p].who # {p} =>
         launcher'[p].who \subseteq {q \in alive : phase[q] \in {"up", "clean"}}]_vars

\* Not so: while an instance that open started is up, nobody else opens its database.
OpenIsAttachedTo == \A p \in opens : phase[p] = "up" => database = {p}
=============================================================================
