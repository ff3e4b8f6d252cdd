------------------------------ MODULE PidFile -------------------------------
(***************************************************************************)
(* The file by which processes of one machine exclude each other:          *)
(* .mdloop/.lock of a linked folder and instance.json of the local server. *)
(* It is created exclusively, names its owner's pid, and is removed by a   *)
(* newcomer who finds that pid dead.                                       *)
(*                                                                         *)
(* Creating the file and giving it its content are two steps of the file   *)
(* system; reading another's file, asking whether its owner runs and       *)
(* removing the file are three.  A pid is never given to another process   *)
(* here.                                                                   *)
(***************************************************************************)
EXTENDS Integers, FiniteSets

CONSTANTS
  Procs,        \* processes that want the file
  MaxAttempts   \* MAX_ATTEMPTS

ASSUME AttemptsAssumption == MaxAttempts \in Nat \ {0}

ASSUME ProcsAssumption == IsFiniteSet(Procs)

VARIABLES
  file,    \* the file: whose, and whether its content is written; nobody's is absent
  claim,   \* per process: how far its acquire or release is, and whose pid it has read
  alive,   \* processes that run
  overreached  \* history: somebody removed the file of another process that runs

pidFileVars == <<file, claim, alive, overreached>>

NoFile == [owner |-> {}, full |-> FALSE]

Unclaimed == [at |-> "out", attempts |-> 0, sees |-> {}]

PidFileTypeOK ==
  /\ file \in [owner : {{}} \cup {{p} : p \in Procs}, full : BOOLEAN]
  /\ claim \in [Procs -> [at : {"out", "create", "fill", "read", "probe", "steal",
                                "held", "refused", "remove"},
                          attempts : 0 .. MaxAttempts,
                          sees : {{}} \cup {{p} : p \in Procs}]]
  /\ alive \subseteq Procs
  /\ overreached \in BOOLEAN

PidFileInit ==
  /\ file = NoFile
  /\ claim = [p \in Procs |-> Unclaimed]
  /\ overreached = FALSE

-----------------------------------------------------------------------------
(* acquireLock and acquireInstanceRecord.                                   *)

Acquire(p) == claim' = [claim EXCEPT ![p] = [at |-> "create", attempts |-> 0, sees |-> {}]]

At(p, step) == p \in alive /\ claim[p].at = step

MoveTo(p, step) == claim' = [claim EXCEPT ![p].at = step]

\* Wrong: written over whatever is there.
CreateAnyway(p) ==
  /\ At(p, "create")
  /\ file' = [owner |-> {p}, full |-> FALSE]
  /\ MoveTo(p, "fill")
  /\ UNCHANGED <<alive, overreached>>

\* writeFile with flag wx: the open succeeds only where there is no file.
Create(p) ==
  /\ At(p, "create")
  /\ IF file.owner = {}
       THEN file' = [owner |-> {p}, full |-> FALSE] /\ MoveTo(p, "fill")
       ELSE UNCHANGED file /\ MoveTo(p, "read")
  /\ UNCHANGED <<alive, overreached>>

\* Its content goes to the file it opened, which may have been removed since.
Fill(p) ==
  /\ At(p, "fill")
  /\ file' = IF file.owner = {p} THEN [file EXCEPT !.full = TRUE] ELSE file
  /\ MoveTo(p, "held")
  /\ UNCHANGED <<alive, overreached>>

\* The next round of the loop, if there is one.
Again(p) ==
  claim' = [claim EXCEPT ![p] =
    [at |-> IF @.attempts + 1 = MaxAttempts THEN "refused" ELSE "create",
     attempts |-> @.attempts + 1, sees |-> {}]]

Sees(p, owner) == claim' = [claim EXCEPT ![p].at = "probe", ![p].sees = owner]

\* The file exists: it is gone again, cannot be parsed, or names its owner.
ReadExisting(p) ==
  /\ At(p, "read")
  /\ \/ file.owner = {} /\ Again(p)
     \/ file.owner # {} /\ ~file.full /\ MoveTo(p, "refused")
     \/ file.full /\ Sees(p, file.owner)
  /\ UNCHANGED <<file, alive, overreached>>

\* isAlive of the pid that was read, which may have left by now.
Probe(p) ==
  /\ At(p, "probe")
  /\ claim' = [claim EXCEPT
       ![p].at = IF claim[p].sees \subseteq alive THEN "refused" ELSE "steal",
       ![p].sees = {}]
  /\ UNCHANGED <<file, alive, overreached>>

\* rm with force, of whatever file is there now; `mine` may be removed by the actor.
Remove(mine) ==
  /\ file' = NoFile
  /\ overreached' = (overreached \/ \E q \in alive \ mine : file.owner = {q})

Steal(p) ==
  /\ At(p, "steal")
  /\ Remove({p})
  /\ Again(p)
  /\ UNCHANGED alive

Acquiring(p) == Create(p) \/ Fill(p) \/ ReadExisting(p) \/ Probe(p) \/ Steal(p)

-----------------------------------------------------------------------------
(* releaseLock and releaseInstanceRecord.                                   *)

\* With an owner given, another's file is left alone.
CheckOwner(p) ==
  /\ At(p, "held")
  /\ MoveTo(p, IF file.full /\ file.owner = {p} THEN "remove" ELSE "out")
  /\ UNCHANGED <<file, alive, overreached>>

RemoveOwn(p) ==
  /\ At(p, "remove")
  /\ Remove({p})
  /\ MoveTo(p, "out")
  /\ UNCHANGED alive

\* A kill, a crash or an exit; the file stays.
Die(p) ==
  /\ p \in alive
  /\ alive' = alive \ {p}
  /\ claim' = [claim EXCEPT ![p] = Unclaimed]
  /\ UNCHANGED <<file, overreached>>

Holders == {p \in Procs : claim[p].at = "held"}
=============================================================================
