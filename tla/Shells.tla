--------------------------------- MODULE Shells ---------------------------------
(***************************************************************************)
(* Background shells (minicoding-tools, shell/background.rs): a table of   *)
(* child processes with a place for each one's exit code, and beside every *)
(* process a task that polls it.  The tools that spawn and kill have side  *)
(* effects, so that a turn runs one of them at a time; the cancel of the   *)
(* turn drops it where it awaits.  The wait tasks run on other threads.    *)
(***************************************************************************)
EXTENDS Integers, FiniteSets, Sequences, FiniteSetsExt

CONSTANTS
    MaxTrackedShells,   \* MAX_TRACKED_SHELLS
    MaxSpawned          \* bound: processes spawned, numbered by their seq

ASSUME ShellsAssumption == MaxTrackedShells \in Nat \ {0} /\ MaxSpawned \in Nat

Shells == 1..MaxSpawned

VARIABLES
    process,    \* of each shell; "exited" is not yet reaped
    signalled,  \* processes that SIGKILL is sent to
    waiting,    \* the wait task of each
    exit_code,  \* shells whose exit code is recorded
    tracked,    \* the table
    shellTool,  \* the shell tool that runs
    pool,       \* killpg calls handed to the blocking threads
    killed      \* history: the last shell for which kill has returned Ok, or 0

shellVars == <<process, signalled, waiting, exit_code, tracked, shellTool, pool, killed>>

NoTool == [at |-> "idle", on |-> 0]

ShellInit ==
    /\ process = [s \in Shells |-> "unborn"] /\ waiting = [s \in Shells |-> "none"]
    /\ signalled = {} /\ exit_code = {} /\ tracked = {} /\ pool = {} /\ killed = 0
    /\ shellTool = NoTool

(* Who holds the lock of a child: its wait task, or kill while it signals. *)
ChildLocked(s) ==
    waiting[s] \in {"trying", "recording"} \/ (shellTool.on = s /\ shellTool.at = "signalling")
HasPid(s) == process[s] \in {"running", "exited"}

--------------------------------------------------------------------------------
(***************************************************************************)
(* The process, and the task that polls it: try_wait, and with the child   *)
(* still locked the exit code.                                             *)
(***************************************************************************)
ProcessExits(s) ==
    /\ process[s] = "running"
    /\ process' = [process EXCEPT ![s] = "exited"]
    /\ UNCHANGED <<signalled, waiting, exit_code, tracked, shellTool, pool, killed>>

LocksChild(s) ==
    /\ waiting[s] = "sleeping" /\ ~ChildLocked(s)
    /\ waiting' = [waiting EXCEPT ![s] = "trying"]
    /\ UNCHANGED <<process, signalled, exit_code, tracked, shellTool, pool, killed>>
TryWait(s) ==
    /\ waiting[s] = "trying"
    /\ IF process[s] = "exited"
       THEN /\ process' = [process EXCEPT ![s] = "reaped"]
            /\ waiting' = [waiting EXCEPT ![s] = "recording"]
       ELSE waiting' = [waiting EXCEPT ![s] = "sleeping"] /\ UNCHANGED process
    /\ UNCHANGED <<signalled, exit_code, tracked, shellTool, pool, killed>>
Records(s) ==
    /\ waiting[s] = "recording"
    /\ exit_code' = exit_code \union {s} /\ waiting' = [waiting EXCEPT ![s] = "over"]
    /\ UNCHANGED <<process, signalled, tracked, shellTool, pool, killed>>

--------------------------------------------------------------------------------
(***************************************************************************)
(* spawn: the process, its wait task, then the table, which may have to    *)
(* give up an entry: the oldest that is finished, else the oldest.  The    *)
(* one that runs is killed when its child is not locked just then.         *)
(***************************************************************************)
NextInTurn(s) == process[s] = "unborn" /\ \A r \in 1..(s - 1) : process[r] # "unborn"

Spawns(s) ==
    /\ shellTool.at = "idle" /\ NextInTurn(s)
    /\ process' = [process EXCEPT ![s] = "running"]
    /\ waiting' = [waiting EXCEPT ![s] = "sleeping"]
    /\ shellTool' = [at |-> "tracking", on |-> s]
    /\ UNCHANGED <<signalled, exit_code, tracked, pool, killed>>

Victim ==
    LET finished == tracked \intersect exit_code
    IN IF finished # {} THEN Min(finished) ELSE Min(tracked)

Tracks ==
    /\ shellTool.at = "tracking"
    /\ IF Cardinality(tracked) < MaxTrackedShells
       THEN tracked' = tracked \union {shellTool.on} /\ UNCHANGED signalled
       ELSE /\ tracked' = (tracked \ {Victim}) \union {shellTool.on}
            /\ signalled' = IF Victim \notin exit_code /\ ~ChildLocked(Victim) /\ HasPid(Victim)
                            THEN signalled \union {Victim} ELSE signalled
    /\ shellTool' = NoTool
    /\ UNCHANGED <<process, waiting, exit_code, pool, killed>>

--------------------------------------------------------------------------------
(***************************************************************************)
(* kill: nothing is left to do when the exit code is there; else the child *)
(* is locked and stays locked while a blocking thread calls killpg.        *)
(***************************************************************************)
Kill(s) ==
    /\ shellTool.at = "idle" /\ s \in tracked
    /\ IF s \in exit_code
       THEN killed' = s /\ UNCHANGED shellTool
       ELSE shellTool' = [at |-> "locking", on |-> s] /\ UNCHANGED killed
    /\ UNCHANGED <<process, signalled, waiting, exit_code, tracked, pool>>

KillTries ==                    \* defect: does not wait for the child, as the eviction
    /\ shellTool.at = "locking"
    /\ IF ~ChildLocked(shellTool.on) /\ HasPid(shellTool.on)
       THEN /\ shellTool' = [shellTool EXCEPT !.at = "signalling"]
            /\ pool' = pool \union {shellTool.on} /\ UNCHANGED killed
       ELSE /\ shellTool' = NoTool
            /\ killed' = shellTool.on /\ UNCHANGED pool
    /\ UNCHANGED <<process, signalled, waiting, exit_code, tracked>>
KillLocks ==
    /\ shellTool.at = "locking" /\ ~ChildLocked(shellTool.on)
    /\ IF HasPid(shellTool.on)
       THEN /\ shellTool' = [shellTool EXCEPT !.at = "signalling"]
            /\ pool' = pool \union {shellTool.on} /\ UNCHANGED killed
       ELSE /\ shellTool' = NoTool
            /\ killed' = shellTool.on /\ UNCHANGED pool
    /\ UNCHANGED <<process, signalled, waiting, exit_code, tracked>>

(* killpg, on a thread that no cancel stops. *)
SignalLands(s) ==
    /\ s \in pool
    /\ pool' = pool \ {s}
    /\ signalled' = IF HasPid(s) THEN signalled \union {s} ELSE signalled
    /\ UNCHANGED <<process, waiting, exit_code, tracked, shellTool, killed>>
(* start_kill for good measure, and Ok. *)
KillReturns ==
    /\ shellTool.at = "signalling" /\ shellTool.on \notin pool
    /\ signalled' = signalled \union {shellTool.on}
    /\ killed' = shellTool.on /\ shellTool' = NoTool
    /\ UNCHANGED <<process, waiting, exit_code, tracked, pool>>

(* The turn is cancelled while kill awaits; spawn awaits nothing that is held long. *)
KillCancelled ==
    /\ shellTool.at \in {"locking", "signalling"}
    /\ shellTool' = NoTool
    /\ UNCHANGED <<process, signalled, waiting, exit_code, tracked, pool, killed>>

ShellNext ==
    \/ \E s \in Shells :
          \/ ProcessExits(s) \/ LocksChild(s) \/ TryWait(s) \/ Records(s)
          \/ Spawns(s) \/ Kill(s) \/ SignalLands(s)
    \/ Tracks \/ KillLocks \/ KillReturns \/ KillCancelled

ShellSpec == ShellInit /\ [][ShellNext]_shellVars

--------------------------------------------------------------------------------
ShellTypeOK ==
    /\ process \in [Shells -> {"unborn", "running", "exited", "reaped"}]
    /\ waiting \in [Shells -> {"none", "sleeping", "trying", "recording", "over"}]
    /\ (signalled \union exit_code \union pool) \subseteq Shells /\ killed \in 0..MaxSpawned
    /\ tracked \subseteq Shells /\ Cardinality(tracked) <= MaxTrackedShells
    /\ shellTool.at \in {"idle", "tracking", "locking", "signalling"}
    /\ exit_code \subseteq {s \in Shells : process[s] = "reaped"}

(* When shell.kill has answered Ok the process has been sent SIGKILL or is dead, *)
(* whatever its wait task, evictions and cancelled kills before it did.          *)
KillReaches ==
    killed # 0 => killed \in signalled \/ process[killed] \in {"exited", "reaped"}
================================================================================
