--------------------------------- MODULE Store ---------------------------------
(***************************************************************************)
(* The message log on disk (storage: jsonl.rs, lock.rs, index.rs) as the   *)
(* processes that share a sessions directory use it.  Each session has a   *)
(* file of messages and a lock file; one index.json, changed under         *)
(* index.lock, has a count for each session.                               *)
(*                                                                         *)
(* A lock is held on the inode a process has opened, and delete removes    *)
(* the name of the lock file while others may have the inode open.         *)
(***************************************************************************)
EXTENDS Integers, Sequences, FiniteSets, SequencesExt

CONSTANTS
    Procs,         \* processes: cli, tui, server
    Sids,          \* session ids
    MaxAppends,    \* bound: messages appended
    MaxDeletes,    \* bound: deletes
    MaxLists,      \* bound: lists that find no index
    MaxCrashes     \* bound: processes that die

NoSid == "none"                  \* of a process that works on no session in particular

ASSUME StoreAssumption ==
    /\ IsFiniteSet(Procs) /\ IsFiniteSet(Sids) /\ NoSid \notin Sids
    /\ {MaxAppends, MaxDeletes, MaxLists, MaxCrashes} \subseteq Nat

VARIABLES
    lock_file,   \* the inode behind each session's lock file, 0 when there is none
    inodes,      \* number of lock files created
    file,        \* each session's file
    index,       \* index.json: the count of each session, 0 when it is not in it
    cached,      \* processes with a non-empty index in memory
    proc,        \* what each process is doing
    appends, deletes, lists, crashes,
    acked,       \* history: messages whose append has returned
    removed,     \* history: messages that were in a file when it was deleted
    scars        \* history: what has happened to each session

storeVars == <<lock_file, inodes, file, index, cached, proc, appends, deletes, lists, crashes,
               acked, removed, scars>>

Bad == 0                          \* a line that does not parse; messages are numbers from 1
NoFile == [gen |-> 0, lines |-> <<>>, torn |-> FALSE]
NoIndex == [s \in Sids |-> 0]
AtRest == [pc |-> "idle", op |-> "none", sid |-> NoSid, inode |-> 0, gen |-> 0, msg |-> 0,
           loaded |-> NoIndex, scan |-> NoIndex]

StoreInit ==
    /\ lock_file = [s \in Sids |-> 0] /\ inodes = 0
    /\ file = [s \in Sids |-> NoFile]
    /\ index = NoIndex /\ cached = {}
    /\ proc = [p \in Procs |-> AtRest]
    /\ appends = 0 /\ deletes = 0 /\ lists = 0 /\ crashes = 0
    /\ acked = {} /\ removed = {}
    /\ scars = [s \in Sids |-> {}]

tallies == <<appends, deletes, lists, crashes>>
onDisk == <<lock_file, inodes, file, index>>
ghosts == <<acked, removed, scars>>

Is(p, pc) == proc[p].pc = pc
Moves(p, pc) == proc' = [proc EXCEPT ![p].pc = pc]
Rests(p) == proc' = [proc EXCEPT ![p] = AtRest]

--------------------------------------------------------------------------------
(***************************************************************************)
(* SessionLock: open the lock file, creating it if need be, and poll for   *)
(* the lock of its inode; after ten seconds of another's lock, give up.    *)
(***************************************************************************)
OpensLock(p, s, op, msg) ==
    LET inode == IF lock_file[s] = 0 THEN inodes + 1 ELSE lock_file[s]
    IN /\ lock_file' = [lock_file EXCEPT ![s] = inode]
       /\ inodes' = IF lock_file[s] = 0 THEN inodes + 1 ELSE inodes
       /\ proc' = [proc EXCEPT ![p] = [AtRest EXCEPT !.pc = "lock", !.op = op, !.sid = s,
                                                       !.inode = inode, !.msg = msg]]

Critical == {"open", "write", "remove", "index", "save", "unlink"}
Locked(p) == proc[p].inode # 0 /\ proc[p].pc \in Critical
HeldByOther(p) == \E q \in Procs \ {p} : Locked(q) /\ proc[q].inode = proc[p].inode

AcquireAnyway(p) ==                           \* defect: goes on without the lock
    /\ Is(p, "lock")
    /\ Moves(p, IF proc[p].op = "append" THEN "open" ELSE "remove")
    /\ UNCHANGED <<onDisk, cached, tallies, ghosts>>
Acquire(p) ==
    /\ Is(p, "lock") /\ ~HeldByOther(p)
    /\ Moves(p, IF proc[p].op = "append" THEN "open" ELSE "remove")
    /\ UNCHANGED <<onDisk, cached, tallies, ghosts>>

GiveUp(p) ==
    /\ Is(p, "lock") /\ HeldByOther(p)
    /\ Rests(p)
    /\ UNCHANGED <<onDisk, cached, tallies, ghosts>>

(***************************************************************************)
(* append: open the file by its name, creating it; write one line; count   *)
(* it in the index; return.  A line written behind a torn one is part of   *)
(* the same line of the file, and neither can be read.                     *)
(***************************************************************************)
BeginAppend(p) ==
    \E s \in Sids :
        /\ Is(p, "idle") /\ appends < MaxAppends
        /\ appends' = appends + 1
        /\ OpensLock(p, s, "append", appends + 1)
        /\ UNCHANGED <<file, index, cached, deletes, lists, crashes, ghosts>>

(* fork_session_sync: the messages of another session under a new id, which nobody *)
(* else uses yet and which is therefore not locked.                                *)
Fork(p) ==
    \E s \in Sids :
        /\ Is(p, "idle") /\ appends + 2 <= MaxAppends
        /\ lock_file[s] = 0 /\ file[s] = NoFile
        /\ \A q \in Procs : proc[q].sid # s
        /\ appends' = appends + 2
        /\ file' = [file EXCEPT ![s].lines = <<appends + 1, appends + 2>>]
        /\ proc' = [proc EXCEPT ![p] = [AtRest EXCEPT !.pc = "index", !.op = "fork", !.sid = s,
                                                      !.msg = appends + 2]]
        /\ UNCHANGED <<lock_file, inodes, index, cached, deletes, lists, crashes, ghosts>>

Truncates(s) == [file[s] EXCEPT !.lines = <<>>, !.torn = FALSE]  \* defect: not opened to append
Opens(s) == file[s]

OpenFile(p) ==
    /\ Is(p, "open")
    /\ LET s == proc[p].sid
       IN /\ file' = [file EXCEPT ![s] = Opens(s)]
          /\ proc' = [proc EXCEPT ![p].gen = file[s].gen, ![p].pc = "write"]
    /\ UNCHANGED <<lock_file, inodes, index, cached, tallies, ghosts>>

OnName(p) == file[proc[p].sid].gen = proc[p].gen
WithLine(f, line) ==
    [f EXCEPT !.lines = IF f.torn THEN @ ELSE Append(@, line), !.torn = FALSE]
Scar(s, what) == scars' = [scars EXCEPT ![s] = @ \union what]

WriteLine(p) ==
    /\ Is(p, "write")
    /\ LET s == proc[p].sid
       IN IF OnName(p)
          THEN /\ file' = [file EXCEPT ![s] = WithLine(@, proc[p].msg)]
               /\ Scar(s, IF file[s].torn THEN {"merged"} ELSE {})
          ELSE UNCHANGED <<file, scars>>
    /\ Moves(p, "index")
    /\ UNCHANGED <<lock_file, inodes, index, cached, tallies, acked, removed>>

--------------------------------------------------------------------------------
(***************************************************************************)
(* mutate_index: read index.json again, change it, rename the new one over *)
(* it, all under index.lock.                                               *)
(***************************************************************************)
IndexLocked == \E p \in Procs : Is(p, "save")

IndexLoads(p) ==
    /\ Is(p, "index") /\ ~IndexLocked
    /\ proc' = [proc EXCEPT ![p].pc = "save", ![p].loaded = index]
    /\ UNCHANGED <<onDisk, cached, tallies, ghosts>>

Changed(p) ==
    LET old == proc[p].loaded
        scan == proc[p].scan
        s == proc[p].sid
    IN CASE proc[p].op = "append"    -> [old EXCEPT ![s] = @ + 1]
         [] proc[p].op = "fork"      -> [old EXCEPT ![s] = @ + 2]
         [] proc[p].op = "delete"    -> [old EXCEPT ![s] = 0]
         [] proc[p].op = "list"      -> scan
         [] proc[p].op = "list_sync" ->
               [t \in Sids |-> IF scan[t] # 0 THEN scan[t] ELSE old[t]]

(* What a scan of the directory says of a session: nothing when its first or its *)
(* last line cannot be read, else how many lines there are.                      *)
ScanOf(f) ==
    IF f.lines = <<>> \/ Bad \in {Head(f.lines), Last(f.lines)} THEN 0 ELSE Len(f.lines)

(* A scan is stale for a session that has changed since, or is being changed. *)
Stale(p, s) ==
    \/ proc[p].scan[s] # ScanOf(file[s])
    \/ \E q \in Procs \ {p} : proc[q].sid = s /\ proc[q].pc \in {"index", "save"}

IndexSaves(p) ==
    /\ Is(p, "save")
    /\ index' = Changed(p)
    /\ cached' = IF Changed(p) = NoIndex THEN cached \ {p} ELSE cached \union {p}
    /\ CASE proc[p].op = "append" -> Rests(p) /\ acked' = acked \union {proc[p].msg}
         [] proc[p].op = "fork"   -> Rests(p) /\ acked' = acked \union {proc[p].msg - 1, proc[p].msg}
         [] proc[p].op = "delete" -> Moves(p, "unlink") /\ UNCHANGED acked
         [] OTHER                 -> Rests(p) /\ UNCHANGED acked
    /\ scars' = [s \in Sids |-> scars[s] \union
                    (IF proc[p].op \in {"list", "list_sync"} /\ Stale(p, s)
                     THEN {"scan"} ELSE {})]
    /\ UNCHANGED <<lock_file, inodes, file, tallies, removed>>

--------------------------------------------------------------------------------
(***************************************************************************)
(* delete: under the session's lock, the file, then its entry in the       *)
(* index, then the lock file.  It comes from the cli, and from the         *)
(* Storage trait.                                                          *)
(***************************************************************************)
BeginDelete(p) ==
    \E s \in Sids :
        /\ Is(p, "idle") /\ deletes < MaxDeletes
        /\ deletes' = deletes + 1
        /\ OpensLock(p, s, "delete", 0)
        /\ UNCHANGED <<file, index, cached, appends, lists, crashes, ghosts>>

Forks(s) == \E q \in Procs : proc[q].op = "fork" /\ proc[q].sid = s

RemoveFileOnly(p) ==                          \* defect: the index keeps its entry
    /\ Is(p, "remove")
    /\ LET s == proc[p].sid
       IN /\ file' = [file EXCEPT ![s] = [NoFile EXCEPT !.gen = file[s].gen + 1]]
          /\ removed' = removed \union ToSet(file[s].lines)
          /\ Scar(s, IF Forks(s) THEN {"fork"} ELSE {})
    /\ Moves(p, "unlink")
    /\ UNCHANGED <<lock_file, inodes, index, cached, tallies, acked>>
RemoveFile(p) ==
    /\ Is(p, "remove")
    /\ LET s == proc[p].sid
       IN /\ file' = [file EXCEPT ![s] = [NoFile EXCEPT !.gen = file[s].gen + 1]]
          /\ removed' = removed \union ToSet(file[s].lines)
          /\ Scar(s, IF Forks(s) THEN {"fork"} ELSE {})
    /\ Moves(p, "index")
    /\ UNCHANGED <<lock_file, inodes, index, cached, tallies, acked>>

UnlinkLock(p) ==
    /\ Is(p, "unlink")
    /\ LET s == proc[p].sid
       IN /\ lock_file' = [lock_file EXCEPT ![s] = 0]
          /\ Scar(s, IF \E q \in Procs \ {p} : proc[q].sid = s THEN {"unlinked"} ELSE {})
    /\ Rests(p)
    /\ UNCHANGED <<inodes, file, index, cached, tallies, acked, removed>>

(***************************************************************************)
(* list_sessions and list_sessions_sync with nothing in memory: the index, *)
(* or, when there is none, a scan, whose result is then written.           *)
(***************************************************************************)
ReadIndex(p) ==
    /\ Is(p, "idle") /\ p \notin cached /\ index # NoIndex
    /\ cached' = cached \union {p}
    /\ UNCHANGED <<onDisk, proc, tallies, ghosts>>

Scan(p) ==
    \E op \in {"list", "list_sync"} :
        /\ Is(p, "idle") /\ p \notin cached /\ index = NoIndex /\ lists < MaxLists
        /\ lists' = lists + 1
        /\ LET found == [s \in Sids |-> ScanOf(file[s])]
           IN /\ proc' = [proc EXCEPT ![p] = [AtRest EXCEPT !.pc = "index", !.op = op,
                                                              !.scan = found]]
              /\ cached' = IF found = NoIndex THEN cached ELSE cached \union {p}
        /\ UNCHANGED <<onDisk, appends, deletes, crashes, ghosts>>

(***************************************************************************)
(* A process dies: its locks go with it.  A line being written may be      *)
(* missing, cut short, or whole; the index is the old or the new one.      *)
(***************************************************************************)
Crash(p) ==
    /\ ~Is(p, "idle") /\ crashes < MaxCrashes
    /\ crashes' = crashes + 1
    /\ LET s == proc[p].sid
           indexing == proc[p].pc \in {"index", "save"} /\ s # NoSid
       IN \/ ~indexing /\ UNCHANGED <<file, scars>>
          \/ /\ Is(p, "write") /\ OnName(p)
             /\ \/ /\ file' = [file EXCEPT ![s] = WithLine(@, proc[p].msg)]
                   /\ Scar(s, {"crash"} \union IF file[s].torn THEN {"merged"} ELSE {})
                \/ /\ file' = [file EXCEPT ![s] = [WithLine(@, Bad) EXCEPT !.torn = TRUE]]
                   /\ Scar(s, {"crash"})
          \/ /\ indexing
             /\ Scar(s, {"crash"}) /\ UNCHANGED file
    /\ Rests(p)
    /\ cached' = cached \ {p}
    /\ UNCHANGED <<lock_file, inodes, index, appends, deletes, lists, acked, removed>>

StoreNext ==
    \E p \in Procs :
        \/ BeginAppend(p) \/ Fork(p) \/ OpenFile(p) \/ WriteLine(p)
        \/ BeginDelete(p) \/ RemoveFile(p) \/ UnlinkLock(p)
        \/ Acquire(p) \/ GiveUp(p) \/ IndexLoads(p) \/ IndexSaves(p)
        \/ ReadIndex(p) \/ Scan(p) \/ Crash(p)

StoreSpec == StoreInit /\ [][StoreNext]_storeVars

--------------------------------------------------------------------------------
Counts == [Sids -> 0..(2 * MaxAppends)]

StoreTypeOK ==
    /\ lock_file \in [Sids -> 0..inodes] /\ inodes \in 0..(MaxAppends + MaxDeletes)
    /\ file \in [Sids -> [gen : 0..MaxDeletes, lines : Seq(0..MaxAppends), torn : BOOLEAN]]
    /\ index \in Counts /\ cached \subseteq Procs
    /\ proc \in [Procs -> [pc : {"idle", "lock"} \union Critical,
                           op : {"none", "append", "fork", "delete", "list", "list_sync"},
                           sid : Sids \union {NoSid}, inode : 0..inodes, gen : 0..MaxDeletes,
                           msg : 0..MaxAppends, loaded : Counts, scan : Counts]]
    /\ \A p, q \in Procs : Is(p, "save") /\ Is(q, "save") => p = q
    /\ appends \in 0..MaxAppends /\ deletes \in 0..MaxDeletes
    /\ lists \in 0..MaxLists /\ crashes \in 0..MaxCrashes
    /\ acked \subseteq 1..MaxAppends /\ removed \subseteq 0..MaxAppends
    /\ scars \in [Sids -> SUBSET {"merged", "scan", "unlinked", "fork", "crash"}]

(* Two processes work on the files of one session only after a delete has removed *)
(* the lock file under a process that had it open (lock.rs, jsonl.rs:226 and 809). *)
LockHeldOnce ==
    \A p, q \in Procs :
        p # q /\ Locked(p) /\ Locked(q) /\ proc[p].sid = proc[q].sid
            => "unlinked" \in scars[proc[p].sid]

(* With everybody at rest the index counts the messages of each session and names *)
(* no other, unless a process died in the middle, a delete let two processes in or *)
(* overtook a fork, a torn line was written to, or a stale scan was written.       *)
IndexAgrees ==
    (\A p \in Procs : Is(p, "idle")) =>
        \A s \in Sids : scars[s] = {} => index[s] = ScanOf(file[s])

(* A message whose append has returned is in its file until the session is deleted, *)
(* other sessions' and processes' work notwithstanding.                             *)
Kept(m) == m \in removed \/ \E s \in Sids : m \in ToSet(file[s].lines)
AckedKept ==
    \A m \in acked : Kept(m) \/ \E s \in Sids : scars[s] \intersect {"unlinked", "merged"} # {}

(* data-model.md, 3.2: a crash loses at most the line being written, since a last   *)
(* line that is not valid is cut off.                                               *)
CrashLosesLastLine == \A m \in acked : Kept(m)
================================================================================
