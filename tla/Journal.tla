--------------------------------- MODULE Journal ---------------------------------
(***************************************************************************)
(* The journal of file changes and /undo (minicoding-journal, and the file *)
(* tools of minicoding-tools that record into it).  A tool reads a file,   *)
(* replaces it and records both contents; undo takes the newest entries    *)
(* out of the journal and, newest first, looks whether a file still is     *)
(* what was recorded before it puts the older content back.  Tools with    *)
(* side effects run one at a time, undo never beside a turn.  What runs    *)
(* beside both is the user's editor, and a write that was handed to a      *)
(* blocking thread by a call that has since been dropped.                  *)
(***************************************************************************)
EXTENDS Integers, Sequences, SequencesExt

CONSTANTS
    Files, Texts,       \* files, and contents that are not empty
    MaxEntries,         \* MAX_JOURNAL_ENTRIES
    MaxBytes,           \* MAX_JOURNAL_BYTES, in units of one path or one text
    MaxChanges,         \* bound: calls that record a change
    MaxMishaps          \* bound: changes from outside, and dropped calls and undos

ASSUME JournalAssumption ==
    /\ MaxEntries \in Nat \ {0} /\ {MaxBytes, MaxChanges, MaxMishaps} \subseteq Nat
    /\ {"absent", "empty"} \intersect Texts = {}

Absent == "absent"
Empty == "empty"
Contents == Texts \union {Empty, Absent}

VARIABLES
    files,          \* the contents of the files
    entries,        \* the journal, oldest entry first
    total_bytes,    \* the running sum that is held against MaxBytes
    op,             \* the last op_id: they grow with time
    fileTool,       \* the file tool that runs
    undoing,        \* the undo that runs: what is left to restore, what could not be
    late,           \* writes on blocking threads that nobody waits for
    mishaps,        \* number of changes from outside and of dropped calls and undos
    touched         \* history: files changed by anything but recorded calls and undos

journalVars == <<files, entries, total_bytes, op, fileTool, undoing, late, mishaps, touched>>

NoFileTool == [at |-> "idle"]
NoUndo == [at |-> "idle", todo |-> <<>>, failed |-> <<>>]

JournalInit ==
    /\ files \in [Files -> {Absent} \union Texts]
    /\ entries = <<>> /\ total_bytes = 0 /\ op = 0
    /\ fileTool = NoFileTool /\ undoing = NoUndo
    /\ late = {} /\ mishaps = 0 /\ touched = {}

Quiet == fileTool.at = "idle" /\ undoing.at = "idle"

--------------------------------------------------------------------------------
(***************************************************************************)
(* write, edit and multiedit, delete: read, change, record.  Write takes   *)
(* a file that cannot be read for a new one; the others need the file, and *)
(* multiedit may write it back unchanged.                                  *)
(***************************************************************************)
ReadsFile(f, after) ==
    /\ Quiet /\ op < MaxChanges
    /\ fileTool' = [at |-> "read", file |-> f, before |-> files[f], after |-> after]
    /\ UNCHANGED <<files, entries, total_bytes, op, undoing, late, mishaps, touched>>
Write(f) == \E c \in Texts \union {Empty} : ReadsFile(f, c)
Edit(f) == files[f] # Absent /\ \E c \in Texts \union {Empty} : ReadsFile(f, c)
DeletesFile(f) == files[f] # Absent /\ ReadsFile(f, Absent)

(* remove_file fails when the file has gone since; a rename does not mind. *)
Changes ==
    /\ fileTool.at = "read"
    /\ IF fileTool.after = Absent /\ files[fileTool.file] = Absent
       THEN fileTool' = NoFileTool /\ UNCHANGED files
       ELSE /\ files' = [files EXCEPT ![fileTool.file] = fileTool.after]
            /\ fileTool' = [fileTool EXCEPT !.at = "changed"]
    /\ UNCHANGED <<entries, total_bytes, op, undoing, late, mishaps, touched>>

Size(c) == IF c \in {Absent, Empty} THEN 0 ELSE 1
EntryBytes(e) == 1 + Size(e.before) + Size(e.after)
Bytes(es) ==
    LET sum[n \in 0..Len(es)] == IF n = 0 THEN 0 ELSE sum[n - 1] + EntryBytes(es[n])
    IN sum[Len(es)]

(* The fewest oldest entries are given up that bring the journal below both bounds. *)
Fitting(es, bytes) ==
    LET Fits(n) == Len(es) - n <= MaxEntries /\ bytes - Bytes(SubSeq(es, 1, n)) <= MaxBytes
        enough == {n \in 0..Len(es) : Fits(n) \/ n = Len(es)}
    IN CHOOSE n \in enough : \A m \in enough : n <= m
(* saturating_sub: every entry was counted when it came, so that it never saturates. *)
Added(es) ==
    LET bytes == total_bytes + EntryBytes(Last(es))
        given_up == Fitting(es, bytes)
    IN /\ entries' = SubSeq(es, given_up + 1, Len(es))
       /\ total_bytes' = bytes - Bytes(SubSeq(es, 1, given_up))

RecordsChange ==
    /\ fileTool.at = "changed"
    /\ op' = op + 1
    /\ Added(Append(entries, [op_id |-> op', file |-> fileTool.file,
                                 before |-> fileTool.before, after |-> fileTool.after]))
    /\ fileTool' = NoFileTool
    /\ UNCHANGED <<files, undoing, late, mishaps, touched>>

(* The turn is cancelled: nothing is recorded, and a change that was under way *)
(* may still be made by its thread.                                            *)
CallDropped ==
    /\ fileTool.at # "idle" /\ mishaps < MaxMishaps
    /\ mishaps' = mishaps + 1 /\ fileTool' = NoFileTool
    /\ IF fileTool.at = "changed"
       THEN touched' = touched \union {fileTool.file} /\ UNCHANGED late
       ELSE /\ \/ late' = late \union {[file |-> fileTool.file, content |-> fileTool.after]}
               \/ UNCHANGED late
            /\ UNCHANGED touched
    /\ UNCHANGED <<files, entries, total_bytes, op, undoing>>

--------------------------------------------------------------------------------
(***************************************************************************)
(* undo                                                                    *)
(***************************************************************************)
UndoTakes(steps) ==
    /\ Quiet /\ steps \in 1..Len(entries)
    /\ LET kept == Len(entries) - steps
       IN /\ entries' = SubSeq(entries, 1, kept)
          /\ undoing' = [at |-> "looking", failed |-> <<>>,
                         todo |-> SubSeq(entries, kept + 1, Len(entries))]
    /\ UNCHANGED <<files, total_bytes, op, fileTool, late, mishaps, touched>>

Newest == Last(undoing.todo)
(* A missing file passes for an empty one; one that was created and is gone *)
(* has been undone already.                                                 *)
AsRecorded(e) ==
    \/ files[e.file] = e.after
    \/ e.after = Empty /\ e.before # Absent /\ files[e.file] = Absent
AlreadyGone(e) == e.before = Absent /\ files[e.file] = Absent

Restored == [at |-> "looking", todo |-> Front(undoing.todo), failed |-> undoing.failed]
Failed == [Restored EXCEPT !.failed = <<Newest>> \o @]

UndoLooks ==
    /\ undoing.at = "looking" /\ undoing.todo # <<>>
    /\ undoing' = IF AlreadyGone(Newest) THEN Restored
                  ELSE IF AsRecorded(Newest) THEN [undoing EXCEPT !.at = "restoring"]
                  ELSE Failed
    /\ UNCHANGED <<files, entries, total_bytes, op, fileTool, late, mishaps, touched>>
UndoRestores ==
    /\ undoing.at = "restoring"
    /\ IF AlreadyGone(Newest)
       THEN undoing' = Failed /\ UNCHANGED files
       ELSE files' = [files EXCEPT ![Newest.file] = Newest.before] /\ undoing' = Restored
    /\ UNCHANGED <<entries, total_bytes, op, fileTool, late, mishaps, touched>>
(* What could not be restored goes back to the tail, in order. *)
UndoEndsAtHead ==               \* defect: puts it at the head, as the code once did
    /\ undoing.at = "looking" /\ undoing.todo = <<>>
    /\ entries' = undoing.failed \o entries
    /\ undoing' = NoUndo
    /\ UNCHANGED <<files, total_bytes, op, fileTool, late, mishaps, touched>>
UndoEnds ==
    /\ undoing.at = "looking" /\ undoing.todo = <<>>
    /\ entries' = entries \o undoing.failed
    /\ undoing' = NoUndo
    /\ UNCHANGED <<files, total_bytes, op, fileTool, late, mishaps, touched>>

(* The client of the http server goes away: what was taken out does not come back. *)
UndoDropped ==
    /\ undoing.at # "idle" /\ mishaps < MaxMishaps
    /\ mishaps' = mishaps + 1 /\ undoing' = NoUndo
    /\ touched' = touched \union {e.file : e \in ToSet(undoing.todo)}
    /\ \/ UNCHANGED late
       \/ /\ undoing.at = "restoring"
          /\ late' = late \union {[file |-> Newest.file, content |-> Newest.before]}
    /\ UNCHANGED <<files, entries, total_bytes, op, fileTool>>

--------------------------------------------------------------------------------
OutsideChanges(f) ==
    /\ mishaps < MaxMishaps
    /\ mishaps' = mishaps + 1
    /\ \E c \in Contents \ {files[f]} : files' = [files EXCEPT ![f] = c]
    /\ touched' = touched \union {f}
    /\ UNCHANGED <<entries, total_bytes, op, fileTool, undoing, late>>

LateChanges ==
    /\ \E w \in late :
          /\ files' = [files EXCEPT ![w.file] = w.content]
          /\ late' = late \ {w} /\ touched' = touched \union {w.file}
    /\ UNCHANGED <<entries, total_bytes, op, fileTool, undoing, mishaps>>

JournalNext ==
    \/ \E f \in Files : Write(f) \/ Edit(f) \/ DeletesFile(f) \/ OutsideChanges(f)
    \/ Changes \/ RecordsChange \/ CallDropped
    \/ \E steps \in 1..MaxEntries : UndoTakes(steps)
    \/ UndoLooks \/ UndoRestores \/ UndoEnds \/ UndoDropped
    \/ LateChanges

JournalSpec == JournalInit /\ [][JournalNext]_journalVars

--------------------------------------------------------------------------------
IsEntry(e) ==
    e.op_id \in 1..MaxChanges /\ e.file \in Files /\ {e.before, e.after} \subseteq Contents
JournalTypeOK ==
    /\ files \in [Files -> Contents] /\ op \in 0..MaxChanges
    /\ \A e \in ToSet(entries \o undoing.todo \o undoing.failed) : IsEntry(e)
    /\ Len(entries) <= MaxEntries /\ total_bytes \in 0..MaxBytes
    /\ fileTool.at \in {"idle", "read", "changed"} /\ undoing.at \in {"idle", "looking", "restoring"}
    /\ mishaps <= MaxMishaps /\ touched \subseteq Files

(* What undo will find of f: the newest change left it at x, and each change  *)
(* found it as the one before had left it.                                    *)
Chained(order, f, x) ==
    LET of_f == {i \in DOMAIN order : order[i].file = f}
    IN /\ \A i \in of_f : (\A k \in of_f : k <= i) => order[i].after = x
       /\ \A i, j \in of_f :
             i < j /\ (\A k \in of_f : k <= i \/ j <= k) => order[i].after = order[j].before
Expected(f) ==
    IF fileTool.at = "changed" /\ fileTool.file = f THEN fileTool.before ELSE files[f]

(* The journal keeps the order of the changes, through failed undos and entries  *)
(* given up for their size; for a file that nothing else has changed it leads     *)
(* from the file as it is back through every content it had, one call at a time,  *)
(* and undo has refused none of its entries.                                      *)
UndoIsExact ==
    /\ LET order == entries \o undoing.todo
       IN /\ \A i, j \in 1..Len(order) : i < j => order[i].op_id < order[j].op_id
          /\ \A f \in Files \ touched : Chained(order, f, Expected(f))
    /\ \A e \in ToSet(undoing.failed) : e.file \in touched
================================================================================
