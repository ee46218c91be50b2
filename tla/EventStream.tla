------------------------------ MODULE EventStream ------------------------------
(***************************************************************************)
(* Event sourcing of one session: the event file and the snapshot file on  *)
(* disk, the sequence counters of the Runtime that writes them             *)
(* (runtime/sourcing.rs), the second writer of the same file, the          *)
(* PlanControllerHandle (runtime/plan_handle.rs), and the three front ends *)
(* that open the session (cli, server, tui).  A process may crash at every *)
(* step, an append may fail, and a turn may be dropped at an await.        *)
(*                                                                         *)
(* The turn is reduced to what it persists: messages, other audited events *)
(* and `plan.exit`.  A context is the bag of messages the LLM would see;   *)
(* compression of the context is not modelled here.                        *)
(***************************************************************************)
EXTENDS Naturals, Sequences, FiniteSets

CONSTANTS
    Frontends,    \* the front ends considered, a subset of {"cli", "server", "tui"}
    Modes,        \* permission modes
    DefaultMode,  \* the mode a Runtime starts in
    PlanMode,     \* PermissionMode::Plan, the only mode `plan.exit` leaves
    Interval,     \* SNAPSHOT_INTERVAL
    Faults,       \* how an append may fail: "clean", "torn", "written"
    MaxSeq,       \* bound: largest sequence number allocated
    MaxMsg,       \* bound: messages of the session
    MaxCrash      \* bound: process crashes

ASSUME ConstantsAssumption ==
    /\ Frontends \subseteq {"cli", "server", "tui"}
    /\ DefaultMode \in Modes /\ PlanMode \in Modes
    /\ Interval \in Nat \ {0}
    /\ Faults \subseteq {"clean", "torn", "written"}
    /\ MaxSeq \in Nat \ {0} /\ MaxMsg \in Nat /\ MaxCrash \in Nat

VARIABLES
    frontend,   \* who opens the session; never changes
    \* --- disk ---
    records,    \* complete lines of {session}.events.jsonl
    tail,       \* what follows the last newline: <<>> or one unterminated line
    snapshot,   \* {session}.snapshot.json
    stored,     \* number of messages in the message log {session}.jsonl
    \* --- memory of the Runtime ---
    phase,      \* "down", "boot" (init_event_stream runs) or "open"
    event_seq, durable_seq, message_since_snapshot,
    ctx,        \* messages of the ContextManager, with their multiplicity
    mode,       \* plan_state.mode
    task,       \* the writers: the turn and the set_mode call in progress
    \* --- history, read by properties only ---
    acked,      \* sequence numbers whose append returned Ok to its caller
    crashes

disk == <<records, tail, snapshot, stored>>
counters == <<event_seq, durable_seq, message_since_snapshot>>
vars == <<frontend, disk, phase, counters, ctx, mode, task, acked, crashes>>

Writers == {"turn", "mode"}
Messages == 1..MaxMsg
Seqs == 1..MaxSeq

(***************************************************************************)
(* Persisted events.  "audit" stands for the events that replay only logs: *)
(* PermissionResolved, TaskUpdated, TurnEnd, StepStarted, StepEnded.       *)
(***************************************************************************)
Bodies == [kind : {"created", "message", "mode", "audit", "none"},
           arg : Messages \union Modes \union {0}]
Created == [kind |-> "created", arg |-> 0]
Audit == [kind |-> "audit", arg |-> 0]
Message(m) == [kind |-> "message", arg |-> m]
ModeChanged(to) == [kind |-> "mode", arg |-> to]
NoBody == [kind |-> "none", arg |-> 0]

Record == [seq : 0..MaxSeq, body : Bodies]
Rec(w) == [seq |-> task[w].seq, body |-> task[w].body]
Garbage == [seq |-> 0, body |-> NoBody]      \* an unterminated line that does not parse

EmptyCtx == [m \in Messages |-> 0]
Context == [Messages -> Nat]
NoSnapshot == [seq |-> 0, messages |-> EmptyCtx, mode |-> DefaultMode]

(***************************************************************************)
(* The event file as its readers see it.  read_tail_line skips an          *)
(* unterminated last line; parse_events (load) keeps it when it parses.    *)
(***************************************************************************)
TailSeq == IF records = <<>> THEN 0 ELSE records[Len(records)].seq
NextSeqByCount == Len(records) + 1           \* defect: counts lines instead
NextSeq == TailSeq + 1
Parsed == IF tail \in {<<>>, <<Garbage>>} THEN records ELSE records \o tail

(* replay_session_state: every event handed in is applied on top of the    *)
(* snapshot's messages, whatever its sequence number.                      *)
Copies(rs, m) == Cardinality({i \in DOMAIN rs : rs[i].body = Message(m)})
ReplayedSnapshotOnly ==                       \* defect: drops the events after it
    [m \in Messages |-> IF snapshot.seq > 0 THEN snapshot.messages[m]
                        ELSE Copies(Parsed, m)]
Replayed == [m \in Messages |-> snapshot.messages[m] + Copies(Parsed, m)]

(* MissingSessionCreated: without a snapshot the session must have been    *)
(* created before its first message.                                       *)
ReplayOkContiguous ==                         \* defect: a gap of numbers is an error
    \A i \in DOMAIN Parsed :
        Parsed[i].seq = i + (IF Parsed = <<>> THEN 0 ELSE Parsed[1].seq - 1)
ReplayOk ==
    \/ snapshot.seq > 0
    \/ \E i \in DOMAIN Parsed :
          /\ Parsed[i].body = Created
          /\ \A j \in 1..(i - 1) : Parsed[j].body.kind # "message"

NoStream == Parsed = <<>> /\ snapshot.seq = 0

(* The message log holds each message once. *)
FromMessageLog == [m \in Messages |-> IF m <= stored THEN 1 ELSE 0]

--------------------------------------------------------------------------------
(* Control of the two writers. *)
PCs == {"idle", "ready", "init_read", "init_set", "init_append", "init_done", "restore",
        "alloc", "append", "rollback", "durable", "snapshot"}
At(pc, s, b) == [pc |-> pc, seq |-> s, body |-> b]
Idle == At("idle", 0, NoBody)
Ready == At("ready", 0, NoBody)
AtRest(w) == IF w = "turn" THEN Ready ELSE Idle   \* where a persist call returns to
Goto(w, state) == task' = [task EXCEPT ![w] = state]

Init ==
    /\ frontend \in Frontends
    /\ records = <<>> /\ tail = <<>> /\ snapshot = NoSnapshot /\ stored = 0
    /\ phase = "down"
    /\ event_seq = 1 /\ durable_seq = 0 /\ message_since_snapshot = 0
    /\ ctx = EmptyCtx /\ mode = DefaultMode
    /\ task = [w \in Writers |-> Idle]
    /\ acked = {} /\ crashes = 0

(***************************************************************************)
(* A process opens the session.  The event stream is replayed when there   *)
(* is one; a failed replay is an error for cli and tui and falls back to   *)
(* the message log on the server.  cli and tui then call restore_history;  *)
(* the server builds the Runtime with an empty context.  cli, and the      *)
(* server when the session exists on disk, run init_event_stream before    *)
(* the session is usable; the tui never does.  cli and server afterwards   *)
(* set the mode that the snapshot holds.                                   *)
(***************************************************************************)
CanOpen == NoStream \/ ReplayOk \/ (frontend = "server" /\ stored > 0)

History == CASE frontend = "server" -> EmptyCtx
             [] frontend # "server" /\ NoStream -> FromMessageLog
             [] OTHER -> Replayed

BootsStreamOnResume ==                        \* defect: a new session is not created
    frontend # "tui" /\ ~(NoStream /\ stored = 0)
BootsStream == frontend = "cli" \/ (frontend = "server" /\ ~(NoStream /\ stored = 0))

RestoresMode == frontend # "tui" /\ snapshot.seq > 0

Launch ==
    /\ phase = "down" /\ CanOpen
    /\ phase' = IF BootsStream THEN "boot" ELSE "open"
    /\ event_seq' = 1 /\ durable_seq' = 0 /\ message_since_snapshot' = 0
    /\ ctx' = History
    /\ mode' = DefaultMode
    /\ task' = [turn |-> IF BootsStream THEN At("init_read", 0, NoBody) ELSE Idle,
                mode |-> IF RestoresMode
                         THEN At("restore", 0, ModeChanged(snapshot.mode)) ELSE Idle]
    /\ UNCHANGED <<frontend, disk, acked, crashes>>

--------------------------------------------------------------------------------
(***************************************************************************)
(* init_event_stream: at boot, and on the server again before every turn.  *)
(***************************************************************************)
InitDone == IF phase = "boot" THEN Idle ELSE Ready

DurableAtStartNext(next_seq) ==               \* defect: the number not yet written
    IF snapshot.seq = 0 /\ next_seq > 1 THEN next_seq ELSE snapshot.seq
DurableAtStart(next_seq) ==
    CASE snapshot.seq > 0 -> snapshot.seq
      [] snapshot.seq = 0 /\ next_seq > 1 -> next_seq - 1
      [] OTHER -> durable_seq

ReadNextSeq ==
    /\ task["turn"].pc = "init_read"
    /\ NextSeq <= MaxSeq
    /\ Goto("turn", At("init_set", NextSeq, NoBody))
    /\ UNCHANGED <<frontend, disk, phase, counters, ctx, mode, acked, crashes>>

(* The snapshot sets durable_seq and restarts the snapshot countdown; a new *)
(* session goes on to persist SessionCreated, any other is ready.           *)
LoadSnapshot ==
    /\ task["turn"].pc = "init_set"
    /\ LET next_seq == task["turn"].seq
           fresh == next_seq = 1 /\ snapshot.seq = 0
       IN /\ durable_seq' = DurableAtStart(next_seq)
          /\ message_since_snapshot' =
                 IF snapshot.seq > 0 THEN 0 ELSE message_since_snapshot
          /\ event_seq' = IF fresh THEN event_seq ELSE next_seq
          /\ Goto("turn", IF fresh THEN At("init_append", 1, Created) ELSE InitDone)
          /\ phase' = IF fresh THEN phase ELSE "open"
    /\ UNCHANGED <<frontend, disk, ctx, mode, acked, crashes>>

(***************************************************************************)
(* EventStore::append under the session lock: cut the unterminated line,   *)
(* refuse a number that is not above the last complete line, write.        *)
(***************************************************************************)
AcceptsEqual(s) == s >= TailSeq               \* defect: off by one
Accepts(s) == s > TailSeq

WriteLineCutsTwo(r) ==                        \* defect: the cut takes a whole line too
    /\ Accepts(r.seq)
    /\ records' = IF tail = <<>> THEN Append(records, r)
                  ELSE Append(SubSeq(records, 1, Len(records) - 1), r)
    /\ tail' = <<>>

WriteLine(r) ==
    /\ Accepts(r.seq)
    /\ records' = Append(records, r)
    /\ tail' = <<>>

RejectLine(r) ==
    /\ ~Accepts(r.seq)
    /\ tail' = <<>>
    /\ UNCHANGED records

(* An I/O error reported by append: nothing written, an unterminated line   *)
(* left (a prefix, or all of it but the newline), or a line that is written *)
(* but whose fsync failed.                                                  *)
FailLine(r) ==
    /\ Accepts(r.seq)
    /\ \/ "clean" \in Faults /\ tail' = <<>> /\ UNCHANGED records
       \/ "torn" \in Faults /\ tail' \in {<<Garbage>>, <<r>>} /\ UNCHANGED records
       \/ "written" \in Faults /\ WriteLine(r)

InitAppended ==
    /\ task["turn"].pc = "init_append"
    /\ WriteLine(Rec("turn"))
    /\ Goto("turn", [task["turn"] EXCEPT !.pc = "init_done"])
    /\ UNCHANGED <<frontend, snapshot, stored, phase, counters, ctx, mode, acked, crashes>>

InitCreated ==
    /\ task["turn"].pc = "init_done"
    /\ event_seq' = 2 /\ durable_seq' = 1
    /\ acked' = acked \union {1}
    /\ Goto("turn", InitDone)
    /\ phase' = "open"
    /\ UNCHANGED <<frontend, disk, message_since_snapshot, ctx, mode, crashes>>

(* An error of init_event_stream: cli exits, the server drops the Runtime   *)
(* it was restoring, or refuses the message for which it ran.               *)
InitFails ==
    /\ task["turn"].pc = "init_append"
    /\ RejectLine(Rec("turn")) \/ FailLine(Rec("turn"))
    /\ IF phase = "boot"
       THEN phase' = "down" /\ task' = [w \in Writers |-> Idle]
       ELSE phase' = phase /\ Goto("turn", Idle)
    /\ UNCHANGED <<frontend, snapshot, stored, counters, ctx, mode, acked, crashes>>

--------------------------------------------------------------------------------
(***************************************************************************)
(* Who writes when.  The server re-initialises the stream for every        *)
(* message and answers set_mode while a turn runs; cli and tui run one     *)
(* command at a time.                                                      *)
(***************************************************************************)
Alone(w) == frontend # "server" => \A v \in Writers \ {w} : task[v].pc = "idle"

StartTurnReinit ==                            \* defect: every front end re-initialises
    /\ phase = "open" /\ task["turn"].pc = "idle" /\ Alone("turn")
    /\ Goto("turn", At("init_read", 0, NoBody))
    /\ UNCHANGED <<frontend, disk, phase, counters, ctx, mode, acked, crashes>>

StartTurn ==
    /\ phase = "open" /\ task["turn"].pc = "idle" /\ Alone("turn")
    /\ Goto("turn", IF frontend = "server" THEN At("init_read", 0, NoBody) ELSE Ready)
    /\ UNCHANGED <<frontend, disk, phase, counters, ctx, mode, acked, crashes>>

(* storage.append, then ctx.append, then persist_event. *)
StoreMessage ==
    /\ task["turn"].pc = "ready"
    /\ stored < MaxMsg
    /\ stored' = stored + 1
    /\ ctx' = [ctx EXCEPT ![stored + 1] = @ + 1]
    /\ Goto("turn", At("alloc", 0, Message(stored + 1)))
    /\ UNCHANGED <<frontend, records, tail, snapshot, phase, counters, mode, acked, crashes>>

PersistAudit ==
    /\ task["turn"].pc = "ready"
    /\ Goto("turn", At("alloc", 0, Audit))
    /\ UNCHANGED <<frontend, disk, phase, counters, ctx, mode, acked, crashes>>

(* The tool plan.exit: changes the mode inside the turn. *)
ExitPlan ==
    /\ task["turn"].pc = "ready"
    /\ mode = PlanMode
    /\ \E to \in Modes : mode' = to /\ Goto("turn", At("alloc", 0, ModeChanged(to)))
    /\ UNCHANGED <<frontend, disk, phase, counters, ctx, acked, crashes>>

EndTurn ==
    /\ task["turn"].pc = "ready"
    /\ Goto("turn", Idle)
    /\ UNCHANGED <<frontend, disk, phase, counters, ctx, mode, acked, crashes>>

SetMode ==
    /\ phase = "open" /\ task["mode"].pc = "idle" /\ Alone("mode")
    /\ \E to \in Modes : mode' = to /\ Goto("mode", At("alloc", 0, ModeChanged(to)))
    /\ UNCHANGED <<frontend, disk, phase, counters, ctx, acked, crashes>>

(* set_mode with the snapshot's mode, once init_event_stream has returned. *)
RestoreMode ==
    /\ phase = "open" /\ task["mode"].pc = "restore"
    /\ mode' = task["mode"].body.arg
    /\ Goto("mode", At("alloc", 0, task["mode"].body))
    /\ UNCHANGED <<frontend, disk, phase, counters, ctx, acked, crashes>>

--------------------------------------------------------------------------------
(***************************************************************************)
(* persist_event and persist_mode_changed, at their awaits.                *)
(***************************************************************************)
Allocate(w) ==
    /\ task[w].pc = "alloc"
    /\ event_seq <= MaxSeq
    /\ event_seq' = event_seq + 1
    /\ Goto(w, At("append", event_seq, task[w].body))
    /\ UNCHANGED <<frontend, disk, phase, durable_seq, message_since_snapshot,
                   ctx, mode, acked, crashes>>

Appended(w) ==
    /\ task[w].pc = "append"
    /\ WriteLine(Rec(w))
    /\ Goto(w, [task[w] EXCEPT !.pc = "durable"])
    /\ UNCHANGED <<frontend, snapshot, stored, phase, counters, ctx, mode, acked, crashes>>

(* persist_event takes the number back; persist_mode_changed does not. *)
AppendFails(w) ==
    /\ task[w].pc = "append"
    /\ RejectLine(Rec(w)) \/ FailLine(Rec(w))
    /\ Goto(w, IF task[w].body.kind = "mode"
               THEN AtRest(w) ELSE [task[w] EXCEPT !.pc = "rollback"])
    /\ UNCHANGED <<frontend, snapshot, stored, phase, counters, ctx, mode, acked, crashes>>

RollbackTooFar(w) ==                          \* defect: takes one number too many back
    /\ task[w].pc = "rollback"
    /\ event_seq' = IF event_seq > task[w].seq THEN task[w].seq - 1 ELSE event_seq
    /\ Goto(w, AtRest(w))
    /\ UNCHANGED <<frontend, disk, phase, durable_seq, message_since_snapshot,
                   ctx, mode, acked, crashes>>

Rollback(w) ==
    /\ task[w].pc = "rollback"
    /\ event_seq' = IF event_seq > task[w].seq THEN task[w].seq ELSE event_seq
    /\ Goto(w, AtRest(w))
    /\ UNCHANGED <<frontend, disk, phase, durable_seq, message_since_snapshot,
                   ctx, mode, acked, crashes>>

MarkDurable(w) ==
    /\ task[w].pc = "durable"
    /\ acked' = acked \union {task[w].seq}
    /\ durable_seq' = IF task[w].seq > durable_seq THEN task[w].seq ELSE durable_seq
    /\ LET counts == task[w].body.kind = "message"
           count == message_since_snapshot + 1
       IN /\ message_since_snapshot' = IF counts THEN count ELSE message_since_snapshot
          /\ Goto(w, IF counts /\ count >= Interval
                     THEN [task[w] EXCEPT !.pc = "snapshot"] ELSE AtRest(w))
    /\ UNCHANGED <<frontend, disk, phase, event_seq, ctx, mode, crashes>>

(* create_snapshot: the file is replaced whole or not at all; the countdown *)
(* restarts either way.                                                     *)
CreateSnapshotAtNext(w) ==                    \* defect: labelled with the next number
    /\ task[w].pc = "snapshot" /\ event_seq <= MaxSeq
    /\ snapshot' = [seq |-> event_seq, messages |-> ctx, mode |-> mode]
    /\ message_since_snapshot' = 0
    /\ Goto(w, AtRest(w))
    /\ UNCHANGED <<frontend, records, tail, stored, phase, event_seq, durable_seq,
                   ctx, mode, acked, crashes>>

CreateSnapshot(w) ==
    /\ task[w].pc = "snapshot"
    /\ \/ snapshot' = [seq |-> task[w].seq, messages |-> ctx, mode |-> mode]
       \/ Faults # {} /\ UNCHANGED snapshot
    /\ message_since_snapshot' = 0
    /\ Goto(w, AtRest(w))
    /\ UNCHANGED <<frontend, records, tail, stored, phase, event_seq, durable_seq,
                   ctx, mode, acked, crashes>>

--------------------------------------------------------------------------------
(***************************************************************************)
(* The turn's future is dropped (cancel or timeout) while it awaits I/O;   *)
(* an append already handed to the blocking pool may still take effect,    *)
(* and nothing is rolled back.  run_turn then goes on to persist the       *)
(* backfilled results and the TurnEnd.  On the server the HTTP handler     *)
(* that awaits set_mode is dropped when its client disconnects.            *)
(***************************************************************************)
MayBeDropped(w) == w = "turn" \/ frontend = "server"

Drop(w) ==
    /\ MayBeDropped(w)
    /\ task[w].pc \in {"alloc", "append", "snapshot"}
    /\ \/ UNCHANGED <<records, tail>>
       \/ task[w].pc = "append" /\ WriteLine(Rec(w))
    /\ Goto(w, AtRest(w))
    /\ UNCHANGED <<frontend, snapshot, stored, phase, counters, ctx, mode, acked, crashes>>

(* The process dies.  A line being written may be missing, cut, complete    *)
(* but for its newline, or whole.                                           *)
Crash ==
    /\ phase # "down" /\ crashes < MaxCrash
    /\ crashes' = crashes + 1
    /\ phase' = "down"
    /\ task' = [w \in Writers |-> Idle]
    /\ \/ UNCHANGED <<records, tail>>
       \/ \E w \in Writers :
             /\ task[w].pc \in {"append", "init_append"} /\ Accepts(task[w].seq)
             /\ \/ WriteLine(Rec(w))
                \/ tail' \in {<<Garbage>>, <<Rec(w)>>} /\ UNCHANGED records
    /\ ctx' = EmptyCtx /\ mode' = DefaultMode
    /\ event_seq' = 1 /\ durable_seq' = 0 /\ message_since_snapshot' = 0
    /\ UNCHANGED <<frontend, snapshot, stored, acked>>

Persist(w) == Allocate(w) \/ Appended(w) \/ AppendFails(w) \/ Rollback(w)
              \/ MarkDurable(w) \/ CreateSnapshot(w) \/ Drop(w)

Next ==
    \/ Launch \/ ReadNextSeq \/ LoadSnapshot \/ InitAppended \/ InitCreated
    \/ InitFails
    \/ StartTurn \/ StoreMessage \/ PersistAudit \/ ExitPlan \/ EndTurn
    \/ SetMode \/ RestoreMode
    \/ \E w \in Writers : Persist(w)
    \/ Crash

Spec == Init /\ [][Next]_vars

--------------------------------------------------------------------------------
(* The type invariant. *)
TypeOK ==
    /\ frontend \in Frontends
    /\ records \in Seq(Record)
    /\ tail = <<>> \/ \E r \in Record : tail = <<r>>
    /\ snapshot \in [seq : 0..MaxSeq, messages : Context, mode : Modes]
    /\ stored \in 0..MaxMsg
    /\ phase \in {"down", "boot", "open"}
    /\ event_seq \in 1..(MaxSeq + 1)
    /\ durable_seq \in 0..MaxSeq
    /\ message_since_snapshot \in Nat
    /\ ctx \in Context /\ mode \in Modes
    /\ task \in [Writers -> [pc : PCs, seq : 0..MaxSeq, body : Bodies]]
    /\ acked \subseteq Seqs
    /\ crashes \in 0..MaxCrash

HasRecord(s) == \E i \in DOMAIN records : records[i].seq = s

(***************************************************************************)
(* The file is a log: later lines have larger numbers, whatever two        *)
(* writers, failed appends, drops and restarts did to the counters         *)
(* (JsonlEventStore::append under the session lock).                       *)
(***************************************************************************)
SeqStrict ==
    \A i, j \in DOMAIN records : i < j => records[i].seq < records[j].seq

(***************************************************************************)
(* What memory and the snapshot claim to be durable is on disk: durable_seq*)
(* and the snapshot's seq are numbers of complete lines of the file, across*)
(* rollbacks, re-initialisation and crashes (persist_event,                *)
(* init_event_stream, create_snapshot).                                    *)
(***************************************************************************)
DurableBacked ==
    /\ \A s \in acked : HasRecord(s)
    /\ durable_seq > 0 => HasRecord(durable_seq)
    /\ snapshot.seq > 0 => HasRecord(snapshot.seq)

(***************************************************************************)
(* An append is never refused for its number: whoever holds a number that  *)
(* is about to be written holds one above the end of the file (the comment *)
(* in persist_event: turns are serial, nobody else takes numbers).         *)
(***************************************************************************)
AppendAccepted ==
    \A w \in Writers :
        task[w].pc \in {"append", "init_append"} => Accepts(task[w].seq)

(***************************************************************************)
(* The same for the turn alone, what persist_event's comment says outright *)
(* ("a turn is serial, nobody takes a number concurrently").               *)
(***************************************************************************)
TurnAppendAccepted ==
    task["turn"].pc = "append" => Accepts(task["turn"].seq)

(* AppendAccepted where one command runs at a time and the stream is        *)
(* initialised: the cli, as long as no append fails after it wrote its line.*)
CliAppendAccepted ==
    frontend = "cli" /\ "written" \notin Faults => AppendAccepted

(***************************************************************************)
(* A session the cli opens begins with SessionCreated, so that a replay    *)
(* without a snapshot can rebuild it (init_event_stream before the first   *)
(* turn, replay's MissingSessionCreated).                                  *)
(***************************************************************************)
CreatedFirst ==
    frontend = "cli" /\ records # <<>> => records[1].body = Created

(* No crash locks the cli out of its session: replay never fails. *)
AlwaysReopens == frontend = "cli" /\ phase = "down" => CanOpen

(***************************************************************************)
(* An open cli or tui session still has in its context every message whose *)
(* event was acknowledged, by this process or an earlier one: snapshot,    *)
(* replay and restore_history lose none.                                   *)
(***************************************************************************)
NothingForgotten ==
    frontend # "server" /\ phase = "open" =>
        \A i \in DOMAIN records : \A m \in Messages :
            records[i].body = Message(m) /\ records[i].seq \in acked => ctx[m] > 0

(***************************************************************************)
(* A snapshot may stand in for the events up to its number: it holds every *)
(* message that those events append.                                       *)
(***************************************************************************)
SnapshotCovers ==
    frontend # "server" =>
        \A i \in DOMAIN records : \A m \in Messages :
            records[i].body = Message(m) /\ records[i].seq <= snapshot.seq
                => snapshot.messages[m] > 0

(* While a cli or tui process lives, durable_seq never goes back. *)
DurableMonotone ==
    [][frontend # "server" /\ phase # "down" /\ phase' # "down"
          => durable_seq' >= durable_seq]_vars

(* The event file is the log that EventLog promises. *)
Log == INSTANCE EventLog WITH log <- records
Implements == Log!Spec

(***************************************************************************)
(* Replay brings each message back once: with a snapshot only the events   *)
(* after it are needed (replay.rs, doc of replay_session_state).           *)
(***************************************************************************)
ReplayedOnce == phase = "open" => \A m \in Messages : ctx[m] <= 1
================================================================================
