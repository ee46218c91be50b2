# Verification of minicoding: TLA+ specifications, TLC runs, TLAPS proofs

minicoding is a coding agent: a runtime (`crates/minicoding-core`) runs *turns*
(user message, requests to a language model, tool calls, results), persists what
happens, and is driven by three front ends: a command line (`minicoding-cli`), a
terminal UI (`minicoding-tui`) and an HTTP server (`minicoding-server`, also behind
the web and desktop views). This directory models the parts of it whose correctness
depends on the order of steps: who writes what to a session's files, and what a
turn leaves behind when it is cancelled, times out, fails or dies.

Paths below are relative to `crates/`. All definitions carry the names of the code
where TLA+ allows it; `PROJECT.json` maps each one to its lines.

## 1. Inventory

### Components, their state and their operations

| component | state | operations | correct when |
|---|---|---|---|
| **Event sourcing** `core/runtime/sourcing.rs` | `event_seq`, `durable_seq`, `message_since_snapshot` | `init_event_stream`, `persist_event`, `create_snapshot` | the file is a log with increasing numbers; what is claimed durable is in it |
| **Event store, snapshots, replay** `storage/event_store.rs`, `snapshot_store.rs`, `replay.rs` | `{session}.events.jsonl`, `{session}.snapshot.json` | `append` (repairs a torn tail, refuses old numbers), `next_seq`, `load`, `load_after`, `replay_session_state` | a reader gets every acknowledged event, each once, after any crash |
| **Plan mode** `core/runtime/plan_handle.rs` | `plan_state.mode` | `exit_plan`, `set_mode`, `persist_mode_changed` | mode changes reach the same log without disturbing the turn's events |
| **Turn loop** `core/runtime/rt.rs` | `turn_active`, `cancel_token`, iteration and repeat counters | `run_turn`, `cancel`, `backfill_missing_tool_results`, `restore_history` | one `TurnEnd` per turn; a cancel ends its own turn only; histories stay acceptable to providers |
| **Repairs** `core/runtime/repair.rs` | none | `repair_dangling_tool_calls`, `repair_request_messages` | each call is followed by its results |
| **Context and compression** `context/` | `messages` | `append`, `build_chat_request`, four compression levels | the history shrinks without separating calls from results |
| **Message log** `storage/jsonl.rs`, `lock.rs`, `index.rs` | `{session}.jsonl`, `index.json`, lock files | `append`, `load`, `delete`, `list` | no acknowledged message is lost, sessions are exclusive between processes |
| **Server sessions** `server/session_mgr.rs`, `http.rs` | map of sessions, `turn_lock`, `turn_semaphore`, `cursor` | `send_message`, `cancel_turn`, `set_permission_mode`, restore, evict, delete | accepted messages run; a session has one Runtime |
| **SSE cursor** `protocol/cursor.rs`, `server/sse.rs` | ring buffer, `next_seq`, `durable_seq` | `push`, `classify_replay`, reconnect | a client that reconnects misses nothing or is told to reload |
| **Permissions** `core/runtime/permission.rs`, `server/prompter.rs` | pending prompts, session rules | `prompt`, `resolve_permission`, timeout | no effect without a decision; one answer per prompt |
| **Denial breaker** `core/sandbox/breaker.rs` | counters | record, trip, reset | repeated denials stop the turn |
| **Tool rounds** `core/runtime/rt.rs`, `permission.rs`, `policy/builtin.rs` | plan state, session rules, `policy.toml` | `execute_tool_calls`, the chain of policy, hooks, rules, prompt | what is denied never runs; calls keep their order |
| **Model streams** `providers/`, `core/runtime/accumulator.rs` | buffers, accumulator | retry, framing, three parsers, `stream_llm` | the message kept is the one that was said |
| **MCP pool** `mcp/client/rmcp.rs`, `sdk/mcp_setup.rs` | `connections`, `inflight` | `call`, `start`, `restart`, supervisor | equal calls share a request; a restart disturbs no request |
| **Background shells** `tools/shell/background.rs` | table of children | `spawn`, `kill`, `evict_oldest`, wait task | a shell reported killed is killed |
| **Journal and file tools** `journal/journal_impl.rs`, `tools/fs/` | `entries`, `total_bytes` | `record`, `undo`, write, edit, delete | undo restores what was there, or refuses |
| **Servers on standard input** `server/ndjson.rs`, `acp.rs`, `lsp.rs`, `turn_tail.rs` | one subscription per prompt | `handle_prompt`, `run_turn`, `drain_turn_tail` | a client that is told of the end has been told the turn |
| hooks, task registry, memory, sandbox drivers, sub-agents, SDK, workspaces, views | | | see "Not modelled" |

### How they interact

* A front end calls `run_turn`. The turn stores each message in three places, in
  this order and with an await between them: message log, context, event file.
* `run_turn` is a `select!` over the turn, its cancellation token and its timeout.
  The two latter *drop* the turn at whatever await it is at; code behind the
  `select!` backfills results, writes a notice and broadcasts `TurnEnd`.
* On the server, requests arrive while a turn runs: messages queue on `turn_lock`
  and pre-empt the running turn through `Runtime::cancel`; a mode change writes the
  same event file through a second handle that shares the number counter.
* The cli's Ctrl-C task holds the token of the running turn. The tui sends commands
  over a channel that one task handles in order.
* On the server one task per session numbers the events of the Runtime's bus; every client
  (SSE, NDJSON, ACP, LSP) subscribes to the numbered events, and an SSE client may replay from
  a ring buffer or from the event store first.
* Inside a turn, the answer of the model is streamed and gathered; its tool calls are scheduled
  in waves; a call with a side effect is judged by policy, hooks, remembered rules and the user,
  and the user's answer comes from another task through a table of pending prompts.
* File tools record into the journal, which undo reads; processes that share a sessions
  directory meet at lock files and at `index.json`.
* A restart reads snapshot and events (cli, tui, server) or the message log, and,
  in cli and tui, hands the history to the new Runtime.

### What is hard

Two writers of one counter and file; drops between the three stores; appends that
fail cleanly, leave half a line, or write and still report an error; crashes at
every step; tokens that are renewed while somebody cancels them; commands handled
later than they were meant; histories that are repaired at several places by rules
that look at presence and not at place; handlers that look a session up, wait, and use what they
found; answers, timeouts and sweeps of one prompt; inputs rewritten after they were judged;
locks on files whose names are removed; futures that are shared, listed and dropped; entries
taken out before they are used. `PROJECT.json` lists each hazard at its line.

## 2. Modules

| module | models | kind |
|---|---|---|
| `EventLog` | what the event file promises | abstract specification |
| `EventStream` | event store, snapshots, replay, counters, both writers, opening by each front end | detailed specification; refines `EventLog` |
| `EventStreamProofs` | theorems about `EventStream` | proofs |
| `Transcript` | repairs, backfill, compression as operators on sequences of messages | data |
| `Turn` | `run_turn`, cancellation, the drivers of the turn; uses `Transcript` | specification |
| `TurnProofs` | theorems about `Turn` | proofs |
| `MessageQueue` | what the server promises whoever posts a message | abstract specification |
| `Sessions` | the server's table of sessions, its handlers and its prompts | specification; refines `MessageQueue` |
| `Sse` | numbering, ring buffer, replay and live streams of SSE clients, over an event store | specification |
| `Store` | message log, lock files and index, for several processes | specification |
| `SessionsProofs` | theorems about `Sessions` and `Store` | proofs |
| `ToolCalls` | a round of tool calls: waves, permission chain, denial breaker | specification |
| `Compaction` | the context manager: counts, four levels of compression, breaker | specification |
| `Streams` | an answer of the model from the socket to the message | specification |
| `RequestProofs` | theorems about `Compaction` and `Streams` | proofs |
| `Mcp` | the pool of MCP connections and its shared requests | specification |
| `Shells` | background shells and their kill | specification |
| `Journal` | file tools, journal and undo, beside an editor | specification |
| `ToolsProofs` | theorems about `ToolCalls`, `Mcp`, `Shells` and `Journal` | proofs |
| `Stdio` | how the NDJSON, ACP and LSP servers serve prompts | specification |
| `DeliveryProofs` | theorems about `Sse` and `Stdio` | proofs |
| `SequenceLemmas` | facts about numbers and sequences that the proofs share | proofs |
| `MCEventStream`, `MCTurn`, `MCMachines` | instances for TLC | |
| `MachinesProofs` | theorems about `MCMachines` | proofs |

The ten specifications from `Sessions` to `Stdio` share no state with one another: each is a
machine of its own, and to interleave two of them would only multiply states. `MCMachines`
therefore lets a behaviour choose one of them at the start and keeps the variables of the others
still; a counterexample of that run is one of the machine it names. Each of them also runs alone,
with the same constants.

### EventStream

State on disk: `records` (complete lines), `tail` (what follows the last newline),
`snapshot`, `stored` (how many messages the message log has). State in memory: the
three counters, the context as a bag of messages, the mode, and `task`, the place of
each of the two writers `"turn"` and `"mode"`. `acked` and `crashes` are history.

Each await of the code is a step boundary. `persist_event` is
`Allocate`, `Appended` or `AppendFails`, then `Rollback` or `MarkDurable`, then
`CreateSnapshot`; `init_event_stream` is `ReadNextSeq`, `LoadSnapshot`, and for a new
session `InitAppended`, `InitCreated` (or `InitFails`). `Launch` is a front end opening
the session, with the replay each of them does. `Drop` is a turn (or, on the server,
the handler of a mode change) whose future is dropped. `Crash` ends the process; a line
being written may be missing, cut, whole but for its newline, or whole.

What an append does with the torn tail of an earlier one, and which of `next_seq`, `load`
and `append` see an unterminated line that parses, follows `event_store.rs`.

Abstractions: events that replay only logs are one body `Audit`; a context is a bag,
since order and compression belong to `Turn`; the message log is a count; a snapshot
file is replaced whole. A dropped append takes effect at the drop or not at all: here,
unlike in `Turn`, it does not land later, because an append of the event file holds the
session's lock. Schema versions and damage in the middle of the file are left out.

### Transcript and Turn

A message is its role, the ids of its calls, and the id it answers. `RepairDangling`,
`RepairRequest` (`Known` drops the stray results, `BehindUser` puts a user message in front),
`Missing` (backfill) and `Compressed` (the set of results the levels can produce) are operators, written as
functions of a position where they go through a history; `Paired` is what a strict provider accepts.

`Turn` keeps the three histories (`stored`, `events`, `ctx`) apart. `pc` is the place
in `run_turn`; `region` is before, inside or behind the `select!`. Persisting a list of
messages (`todo`) is a loop of `AppendMessage`, `PersistMessage`, with `AppendFails`
doing what each caller does with an error. `Drop` is allowed at every await inside the
`select!`; the message being stored may have been stored, may have its event, or may be
stored later (`late`, then `LateWrite`). `Deactivate` and `RebuildToken` are two steps,
as are `CheckActive` and `CancelToken` of `Runtime::cancel`.

Abstractions: tokens of the context are counted as messages; which of several
compressions results is nondeterministic where it depends on lengths of texts;
`execute_tool_calls` is one step that returns all results, fails, or is dropped;
lifecycle hooks, reminders and metrics change nothing that is modelled. On a restart
the cli's context comes from all events, without snapshots (see `EventStream` for those).
`scars` records which failures a session has seen, so that each property can say under
which of them it is meant to hold.

### Sessions

One session id; each load of it is a `ServerSession` with a `turn_lock` (a queue whose head
holds it), permits and a table of prompts of its own. `actor` is the place of every handler and
task: a message goes from `Post` through `TakePermit`, `Preempt` and `Spawn` to the task that
waits for the lock (`Enqueue`), tests the flag (`CheckClosed`), runs and asks (`Announce`,
`Register`, then `Receive` or `Expire` and `RemoveExpired`); delete, eviction and the answer of a
prompt are actors, too. Each `get_or_load` is a step, `Insert` behind the wait for the disk
another. `fate` is history: who was told what.

To clients all this is a queue: `ActsAsQueue` maps `Sessions` onto `MessageQueue`. `QueueStatus` reads the
status of a message off its task's place, the line of a load is its `turn_lock`, and what is lost is what was
dropped. The abstract queue has no prompts, cancels, evictions or restores; it says that an accepted
message runs only in its place and alone, and is given up only when its session was dropped.

Left out: other sessions (they share nothing), the mode a restore sets, creating sessions. That an
SSE subscriber protects a session from eviction is nondeterministic.

### Sse

`disk` is the event store; each load has a cursor, a bus and what its sequencer has `sent`.
Numbering an event, reading `durable_seq` and sending it are three steps (`push_event`). A
connection subscribes, then replays from the buffer or the store, and then follows the live
channel, where it may lag. `Transient` events are numbered and not stored, so that the two number
spaces drift apart. `view` is what a client has been given; its `scars` name what no document
promises to cover: a change of load, a connection served from the store, an id of another load.

### Store

Processes with the place in `append`, `fork`, `delete` and the two `list`s they are at. A lock is
held on an inode (`lock_file` is the name, `proc[p].inode` what a process has open), which is what
makes the unlink of `delete` matter. A file is its lines and whether the last is torn. Crashes stop
a process at any step. `scars` names what has happened to a session, for the carve-outs of the
properties. Left out: the header line, the timeout of `index.lock`, `update_summary`.

### ToolCalls

A round is a sequence of inputs, one of the classes the policy tells apart. Reads between two
calls with side effects are a bucket that `ParallelReads` of them leave at a time; the call with a
side effect has a `chain`: `Judge`, `PreToolUse` (which may rewrite the input and has it judged
again by `JudgedAgain`), `PermissionRequest`, `LooksUp` of what was remembered, `UserAnswers`, `Dispatch`, `Fallback`,
`Retry`. `SwitchMode` happens at any time; the chain keeps the snapshot it began with. Hooks and
users may say anything. Left out: errors of the policy itself, unknown tools, `memory.write`,
expiry and scopes of rules beyond tool and directory, the soft threshold of the breaker, which
only changes a text.

### Compaction

A message is its role and tokens; a group is a call and the results behind it. `token_cache` is the
count the code keeps; `ClipResults`, `Compress` and `JudgeCompression` are the steps of
`compress`, `JudgeCompression` with the breaker; `Calibrated` is what the provider's usage does to
the count. `SnapshotCounts` and `SnapshotStores` are two steps, as in the code. Which message an
L2 summary keeps is computed as in `summarize.rs`; how long a summary is, is nondeterministic.
Left out: predictive compaction, which is off by default, pinned messages and role system, which
nothing produces, and `restore`. A provider is assumed to count at least what the tokenizer does.

### Streams

Bytes are halves of frames and their ends; `ChunkSizes` cut them anywhere. `OpenAi`,
`Anthropic` and `Ollama` are the frames each provider may send next; `Cut`, `Read`, `ReadEnd` and
`Flush` are the two readers, `Handles` what the parsers make of a frame, `Pushed` and `Finalized` the
accumulator. A connection may end or break anywhere,
and an attempt that brings no stream is repeated. Left out: what a request looks like,
authentication, and texts of errors.

### Mcp

A call looks for its key with the read lock of `inflight` and lists its future with the write lock.
A shared future moves only while somebody waits for it (`Polled`), and holds the read guard of
`connections` while it is sent; that lock is fair, so that it has a queue. `CallCancelled` drops
a call. The supervisor checks, stops, and starts servers one after another. Left out: lists of
tools, results, `warm_up` and `shutdown` (no caller). An answer and a timeout are the same step.

### Shells

A child process, its wait task, the table with its eviction, and `kill`, whose signal is sent by a
blocking thread while the child is locked and may land after the tool was dropped. Left out:
output buffers. Tools that spawn and kill have side effects, so a turn runs one at a time.

### Journal

A tool reads a file, changes it and records both contents, in three steps; `CallDropped` may leave
a change that nobody records or that is still to come (`late`). `UndoTakes` takes entries out;
for each, newest first, `UndoLooks` compares and `UndoRestores` writes; `UndoEnds` puts the refused
ones back. `OutsideChanges` is the user's editor. Undo and turns exclude each other, on the server
by `turn_lock`, elsewhere by their order. An entry has one file, as the tools record them; paths
and links, I/O errors, and a write that is cut in the middle are left out.

### Stdio

`stdin` is the channel between the reader task and the loop; a prompt is `waiting` for the loop or
for `turn_gate`, then `forwarding`, `draining` and `answering`. Its turn runs in a task of its own,
behind `turn_lock`; events go through the bus (`upcoming`) and the sequencer (`sequenced`), and a
prompt's subscription is a place in it, which lags behind by more than `LiveEvents` at a loss.
The preferences of each `select!` are kept. Left out: sessions, permission answers, parsing, shutdown.

## 3. Runs

| run | instance | shows |
|---|---|---|
| `event_stream_cli` | cli, 5 numbers, 3 messages, snapshot every 2, clean and torn appends, 2 crashes | appends are never refused, the session always reopens, no acknowledged message is forgotten, snapshots hold what their number promises, `durable_seq` never falls |
| `event_stream_server` | server and tui, 3 numbers, 1 message, torn appends and appends that write and fail, 1 crash | types, strictly increasing numbers, backing of what is called durable, refinement of `EventLog` |
| `turn_cli` | 2 turns of 2 requests, up to 2 calls, 1 compression, any one fault | pairing of requests, of the message log and of the replayed events; events are stored messages, in order; one `TurnEnd`; a fresh token for every turn |
| `turn_server` | server with 2 clients, and tui; 3 messages, queue of 2 | every accepted message gets a turn that ends |
| `machines` | the ten machines of `MCMachines` | their types, 22 invariants and a refinement, below |
| `event_stream_race` | server, no fault | **violated**: see finding 1 |
| `event_stream_replay` | cli, 1 crash, no fault | **violated**: finding 2 |
| `turn_cancel_race` | server, 1 turn | **violated**: finding 3 |
| `turn_tui_cancel` | tui, 1 turn | **violated**: finding 4 |
| `turn_pairing` | cli, 3 turns, no fault | **violated**: finding 5 |
| `store_torn` | one process, 3 messages, 1 crash | **violated**: finding 6 |
| `mcp_cancelled` | two equal calls, 1 cancelled | **violated**: finding 7 |

What `machines` checks:

| machine | properties | say |
|---|---|---|
| sessions | `OneOpenLoad`, `ActsAsQueue`, `WaitingIsListed`, `AnswerHolds` | loads outside the table are closed; messages run one at a time in the order of `turn_lock`, and an accepted one that never ran lost its session to a delete or eviction (refinement of `MessageQueue`); a prompt somebody waits for can be found; what a turn does rests on an acknowledged answer or on the timeout |
| sse | `SentIsReplayable`, `NothingMissed`, `NothingTwice` | what was sent can be replayed until it is evicted; a client that stays with a load misses nothing without being told, and gets nothing twice |
| store | `LockHeldOnce`, `IndexAgrees`, `AckedKept` | two processes on one session only after a delete removed a lock file in use; the index counts what is there; acknowledged messages stay |
| tools | `HardDenyHolds`, `RestrictedAsked`, `WavesKeepOrder`, `HardTripEnds` | what is denied does not run, rewritten or not; project documents are always asked for; effects happen in order; the breaker ends its own turn |
| context | `GroupsWhole`, `RequestFits` | calls keep their results; a request is over the threshold by at most the message not yet counted, or was warned of |
| streams | `ReplyIsWhatWasSaid`, `ShownOnce` | the message is what was said; nothing is shown twice |
| mcp | `OneRequestPerKey`, `RequestKeepsConnection` | equal calls are under way once; restarts wait for requests |
| shells | `KillReaches` | an acknowledged kill has reached its process |
| journal | `UndoIsExact` | entries keep the order of the changes through failed undos; for a file nothing else touched they lead back exactly, and none is refused |
| stdio | `TurnIsTold` | no event is written twice, and "completed" comes behind the whole turn |

Bounds and why they are enough:

* `MaxSeq` 5 with `Interval` 2 has `SessionCreated`, two messages, a snapshot and an
  event behind it, and room to reopen the session after that; two crashes let a repaired
  tail be torn again. That run has one mode, on whose value none of its properties depends. With two writers three
  numbers give each of them one beside `SessionCreated`, and `Interval` 1 makes every
  message a snapshot.
* `MaxTurns` 2 (3 for pairing and queueing) has a turn that is harmed by the one before;
  two calls per message distinguish a partly from a wholly answered one; two requests per
  turn show a history that contains results; `HardStop` 2 is reached by two equal rounds.
* `MaxFaults` 1: one fault of any kind at any step. `QueueLimit` 2 is one turn running and
  one waiting, with a third message refused.
* `Threshold` 4 makes compression happen in the second turn; `Window` (20) is larger than
  any history of these runs, so that L3 changes nothing and L4 does the cutting.

* `machines` is the sum of ten state spaces, not their product. Each has what its properties need to
  be violated, and little more: two messages, loads and permits (a handler that holds a load which was
  replaced); three events over a buffer of two (an eviction); two processes on two sessions with a crash
  (lock, unlink, index); two calls in two rounds with an input of each class, and `HardTrip` 2, which two
  denials reach; a threshold that three results reach; two uses and a text per answer, cut at any byte or
  in pieces of four; two callers and two servers with a death; three shells over a table of two (an
  eviction); two entries and one mishap, where a third change pushes the first entry out; two prompts with
  a message between them. `Journal` holds with two texts and `Stdio` with two events and messages as
  well, when they run alone.

Deadlock is not checked: sequence numbers, messages, requests and crashes are bounded, and behind the
bounds the system has nothing left to do.

## 4. Fairness and liveness

`MessagesRun` (every accepted message gets a turn that ends) is checked under weak
fairness of `Advance` (the steps the process takes by itself: tokio runs every ready task),
of `Timeout` (the timer of `select!` fires as long as the turn has not ended) and of the
two steps of each HTTP handler. Nothing is assumed of the provider, the tools, the users
and faults: a provider that never answers is a behaviour of the run, and the timeout is what
ends its turn.

The machines are checked for safety only, with no fairness.

## 5. Findings

1. *A mode change beside a turn makes the log refuse the turn's event* (`sourcing.rs:155`).
   Numbers are taken under a lock that is released before the append; the comment at
   `sourcing.rs:173` relies on turns being serial, but `set_permission_mode` takes numbers
   too. If the larger number is written first, the smaller is refused and its event is lost.
2. *Messages come back twice after a restart* (`replay.rs:152`). Replay applies all events on
   top of the snapshot, although its documentation says only those behind it are needed.
3. *A cancel between two turns can poison the next* (`rt.rs:331`): the test of `turn_active`
   and the cancellation of the current token are two steps.
4. *The tui's Ctrl-C reaches the next turn* (`runtime_bridge.rs:267`): commands are handled
   in order, so the cancel waits for the end of the turn it is meant for.
5. *A backfill can land behind a later user message* (`rt.rs:1042`), where no repair looks:
   a turn that stops with open calls, then one that is cancelled, and the requests of the third
   are not ones a strict provider accepts.

6. *A message behind a torn line is lost* (`jsonl.rs:706`): `append` does not look at what the
   file ends with, so that after a crash the next message becomes part of the torn line. The data
   model document says that an invalid last line is cut off at the start; the event file does it.
7. *A cancelled call leaves its request in the list* (`rmcp.rs:606`): only the call that made
   a request removes it, and the cancel of a turn drops that call. Later equal calls join the
   old request, although the comment there says they are sent anew.

Disagreements met on the way that no run of this project states, for whoever works on these parts:

* Replay of a session just restored answers every `Last-Event-ID` with nothing, since its buffer
  is empty (`cursor.rs:117`); the comment at `cursor.rs:151` says the store is asked then.
* A prompt is announced before it is in the table (`permission.rs:616`), so that an immediate answer
  is told 404; a sequencer that lags skips events silently (`session_mgr.rs:546`); a delete
  behind the test of `closed` (`session_mgr.rs:938`) leaves a turn on a load that is gone.
* When a hook rewrites an input to a project document, the prompt keeps the options of the original
  (`permission.rs:33`). The `PostToolUse` hook also runs after a failed dispatch, unlike
  `docs/hooks.md:29`. A mode switch while a prompt is open leaves the approved write running in plan
  mode (`permission.rs:170`). `policy.toml` is read, changed and written without a lock (`persist.rs:275`).
* Compression: a context between threshold and window after compressing counts as failed, so that a healthy
  session may be refused; L4 may drop the user's prompt; `snapshot` stores a count that an append has overtaken.
* A blank line behind Ollama's last makes the rest of the buffer one string; an error event in the middle of
  a stream ends it cleanly, with a call that has no argument.
* A restart of one MCP server restarts all, once a minute while one stays down (`mcp_setup.rs:81`). An abandoned
  future keeps the read guard of the pool.
* Evicting a shell whose child is locked leaves the process (`background.rs:358`); a kill dropped late may signal a pid
  already reaped.
* `total_bytes` of the journal is not reduced by undo, so that it gives up entries early
  (`journal_impl.rs:140`); an undo dropped in the middle loses what it took out; a refused newest entry
  blocks older ones for `/undo 1`.
* NDJSON subscribes behind the initialisation whose `SessionCreated` it means to forward (`ndjson.rs:349`).
  ACP leaves a prompt unanswered when a message during its turn has a bad id (`acp.rs:693`), and the turn
  goes on. LSP and the drain skip lost events silently.

## 6. Proofs

All theorems hold for every value of the constants that satisfies the assumption its module names.

### The event stream (`EventStreamProofs`)

* `TypeCorrect` (`Spec => []TypeOK`). The invariant adds to the types that a writer past
  `Allocate` holds a positive number, which is what makes `Ack` and `snapshot.seq` numbers of
  the log, and that a writer about to restore the mode carries one.
* `LogSafe` (`SeqStrict` and `DurableBacked`, the latter alone in `DurableIsOnDisk`). Inductive with
  one more conjunct: a writer
  between its append and `MarkDurable` or `CreateSnapshot` has its line in the file. The file
  is only ever extended, and only by a number above its last, so that backing is never lost.
* `StreamImplementsLog`: every step writes one line at the end, acknowledges a line that is
  there, or leaves the log alone.
* `CliAccepted`: on the cli, if no append writes its line and then fails, no number is
  refused. The invariant (`CliInv`) says that the writers take turns (`Serial`),
  that initialisation works on the end of the file it has read (`Boot`), and that the next number
  and every number not yet written lie above the last complete line (`Ahead`).
* `CliCreatedFirst` follows from it: the first line is `SessionCreated`. `CliReopens`
  (`AlwaysReopens`) needs it of a file without a snapshot, and of an unterminated line that `load`
  reads (`TailBegins`): what was being written when the file was still empty is `SessionCreated`, too.
* `SessionsRemember` and `SnapshotsCover` share `MemoryInv`: while the process lives, every message
  that has a line, or that a writer has in hand, is in the context
  (`Remembered`), and a snapshot holds what the lines up to its number append. The two need one another: the snapshot is a
  copy of the context, and the next process builds its context from snapshot and lines. An append that
  wrote its line and still failed is why `Remembered` speaks of lines and not of acknowledgements.
* `DurableGrows` (`DurableMonotone`) is about steps: initialisation alone sets `durable_seq` anew, and by
  `StartsOnce` it does so before the process has acknowledged anything.

### The turn (`TurnProofs`)

* `OneTurnEnd` (`TurnEndOnce`). Inductive with three facts about control: where a turn goes on
  after persisting is never behind its `TurnEnd`; at and behind the `TurnEnd` the turn is out of
  the `select!`, so that neither cancel nor timeout can drop it and broadcast another one; and
  before the `select!` it is at rest or storing the user's message.
* `CliTokenRenewed` (`CliTokenFresh`): on the cli no HTTP handler acts and no cancel waits in
  the channel, so that the token can only be cancelled while a turn runs, and every way out of a
  turn but the early error renews it.
* `ServerQueueBounded`: accepted messages are the finished ones plus those that hold a permit,
  which is one of three things: a handler about to pre-empt, a queued task, the running turn.
  The proof follows a message from one to the next; it needs that the clients are finitely many.
* `EventsInLog` (`EventsAreStored`): as long as the log has refused no notice, the events are embedded
  in the log, and with the event that is next they still are (`LoggedInv`). `HistoryStep`
  reduces a step to what it does to the histories: nothing, store the message in hand, report it, or let
  a late write land. `Embedded` says that an increasing map of positions exists; that the greedy search
  of `Within` finds it is `EmbeddedIsWithin`.

* `RequestsArePaired`, `LogIsPaired` and `ReplayIsPaired` (`RequestsPaired`, `StoredPaired`, `Resumable`)
  share one invariant, `PairInv`, and are the longest argument here. `Paired` itself is not inductive: a
  history is unpaired in the middle of every round. What always holds of log, context and events is that they
  are `Clustered`: no call is made twice or answered twice, and a result is separated from its call by results
  of the same message only (or of calls the history has lost). A clustered history that answers just the calls it makes is paired (`FullIsPaired`,
  by counting the results behind a caller); and the repairs make any clustered history such a one
  (`RequestIsPaired`). What compression keeps of a clustered history is clustered, since it removes whole
  groups (`CompressedTrims`).
  The histories stay clustered because only what `Fits` behind them is appended. After a drop the results
  come from the log alone and go to all three; so the invariant relates them (`ViewsInv`, `QuietInv`): a call in
  any of them is settled in the log, or still to be answered by what the turn has in hand (`Due`), or stands at
  the history's end, where a result may still be put. A late write may land between a call and its results,
  after which the log itself is not clustered: it remains the record of what is `Settled`, and a call behind
  which another caller stands counts as settled, because the backfill looks at the last caller only.
  TLC checked the invariant on small instances of `Turn` before it was proved.
  The invariant speaks of sessions whose only failures are lost events and late writes, as the properties do:
  the finding `turn_pairing` of section 5 is what lies beyond.

`InnerStep` shows that the steps inside a turn leave the front ends alone, and `NextSplit` divides
`Next` accordingly. The first four theorems look into no message, so that the histories need no types.

### The server's sessions and clients

`SessionsProofs`, for any messages, permits and loads:

* `OnlyOneOpens` (`OneOpenLoad`) is inductive by itself over the types: `Insert` happens at an empty
  table, and what leaves the table is closed in the same step.
* `WaitersAreListed` and `AnswersHold` share `PromptInv`: a prompt is in one table at most, one that
  is in a table has not been acknowledged, what is in its channel has been, and a message that has
  asked nobody yet has no trace anywhere.
* `AcceptedIsRunOrDropped` (`AcceptedFate`): by `FateInv` the permit and the place of a message are those
  of the load in the table, or that load was dropped after the message was asked for.
* `SessionsActAsQueue` (`ActsAsQueue`), the refinement: `TurnsInv` adds `LineInv` to `FateInv`, which says that the
  messages in the line of a load are, each once, those whose tasks wait for its `turn_lock` or hold it, and that whoever
  has gone past the lock stands at its head. Every step of the handlers then is one of the queue, or none.
  `ActsAsQueue` is `Queue!Spec` written so that TLC sees soon which
  steps move nothing; the theorem states both. `OneTurnPerLoad` is a corollary: two turns of a load never overlap.

`DeliveryProofs` on `Sse`, for any clients, events, loads and sizes of buffer and channel. `SseInv` has two halves:

* `Line` of each load: its entries (sent, or numbered and about to be) rise in number and in the order
  in which they were emitted, what waits on the bus is later, and the buffer holds all entries from its
  oldest on. `SentCanBeReplayed` follows.
* `Client`: the id a client reconnects with divides the entries of its load. Those up to it were given
  or are older than the last full fetch, and those behind it are newer than all that was given (`Anchored`,
  `NotSeen`). While it is connected, its channel and what it has still to replay cover the rest (`Following`).
  `ClientsMissNothing` and `ClientsSeeNothingTwice` follow. A connection subscribes first and replays
  second: the entries that both give are those at or below `floor`, which is why `floor` is in the invariant.

`DeliveryProofs` on `Stdio` (`TurnsAreTold`), for any prompts, messages, work and capacity. `StdioInv` says in turn:

* prompts are served one at a time and in the order in which they were sent (`StageInv`, and `StdinInv` for
  those still in the channel), which is what the gate and the single loop are for;
* the log of events, sent on or not, has for each turn its work in order and then its `TurnEnd` (`LogInv`);
* what is told follows the order of `sequenced`, and all of it lies behind the prompt that is served (`ToldInv`);
* unless a prompt up to it was given up or answered early, what lies before a prompt's place is its own, and
  what lies behind it has been told (`CleanInv`). This is what carries from one prompt to the next: a
  prompt that begins finds nothing left over, since the one before drained to its `TurnEnd` or saw that
  nothing was under way.

### The message log (`SessionsProofs`)

* `LocksExclude`: by `LockInv` what a process has open is the session's present lock file,
  unless a delete has unlinked it (the scar), and no two processes hold the same inode.
* `AckedStay` (`AckedKept`): by `KeptInv` a process about to write has open the file that has the name,
  and what it has written but not acknowledged is there.
* `IndexCounts` (`IndexAgrees`): an index is saved from the copy that was loaded under `index.lock`
  (`SaveInv`), and the count of a session differs from its messages exactly by the operations that have
  changed the file and not the index (`IndexInv`). `PlaceInv` says which operation can be where.

### Tools (`ToolsProofs`)

* A round of calls, of any length: `ToolInv` has the types, `RoundInv` (what is done,
  in flight and at hand, by position), `DenyInv` (a chain past its judgement was not denied, for the
  input asked and the one in effect) and `BreakerInv` (the breaker counts the turn's denials); `RulesInv`
  types the remembered rules. `DeniedNeverRuns`, `DocumentsAreAsked`, `CallsKeepOrder` and `BreakerEndsTurns`
  follow from it.
* The MCP pool: `ConnectionsKept` by `GuardInv` (a request under way holds the read guard, which excludes a
  replacement); `EqualCallsShare` by `ListInv` (a future that is not done is the one listed for its key, and
  each future has one call that takes it off the list, after it is done).
* Shells (`KillAlwaysReaches`): by `ShellInv` the shell a tool works on has been spawned, and an exit
  code is recorded of reaped processes only; so whichever way `kill` returns, its process was signalled or is dead.
* The journal (`UndoExact`): entries, what an undo has still to do and what it was refused rise in this
  order (`OrderInv`); of a file that nothing else has touched each entry begins with what the entry before left,
  and the last one with what the file has, also while a tool or an undo is at work (`WorkInv`, `ChainInv`).

### What goes to a model, and what comes back (`RequestProofs`)

The context:

* `GroupsStayWhole` (`GroupsWhole`): `GroupsWhole` counts, and a count is not inductive. `Blocked` says by
  position that behind each message that calls tools there are as many results as it has so far, and that
  each result has such a caller; `BlocksAreGroups` counts them. Each level of compression keeps what it
  keeps in order (`KeepHasPlaces`), and what it removes is closed under groups (`ExpandedIsClosed`), so that
  the places of a group stay neighbours (`PlacesTogether`).
* `RequestsFit` (`RequestFits`): the cached count trails the messages by at most one message that the
  provider has not counted (`CmpCounts`). It assumes `OverheadFits`: the overhead that every request carries
  is below 60 % of the threshold, the tightest that `effective_compact_threshold` may become. With no room left the
  code takes every compression for a success and sends what it has without a warning.

The streams, for any length of an answer, sizes of reads, heartbeats, retries and buffers:

* `TextsShownOnce` and `RepliesAreWhatWasSaid` (`ShownOnce`, `ReplyIsWhatWasSaid`) share `StrmInv`. What is gathered
  is a beginning of what has been said (`Begun`, `SaidOK`): the texts in order, and the first calls, each under the
  number that its provider uses and with a beginning of its own argument. That alone is not inductive, because
  it does not say what the bytes on their way will do. `Story` does: the bytes in the buffer and on
  the wire, taken one after the other, bring what is gathered to an end, and everything between is again a beginning of
  what is said (`Flow`).
* The flow survives a frame that is sent, since a provider's frame brings what tells of all that was said to what
  tells of the longer answer (`FramesTell`, for each kind of frame of the three providers, with the numbers that
  `push_tool_call` files them under); a cut anywhere, since a beginning of the bytes brings
  it to a beginning; and a read, which moves bytes from the wire to the buffer. When nothing was lost the flow ends at
  all that is said, which gives the half of the property about whole answers.
* `Framed` says how the bytes between the frames may look: the halves of a heartbeat stand together before a mark, and
  only a provider that sends lines has blank ones. It shows that what the reader cuts off is one frame,
  or no data; what the end of the connection leaves is one frame, none, or something that does not parse and fails.
* `AnswersNow` carries it through `finalize`: the numbers of the calls rise, so that the map hands them out in the order
  in which they were opened (`FinalizedIs`), also Anthropic's, whose numbers have gaps, and Ollama's, which the parser
  gives across lines. TLC checked the invariant on a small instance before it was proved.

### Types, and the machines together

The type invariants of the ten machines are theorems, too (`SessionsTyped`, `SseTyped`, `StoreTyped`, `ToolsTyped`,
`ContextTyped`, `StreamsTyped`, `McpTyped`, `ShellsTyped`, `JournalTyped`, `StdioTyped`). The sets that a variable lies
in are mostly what the proofs above carry along already. The ranges need arguments of their own, since the
counter that a step raises is not the one its guard tests:

* a bound on what has been begun is a bound on what is done and what is under way together. Such sums are
  inductive: the breaker's count and the calls that are still open are at most the calls asked for (`Tally`); the results
  given and those due are one answer's (`CmpBounds`); the numbers of `Store` count the processes that are still at
  work (`PendingBounds`, `TallyBounds`); a number of the SSE stream is one of an
  event, emitted or still on the bus, or one that the store had when its load was seeded (`SseBounds`);
* the queue of the MCP pool's lock needs to know who stands in it: a restart stays in line and is never let in as
  a reader (`QueueInv` of `ToolsProofs`);
* the bytes that the journal counts are a recursive sum, `Bytes`; that it is a natural number, and what taking an
  entry away does to it, is shown by the least place where it would fail;
* what a provider has said stays within what it may say, and so does each beginning of it (`StrmBounds`).

`MachinesProofs` puts them together. `EachMoves` shows that a behaviour of `MCMachines` is one of each of the
ten specifications, in which a machine that was not chosen rests; `MachinesTyped` (`MachinesTypeOK`) and
`MachinesHold` follow. `MachinesHold` states everything that the run `machines` checks, for all values of the
constants, under the one hypothesis that `RequestsFit` needs.

### Assumptions, and what the prover cannot do

The assumptions are those each module names for its constants (`ConstantsAssumption`, `TurnAssumption`,
`CompressionAssumption`, `SessAssumption`, `SseAssumption`, `StoreAssumption`, `ToolAssumption`, `McpAssumption`,
`ShellsAssumption`, `JournalAssumption`, `StdioAssumption`, `CompactionAssumption`, `StreamsAssumption`), which TLC evaluates on every run. They bound
numbers, and keep apart values that the code keeps apart: `NoSid` is no session id, and a text is not the
absence of a file. `CompactionAssumption` also says that texts have a largest size.

The induction theorems of the library take an operator, which the provers cannot instantiate. Where a
recursive function has to be followed, the proofs argue by the least counterexample instead
(`LeastNatural` in `SequenceLemmas`). Folds, `SelectSeq` and `RECURSIVE` stay out of reach; properties that
are theorems here therefore speak of positions: `Within` is a function of a position,
the entries of `Journal` and what `Stdio` has told are quantified over their places, and `Streams` gathers by a
recursive function over the two items that a frame has at most.

Only model-checked: `MessagesRun`, a liveness property. Every invariant and every action property that a passing
run checks, and both refinements, are theorems.

### Not modelled

* Hooks and the rewake queue: what a hook decides is a free choice in `ToolCalls`; the processes run
  outside, and nothing in the code fills the rewake queue.
* The registry of tasks, sub-agents (each a turn loop of its own, with the mode it was built with),
  memory and project instructions, hot configuration, server workspaces, the extension SDK: sequential
  reads and writes of their own state, or text.
* Sandbox drivers are kernel interfaces; web and desktop are views.
* How a path or a command is assigned to its class by the policy, how requests are encoded, how texts
  are laid out: functions over strings. A large part of the code is of this kind, and another large part is
  tests in the source files; this is why the share of lines that the modules stand for is small, although the
  parts whose correctness depends on the order of steps are modelled.

`PROJECT.json` gives the status and the reason for each component.

## 7. Plan

Done: the modules of section 2 with their runs, and the theorems of section 6: every invariant, every action property
and both refinements are among them. What is left, in this order:

1. `Sse` over `EventStream` in place of its own `disk`, to check numbering and recovery together.
2. The registry of tasks and sub-agents, once they share state with their parent's turn.
