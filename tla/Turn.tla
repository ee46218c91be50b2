--------------------------------- MODULE Turn ---------------------------------
(***************************************************************************)
(* The turn of one session: Runtime::run_turn (runtime/rt.rs) with its     *)
(* cancellation token, timeout and repairs, and what the front ends do to  *)
(* it: the REPL of the cli, the command channel of the tui, and the HTTP   *)
(* clients of the server, whose messages queue for the turn and pre-empt   *)
(* the running one.                                                        *)
(*                                                                         *)
(* A turn goes through three regions: "entry" (before select!), "turn"     *)
(* (inside select!, where it is dropped at any await when it is cancelled  *)
(* or times out) and "stop" (after select!).  Three histories of the       *)
(* session are kept apart: the message log, the MessageAppended events,    *)
(* and the context that is sent to the provider.                           *)
(***************************************************************************)
EXTENDS Transcript

CONSTANTS
    Frontends,     \* the front ends considered, a subset of {"cli", "server", "tui"}
    Clients,       \* HTTP clients of the server
    QueueLimit,    \* TURN_QUEUE_LIMIT
    MaxIters,      \* max_tool_iters
    HardStop,      \* last of repeat_guard_thresholds
    Faults,        \* what may go wrong: "storage", append or load of the message log
                   \* fails; "event", persist_event fails; "late", the write of a
                   \* dropped append lands later; "crash", the process dies
    MaxCalls,      \* bound: calls of one assistant message
    MaxCalled,     \* bound: calls of the session
    MaxTurns,      \* bound: user messages
    MaxCompress,   \* bound: compressions
    MaxFaults      \* bound: faults

ASSUME TurnAssumption ==
    /\ Frontends \subseteq {"cli", "server", "tui"}
    /\ IsFiniteSet(Clients)
    /\ QueueLimit \in Nat \ {0} /\ MaxIters \in Nat /\ HardStop \in Nat \ {0}
    /\ Faults \subseteq {"storage", "event", "late", "crash"}
    /\ MaxCalls \in Nat /\ MaxCalled \in Nat /\ MaxTurns \in Nat /\ MaxCompress \in Nat /\ MaxFaults \in Nat

VARIABLES
    frontend,     \* who drives the session; never changes
    \* --- the session's histories ---
    stored,       \* the message log (Storage)
    events,       \* messages of the event stream (EventStore)
    ctx,          \* the ContextManager's messages
    late,         \* a write of a dropped append that has not landed yet
    \* --- the turn ---
    pc, region,
    todo,         \* messages the turn is about to persist, in order
    after,        \* where it goes on once they are
    request,      \* messages of the request the provider is answering
    retried,      \* this request was rebuilt after a context overflow
    iter,         \* requests of this turn, its retries not counted
    round,        \* calls of the last round and for how many rounds they repeat
    cancelled,    \* the current cancel_token is cancelled
    \* --- the front end ---
    inbox,        \* submitted messages and commands that wait for the turn to end
    client,       \* what each HTTP client is doing
    \* --- history, read by properties only ---
    called,       \* number of calls the model has made
    ends,         \* TurnEnd broadcasts of this turn
    accepted, done,  \* user messages accepted, and finished
    compressions,
    faults,       \* number of faults
    scars         \* what has gone wrong in this session

histories == <<stored, events, ctx, late>>
control == <<pc, region, todo, after, request, retried, iter, round>>
outside == <<inbox, client, accepted>>
bounds == <<compressions, faults>>
vars == <<frontend, histories, control, cancelled, outside, called, ends, done, bounds, scars>>

Active == pc \notin {"idle", "rebuild"}     \* turn_active
Fault(kind) ==
    /\ kind \in Faults /\ faults < MaxFaults
    /\ faults' = faults + 1 /\ scars' = scars \union {kind}

NoRound == [calls |-> 0, streak |-> 0]

AtRest ==
    /\ pc' = "idle" /\ region' = "entry" /\ todo' = <<>> /\ after' = "idle"
    /\ request' = <<>> /\ retried' = FALSE /\ iter' = 0 /\ round' = NoRound

Persisting(msgs, next) ==
    /\ todo' = msgs /\ after' = next
    /\ pc' = IF msgs = <<>> THEN next ELSE "append"

Init ==
    /\ frontend \in Frontends
    /\ stored = <<>> /\ events = <<>> /\ ctx = <<>> /\ late = <<>>
    /\ pc = "idle" /\ region = "entry" /\ todo = <<>> /\ after = "idle"
    /\ request = <<>> /\ retried = FALSE /\ iter = 0 /\ round = NoRound
    /\ cancelled = FALSE
    /\ inbox = <<>> /\ client = [c \in Clients |-> "idle"]
    /\ called = 0 /\ ends = 0 /\ accepted = 0 /\ done = 0
    /\ compressions = 0 /\ faults = 0 /\ scars = {}

--------------------------------------------------------------------------------
(***************************************************************************)
(* The cli reads a line once the turn is over; so does the tui, whose      *)
(* commands go through a channel that one task works off in order: a       *)
(* CancelTurn waits behind the Submit it is meant for.                     *)
(***************************************************************************)
Submit ==
    /\ frontend \in {"cli", "tui"}
    /\ pc = "idle" /\ "submit" \notin ToSet(inbox) /\ accepted < MaxTurns
    /\ inbox' = Append(inbox, "submit")
    /\ accepted' = accepted + 1
    /\ UNCHANGED <<frontend, histories, control, cancelled, client, called, ends, done,
                   bounds, scars>>

(* The REPL's Ctrl-C task holds a clone of the token of this turn. *)
CtrlC ==
    /\ frontend = "cli" /\ Active
    /\ cancelled' = TRUE
    /\ UNCHANGED <<frontend, histories, control, outside, called, ends, done, bounds, scars>>

TuiCtrlC ==
    /\ frontend = "tui" /\ Active /\ inbox = <<>>
    /\ inbox' = <<"cancel">>
    /\ UNCHANGED <<frontend, histories, control, cancelled, client, accepted, called, ends,
                   done, bounds, scars>>

CancelTurn ==
    /\ pc = "idle" /\ inbox # <<>> /\ Head(inbox) = "cancel"
    /\ cancelled' = TRUE
    /\ inbox' = Tail(inbox)
    /\ UNCHANGED <<frontend, histories, control, client, accepted, called, ends, done,
                   bounds, scars>>

(***************************************************************************)
(* The server.  send_message takes a permit or refuses, cancels the turn   *)
(* that runs, if one does, and leaves the message to a task that waits for *)
(* turn_lock.  Runtime::cancel looks at turn_active first and then cancels *)
(* the token that is current.                                              *)
(***************************************************************************)
Posting == {"post_check", "post_kill"}
Permits == Len(inbox) + (IF pc = "idle" THEN 0 ELSE 1)
               + Cardinality({c \in Clients : client[c] \in Posting})

PostOverLimit(c) ==                           \* defect: one permit too many
    /\ frontend = "server" /\ client[c] = "idle" /\ accepted < MaxTurns
    /\ Permits <= QueueLimit
    /\ accepted' = accepted + 1
    /\ IF Active
       THEN client' = [client EXCEPT ![c] = "post_check"] /\ UNCHANGED inbox
       ELSE inbox' = Append(inbox, "submit") /\ UNCHANGED client
    /\ UNCHANGED <<frontend, histories, control, cancelled, called, ends, done, bounds, scars>>
Post(c) ==
    /\ frontend = "server" /\ client[c] = "idle" /\ accepted < MaxTurns
    /\ Permits < QueueLimit
    /\ accepted' = accepted + 1
    /\ IF Active
       THEN client' = [client EXCEPT ![c] = "post_check"] /\ UNCHANGED inbox
       ELSE inbox' = Append(inbox, "submit") /\ UNCHANGED client
    /\ UNCHANGED <<frontend, histories, control, cancelled, called, ends, done, bounds, scars>>

PostCancel(c) ==
    /\ frontend = "server" /\ client[c] = "idle" /\ Active
    /\ client' = [client EXCEPT ![c] = "check"]
    /\ UNCHANGED <<frontend, histories, control, cancelled, inbox, accepted, called, ends,
                   done, bounds, scars>>

Leave(c) ==
    /\ client' = [client EXCEPT ![c] = "idle"]
    /\ inbox' = IF client[c] \in Posting THEN Append(inbox, "submit") ELSE inbox

CheckActive(c) ==
    /\ client[c] \in {"check", "post_check"}
    /\ IF Active
       THEN /\ client' = [client EXCEPT ![c] = IF @ = "check" THEN "kill" ELSE "post_kill"]
            /\ UNCHANGED inbox
       ELSE Leave(c)
    /\ UNCHANGED <<frontend, histories, control, cancelled, accepted, called, ends, done,
                   bounds, scars>>

CancelToken(c) ==
    /\ client[c] \in {"kill", "post_kill"}
    /\ cancelled' = TRUE
    /\ Leave(c)
    /\ UNCHANGED <<frontend, histories, control, accepted, called, ends, done, bounds, scars>>

--------------------------------------------------------------------------------
(***************************************************************************)
(* Persisting one message: storage.append, ctx.append, then persist_event. *)
(***************************************************************************)
AppendOnlyInMemory ==                         \* defect: a notice is not stored
    /\ pc = "append"
    /\ stored' = IF region = "stop" /\ Head(todo) = Text THEN stored
                 ELSE Append(stored, Head(todo))
    /\ ctx' = Append(ctx, Head(todo))
    /\ pc' = "persist"
    /\ UNCHANGED <<frontend, events, late, region, todo, after, request, retried, iter,
                   round, cancelled, outside, called, ends, done, bounds, scars>>
AppendMessage ==
    /\ pc = "append"
    /\ stored' = Append(stored, Head(todo))
    /\ ctx' = Append(ctx, Head(todo))
    /\ pc' = "persist"
    /\ UNCHANGED <<frontend, events, late, region, todo, after, request, retried, iter,
                   round, cancelled, outside, called, ends, done, bounds, scars>>

PersistMessage ==
    /\ pc = "persist"
    /\ \/ events' = Append(events, Head(todo)) /\ UNCHANGED <<scars, faults>>
       \/ Fault("event") /\ UNCHANGED events
    /\ Persisting(Tail(todo), after)
    /\ region' = IF region = "entry" THEN "turn" ELSE region
    /\ UNCHANGED <<frontend, stored, ctx, late, request, retried, iter, round, cancelled,
                   outside, called, ends, done, compressions>>

(***************************************************************************)
(* storage.append returns an error, whether or not the line was written.   *)
(* The user's message: run_turn returns at once, before the code that      *)
(* renews the token.  In the turn: run_turn fails.  A backfilled result is *)
(* skipped; a notice is kept in the context and the events all the same.   *)
(***************************************************************************)
Notice == Head(todo) = Text /\ after = "finish"
AppendFails ==
    /\ pc = "append" /\ Fault("storage")
    /\ stored' \in {stored, Append(stored, Head(todo))}
    /\ \/ region = "entry" /\ AtRest /\ done' = done + 1 /\ UNCHANGED ctx
       \/ /\ Notice
          /\ ctx' = Append(ctx, Head(todo)) /\ pc' = "persist"
          /\ UNCHANGED <<region, todo, after, request, retried, iter, round, done>>
       \/ /\ region = "turn" /\ ~Notice
          /\ pc' = "failed" /\ region' = "stop" /\ todo' = <<>>
          /\ UNCHANGED <<ctx, after, request, retried, iter, round, done>>
       \/ /\ region = "stop" /\ ~Notice
          /\ Persisting(Tail(todo), after)
          /\ UNCHANGED <<ctx, region, request, retried, iter, round, done>>
    /\ UNCHANGED <<frontend, events, late, cancelled, outside, called, ends, compressions>>

--------------------------------------------------------------------------------
(***************************************************************************)
(* run_turn.                                                               *)
(***************************************************************************)
StartTurn ==
    /\ pc = "idle" /\ inbox # <<>> /\ Head(inbox) = "submit"
    /\ inbox' = Tail(inbox)
    /\ Persisting(<<User>>, "build")
    /\ UNCHANGED <<frontend, histories, region, request, retried, iter, round, cancelled,
                   client, accepted, called, ends, done, bounds, scars>>

(* The context may be compressed first; the request is repaired. *)
BuildRequest ==
    /\ pc = "build" /\ iter < MaxIters
    /\ iter' = iter + 1
    /\ \/ UNCHANGED <<ctx, compressions>>
       \/ /\ Len(ctx) > Threshold
          /\ compressions < MaxCompress /\ compressions' = compressions + 1
          /\ ctx' \in Compressed(ctx)
    /\ request' = RepairRequest(ctx')
    /\ retried' = FALSE
    /\ pc' = "llm"
    /\ UNCHANGED <<frontend, stored, events, late, region, todo, after, round, cancelled,
                   outside, called, ends, done, faults, scars>>

TooManyIters ==
    /\ pc = "build" /\ iter = MaxIters
    /\ Persisting(<<Text>>, "finish")
    /\ UNCHANGED <<frontend, histories, region, request, retried, iter, round, cancelled,
                   outside, called, ends, done, bounds, scars>>

(* The provider answers with a text, or with calls. *)
Reply ==
    /\ pc = "llm"
    /\ Persisting(<<Text>>, "reply")
    /\ request' = <<>>
    /\ UNCHANGED <<frontend, histories, region, retried, iter, round, cancelled, outside,
                   called, ends, done, bounds, scars>>

Call ==
    /\ pc = "llm"
    /\ \E n \in 1..MaxCalls, again \in BOOLEAN :
          /\ again => n = round.calls
          /\ called + n <= MaxCalled
          /\ Persisting(<<Calling([k \in 1..n |-> called + k])>>, "guard")
          /\ called' = called + n
          /\ round' = [calls |-> n, streak |-> IF again THEN round.streak + 1 ELSE 1]
    /\ request' = <<>>
    /\ UNCHANGED <<frontend, histories, region, retried, iter, cancelled, outside, ends, done,
                   bounds, scars>>

(* A context overflow: compress and rebuild the request, once. *)
ContextLength ==
    /\ pc = "llm" /\ ~retried
    /\ compressions < MaxCompress /\ compressions' = compressions + 1
    /\ ctx' \in Compressed(ctx)
    /\ request' = ctx'
    /\ retried' = TRUE
    /\ UNCHANGED <<frontend, stored, events, late, pc, region, todo, after, iter, round,
                   cancelled, outside, called, ends, done, faults, scars>>

(* The provider or the context manager fails: TurnOutcome::Failed or Err. *)
Fail ==
    /\ pc \in {"build", "llm"}
    /\ pc' = "failed" /\ region' = "stop" /\ request' = <<>>
    /\ UNCHANGED <<frontend, histories, todo, after, retried, iter, round, cancelled, outside,
                   called, ends, done, bounds, scars>>

(* The repeat guard stops the turn before the calls are executed. *)
RepeatGuard ==
    /\ pc = "guard"
    /\ IF round.streak >= HardStop
       THEN /\ Persisting(<<Text>>, "finish")
            /\ scars' = scars \union {"hard_stop"}
       ELSE pc' = "tools" /\ UNCHANGED <<todo, after, scars>>
    /\ UNCHANGED <<frontend, histories, region, request, retried, iter, round, cancelled,
                   outside, called, ends, done, bounds>>

(* execute_tool_calls returns a result for each call, in the order of calls. *)
ToolsFinish ==
    /\ pc = "tools"
    /\ Persisting(Results(Last(ctx).calls), "step")
    /\ UNCHANGED <<frontend, histories, region, request, retried, iter, round, cancelled,
                   outside, called, ends, done, bounds, scars>>

(* A hook's fatal error: no call is answered. *)
ToolsFail ==
    /\ pc = "tools"
    /\ pc' = "failed" /\ region' = "stop"
    /\ scars' = scars \union {"tools"}
    /\ UNCHANGED <<frontend, histories, todo, after, request, retried, iter, round, cancelled,
                   outside, called, ends, done, bounds>>

(* The next request, unless the sandbox breaker has tripped. *)
StepEnds ==
    /\ pc = "step"
    /\ \/ pc' = "build" /\ UNCHANGED <<todo, after>>
       \/ Persisting(<<Text>>, "finish")
    /\ UNCHANGED <<frontend, histories, region, request, retried, iter, round, cancelled,
                   outside, called, ends, done, bounds, scars>>

(***************************************************************************)
(* TurnEnd is broadcast after the await of its persisting; a failed turn   *)
(* gets its TurnEnd behind select!.                                        *)
(***************************************************************************)
FinishOrDrop ==                               \* defect: broadcast before the await
    /\ pc \in {"reply", "finish", "failed"} \/ (pc = "ended" /\ region = "turn")
    /\ pc' = "ended"
    /\ region' = IF pc = "ended" THEN "stop" ELSE region
    /\ ends' = IF pc = "ended" THEN ends ELSE ends + 1
    /\ UNCHANGED <<frontend, histories, todo, after, request, retried, iter, round,
                   cancelled, outside, called, done, bounds, scars>>
Finish ==
    /\ pc \in {"reply", "finish", "failed"}
    /\ pc' = "ended" /\ region' = "stop"
    /\ ends' = ends + 1
    /\ UNCHANGED <<frontend, histories, todo, after, request, retried, iter, round, cancelled,
                   outside, called, done, bounds, scars>>

(* turn_active is cleared first, then the token renewed. *)
Deactivate ==
    /\ pc = "ended" /\ region = "stop"
    /\ pc' = "rebuild"
    /\ UNCHANGED <<frontend, histories, region, todo, after, request, retried, iter, round,
                   cancelled, outside, called, ends, done, bounds, scars>>

RebuildOnlyIfUnused ==                        \* defect: a cancelled token is kept
    /\ pc = "rebuild"
    /\ UNCHANGED cancelled
    /\ AtRest
    /\ done' = done + 1 /\ ends' = 0
    /\ UNCHANGED <<frontend, histories, outside, called, bounds, scars>>
RebuildToken ==
    /\ pc = "rebuild"
    /\ cancelled' = FALSE
    /\ AtRest
    /\ done' = done + 1 /\ ends' = 0
    /\ UNCHANGED <<frontend, histories, outside, called, bounds, scars>>

--------------------------------------------------------------------------------
(***************************************************************************)
(* Cancellation and timeout.  select! drops the turn at its await; the     *)
(* message being persisted may have been stored, or its event written, and *)
(* a store already under way may land after everything that follows.       *)
(***************************************************************************)
DropExceptInTools ==                          \* defect: a running tool is waited for
    /\ region = "turn" /\ pc # "tools"
    /\ \/ UNCHANGED <<stored, events>>
       \/ pc = "append" /\ stored' = Append(stored, Head(todo)) /\ UNCHANGED events
    /\ pc' = "backfill" /\ region' = "stop"
    /\ todo' = <<>> /\ after' = "finish" /\ request' = <<>>
    /\ UNCHANGED <<frontend, ctx, late, retried, iter, round, cancelled, outside, called,
                   ends, done, bounds, scars>>
Drop ==
    /\ region = "turn"
    /\ \/ UNCHANGED <<stored, events, late, faults, scars>>
       \/ /\ pc = "append" /\ stored' = Append(stored, Head(todo))
          /\ UNCHANGED <<events, late, faults, scars>>
       \/ /\ pc = "append" /\ late = <<>> /\ Fault("late")
          /\ late' = <<Head(todo)>>
          /\ UNCHANGED <<stored, events>>
       \/ /\ pc = "persist" /\ events' = Append(events, Head(todo))
          /\ UNCHANGED <<stored, late, faults, scars>>
    /\ pc' = "backfill" /\ region' = "stop"
    /\ todo' = <<>> /\ after' = "finish" /\ request' = <<>>
    /\ UNCHANGED <<frontend, ctx, retried, iter, round, cancelled, outside, called, ends,
                   done, compressions>>

Interrupt == cancelled /\ Drop
Timeout == Drop

LateWrite ==
    /\ late # <<>>
    /\ stored' = stored \o late /\ late' = <<>>
    /\ UNCHANGED <<frontend, events, ctx, control, cancelled, outside, called, ends, done,
                   bounds, scars>>

(* Results for the calls left open in the message log, then the notice. *)
Backfill ==
    /\ pc = "backfill"
    /\ \/ Persisting(Append(Missing(stored), Text), "finish") /\ UNCHANGED <<faults, scars>>
       \/ Persisting(<<Text>>, "finish") /\ Fault("storage")
    /\ UNCHANGED <<frontend, histories, region, request, retried, iter, round, cancelled,
                   outside, called, ends, done, compressions>>

(* The process dies and is started again: the cli replays the events and   *)
(* repairs them, the server starts with an empty context.                  *)
Crash ==
    /\ frontend \in {"cli", "server"} /\ Fault("crash")
    /\ \/ UNCHANGED stored
       \/ pc = "append" /\ stored' = Append(stored, Head(todo))
    /\ ctx' = IF frontend = "cli" THEN RepairDangling(events) ELSE <<>>
    /\ AtRest
    /\ late' = <<>> /\ cancelled' = FALSE
    /\ inbox' = <<>> /\ client' = [c \in Clients |-> "idle"]
    /\ ends' = 0 /\ done' = accepted
    /\ UNCHANGED <<frontend, events, called, accepted, compressions>>

--------------------------------------------------------------------------------
(* The steps the process takes by itself, without the provider, a tool, a   *)
(* user or a fault.                                                         *)
Advance ==
    \/ CancelTurn \/ StartTurn \/ AppendMessage \/ PersistMessage
    \/ BuildRequest \/ TooManyIters \/ RepeatGuard \/ StepEnds
    \/ Backfill \/ Finish \/ Deactivate \/ RebuildToken

Serve(c) == CheckActive(c) \/ CancelToken(c)

Next ==
    \/ Advance
    \/ Submit \/ CtrlC \/ TuiCtrlC
    \/ \E c \in Clients : Post(c) \/ PostCancel(c) \/ Serve(c)
    \/ AppendFails \/ Reply \/ Call \/ ContextLength \/ Fail
    \/ ToolsFinish \/ ToolsFail
    \/ Interrupt \/ Timeout \/ LateWrite
    \/ Crash

Spec == Init /\ [][Next]_vars

(* The scheduler runs every task that is ready, and the timer fires; the    *)
(* provider and the tools owe no answer.                                    *)
FairSpec ==
    /\ Spec
    /\ WF_vars(Advance)
    /\ WF_vars(Timeout)
    /\ \A c \in Clients : WF_vars(Serve(c))
--------------------------------------------------------------------------------
Message == [role : {"user", "assistant", "tool"},
            calls : Seq(1..called), answers : 0..called]
PCs == {"idle", "append", "persist", "build", "llm", "guard", "tools", "step", "reply",
        "finish", "failed", "backfill", "ended", "rebuild"}

(* The type invariant.                                                      *)
TypeOK ==
    /\ frontend \in Frontends
    /\ \A msgs \in {stored, events, ctx, late, request, todo} : msgs \in Seq(Message)
    /\ pc \in PCs /\ after \in PCs /\ region \in {"entry", "turn", "stop"}
    /\ retried \in BOOLEAN /\ cancelled \in BOOLEAN
    /\ iter \in 0..MaxIters /\ ends \in 0..1
    /\ round \in [calls : 0..MaxCalls, streak : Nat]
    /\ inbox \in Seq({"submit", "cancel"})
    /\ client \in [Clients -> {"idle", "check", "kill"} \union Posting]
    /\ called \in 0..MaxCalled /\ accepted \in 0..MaxTurns /\ done \in 0..accepted
    /\ compressions \in 0..MaxCompress /\ faults \in 0..MaxFaults
    /\ scars \subseteq {"storage", "event", "tools", "hard_stop", "late", "crash"}

(***************************************************************************)
(* A request that went through repair_request_messages is one that a       *)
(* strict provider accepts, wherever earlier turns were cancelled or timed *)
(* out and whatever compression removed.  It takes a stop that leaves      *)
(* calls open in the context (see EveryRequestPaired) to break it.         *)
(***************************************************************************)
RequestsPaired ==
    pc = "llm" /\ ~retried /\ scars \subseteq {"event", "late"} => Paired(request)

(***************************************************************************)
(* Between turns the message log has no open call and no stray result:     *)
(* the backfill of a dropped turn reads what the drop left in the log.     *)
(***************************************************************************)
StoredPaired ==
    pc \in {"idle", "rebuild"} /\ scars \subseteq {"event"} => Paired(stored)

(***************************************************************************)
(* Were the process to die now, the request built from the replayed events *)
(* would be accepted: restore_history and repair_request_messages make up  *)
(* for events that a drop or a storage error lost.                         *)
(***************************************************************************)
Resumable ==
    scars \subseteq {"event", "late"} => Paired(RepairRequest(RepairDangling(events)))

(***************************************************************************)
(* A message is persisted before it is shown: the message events occur in  *)
(* the message log, in the same order (design.md 2.1), unless the log      *)
(* refused a notice or took a late write.                                  *)
(***************************************************************************)
Within(s, t) ==
    LET found[k \in 0..Len(t)] ==
            IF k = 0 THEN 0
            ELSE LET n == found[k - 1]
                 IN IF n < Len(s) /\ s[n + 1] = t[k] THEN n + 1 ELSE n
    IN found[Len(t)] = Len(s)
EventsAreStored == scars \subseteq {"event", "late", "tools", "hard_stop", "crash"}
                       => Within(events, stored \o late)

(***************************************************************************)
(* A turn broadcasts exactly one TurnEnd, however a cancel or the timeout  *)
(* falls on its end and whether it finishes or fails (the front ends wait  *)
(* for it).                                                                *)
(***************************************************************************)
TurnEndOnce == ends = (IF pc \in {"ended", "rebuild"} THEN 1 ELSE 0)

(***************************************************************************)
(* On the server at most TURN_QUEUE_LIMIT accepted messages are unfinished *)
(* at any time, and each of them holds a permit: none is lost between the  *)
(* handler that accepts it, the wait for turn_lock, pre-emption and the    *)
(* end of its turn (send_message's try_acquire_owned and the permit that   *)
(* the spawned task drops).                                                *)
(***************************************************************************)
QueueBounded ==
    frontend = "server" =>
        /\ accepted = done + Permits
        /\ accepted <= done + QueueLimit

(***************************************************************************)
(* On the cli a turn starts with a token that nobody has cancelled, unless *)
(* an earlier turn returned because its user message could not be stored.  *)
(***************************************************************************)
CliTokenFresh ==
    frontend = "cli" /\ "storage" \notin scars /\ pc = "idle" => ~cancelled

(***************************************************************************)
(* Every message that was accepted gets its turn and the turn ends, though *)
(* the provider and the tools may never answer.                            *)
(***************************************************************************)
MessagesRun == \A n \in 1..MaxTurns : (accepted >= n) ~> (done >= n)

(***************************************************************************)
(* cancel() between two turns does not poison the next one (comment of     *)
(* Runtime::cancel, rt.rs).                                                *)
(***************************************************************************)
NextTurnUnharmed == pc = "idle" => ~cancelled

(***************************************************************************)
(* After the interruption of a turn the history is one that a strict       *)
(* provider accepts (comment in run_turn's cancel branch, rt.rs).          *)
(***************************************************************************)
EveryRequestPaired == pc = "llm" => Paired(request)
================================================================================
