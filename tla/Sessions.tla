-------------------------------- MODULE Sessions --------------------------------
(***************************************************************************)
(* The server's table of sessions (session_mgr.rs), the handlers that act  *)
(* on one session of it (http.rs) and the prompts its turns wait on        *)
(* (prompter.rs).                                                          *)
(*                                                                         *)
(* Sessions do not share anything, so the module follows one session id.   *)
(* Each load of it is a ServerSession with a Runtime, a turn_lock, a       *)
(* turn_queue of permits and a table of pending prompts of its own.  Every *)
(* handler first calls get_or_load, which may wait for the disk, and keeps *)
(* the Arc it gets: whoever drops the session from the table in between is *)
(* not noticed until the closed flag is read.                              *)
(***************************************************************************)
EXTENDS Integers, Sequences, FiniteSets

CONSTANTS
    Messages,      \* POST /messages requests; each is the id of its turn's prompt, too
    FirstMessage,  \* the one that is posted first
    Permits,       \* permits of turn_queue
    MaxMade        \* bound: ServerSessions of the id

ASSUME SessAssumption ==
    /\ IsFiniteSet(Messages) /\ FirstMessage \in Messages
    /\ Messages \intersect {"delete", "evict", "answer"} = {}
    /\ Permits \in Nat \ {0} /\ MaxMade \in Nat \ {0}

VARIABLES
    table,      \* the load in the table of sessions, 0 when there is none
    made,       \* number of loads so far
    on_disk,    \* the session can be restored: its event stream has begun
    closed,     \* loads whose closed flag is set
    turn_lock,  \* of each load: the messages at it, the holder first
    pending,    \* of each load: the prompts in its table of pending permissions
    actor,      \* place of each handler and task
    inbox,      \* the decision in the oneshot channel of each prompt
    stopped,    \* messages whose running turn's token is cancelled
    fate        \* history of each message

sessVars == <<table, made, on_disk, closed, turn_lock, pending, actor, inbox, stopped, fate>>

LoadIds == 1..MaxMade
Decisions == {"allow", "deny"}
Handlers == {"delete", "evict", "answer"}
Actors == Messages \union Handlers

Idling == [pc |-> "idle", goal |-> "idle", on |-> 0, permit |-> 0, pid |-> "none"]
Unborn == [accepted |-> FALSE, dropped |-> FALSE, told |-> FALSE, expired |-> FALSE,
           acks |-> {}, twice |-> FALSE, verdict |-> "none"]

SessInit ==
    /\ table = 1 /\ made = 1 /\ on_disk = FALSE /\ closed = {}
    /\ turn_lock = [i \in LoadIds |-> <<>>]
    /\ pending = [i \in LoadIds |-> {}]
    /\ actor = [a \in Actors |-> Idling]
    /\ inbox = [m \in Messages |-> "none"]
    /\ stopped = {}
    /\ fate = [m \in Messages |-> Unborn]

At(a, pc) == actor[a].pc = pc
Leaves(a, pc) == actor' = [actor EXCEPT ![a] = [Idling EXCEPT !.pc = pc]]
Goes(a, pc) == actor' = [actor EXCEPT ![a].pc = pc]
Seeks(a, goal) == actor' = [actor EXCEPT ![a].pc = "lookup", ![a].goal = goal]

(* The turn of m is inside run_turn, and which one that is. *)
InTurn(m) == actor[m].pc \in {"run", "announced", "ask", "expired"}
TurnRunning(i) == \E m \in Messages : InTurn(m) /\ actor[m].on = i
CancelsOn(i) == stopped' = stopped \union {m \in Messages : InTurn(m) /\ actor[m].on = i}

--------------------------------------------------------------------------------
(***************************************************************************)
(* get_or_load: the load in the table, or a new one made from the disk.    *)
(* The disk is read before the table is looked at again.                   *)
(***************************************************************************)
GoesOnWith(a, i) ==
    actor' = [actor EXCEPT ![a].pc = actor[a].goal, ![a].goal = "idle", ![a].on = i]

(* What the caller does with NotFound: a handler answers 404, an accepted  *)
(* message is given up, a cancel is only a try.                            *)
WithoutIt(a) ==
    CASE actor[a].goal = "preempt" -> "spawn"
      [] actor[a].goal = "cancel" -> "drop"
      [] actor[a].goal = "resolve" -> "idle"
      [] OTHER -> "failed"

Lookup(a) ==
    /\ At(a, "lookup")
    /\ \/ /\ table # 0
          /\ GoesOnWith(a, table)
       \/ /\ table = 0
          /\ CASE on_disk -> Goes(a, "restoring")
               [] ~on_disk /\ WithoutIt(a) \in {"idle", "failed"} -> Leaves(a, WithoutIt(a))
               [] OTHER -> Goes(a, WithoutIt(a))
    /\ UNCHANGED <<table, made, on_disk, closed, turn_lock, pending, inbox, stopped, fate>>

Insert(a) ==
    /\ At(a, "restoring")
    /\ \/ /\ table # 0
          /\ GoesOnWith(a, table)
          /\ UNCHANGED <<table, made>>
       \/ /\ table = 0
          /\ made' = made + 1 /\ table' = made + 1
          /\ GoesOnWith(a, made + 1)
    /\ UNCHANGED <<on_disk, closed, turn_lock, pending, inbox, stopped, fate>>

--------------------------------------------------------------------------------
(***************************************************************************)
(* send_message: a permit or 429, a cancel for the turn that runs, 202,    *)
(* and a task that looks the session up once more.                         *)
(***************************************************************************)
Post(m) ==
    /\ At(m, "idle") /\ (m = FirstMessage \/ ~At(FirstMessage, "idle"))
    /\ Seeks(m, "permit")
    /\ UNCHANGED <<table, made, on_disk, closed, turn_lock, pending, inbox, stopped, fate>>

Holders(i) == {m \in Messages : actor[m].permit = i}

TakePermit(m) ==
    /\ At(m, "permit")
    /\ LET i == actor[m].on
       IN IF Cardinality(Holders(i)) < Permits
          THEN actor' = [actor EXCEPT ![m].permit = i,
                             ![m].pc = IF TurnRunning(i) THEN "lookup" ELSE "spawn",
                             ![m].goal = "preempt"]
          ELSE Leaves(m, "refused")
    /\ UNCHANGED <<table, made, on_disk, closed, turn_lock, pending, inbox, stopped, fate>>

Preempt(m) ==
    /\ At(m, "preempt")
    /\ CancelsOn(actor[m].on)
    /\ Goes(m, "spawn")
    /\ UNCHANGED <<table, made, on_disk, closed, turn_lock, pending, inbox, fate>>

Spawn(m) ==
    /\ At(m, "spawn")
    /\ Seeks(m, "lock")
    /\ fate' = [fate EXCEPT ![m].accepted = TRUE]
    /\ UNCHANGED <<table, made, on_disk, closed, turn_lock, pending, inbox, stopped>>

(***************************************************************************)
(* send_message_boxed: the turn_lock, the closed flag, init_event_stream,  *)
(* the turn.  Permit and lock go when the task ends.                       *)
(***************************************************************************)
Enqueue(m) ==
    /\ At(m, "lock")
    /\ turn_lock' = [turn_lock EXCEPT ![actor[m].on] = Append(@, m)]
    /\ Goes(m, "queued")
    /\ UNCHANGED <<table, made, on_disk, closed, pending, inbox, stopped, fate>>

Holds(m) == turn_lock[actor[m].on] # <<>> /\ Head(turn_lock[actor[m].on]) = m

Ends(m, pc) ==
    /\ inbox' = [inbox EXCEPT ![m] = "none"]
    /\ turn_lock' = [turn_lock EXCEPT ![actor[m].on] = Tail(@)]
    /\ Leaves(m, pc)
    /\ stopped' = stopped \ {m}

CheckClosed(m) ==
    /\ At(m, "queued") /\ Holds(m)
    /\ IF actor[m].on \in closed
       THEN Ends(m, "failed")
       ELSE Goes(m, "start") /\ UNCHANGED <<turn_lock, inbox, stopped>>
    /\ UNCHANGED <<table, made, on_disk, closed, pending, fate>>

Start(m) ==
    /\ At(m, "start")
    /\ on_disk' = TRUE
    /\ Goes(m, "run")
    /\ UNCHANGED <<table, made, closed, turn_lock, pending, inbox, stopped, fate>>

Finish(m) ==
    /\ At(m, "run")
    /\ Ends(m, "done")
    /\ UNCHANGED <<table, made, on_disk, closed, pending, fate>>

(* The future of a cancelled turn is dropped; its prompt's entry stays. *)
Interrupt(m) ==
    /\ InTurn(m) /\ m \in stopped
    /\ Ends(m, "done")
    /\ UNCHANGED <<table, made, on_disk, closed, pending, fate>>

--------------------------------------------------------------------------------
(***************************************************************************)
(* ServerPrompter::prompt.  The prompt is announced to the clients before  *)
(* its entry is in the table.  When the timer fires the receiver is gone   *)
(* at once, the entry only when the table's lock has been taken.           *)
(***************************************************************************)
Announce(m) ==
    /\ At(m, "run") /\ ~fate[m].told
    /\ Goes(m, "announced")
    /\ fate' = [fate EXCEPT ![m].told = TRUE]
    /\ UNCHANGED <<table, made, on_disk, closed, turn_lock, pending, inbox, stopped>>

Register(m) ==
    /\ At(m, "announced")
    /\ pending' = [pending EXCEPT ![actor[m].on] = @ \union {m}]
    /\ Goes(m, "ask")
    /\ UNCHANGED <<table, made, on_disk, closed, turn_lock, inbox, stopped, fate>>

Receive(m) ==
    /\ At(m, "ask") /\ inbox[m] # "none"
    /\ fate' = [fate EXCEPT ![m].verdict = inbox[m]]
    /\ inbox' = [inbox EXCEPT ![m] = "none"]
    /\ Goes(m, "run")
    /\ UNCHANGED <<table, made, on_disk, closed, turn_lock, pending, stopped>>

Expire(m) ==
    /\ At(m, "ask") /\ inbox[m] = "none"
    /\ Goes(m, "expired")
    /\ fate' = [fate EXCEPT ![m].expired = TRUE, ![m].verdict = "deny"]
    /\ UNCHANGED <<table, made, on_disk, closed, turn_lock, pending, inbox, stopped>>

RemoveExpired(m) ==
    /\ At(m, "expired")
    /\ pending' = [pending EXCEPT ![actor[m].on] = @ \ {m}]
    /\ Goes(m, "run")
    /\ UNCHANGED <<table, made, on_disk, closed, turn_lock, inbox, stopped, fate>>

(* POST /permissions/{pid}, by a client that has heard of the prompt. *)
Answer ==
    \E m \in Messages :
        /\ At("answer", "idle") /\ fate[m].told
        /\ actor' = [actor EXCEPT !["answer"] = [@ EXCEPT !.pc = "lookup", !.goal = "resolve",
                                                          !.pid = m]]
        /\ UNCHANGED <<table, made, on_disk, closed, turn_lock, pending, inbox, stopped, fate>>

(* 200 when the entry is there, whether or not somebody still waits for it. *)
Acknowledge(m, d) ==
    fate' = [fate EXCEPT ![m].acks = @ \union {d}, ![m].twice = fate[m].acks # {}]
Sends(m, d) == inbox' = IF At(m, "ask") THEN [inbox EXCEPT ![m] = d] ELSE inbox

ResolveKeeping ==                             \* defect: leaves the entry in the table
    /\ At("answer", "resolve")
    /\ LET m == actor["answer"].pid
           i == actor["answer"].on
       IN IF m \in pending[i]
          THEN \E d \in Decisions : Acknowledge(m, d) /\ Sends(m, d)
          ELSE UNCHANGED <<inbox, fate>>
    /\ Leaves("answer", "idle")
    /\ UNCHANGED <<table, made, on_disk, closed, turn_lock, pending, stopped>>
Resolve ==
    /\ At("answer", "resolve")
    /\ LET m == actor["answer"].pid
           i == actor["answer"].on
       IN IF m \in pending[i]
          THEN /\ pending' = [pending EXCEPT ![i] = @ \ {m}]
               /\ \E d \in Decisions : Acknowledge(m, d) /\ Sends(m, d)
          ELSE UNCHANGED <<pending, inbox, fate>>
    /\ Leaves("answer", "idle")
    /\ UNCHANGED <<table, made, on_disk, closed, turn_lock, stopped>>

(* GET /permissions/pending: entries without a receiver are removed first. *)
Heard(m) == At(m, "ask")
SweepAll(i) == pending' = [pending EXCEPT ![i] = {}]        \* defect: forgets who waits
Sweep(i) == pending' = [pending EXCEPT ![i] = {m \in @ : Heard(m)}]

ListPending ==
    /\ table # 0
    /\ Sweep(table)
    /\ UNCHANGED <<table, made, on_disk, closed, turn_lock, actor, inbox, stopped,
                   fate>>

--------------------------------------------------------------------------------
(***************************************************************************)
(* DELETE /sessions/{id}, and the eviction that create and list begin      *)
(* with.  SessionManager::delete closes whatever load is in the table when *)
(* it gets the lock.  Drops are bounded, so that a load can always follow. *)
(***************************************************************************)
DropsOpen ==                                  \* defect: the closed flag is not set
    table' = 0 /\ UNCHANGED closed
DropsId ==                                    \* defect: the flag is kept for the id
    table' = 0 /\ closed' = IF table = 0 THEN closed ELSE LoadIds
DropsLoad ==
    /\ table' = 0
    /\ closed' = IF table = 0 THEN closed ELSE closed \union {table}

Settled(m) == actor[m].pc \in {"done", "failed", "refused"}
Forgotten == fate' = [m \in Messages |->
    [fate[m] EXCEPT !.dropped = @ \/ (table # 0 /\ ~At(m, "idle") /\ ~Settled(m))]]

Delete ==
    /\ At("delete", "idle") /\ made < MaxMade
    /\ Seeks("delete", "cancel")
    /\ UNCHANGED <<table, made, on_disk, closed, turn_lock, pending, inbox, stopped, fate>>

DeleteCancels ==
    /\ At("delete", "cancel")
    /\ CancelsOn(actor["delete"].on)
    /\ Goes("delete", "drop")
    /\ UNCHANGED <<table, made, on_disk, closed, turn_lock, pending, inbox, fate>>

DeleteDrops ==
    /\ At("delete", "drop") /\ made < MaxMade
    /\ DropsLoad /\ Forgotten
    /\ Leaves("delete", "idle")
    /\ UNCHANGED <<made, on_disk, turn_lock, pending, inbox, stopped>>

(* A candidate has not been touched for hours: whoever looked it up has long       *)
(* finished, waits for its turn or is in it.                                       *)
Untouched ==
    \A a \in Actors :
        actor[a].pc \in {"idle", "queued", "run", "ask", "failed", "refused", "done"}

EvictTests ==
    /\ At("evict", "idle") /\ made < MaxMade
    /\ table # 0 /\ Untouched /\ turn_lock[table] = <<>>
    /\ Goes("evict", "drop")
    /\ UNCHANGED <<table, made, on_disk, closed, turn_lock, pending, inbox, stopped, fate>>

EvictDrops ==
    /\ At("evict", "drop") /\ made < MaxMade
    /\ DropsLoad /\ Forgotten
    /\ Goes("evict", "idle")
    /\ UNCHANGED <<made, on_disk, turn_lock, pending, inbox, stopped>>

--------------------------------------------------------------------------------
(* What the server does by itself for a message: tasks run, timers fire. *)
Proceed(m) ==
    \/ Lookup(m) \/ Insert(m) \/ TakePermit(m) \/ Preempt(m) \/ Spawn(m)
    \/ Enqueue(m) \/ CheckClosed(m) \/ Start(m) \/ Finish(m)
    \/ Register(m) \/ Receive(m) \/ Expire(m) \/ RemoveExpired(m)

SessNext ==
    \/ \E m \in Messages : Post(m) \/ Proceed(m) \/ Interrupt(m) \/ Announce(m)
    \/ \E a \in {"delete", "answer"} : Lookup(a) \/ Insert(a)
    \/ Answer \/ Resolve \/ ListPending
    \/ Delete \/ DeleteCancels \/ DeleteDrops \/ EvictTests \/ EvictDrops

SessSpec == SessInit /\ [][SessNext]_sessVars

--------------------------------------------------------------------------------
Places == {"idle", "lookup", "restoring", "permit", "refused", "preempt", "spawn", "lock",
           "queued", "start", "run", "announced", "ask", "expired", "done", "failed",
           "cancel", "drop", "resolve"}
InSession == {"permit", "preempt", "lock", "queued", "start", "run", "announced", "ask",
              "expired", "cancel", "resolve"}
Goals == {"idle", "permit", "preempt", "lock", "cancel", "resolve"}

SessTypeOK ==
    /\ made \in LoadIds /\ table \in 0..made
    /\ on_disk \in BOOLEAN /\ closed \subseteq LoadIds
    /\ turn_lock \in [LoadIds -> Seq(Messages)]
    /\ pending \in [LoadIds -> SUBSET Messages]
    /\ actor \in [Actors -> [pc : Places, goal : Goals, on : 0..made, permit : 0..made,
                             pid : Messages \union {"none"}]]
    /\ \A a \in Actors : actor[a].pc \in InSession => actor[a].on # 0
    /\ inbox \in [Messages -> Decisions \union {"none"}]
    /\ stopped \subseteq Messages
    /\ fate \in [Messages -> [accepted : BOOLEAN, dropped : BOOLEAN, told : BOOLEAN,
                              expired : BOOLEAN, acks : SUBSET Decisions, twice : BOOLEAN,
                              verdict : Decisions \union {"none"}]]

(* A session has one Runtime that may begin turns: every load that is not in the  *)
(* table is closed, so that a message still queued at it will not run, however    *)
(* restores, deletes and evictions overlap (insert_session, delete).              *)
OneOpenLoad == \A i \in 1..made : i = table \/ i \in closed

(* A message that was answered 202 and never ran has lost its session to a delete *)
(* or an eviction that came after the request, and to nothing else.               *)
AcceptedFate == \A m \in Messages : At(m, "failed") /\ fate[m].accepted => fate[m].dropped

(* What POST /messages has told of a message, by the place of its task. *)
QueueStatus(m) ==
    CASE At(m, "refused") -> "refused"
      [] At(m, "done") -> "done"
      [] At(m, "failed") -> IF fate[m].accepted THEN "lost" ELSE "refused"
      [] At(m, "queued") -> "waiting"
      [] At(m, "start") \/ InTurn(m) -> "running"
      [] OTHER -> IF fate[m].accepted THEN "accepted" ELSE "new"
Queue == INSTANCE MessageQueue WITH
    Loads <- LoadIds, status <- [m \in Messages |-> QueueStatus(m)], line <- turn_lock,
    dropped <- {m \in Messages : fate[m].dropped}

(* To the clients the session is a queue of messages (MessageQueue): a message runs  *)
(* alone among those of its load and in the order in which they came to turn_lock,   *)
(* through every load, drop and cancellation (send_message, send_message_boxed).     *)
(* It says the same as Queue!Spec, but tries first whether nothing moved at all.     *)
ActsAsQueue == Queue!Init /\ [][UNCHANGED sessVars \/ Queue!Next]_(Queue!vars)

(* A prompt somebody waits for can be found, by an answer or by a page that loads  *)
(* the pending ones, until its decision is in the channel (prompter.rs).          *)
WaitingIsListed ==
    \A m \in Messages : At(m, "ask") /\ inbox[m] = "none" => m \in pending[actor[m].on]

(* A prompt takes one answer.  What a turn does rests on an acknowledged answer or *)
(* on the timeout, and an acknowledged allow is overruled by the timeout alone.    *)
AnswerHolds ==
    \A m \in Messages :
        /\ ~fate[m].twice
        /\ fate[m].verdict = "allow" => "allow" \in fate[m].acks
        /\ fate[m].verdict = "deny" => "deny" \in fate[m].acks \/ fate[m].expired
================================================================================
