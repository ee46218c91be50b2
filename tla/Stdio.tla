---------------------------------- MODULE Stdio ----------------------------------
(***************************************************************************)
(* The servers on standard input and output: ndjson.rs, acp.rs and lsp.rs  *)
(* of minicoding-server.  A prompt subscribes to the numbered events of    *)
(* the session, spawns its turn, and forwards events and takes further     *)
(* messages until the turn is over; what is still on its way then is       *)
(* drained (turn_tail.rs) before the prompt is answered.  NDJSON and ACP   *)
(* have one loop that takes messages; LSP runs its requests beside one     *)
(* another, and turn_gate lets one prompt at a time subscribe.             *)
(***************************************************************************)
EXTENDS Integers, Sequences, FiniteSets, SequencesExt, FiniteSetsExt

CONSTANTS
    Protocols,      \* a subset of {"ndjson", "acp", "lsp"}
    LiveEvents,     \* capacity of sequenced_tx
    MaxPrompts,     \* bound: prompts, in the order in which they are sent
    MaxWork,        \* bound: events of a turn before its TurnEnd
    MaxMessages     \* bound: messages that are no prompts

ASSUME StdioAssumption ==
    /\ Protocols \subseteq {"ndjson", "acp", "lsp"} /\ LiveEvents \in Nat \ {0}
    /\ {MaxPrompts, MaxWork, MaxMessages} \subseteq Nat

Prompts == 1..MaxPrompts

VARIABLES
    protocol,
    stdin,          \* messages between the reader task and the loop
    sent_messages,  \* number of messages that were no prompts
    eof,            \* the client has closed standard input
    stage,          \* where each prompt is
    rx,             \* how many of the sequenced events its subscription has behind it
    turn,           \* its turn
    cancelled,      \* prompts whose turn has been cancelled
    emitted_on,     \* number of events of its turn so far
    upcoming,       \* events on the EventBus that the sequencer has not numbered
    sequenced,      \* events it has sent on
    told,           \* standard output: events and answers
    lagged,         \* history: prompts whose subscription has lost events
    hasty           \* history: prompts answered with events still on their way

stdioVars == <<protocol, stdin, sent_messages, eof, stage, rx, turn, cancelled, emitted_on,
               upcoming, sequenced, told, lagged, hasty>>
input == <<stdin, sent_messages, eof>>
turns == <<turn, cancelled, emitted_on, upcoming>>
history == <<lagged, hasty>>

TurnEnd == 0
Ev(p, n) == [what |-> "event", of |-> p, n |-> n]
Reply(p, how) == [what |-> how, of |-> p, n |-> 0]

StdioInit ==
    /\ protocol \in Protocols
    /\ stdin = <<>> /\ sent_messages = 0 /\ eof = FALSE
    /\ stage = [p \in Prompts |-> "unsent"] /\ rx = [p \in Prompts |-> 0]
    /\ turn = [p \in Prompts |-> "none"] /\ cancelled = {}
    /\ emitted_on = [p \in Prompts |-> 0]
    /\ upcoming = <<>> /\ sequenced = <<>> /\ told = <<>>
    /\ lagged = {} /\ hasty = {}

Serial == protocol # "lsp"
Subscribed == {p \in Prompts : stage[p] \in {"forwarding", "draining", "answering"}}
Waiting == {p \in Prompts : stage[p] = "waiting"}
RunningTurn == {p \in Prompts : turn[p] = "running"}

--------------------------------------------------------------------------------
(***************************************************************************)
(* The client.  A broken message is one that ACP's loop refuses with an    *)
(* error instead of an answer, like an id that is no number or string.     *)
(***************************************************************************)
SendsPrompt(p) ==
    /\ ~eof /\ stage[p] = "unsent" /\ \A q \in 1..(p - 1) : stage[q] # "unsent"
    /\ IF Serial THEN /\ stage' = [stage EXCEPT ![p] = "read"]
                      /\ stdin' = Append(stdin, [do |-> "prompt", p |-> p])
                 ELSE stage' = [stage EXCEPT ![p] = "waiting"] /\ UNCHANGED stdin
    /\ UNCHANGED <<protocol, sent_messages, eof, rx, turns, sequenced, told, history>>
SendsMessage(what) ==
    /\ ~eof /\ Serial /\ sent_messages < MaxMessages
    /\ what = "broken" => protocol = "acp"
    /\ sent_messages' = sent_messages + 1 /\ stdin' = Append(stdin, [do |-> what, p |-> 0])
    /\ UNCHANGED <<protocol, eof, stage, rx, turns, sequenced, told, history>>
Closes ==
    /\ ~eof /\ Serial /\ eof' = TRUE
    /\ UNCHANGED <<protocol, stdin, sent_messages, stage, rx, turns, sequenced, told, history>>

(* LSP: the cancel command, and the cancel of a request, which drops the future. *)
LspCancels ==
    /\ ~Serial /\ sent_messages < MaxMessages /\ sent_messages' = sent_messages + 1
    /\ cancelled' = cancelled \union RunningTurn
    /\ UNCHANGED <<protocol, stdin, eof, stage, rx, turn, emitted_on, upcoming, sequenced, told, history>>
LspRequestCancelled(p) ==
    /\ ~Serial /\ p \in Waiting \union Subscribed /\ sent_messages < MaxMessages
    /\ sent_messages' = sent_messages + 1 /\ stage' = [stage EXCEPT ![p] = "abandoned"]
    /\ UNCHANGED <<protocol, stdin, eof, rx, turns, sequenced, told, history>>

--------------------------------------------------------------------------------
(***************************************************************************)
(* The loop while no prompt is served.                                     *)
(***************************************************************************)
Takes ==
    /\ Serial /\ stdin # <<>> /\ Subscribed \union Waiting = {}
    /\ stdin' = Tail(stdin)
    /\ LET m == Head(stdin)
       IN stage' = IF m.do = "prompt" THEN [stage EXCEPT ![m.p] = "waiting"] ELSE stage
    /\ cancelled' = cancelled \union IF Head(stdin).do = "cancel" THEN RunningTurn ELSE {}
    /\ UNCHANGED <<protocol, sent_messages, eof, rx, turn, emitted_on, upcoming, sequenced, told, history>>

BeginsUngated(p) ==             \* defect: no turn_gate, as before it was added
    /\ p \in Waiting
    /\ stage' = [stage EXCEPT ![p] = "forwarding"] /\ rx' = [rx EXCEPT ![p] = Len(sequenced)]
    /\ turn' = [turn EXCEPT ![p] = "queued"]
    /\ UNCHANGED <<protocol, input, cancelled, emitted_on, upcoming, sequenced, told, history>>
Begins(p) ==
    /\ p \in Waiting /\ p = Min(Waiting) /\ Subscribed = {}
    /\ stage' = [stage EXCEPT ![p] = "forwarding"] /\ rx' = [rx EXCEPT ![p] = Len(sequenced)]
    /\ turn' = [turn EXCEPT ![p] = "queued"]
    /\ UNCHANGED <<protocol, input, cancelled, emitted_on, upcoming, sequenced, told, history>>

--------------------------------------------------------------------------------
(***************************************************************************)
(* The turn, behind turn_lock, and the sequencer.                          *)
(***************************************************************************)
TurnRuns(p) ==
    /\ turn[p] = "queued" /\ RunningTurn = {}
    /\ turn' = [turn EXCEPT ![p] = "running"]
    /\ UNCHANGED <<protocol, input, stage, rx, cancelled, emitted_on, upcoming, sequenced, told, history>>
(* The session is gone, its event stream cannot be opened, or the message not stored. *)
TurnRefused(p) ==
    /\ turn[p] \in {"queued", "running"} /\ emitted_on[p] = 0
    /\ turn[p] = "queued" => RunningTurn = {}
    /\ turn' = [turn EXCEPT ![p] = "error"]
    /\ UNCHANGED <<protocol, input, stage, rx, cancelled, emitted_on, upcoming, sequenced, told, history>>
TurnWorks(p) ==
    /\ turn[p] = "running" /\ p \notin cancelled /\ emitted_on[p] < MaxWork
    /\ emitted_on' = [emitted_on EXCEPT ![p] = @ + 1]
    /\ upcoming' = Append(upcoming, Ev(p, emitted_on'[p]))
    /\ UNCHANGED <<protocol, input, stage, rx, turn, cancelled, sequenced, told, history>>
TurnEnds(p) ==
    /\ turn[p] = "running"
    /\ upcoming' = Append(upcoming, Ev(p, TurnEnd))
    /\ turn' \in {[turn EXCEPT ![p] = how] : how \in {"completed", "error"}}
    /\ UNCHANGED <<protocol, input, stage, rx, cancelled, emitted_on, sequenced, told, history>>

TurnIsOver(p) == turn[p] \in {"completed", "error"}

SequencerSends ==
    /\ upcoming # <<>>
    /\ sequenced' = Append(sequenced, Head(upcoming)) /\ upcoming' = Tail(upcoming)
    /\ UNCHANGED <<protocol, input, stage, rx, turn, cancelled, emitted_on, told, history>>

--------------------------------------------------------------------------------
(***************************************************************************)
(* The select of a prompt: the turn first; then NDJSON prefers messages    *)
(* and ACP events.                                                         *)
(***************************************************************************)
HasEvent(p) == rx[p] < Len(sequenced)
Behind(p) == Len(sequenced) - rx[p] > LiveEvents
Received(p) == sequenced[rx[p] + 1]

SeesTurnOver(p) ==
    /\ stage[p] = "forwarding" /\ TurnIsOver(p)
    /\ stage' = [stage EXCEPT ![p] = "draining"]
    /\ UNCHANGED <<protocol, input, rx, turns, sequenced, told, history>>

SkipsToOldest(p) ==
    /\ rx' = [rx EXCEPT ![p] = Len(sequenced) - LiveEvents] /\ lagged' = lagged \union {p}

Forwards(p) ==
    /\ stage[p] = "forwarding" /\ ~TurnIsOver(p) /\ HasEvent(p)
    /\ protocol = "ndjson" => stdin = <<>> /\ ~eof
    /\ IF Behind(p)
       THEN SkipsToOldest(p) /\ UNCHANGED told
       ELSE /\ told' = Append(told, Received(p)) /\ rx' = [rx EXCEPT ![p] = @ + 1]
            /\ UNCHANGED lagged
    /\ UNCHANGED <<protocol, input, stage, turns, sequenced, hasty>>

(* A message during a turn: cancels, refusals, and what ends the prompt unanswered. *)
TakesInTurn(p) ==
    /\ Serial /\ stage[p] = "forwarding" /\ ~TurnIsOver(p) /\ stdin # <<>>
    /\ protocol = "acp" => ~HasEvent(p)
    /\ stdin' = Tail(stdin)
    /\ LET m == Head(stdin)
       IN /\ stage' = CASE m.do = "prompt" -> [stage EXCEPT ![m.p] = "refused"]
                     [] m.do = "broken" -> [stage EXCEPT ![p] = "abandoned"]
                     [] OTHER -> stage
          /\ cancelled' = IF m.do = "cancel" THEN cancelled \union RunningTurn ELSE cancelled
    /\ UNCHANGED <<protocol, sent_messages, eof, rx, turn, emitted_on, upcoming, sequenced, told, history>>
InputEndsInTurn(p) ==
    /\ Serial /\ stage[p] = "forwarding" /\ ~TurnIsOver(p) /\ stdin = <<>> /\ eof
    /\ protocol = "acp" => ~HasEvent(p)
    /\ stage' = [stage EXCEPT ![p] = "abandoned"] /\ cancelled' = cancelled \union RunningTurn
    /\ UNCHANGED <<protocol, input, rx, turn, emitted_on, upcoming, sequenced, told, history>>

--------------------------------------------------------------------------------
(***************************************************************************)
(* drain_turn_tail, and the answer.  NDJSON has none of its own for a turn *)
(* that completed: the reply only marks that the prompt has been served.   *)
(***************************************************************************)
Drains(p) ==
    /\ stage[p] = "draining" /\ HasEvent(p)
    /\ IF Behind(p)
       THEN SkipsToOldest(p) /\ UNCHANGED <<told, stage>>
       ELSE /\ told' = Append(told, Received(p)) /\ rx' = [rx EXCEPT ![p] = @ + 1]
            /\ stage' = IF Received(p).n = TurnEnd THEN [stage EXCEPT ![p] = "answering"] ELSE stage
            /\ UNCHANGED lagged
    /\ UNCHANGED <<protocol, input, turns, sequenced, hasty>>
GraceExpires(p) ==
    /\ stage[p] = "draining"
    /\ stage' = [stage EXCEPT ![p] = "answering"]
    /\ hasty' = IF upcoming # <<>> \/ HasEvent(p) THEN hasty \union {p} ELSE hasty
    /\ UNCHANGED <<protocol, input, rx, turns, sequenced, told, lagged>>
Answers(p) ==
    /\ stage[p] = "answering"
    /\ stage' = [stage EXCEPT ![p] = "answered"] /\ told' = Append(told, Reply(p, turn[p]))
    /\ UNCHANGED <<protocol, input, rx, turns, sequenced, history>>

StdioNext ==
    \/ \E p \in Prompts :
          \/ SendsPrompt(p) \/ LspRequestCancelled(p) \/ Begins(p)
          \/ TurnRuns(p) \/ TurnRefused(p) \/ TurnWorks(p) \/ TurnEnds(p)
          \/ SeesTurnOver(p) \/ Forwards(p) \/ TakesInTurn(p) \/ InputEndsInTurn(p)
          \/ Drains(p) \/ GraceExpires(p) \/ Answers(p)
    \/ \E what \in {"cancel", "broken", "other"} : SendsMessage(what)
    \/ Closes \/ LspCancels \/ Takes \/ SequencerSends

StdioSpec == StdioInit /\ [][StdioNext]_stdioVars

--------------------------------------------------------------------------------
StdioTypeOK ==
    /\ protocol \in Protocols /\ sent_messages \in 0..MaxMessages /\ eof \in BOOLEAN
    /\ \A m \in ToSet(stdin) : m.do \in {"prompt", "cancel", "broken", "other"}
    /\ stage \in [Prompts -> {"unsent", "read", "waiting", "forwarding", "draining", "answering",
                           "answered", "refused", "abandoned"}]
    /\ turn \in [Prompts -> {"none", "queued", "running", "completed", "error"}]
    /\ rx \in [Prompts -> 0..Len(sequenced)] /\ emitted_on \in [Prompts -> 0..MaxWork]
    /\ (cancelled \union lagged \union hasty) \subseteq Prompts

(* No event is written twice, whatever prompts are cut short; and the client that *)
(* is told that a prompt completed has been told all of its turn before, in order *)
(* and to the TurnEnd, unless its subscription lagged or events took longer than  *)
(* the grace, or an earlier prompt left events behind in one of these ways.       *)
TurnIsTold ==
    /\ \A i, j \in 1..Len(told) : i # j => told[i] # told[j]
    /\ \A i \in 1..Len(told) :
          LET p == told[i].of
              undisturbed == p \notin lagged /\ \A q \in 1..p : q \notin hasty /\ stage[q] # "abandoned"
              before == {k \in 1..(i - 1) : told[k].of = p}
          IN told[i].what = "completed" /\ undisturbed
             => /\ {told[k] : k \in before} = {Ev(p, n) : n \in 1..emitted_on[p] \union {TurnEnd}}
                /\ \A j, k \in before : j < k =>
                      told[j].n # TurnEnd /\ (told[k].n = TurnEnd \/ told[j].n < told[k].n)
================================================================================
