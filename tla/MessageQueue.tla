------------------------------ MODULE MessageQueue ------------------------------
(***************************************************************************)
(* What POST /sessions/{id}/messages promises its clients, whatever loads, *)
(* deletes and evictions of the session come between: a message is refused *)
(* or accepted; an accepted one gets in line behind those that came before *)
(* it, runs alone at the head of the line, and is lost only when its       *)
(* session was dropped after the request.  Sessions is shown to implement  *)
(* this one.                                                               *)
(***************************************************************************)
EXTENDS Naturals, Sequences

CONSTANTS Messages,
          Loads     \* each load of the session has a line of its own

VARIABLES status,   \* where each message stands
          line,     \* of each load: who waits for its turn, behind who has it
          dropped   \* messages whose session was dropped under them

vars == <<status, line, dropped>>

Ended == {"refused", "done", "lost"}

Init ==
    /\ status = [m \in Messages |-> "new"]
    /\ line = [i \in Loads |-> <<>>]
    /\ dropped = {}

Becomes(m, from, to) == status[m] = from /\ status' = [status EXCEPT ![m] = to]
Heads(m, i) == line[i] # <<>> /\ Head(line[i]) = m
Steps(i) == line' = [line EXCEPT ![i] = Tail(@)]

Refuse(m) == Becomes(m, "new", "refused") /\ UNCHANGED <<line, dropped>>
Accept(m) == Becomes(m, "new", "accepted") /\ UNCHANGED <<line, dropped>>

Join(m, i) ==
    /\ Becomes(m, "accepted", "waiting")
    /\ line' = [line EXCEPT ![i] = Append(@, m)]
    /\ UNCHANGED dropped
Run(m, i) == Heads(m, i) /\ Becomes(m, "waiting", "running") /\ UNCHANGED <<line, dropped>>
End(m, i) == Heads(m, i) /\ Becomes(m, "running", "done") /\ Steps(i) /\ UNCHANGED dropped

(* A message whose session is gone when it looks for it, or when its turn has come. *)
LoseEarly(m) == m \in dropped /\ Becomes(m, "accepted", "lost") /\ UNCHANGED <<line, dropped>>
LoseLate(m, i) ==
    /\ m \in dropped /\ Heads(m, i)
    /\ Becomes(m, "waiting", "lost") /\ Steps(i)
    /\ UNCHANGED dropped

Drop ==
    /\ dropped \subseteq dropped'
    /\ \A m \in dropped' \ dropped : m \in Messages /\ status[m] \notin Ended
    /\ UNCHANGED <<status, line>>

Next ==
    \/ Drop
    \/ \E m \in Messages :
          \/ Refuse(m) \/ Accept(m) \/ LoseEarly(m)
          \/ \E i \in Loads : Join(m, i) \/ Run(m, i) \/ End(m, i) \/ LoseLate(m, i)

Spec == Init /\ [][Next]_vars
=================================================================================
