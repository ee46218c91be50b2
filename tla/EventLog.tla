-------------------------------- MODULE EventLog --------------------------------
(***************************************************************************)
(* What the event stream of one session promises its readers (`--replay`,  *)
(* resume, SSE durable recovery), whatever the front end, the faults and   *)
(* the cancellations: an append-only log with strictly increasing sequence *)
(* numbers in which every acknowledged event stays for ever.  The detailed *)
(* specification EventStream is shown to implement this one.               *)
(***************************************************************************)
EXTENDS Naturals, Sequences

CONSTANTS Seqs,     \* the sequence numbers an event can carry
          Bodies    \* the events that are persisted

VARIABLES log,      \* the complete lines of {session}.events.jsonl
          acked     \* sequence numbers whose append was reported as done

vars == <<log, acked>>

Init == log = <<>> /\ acked = {}

(* A new line goes after every line already there, under a larger number. *)
Write(s, b) ==
    /\ \A i \in DOMAIN log : log[i].seq < s
    /\ log' = Append(log, [seq |-> s, body |-> b])
    /\ UNCHANGED acked

(* Only a line that is in the log can be acknowledged. *)
Ack(s) ==
    /\ \E i \in DOMAIN log : log[i].seq = s
    /\ acked' = acked \union {s}
    /\ UNCHANGED log

Next == \E s \in Seqs : Ack(s) \/ \E b \in Bodies : Write(s, b)

Spec == Init /\ [][Next]_vars
=================================================================================
