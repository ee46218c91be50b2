------------------------------ MODULE Transcript ------------------------------
(***************************************************************************)
(* Message histories as the providers see them: an assistant message that  *)
(* calls tools must be followed at once by one result for each of its      *)
(* calls.  The operators are the repairs of runtime/repair.rs, the         *)
(* backfill of rt.rs and the compression levels of minicoding-context.     *)
(* A message keeps its role, the ids of the calls it makes and the id of   *)
(* the call it answers; texts are left out.                                *)
(***************************************************************************)
EXTENDS Naturals, Sequences, FiniteSets, SequencesExt

CONSTANTS
    Threshold,     \* compact_threshold, counted in messages instead of tokens
    Window         \* RollingConfig::window_size

ASSUME CompressionAssumption == Threshold \in Nat /\ Window \in Nat

User == [role |-> "user", calls |-> <<>>, answers |-> 0]
Text == [role |-> "assistant", calls |-> <<>>, answers |-> 0]   \* reply, notice, summary
Calling(ids) == [role |-> "assistant", calls |-> ids, answers |-> 0]
Result(id) == [role |-> "tool", calls |-> <<>>, answers |-> id]

Results(ids) == [k \in DOMAIN ids |-> Result(ids[k])]

Answered(msgs) == {msgs[i].answers : i \in DOMAIN msgs} \ {0}
Declared(msgs) == UNION {ToSet(msgs[i].calls) : i \in DOMAIN msgs}

(* The elements of s at the positions S, in their order. *)
Keep(s, S) ==
    LET kept[n \in 0..Len(s)] ==
            IF n = 0 THEN <<>> ELSE IF n \in S THEN Append(kept[n - 1], s[n]) ELSE kept[n - 1]
    IN kept[Len(s)]

(* Calls of one message that no message of the history answers. *)
Open(msgs, m) == Keep(m.calls, {k \in DOMAIN m.calls : m.calls[k] \notin Answered(msgs)})

(***************************************************************************)
(* repair_dangling_tool_calls: an error result right after the call, for   *)
(* calls that are answered nowhere.                                        *)
(***************************************************************************)
RepairDanglingAtEnd(msgs) ==                  \* defect: appended to the history
    msgs \o FlattenSeq([i \in DOMAIN msgs |-> Results(Open(msgs, msgs[i]))])
RepairDangling(msgs) ==
    LET out[n \in 0..Len(msgs)] ==
            IF n = 0 THEN <<>>
            ELSE Append(out[n - 1], msgs[n]) \o Results(Open(msgs, msgs[n]))
    IN out[Len(msgs)]

(***************************************************************************)
(* repair_request_messages: results of unknown calls are dropped, dangling *)
(* calls repaired, and the first message is made a user message.           *)
(***************************************************************************)
Known(msgs) ==
    LET known[n \in 0..Len(msgs)] ==
            IF n = 0 THEN <<>>
            ELSE IF msgs[n].role = "tool" /\ msgs[n].answers \notin Declared(msgs)
            THEN known[n - 1] ELSE Append(known[n - 1], msgs[n])
    IN known[Len(msgs)]
BehindUser(msgs) ==
    IF msgs # <<>> /\ msgs[1].role = "assistant" THEN <<User>> \o msgs ELSE msgs
RepairRequestKeepsOrphans(msgs) ==            \* defect: results of unknown calls stay
    BehindUser(RepairDangling(msgs))
RepairRequest(msgs) == BehindUser(RepairDangling(Known(msgs)))

(***************************************************************************)
(* backfill_missing_tool_results: error results for the open calls of the  *)
(* last message that calls tools, to be appended at the end.               *)
(***************************************************************************)
MissingOfFirst(msgs) ==                       \* defect: looks at the first caller
    LET callers == {i \in DOMAIN msgs : msgs[i].calls # <<>>}
    IN IF callers = {} THEN <<>>
       ELSE Results(Open(msgs, msgs[CHOOSE i \in callers : \A j \in callers : i <= j]))
Missing(msgs) ==
    LET callers == {i \in DOMAIN msgs : msgs[i].calls # <<>>}
    IN IF callers = {} THEN <<>>
       ELSE Results(Open(msgs, msgs[CHOOSE i \in callers : \A j \in callers : i >= j]))

(***************************************************************************)
(* What a strict provider accepts: each call is answered in the block of   *)
(* results that follows it, and there is no other result.                  *)
(***************************************************************************)
Paired(msgs) ==
    /\ \A i \in DOMAIN msgs :
          /\ i + Len(msgs[i].calls) <= Len(msgs)
          /\ {msgs[i + k].answers : k \in DOMAIN msgs[i].calls} = ToSet(msgs[i].calls)
    /\ \A j \in DOMAIN msgs : msgs[j].role = "tool" =>
          \E i \in 1..(j - 1) : /\ j <= i + Len(msgs[i].calls)
                                /\ msgs[j].answers \in ToSet(msgs[i].calls)

--------------------------------------------------------------------------------
(***************************************************************************)
(* Compression.  A caller and the results right behind it are one group;   *)
(* what is removed is closed under groups (tool_group.rs).                 *)
(***************************************************************************)
SameGroup(msgs, i, j) ==
    \E h \in DOMAIN msgs :
        /\ msgs[h].calls # <<>> /\ h <= i /\ h <= j
        /\ \A k \in (h + 1)..i \union (h + 1)..j : msgs[k].role = "tool"
Expand(msgs, D) == D \union {j \in DOMAIN msgs : \E i \in D : SameGroup(msgs, i, j)}

(***************************************************************************)
(* L2: the lighter half becomes one summary.  A weight is the role's base  *)
(* times the age rank; results of failed calls weigh 6 instead of 4.       *)
(***************************************************************************)
Lightest(m, i) == i * (CASE m.role = "user" -> 9 [] m.role = "assistant" -> 6 [] OTHER -> 4)
Heaviest(m, i) == i * (IF m.role = "user" THEN 9 ELSE 6)
LightHalves(msgs) ==
    {D \in SUBSET DOMAIN msgs :
        /\ D # {} /\ Cardinality(D) = Len(msgs) \div 2
        /\ \A i \in D, j \in DOMAIN msgs \ D : Lightest(msgs[i], i) <= Heaviest(msgs[j], j)}
Summarised(msgs, D) ==
    LET first == CHOOSE i \in D : \A j \in D : i <= j
    IN SubSeq(msgs, 1, first - 1) \o <<Text>>
           \o Keep(msgs, {i \in DOMAIN msgs : i > first /\ i \notin D})
Summaries(msgs) == {Summarised(msgs, Expand(msgs, D)) : D \in LightHalves(msgs)}

(* L3 and L4: the oldest messages go, until n are left. *)
Rolled(msgs, n) ==
    IF Len(msgs) <= n THEN msgs
    ELSE Keep(msgs, DOMAIN msgs \ Expand(msgs, 1..(Len(msgs) - n)))

(***************************************************************************)
(* The pipeline stops as soon as it is at or below the threshold; L1 clips *)
(* results, which may be enough, and L2 needs a provider.                  *)
(***************************************************************************)
Compressed(msgs) ==
    IF Len(msgs) <= Threshold THEN {msgs}
    ELSE {msgs} \union {IF Len(m) <= Threshold THEN m ELSE Rolled(Rolled(m, Window), Threshold) :
                            m \in {msgs} \union Summaries(msgs)}
================================================================================
