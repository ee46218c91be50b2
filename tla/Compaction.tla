------------------------------- MODULE Compaction -------------------------------
(***************************************************************************)
(* The context manager (minicoding-context): the messages of a session,    *)
(* the cached count of their tokens, the four levels of compression, and   *)
(* the breaker that ends a turn when compressing does not help.  The turn  *)
(* is reduced to what it does to the context: append, build a request,     *)
(* calibrate, and compress once more when the provider finds it too long.  *)
(*                                                                         *)
(* A message is its role and its tokens.  "call" is an assistant message   *)
(* with tool calls; the results that follow it are its group, without      *)
(* which a provider refuses the request.  Nothing in this system pins a    *)
(* message or appends one of role system.                                  *)
(***************************************************************************)
EXTENDS Integers, FiniteSets, Sequences, SequencesExt, FiniteSetsExt

CONSTANTS
    Threshold,          \* TokenBudget::compact_threshold
    FixedOverhead,      \* tokens of the system prompt and the tool schemas
    ClipAbove,          \* L1 clips a result above this ...
    ClippedTo,          \* ... to this
    SummaryTokens,      \* tokens an L2 summary may have
    RollingWindow,      \* RollingConfig.window_size
    ThrashThreshold,    \* CircuitBreakerConfig.thrash_threshold
    UnderestimateTrigger,   \* underestimates in a row that tighten the threshold
    TextTokens,         \* tokens a user's or an assistant's message may have
    ResultTokens,       \* tokens a tool result may have
    MaxResults,         \* bound: calls of one assistant message
    MaxRequests,        \* bound: requests built
    MaxSnapshots        \* bound: snapshots taken

ASSUME CompactionAssumption ==
    /\ {Threshold, RollingWindow, ThrashThreshold, UnderestimateTrigger, MaxResults} \subseteq Nat \ {0}
    /\ {FixedOverhead, ClipAbove, ClippedTo} \subseteq Nat /\ ClippedTo <= ClipAbove
    /\ SummaryTokens \union TextTokens \union ResultTokens \subseteq Nat \ {0}
    /\ \E largest \in TextTokens : \A n \in TextTokens : n <= largest
    /\ MaxRequests \in Nat /\ MaxSnapshots \in Nat

VARIABLES
    messages,       \* ContextManagerImpl.messages
    token_cache,    \* its token_cache
    streak,         \* its underestimate_streak
    thrash,         \* the breaker: consecutive_oversize, and whether the cooldown runs
    ctxTurn,        \* where the turn stands: step, results due, emergency_compressed
    counted,        \* what a snapshot has counted and not yet stored
    request,        \* the last request built, or refused
    seen            \* bounds, and history: whether a snapshot has overtaken an append

cmpVars == <<messages, token_cache, streak, thrash, ctxTurn, counted, request, seen>>

(* The results a call has been given are kept with it, for the properties only. *)
Message(role, tokens) == [role |-> role, tokens |-> tokens, results |-> 0]
Tokens(msgs) ==
    LET sum[n \in 0..Len(msgs)] == IF n = 0 THEN 0 ELSE sum[n - 1] + msgs[n].tokens
    IN sum[Len(msgs)]
NotCounted == -1

CmpInit ==
    /\ messages = <<>> /\ token_cache = 0 /\ streak = 0
    /\ thrash = [oversize |-> 0, cooling |-> FALSE]
    /\ ctxTurn = [pc |-> "idle", due |-> 0, emergency |-> FALSE, forced |-> FALSE]
    /\ counted = NotCounted
    /\ request = [tokens |-> 0, warned |-> FALSE, refused |-> FALSE]
    /\ seen = [requests |-> 0, snapshots |-> 0, overtaken |-> FALSE]

(* The threshold is tightened by a tenth, up to four times, as underestimates go on. *)
EffectiveThreshold == (Threshold * (100 - 10 * Min({streak \div UnderestimateTrigger, 4}))) \div 100

--------------------------------------------------------------------------------
(***************************************************************************)
(* The four levels.                                                        *)
(***************************************************************************)
(* L1, the largest results first, until the rest fits. *)
ClipOne(m) == [m EXCEPT !.tokens = ClippedTo]
Oversized(msgs) == {i \in DOMAIN msgs : msgs[i].role = "tool" /\ msgs[i].tokens > ClipAbove}
Larger(msgs, j, i) ==
    msgs[j].tokens > msgs[i].tokens \/ (msgs[j].tokens = msgs[i].tokens /\ j < i)
ClipLargest(msgs, n) ==
    LET before(i) == {j \in Oversized(msgs) : Larger(msgs, j, i)}
    IN [i \in DOMAIN msgs |-> IF i \in Oversized(msgs) /\ Cardinality(before(i)) < n
                              THEN ClipOne(msgs[i]) ELSE msgs[i]]
Clip(msgs) ==
    LET all == Cardinality(Oversized(msgs))
    IN ClipLargest(msgs, Min({n \in 0..all : Tokens(ClipLargest(msgs, n)) <= Threshold \/ n = all}))

(* A caller and the results right behind it. *)
SameGroup(msgs, i, j) ==
    \E s \in DOMAIN msgs :
        /\ s <= i /\ s <= j /\ msgs[s].role = "call"
        /\ \A k \in DOMAIN msgs : s < k /\ (k <= i \/ k <= j) => msgs[k].role = "tool"
ExpandNot(msgs, chosen) == chosen                       \* defect: no groups
ExpandToGroups(msgs, chosen) ==
    chosen \union {j \in DOMAIN msgs : \E i \in chosen : SameGroup(msgs, i, j)}

Keep(msgs, dropped) ==
    LET kept[n \in 0..Len(msgs)] ==
            IF n = 0 THEN <<>>
            ELSE IF n \in dropped THEN kept[n - 1] ELSE Append(kept[n - 1], msgs[n])
    IN kept[Len(msgs)]

(* L2: the lightest half, replaced by one summary where the first of them was. *)
Base(role) == CASE role = "user" -> 9 [] role = "tool" -> 4 [] OTHER -> 6
Lighter(msgs, j, i) ==
    LET w(k) == Base(msgs[k].role) * k
    IN w(j) < w(i) \/ (w(j) = w(i) /\ j < i)
Lightest(msgs) ==
    {i \in DOMAIN msgs :
        Cardinality({j \in DOMAIN msgs : Lighter(msgs, j, i)}) < Len(msgs) \div 2}
Summarize(msgs, tokens) ==
    LET gone == ExpandToGroups(msgs, Lightest(msgs))
    IN IF gone = {} THEN msgs
       ELSE Keep([msgs EXCEPT ![Min(gone)] = Message("asst", tokens)], gone \ {Min(gone)})

(* L3: the last RollingWindow messages. *)
Roll(msgs) == Keep(msgs, ExpandToGroups(msgs, 1..(Len(msgs) - RollingWindow)))

(* L4: as many of the last messages as fit, less a group that is cut in two. *)
HardTruncate(msgs) ==
    LET fits(k) == Tokens(SubSeq(msgs, k + 1, Len(msgs))) <= Threshold
        dropped == Min({k \in 0..Len(msgs) : fits(k)})
    IN Keep(msgs, ExpandToGroups(msgs, 1..dropped))

Fits(msgs) == Tokens(msgs) <= Threshold
AfterClip(msgs, tokens) ==
    LET l2 == Summarize(msgs, tokens)
        l3 == Roll(l2)
    IN CASE Fits(msgs) -> msgs [] ~Fits(msgs) /\ Fits(l2) -> l2
         [] OTHER -> IF Fits(l3) THEN l3 ELSE HardTruncate(l3)

--------------------------------------------------------------------------------
(***************************************************************************)
(* The breaker.  A compression fails on no path: L2 falls back to a        *)
(* heuristic, so its count of failures stays at zero.                      *)
(***************************************************************************)
Thrashing(b) == b.oversize >= ThrashThreshold
Refusing == Thrashing(thrash) /\ thrash.cooling

Succeeded(b) == [b EXCEPT !.oversize = 0]
OverAgain(b) ==
    [oversize |-> b.oversize + 1, cooling |-> b.cooling \/ b.oversize + 1 >= ThrashThreshold]

CooldownElapses ==
    /\ thrash.cooling
    /\ thrash' = [thrash EXCEPT !.cooling = FALSE]
    /\ UNCHANGED <<messages, token_cache, streak, ctxTurn, counted, request, seen>>

(***************************************************************************)
(* append: the message and its tokens, under the write lock.               *)
(***************************************************************************)
Appends(m) == messages' = Append(messages, m)

UserMessage ==
    /\ ctxTurn.pc = "idle" /\ seen.requests < MaxRequests
    /\ \E n \in TextTokens : Appends(Message("user", n)) /\ token_cache' = token_cache + n
    /\ ctxTurn' = [pc |-> "build", due |-> 0, emergency |-> FALSE, forced |-> FALSE]
    /\ UNCHANGED <<streak, thrash, counted, request, seen>>

(* build_chat_request, up to the compression and from it. *)
RequestGoes(msgs, injected, warned) ==
    /\ request' = [tokens |-> Tokens(msgs) + FixedOverhead + injected,
                   warned |-> warned, refused |-> FALSE]
    /\ ctxTurn' = [ctxTurn EXCEPT !.pc = "llm"]

BuildRequest ==
    /\ ctxTurn.pc = "build"
    /\ IF token_cache + FixedOverhead <= EffectiveThreshold
       THEN RequestGoes(messages, 0, FALSE)
       ELSE /\ ctxTurn' = [ctxTurn EXCEPT !.pc = IF Refusing THEN "idle" ELSE "clip"]
            /\ request' = [request EXCEPT !.refused = Refusing]
    /\ seen' = [seen EXCEPT !.requests = @ + 1]
    /\ UNCHANGED <<messages, token_cache, streak, thrash, counted>>

(***************************************************************************)
(* compress: the write lock is held from L1 to the new count; L2 waits for *)
(* the provider, and a turn that is cancelled there has only clipped.      *)
(***************************************************************************)
ClipResults ==
    /\ ctxTurn.pc = "clip"
    /\ messages' = Clip(messages)
    /\ ctxTurn' = [ctxTurn EXCEPT !.pc = "levels"]
    /\ UNCHANGED <<token_cache, streak, thrash, counted, request, seen>>

Compress ==
    /\ ctxTurn.pc = "levels"
    /\ \E n \in SummaryTokens : messages' = AfterClip(messages, n)
    /\ token_cache' = Tokens(messages')
    /\ ctxTurn' = [ctxTurn EXCEPT !.pc = "judge"]
    /\ UNCHANGED <<streak, thrash, counted, request, seen>>

(* Success and oversize are judged with the fixed overhead; when that alone *)
(* is above the threshold, every compression is a success.                  *)
Remaining == Max({EffectiveThreshold - (Tokens(messages) + FixedOverhead), 0})
JudgeCompression ==
    /\ ctxTurn.pc = "judge"
    /\ LET limit == EffectiveThreshold - FixedOverhead
           over == limit > 0 /\ Tokens(messages) > limit
           after == IF over THEN OverAgain(thrash) ELSE Succeeded(thrash)
       IN /\ thrash' = after
          /\ CASE over /\ Thrashing(after) ->
                     /\ ctxTurn' = [ctxTurn EXCEPT !.pc = "idle"]
                     /\ request' = [request EXCEPT !.refused = TRUE]
               [] ~(over /\ Thrashing(after)) /\ ctxTurn.forced ->
                     /\ ctxTurn' = [ctxTurn EXCEPT !.pc = "build", !.forced = FALSE]
                     /\ UNCHANGED request
               [] OTHER -> \E injected \in {0, Remaining} : RequestGoes(messages, injected, over)
    /\ UNCHANGED <<messages, token_cache, streak, counted, seen>>

--------------------------------------------------------------------------------
(***************************************************************************)
(* The answer: append, then calibrate with the tokens that the provider    *)
(* has counted, none when it reports none.                                 *)
(***************************************************************************)
CalibratedAlways(cache, actual) ==            \* defect: takes a missing count for zero
    (cache + Max({actual - FixedOverhead, 0})) \div 2
Calibrated(cache, actual) ==
    IF actual = 0 THEN cache ELSE (cache + Max({actual - FixedOverhead, 0})) \div 2
Underestimated(cache, actual) ==
    (Max({actual - FixedOverhead, 0}) * 100) \div cache > 120

AppendsAnswer(m, actual) ==
    LET cache == token_cache + m.tokens
    IN /\ Appends(m)
       /\ token_cache' = Calibrated(cache, actual)
       /\ streak' = CASE actual <= FixedOverhead -> streak
                      [] actual > FixedOverhead /\ Underestimated(cache, actual) -> streak + 1
                      [] OTHER -> 0

(* Bound: the provider counts what the tokenizer counts, or twice as much. *)
Usages == {0, request.tokens, 2 * request.tokens}

AppendReply ==
    /\ ctxTurn.pc = "llm"
    /\ \E n \in TextTokens, actual \in Usages :
          \/ /\ AppendsAnswer(Message("asst", n), actual)
             /\ ctxTurn' = [ctxTurn EXCEPT !.pc = "idle"]
          \/ /\ AppendsAnswer(Message("call", n), actual)
             /\ \E k \in 1..MaxResults :
                   ctxTurn' = [ctxTurn EXCEPT !.pc = "results", !.due = k]
    /\ UNCHANGED <<thrash, counted, request, seen>>

AppendResult ==
    /\ ctxTurn.pc = "results"
    /\ LET caller == SelectLastInSeq(messages, LAMBDA m : m.role = "call")
       IN \E n \in ResultTokens :
             /\ messages' = Append([messages EXCEPT ![caller].results = @ + 1],
                                   Message("tool", n))
             /\ token_cache' = token_cache + n
    /\ ctxTurn' = [ctxTurn EXCEPT !.due = @ - 1, !.emergency = FALSE,
           !.pc = CASE ctxTurn.due > 1 -> "results"
                    [] ctxTurn.due = 1 /\ seen.requests < MaxRequests -> "build"
                    [] OTHER -> "idle"]
    /\ UNCHANGED <<streak, thrash, counted, request, seen>>

(* LlmError::ContextLength: compress and build once more, or end the turn. *)
ContextLength ==
    /\ ctxTurn.pc = "llm"
    /\ ctxTurn' = IF ctxTurn.emergency \/ seen.requests >= MaxRequests
                  THEN [ctxTurn EXCEPT !.pc = "idle"]
                  ELSE [ctxTurn EXCEPT !.pc = "clip", !.emergency = TRUE, !.forced = TRUE]
    /\ UNCHANGED <<messages, token_cache, streak, thrash, counted, request, seen>>

(* Cancelled where it waits, the turn appends a notice of it. *)
CancelTurn ==
    /\ ctxTurn.pc \in {"levels", "judge", "llm"}
    /\ \E n \in TextTokens : Appends(Message("asst", n)) /\ token_cache' = token_cache + n
    /\ ctxTurn' = [ctxTurn EXCEPT !.pc = "idle"]
    /\ UNCHANGED <<streak, thrash, counted, request, seen>>

(***************************************************************************)
(* snapshot, by whoever persists an event: what it has counted it stores   *)
(* after it has given the lock back, over what was appended meanwhile.     *)
(***************************************************************************)
SnapshotCounts ==
    /\ counted = NotCounted /\ seen.snapshots < MaxSnapshots
    /\ ctxTurn.pc # "levels"
    /\ counted' = Tokens(messages)
    /\ seen' = [seen EXCEPT !.snapshots = @ + 1]
    /\ UNCHANGED <<messages, token_cache, streak, thrash, ctxTurn, request>>

SnapshotStores ==
    /\ counted # NotCounted
    /\ token_cache' = counted /\ counted' = NotCounted
    /\ seen' = [seen EXCEPT !.overtaken = @ \/ counted < Tokens(messages)]
    /\ UNCHANGED <<messages, streak, thrash, ctxTurn, request>>

CmpNext ==
    \/ CooldownElapses \/ UserMessage \/ BuildRequest
    \/ ClipResults \/ Compress \/ JudgeCompression
    \/ AppendReply \/ AppendResult \/ ContextLength \/ CancelTurn
    \/ SnapshotCounts \/ SnapshotStores

CmpSpec == CmpInit /\ [][CmpNext]_cmpVars

--------------------------------------------------------------------------------
CmpTypeOK ==
    /\ messages \in Seq([role : {"user", "asst", "call", "tool"}, tokens : Nat,
                         results : 0..MaxResults])
    /\ token_cache \in Nat /\ streak \in Nat /\ counted \in Nat \union {NotCounted}
    /\ thrash \in [oversize : Nat, cooling : BOOLEAN]
    /\ ctxTurn \in [pc : {"idle", "build", "clip", "levels", "judge", "llm", "results"},
                    due : 0..MaxResults, emergency : BOOLEAN, forced : BOOLEAN]
    /\ request \in [tokens : Nat, warned : BOOLEAN, refused : BOOLEAN]

(* Compression takes a call and its results together or not at all: a result is  *)
(* never left without its call, and a call has all the results that it was given. *)
GroupsWhole ==
    \A i \in DOMAIN messages :
        /\ messages[i].role = "tool" =>
              \E s \in 1..(i - 1) : messages[s].role = "call" /\ SameGroup(messages, s, i)
        /\ messages[i].role = "call" =>
              Cardinality({j \in DOMAIN messages : j # i /\ SameGroup(messages, i, j)})
                  = messages[i].results

(* However requests, answers, calibrations and compressions follow each other,   *)
(* the cached count trails the messages by at most the one message that the      *)
(* provider had not yet counted, so that a request is over the threshold by no   *)
(* more than that, unless it was sent with a warning or a snapshot has overtaken *)
(* an append.                                                                    *)
RequestFits ==
    LET slack == Max(TextTokens)
    IN ~seen.overtaken =>
         /\ ctxTurn.pc # "levels" => token_cache + slack >= Tokens(messages)
         /\ request.tokens > Threshold + slack => request.warned
================================================================================
