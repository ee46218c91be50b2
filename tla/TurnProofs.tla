------------------------------- MODULE TurnProofs -------------------------------
(***************************************************************************)
(* Theorems about Turn, for every value of its constants: the TurnEnd of a *)
(* turn, the cancellation token of the cli, the queue of the server, what  *)
(* the message events have to do with the message log, and that calls and  *)
(* results are paired in the log, in the requests and in what is replayed. *)
(* Up to the last of these no proof looks into a message, so that the      *)
(* histories need no types.                                                *)
(***************************************************************************)
EXTENDS Turn, FiniteSetTheorems, SequenceLemmas, TLAPS

Afters == {"idle", "build", "reply", "guard", "finish", "step"}
InTodo == {"append", "persist"}
InEnd == {"ended", "rebuild"}

(* Where a turn goes on after persisting is a place inside run_turn, and    *)
(* the TurnEnd is broadcast behind select!, where nothing drops the turn.   *)
ControlInv ==
    /\ after \in Afters
    /\ pc \in InTodo => after # "idle"
    /\ pc \in InEnd => region = "stop"
    /\ pc = "idle" => region = "entry"
    /\ region = "entry" => pc = "idle" \/ (pc \in InTodo /\ after = "build")
    /\ TurnEndOnce

--------------------------------------------------------------------------------
(* Persisting messages leads to the append or straight to the next place,   *)
(* which is one where neither the turn is over nor its TurnEnd is out.      *)
LEMMA PersistingControl ==
    ASSUME NEW msgs, NEW next \in Afters \ {"idle"}, Persisting(msgs, next)
    PROVE  /\ after' = next
           /\ pc' \notin InEnd \union {"idle"}
BY DEF Persisting, Afters, InEnd

LEMMA AtRestControl ==
    ASSUME AtRest PROVE pc' = "idle" /\ after' = "idle" /\ region' = "entry"
BY DEF AtRest

LEMMA InitControl == Init => ControlInv
BY DEF Init, ControlInv, TurnEndOnce, Afters, InTodo, InEnd

(* The steps of the process inside a turn, as the front ends see them: they *)
(* leave the turn running, and no front end is concerned.                   *)
Inner ==
    \/ AppendMessage \/ PersistMessage \/ BuildRequest \/ TooManyIters \/ RepeatGuard
    \/ StepEnds \/ Backfill \/ Finish \/ Deactivate
    \/ AppendFails /\ region # "entry"
    \/ Reply \/ Call \/ ContextLength \/ Fail \/ ToolsFinish \/ ToolsFail \/ Drop \/ LateWrite

LEMMA InnerStep ==
    ASSUME ControlInv, Inner
    PROVE  /\ pc' = "idle" <=> pc = "idle"
           /\ UNCHANGED <<frontend, cancelled, inbox, client, accepted, done>>
           /\ scars \subseteq scars'
           /\ ControlInv'
<1> USE DEF ControlInv, TurnEndOnce, Afters, InTodo, InEnd, outside, bounds
<1>1. CASE AppendMessage
  BY <1>1 DEF AppendMessage
<1>2. CASE PersistMessage
  <2>1. after \in Afters \ {"idle"} /\ pc = "persist" /\ ends = 0
    BY <1>2 DEF PersistMessage
  <2>2. Persisting(Tail(todo), after)
    BY <1>2 DEF PersistMessage
  <2>3. after' = after /\ pc' \notin InEnd \union {"idle"}
    BY <2>1, <2>2, PersistingControl
  <2>4. /\ UNCHANGED <<frontend, cancelled, inbox, client, accepted, done, ends>>
        /\ scars \subseteq scars' /\ region' # "entry"
    BY <1>2 DEF PersistMessage, Fault
  <2> QED
    BY <2>1, <2>3, <2>4
<1>3. CASE BuildRequest
  BY <1>3 DEF BuildRequest
<1>4. CASE \/ TooManyIters \/ Reply \/ ToolsFinish \/ Call \/ Backfill
  <2>1. PICK msgs, next : Persisting(msgs, next) /\ next \in {"finish", "reply", "step", "guard"}
    BY <1>4 DEF TooManyIters, Reply, ToolsFinish, Call, Backfill
  <2>2. after' = next /\ pc' \notin InEnd \union {"idle"}
    BY <2>1, PersistingControl
  <2>3. pc \notin InEnd \union {"idle"} /\ ends = 0 /\ region' # "entry"
    BY <1>4 DEF TooManyIters, Reply, ToolsFinish, Call, Backfill
  <2>4. /\ UNCHANGED <<frontend, cancelled, inbox, client, accepted, done, ends>>
        /\ scars \subseteq scars'
    BY <1>4 DEF TooManyIters, Reply, ToolsFinish, Call, Backfill, Fault
  <2> QED
    BY <2>1, <2>2, <2>3, <2>4
<1>5. CASE RepeatGuard \/ StepEnds
  <2>1. \/ Persisting(<<Text>>, "finish")
        \/ pc' \in {"tools", "build"} /\ UNCHANGED after
    BY <1>5 DEF RepeatGuard, StepEnds
  <2>2. Persisting(<<Text>>, "finish") => after' = "finish" /\ pc' \notin InEnd \union {"idle"}
    BY DEF Persisting
  <2>3. /\ pc' \notin InEnd \union {"idle"}
        /\ after' \in {"finish", after} /\ (pc' \in InTodo => after' = "finish")
    BY <2>1, <2>2
  <2>4. /\ UNCHANGED <<frontend, cancelled, inbox, client, accepted, done, ends>>
        /\ scars \subseteq scars' /\ pc \notin InEnd \union {"idle"} /\ region' # "entry"
    BY <1>5 DEF RepeatGuard, StepEnds
  <2> QED
    BY <2>3, <2>4
<1>6. CASE Finish
  BY <1>6 DEF Finish
<1>7. CASE Deactivate
  BY <1>7 DEF Deactivate
<1>8. CASE AppendFails /\ region # "entry"
  <2>1. /\ pc = "append" /\ ends = 0
        /\ UNCHANGED <<frontend, cancelled, inbox, client, accepted, ends>>
        /\ scars \subseteq scars' /\ region' # "entry"
    BY <1>8 DEF AppendFails, Fault
  <2>2. CASE pc' \in {"persist", "failed"} /\ UNCHANGED <<after, done>>
    BY <2>1, <2>2
  <2>3. CASE Persisting(Tail(todo), after) /\ UNCHANGED done
    BY <2>1, <2>3, PersistingControl
  <2> QED
    BY <1>8, <2>2, <2>3 DEF AppendFails
<1>9. CASE ContextLength
  BY <1>9 DEF ContextLength
<1>10. CASE Fail \/ ToolsFail
  BY <1>10 DEF Fail, ToolsFail
<1>11. CASE Drop
  BY <1>11 DEF Drop, Fault
<1>12. CASE LateWrite
  BY <1>12 DEF LateWrite, control
<1> QED
  BY <1>1, <1>2, <1>3, <1>4, <1>5, <1>6, <1>7, <1>8, <1>9, <1>10, <1>11, <1>12 DEF Inner
--------------------------------------------------------------------------------
(* What the front ends do does not move the turn, except that it starts one. *)
Outer ==
    \/ CancelTurn \/ Submit \/ CtrlC \/ TuiCtrlC
    \/ \E c \in Clients : Post(c) \/ PostCancel(c) \/ Serve(c)

LEMMA NextSplit ==
    [Next]_vars => \/ Inner \/ Outer \/ StartTurn \/ RebuildToken \/ Crash
                   \/ (AppendFails /\ region = "entry") \/ UNCHANGED vars
BY DEF Next, Advance, Interrupt, Timeout, Inner, Outer

LEMMA OuterControl == Outer => UNCHANGED control /\ UNCHANGED <<frontend, ends, done>>
                               /\ scars' = scars
<1> USE DEF bounds
<1>1. CASE CancelTurn \/ Submit \/ CtrlC \/ TuiCtrlC
  BY <1>1 DEF CancelTurn, Submit, CtrlC, TuiCtrlC
<1>2. ASSUME NEW c \in Clients, Post(c) \/ PostCancel(c) \/ Serve(c)
      PROVE  /\ UNCHANGED control /\ UNCHANGED <<frontend, ends, done>>
             /\ scars' = scars
  BY <1>2 DEF Post, PostCancel, Serve, CheckActive, CancelToken
<1> QED
  BY <1>1, <1>2 DEF Outer

LEMMA OuterHistories == Outer => UNCHANGED histories
<1>1. CASE CancelTurn \/ Submit \/ CtrlC \/ TuiCtrlC
  BY <1>1 DEF CancelTurn, Submit, CtrlC, TuiCtrlC
<1>2. ASSUME NEW c \in Clients, Post(c) \/ PostCancel(c) \/ Serve(c) PROVE UNCHANGED histories
  BY <1>2 DEF Post, PostCancel, Serve, CheckActive, CancelToken
<1> QED
  BY <1>1, <1>2 DEF Outer

(* StartTurn leaves idle for the append of the user's message. *)
LEMMA StartsAppending == StartTurn => pc' = "append" /\ after' = "build"
BY DEF StartTurn, Persisting

LEMMA ControlStep == ControlInv /\ [Next]_vars => ControlInv'
<1> SUFFICES ASSUME ControlInv, [Next]_vars PROVE ControlInv'
  OBVIOUS
<1> USE DEF ControlInv, TurnEndOnce, Afters, InTodo, InEnd
<1>1. CASE Inner
  BY <1>1, InnerStep
<1>2. CASE Outer
  BY <1>2, OuterControl DEF control
<1>3. CASE StartTurn
  BY <1>3, StartsAppending DEF StartTurn
<1>4. CASE RebuildToken
  BY <1>4, AtRestControl DEF RebuildToken
<1>5. CASE Crash
  BY <1>5, AtRestControl DEF Crash
<1>6. CASE AppendFails /\ region = "entry"
  <2>1. pc = "append" /\ UNCHANGED ends
    BY <1>6 DEF AppendFails
  <2>2. CASE AtRest
    BY <2>1, <2>2, AtRestControl
  <2>3. CASE pc' = "persist" /\ UNCHANGED <<after, region>>
    BY <2>1, <2>3
  <2> QED
    BY <1>6, <2>2, <2>3 DEF AppendFails
<1>7. CASE UNCHANGED vars
  BY <1>7 DEF vars, control
<1> QED
  BY <1>1, <1>2, <1>3, <1>4, <1>5, <1>6, <1>7, NextSplit

(***************************************************************************)
(* A turn broadcasts exactly one TurnEnd, for every number of turns, calls *)
(* and faults and for every front end (run_turn's branches of select! and  *)
(* the TurnEnd behind it).                                                 *)
(***************************************************************************)
THEOREM OneTurnEnd == Spec => []TurnEndOnce
<1>1. ControlInv => TurnEndOnce
  BY DEF ControlInv
<1> QED
  BY InitControl, ControlStep, <1>1, PTL DEF Spec

--------------------------------------------------------------------------------
(* On the cli nobody is there to cancel between two turns: no HTTP client   *)
(* acts and no cancel waits in the channel.                                 *)
CliInv ==
    frontend = "cli" =>
        /\ \A c \in Clients : client[c] = "idle"
        /\ inbox \in Seq({"submit"})
        /\ "storage" \notin scars /\ pc = "idle" => ~cancelled
TokenInv == ControlInv /\ CliInv

LEMMA InitCliTurn == Init => CliInv
BY DEF Init, CliInv

LEMMA CliTokenStep == TokenInv /\ [Next]_vars => CliInv'
<1> SUFFICES ASSUME TokenInv, [Next]_vars, frontend' = "cli" PROVE CliInv'
  BY DEF CliInv
<1>0. frontend = "cli" /\ ControlInv /\ CliInv
  <2>1. Inner => frontend' = frontend
    BY InnerStep DEF TokenInv
  <2>2. Outer => frontend' = frontend
    BY OuterControl
  <2> QED
    BY <2>1, <2>2, NextSplit
       DEF TokenInv, StartTurn, RebuildToken, Crash, AppendFails, vars
<1> USE <1>0 DEF CliInv, outside, bounds
<1>1. CASE Inner
  BY <1>1, InnerStep
<1>2. CASE Submit
  BY <1>2 DEF Submit, control
<1>3. CASE CancelTurn
  <2>1. inbox \in Seq({"submit"}) /\ inbox # <<>> /\ Head(inbox) = "cancel"
    BY <1>3 DEF CancelTurn
  <2>2. Head(inbox) = "submit"
    BY <2>1
  <2> QED
    BY <2>1, <2>2
<1>4. CASE CtrlC
  BY <1>4 DEF CtrlC, Active, control
<1>5. CASE TuiCtrlC
  BY <1>5 DEF TuiCtrlC
<1>6. ASSUME NEW c \in Clients, Post(c) \/ PostCancel(c) \/ Serve(c) PROVE CliInv'
  BY <1>6 DEF Post, PostCancel, Serve, CheckActive, CancelToken
<1>7. CASE StartTurn
  <2>1. inbox' \in Seq({"submit"})
    BY <1>7 DEF StartTurn
  <2> QED
    BY <1>7, <2>1, StartsAppending DEF StartTurn
<1>8. CASE RebuildToken
  BY <1>8 DEF RebuildToken
<1>9. CASE Crash
  BY <1>9 DEF Crash
<1>10. CASE AppendFails /\ region = "entry"
  <2>1. "storage" \in scars' /\ UNCHANGED <<client, inbox>>
    BY <1>10 DEF AppendFails, Fault
  <2> QED
    BY <2>1
<1>11. CASE UNCHANGED vars
  BY <1>11 DEF vars, control
<1> QED
  BY <1>1, <1>2, <1>3, <1>4, <1>5, <1>6, <1>7, <1>8, <1>9, <1>10, <1>11, NextSplit DEF Outer

(***************************************************************************)
(* On the cli a turn starts with a token that nobody has cancelled, unless *)
(* storing a message has failed in this session: run_turn renews the token *)
(* on every way out but the early one (rt.rs), and the Ctrl-C task cancels *)
(* only while a turn runs.                                                 *)
(***************************************************************************)
THEOREM CliTokenRenewed == Spec => []CliTokenFresh
<1>1. Init => TokenInv
  BY InitControl, InitCliTurn DEF TokenInv
<1>2. TokenInv /\ [Next]_vars => TokenInv'
  BY ControlStep, CliTokenStep DEF TokenInv
<1>3. TokenInv => CliTokenFresh
  BY DEF TokenInv, CliInv, CliTokenFresh
<1> QED
  BY <1>1, <1>2, <1>3, PTL DEF Spec

--------------------------------------------------------------------------------
(* The handlers that hold a permit and have not queued their message yet.   *)
Posters == {c \in Clients : client[c] \in Posting}

QueueType ==
    /\ inbox \in Seq({"submit"})
    /\ client \in [Clients -> {"idle", "check", "kill"} \union Posting]
    /\ accepted \in Nat /\ done \in Nat

(* Every accepted message that is not finished holds a permit. *)
ServerInv ==
    /\ QueueType
    /\ accepted = done + Permits
    /\ Permits <= QueueLimit
QueueInv == ControlInv /\ (frontend = "server" => ServerInv)

(* A handler that takes a permit counts once more, one that has queued its  *)
(* message or only cancels does not.                                        *)
LEMMA PostersCount ==
    ASSUME QueueType, NEW c \in Clients, NEW state,
           client' = [client EXCEPT ![c] = state]
    PROVE  /\ Cardinality(Posters) \in Nat /\ Cardinality(Posters') \in Nat
           /\ client[c] \in Posting /\ state \notin Posting =>
                  Cardinality(Posters') = Cardinality(Posters) - 1
           /\ client[c] \notin Posting /\ state \in Posting =>
                  Cardinality(Posters') = Cardinality(Posters) + 1
           /\ (client[c] \in Posting <=> state \in Posting) =>
                  Cardinality(Posters') = Cardinality(Posters)
<1>1. IsFiniteSet(Clients)
  BY TurnAssumption
<1>2. IsFiniteSet(Posters) /\ IsFiniteSet(Posters')
  BY <1>1, FS_Subset DEF Posters
<1>3. \A d \in Clients : client'[d] = IF d = c THEN state ELSE client[d]
  BY DEF QueueType
<1>4. Posters' = IF state \in Posting THEN Posters \union {c} ELSE Posters \ {c}
  BY <1>3 DEF Posters
<1>5. c \in Posters <=> client[c] \in Posting
  BY DEF Posters
<1>6. /\ Cardinality(Posters \union {c}) =
             IF c \in Posters THEN Cardinality(Posters) ELSE Cardinality(Posters) + 1
      /\ Cardinality(Posters \ {c}) =
             IF c \in Posters THEN Cardinality(Posters) - 1 ELSE Cardinality(Posters)
  BY <1>2, FS_AddElement, FS_RemoveElement
<1>7. Cardinality(Posters) \in Nat /\ Cardinality(Posters') \in Nat
  BY <1>2, FS_CardinalityType
<1> QED
  BY <1>4, <1>5, <1>6, <1>7

LEMMA PostersNat == Cardinality(Posters) \in Nat
<1>1. IsFiniteSet(Posters)
  BY TurnAssumption, FS_Subset DEF Posters
<1> QED
  BY <1>1, FS_CardinalityType

LEMMA PermitsSplit ==
    /\ Permits = Len(inbox) + (IF pc = "idle" THEN 0 ELSE 1) + Cardinality(Posters)
    /\ Permits' = Len(inbox') + (IF pc' = "idle" THEN 0 ELSE 1) + Cardinality(Posters')
BY DEF Permits, Posters

LEMMA InitQueue == Init => QueueInv
<1> SUFFICES ASSUME Init PROVE QueueInv
  OBVIOUS
<1>1. QueueType
  BY DEF Init, QueueType
<1>2. Posters = {}
  BY DEF Init, Posters, Posting
<1>3. Len(inbox) = 0 /\ pc = "idle"
  BY DEF Init
<1>4. Permits = 0
  BY <1>2, <1>3, PermitsSplit, FS_EmptySet
<1>5. accepted = done + Permits /\ Permits <= QueueLimit
  BY <1>4, TurnAssumption DEF Init
<1> QED
  BY InitControl, <1>1, <1>5 DEF QueueInv, ServerInv

(* The front ends' steps on the server: a message is accepted with a permit, *)
(* and moves from its handler to the queue.                                  *)
LEMMA OuterQueue ==
    ASSUME QueueInv, Outer, frontend = "server"
    PROVE  ServerInv'
<1> USE DEF QueueInv, ServerInv, QueueType, outside
<1>1. UNCHANGED <<frontend, pc, done>>
  BY OuterControl DEF control
<1>2. /\ Cardinality(Posters) \in Nat /\ Len(inbox) \in Nat /\ Permits \in Nat
      /\ \E r \in {0, 1} : /\ Permits = Len(inbox) + r + Cardinality(Posters)
                          /\ Permits' = Len(inbox') + r + Cardinality(Posters')
  BY <1>1, PermitsSplit, PostersNat
<1>3. CASE CancelTurn
  <2>1. inbox # <<>> /\ Head(inbox) = "cancel"
    BY <1>3 DEF CancelTurn
  <2> QED
    BY <2>1
<1>4. CASE Submit \/ CtrlC \/ TuiCtrlC
  BY <1>4 DEF Submit, CtrlC, TuiCtrlC
<1>5. ASSUME NEW c \in Clients, Post(c) PROVE ServerInv'
  <2>0. QueueLimit \in Nat /\ Permits \in Nat
    BY <1>2, TurnAssumption
  <2>1. /\ client[c] = "idle" /\ Permits < QueueLimit /\ accepted' = accepted + 1
    BY <1>5 DEF Post
  <2>2. CASE client' = [client EXCEPT ![c] = "post_check"] /\ UNCHANGED inbox
    <3>1. Cardinality(Posters') = Cardinality(Posters) + 1
      BY <2>1, <2>2, PostersCount DEF Posting
    <3>2. QueueType'
      BY <1>1, <2>1, <2>2 DEF Posting
    <3>3. Permits' = Permits + 1
      BY <1>2, <2>2, <3>1
    <3> QED
      BY <1>1, <2>0, <2>1, <3>2, <3>3
  <2>3. CASE inbox' = Append(inbox, "submit") /\ UNCHANGED client
    <3>1. Posters' = Posters
      BY <2>3 DEF Posters
    <3>2. QueueType' /\ Len(inbox') = Len(inbox) + 1
      BY <1>1, <2>1, <2>3
    <3>3. Permits' = Permits + 1
      BY <1>2, <3>1, <3>2, SMTT(20)
    <3> QED
      BY <1>1, <2>0, <2>1, <3>2, <3>3
  <2> QED
    BY <1>5, <2>2, <2>3 DEF Post
<1>6. ASSUME NEW c \in Clients, NEW state \in {"check", "kill", "post_kill"},
             client' = [client EXCEPT ![c] = state], UNCHANGED <<inbox, accepted>>,
             client[c] \in Posting <=> state \in Posting
      PROVE  ServerInv'
  <2>1. Cardinality(Posters') = Cardinality(Posters)
    BY <1>6, PostersCount
  <2>2. QueueType'
    BY <1>1, <1>6 DEF Posting
  <2> QED
    BY <1>1, <1>2, <1>6, <2>1, <2>2
<1>7. ASSUME NEW c \in Clients, Leave(c), UNCHANGED accepted PROVE ServerInv'
  <2>1. client' = [client EXCEPT ![c] = "idle"] /\ "idle" \notin Posting
    BY <1>7 DEF Leave, Posting
  <2>2. CASE client[c] \in Posting
    <3>1. Cardinality(Posters') = Cardinality(Posters) - 1
      BY <2>1, <2>2, PostersCount
    <3>2. inbox' = Append(inbox, "submit")
      BY <1>7, <2>2 DEF Leave
    <3>3. QueueType' /\ Len(inbox') = Len(inbox) + 1
      BY <1>1, <1>7, <2>1, <3>2
    <3> QED
      BY <1>1, <1>2, <1>7, <3>1, <3>3
  <2>3. CASE client[c] \notin Posting
    <3>1. Cardinality(Posters') = Cardinality(Posters)
      BY <2>1, <2>3, PostersCount
    <3>2. UNCHANGED inbox
      BY <1>7, <2>3 DEF Leave
    <3>3. QueueType'
      BY <1>1, <1>7, <2>1, <3>2
    <3> QED
      BY <1>1, <1>2, <1>7, <3>1, <3>2, <3>3
  <2> QED
    BY <2>2, <2>3
<1>8. ASSUME NEW c \in Clients, PostCancel(c) \/ Serve(c) PROVE ServerInv'
  <2>1. CASE PostCancel(c)
    BY <1>6, <2>1 DEF PostCancel, Posting
  <2>2. CASE CheckActive(c)
    <3>1. CASE Leave(c)
      BY <1>7, <2>2, <3>1 DEF CheckActive
    <3>2. CASE /\ client' = [client EXCEPT ![c] = IF @ = "check" THEN "kill" ELSE "post_kill"]
               /\ UNCHANGED inbox
      <4>1. CASE client[c] = "check"
        BY <1>6, <2>2, <3>2, <4>1 DEF CheckActive, Posting
      <4>2. CASE client[c] = "post_check"
        BY <1>6, <2>2, <3>2, <4>2 DEF CheckActive, Posting
      <4> QED
        BY <2>2, <4>1, <4>2 DEF CheckActive
    <3> QED
      BY <2>2, <3>1, <3>2 DEF CheckActive
  <2>3. CASE CancelToken(c)
    BY <1>7, <2>3 DEF CancelToken
  <2> QED
    BY <1>8, <2>1, <2>2, <2>3 DEF Serve
<1> QED
  BY <1>3, <1>4, <1>5, <1>8 DEF Outer

LEMMA QueueStep == QueueInv /\ [Next]_vars => QueueInv'
<1> SUFFICES ASSUME QueueInv, [Next]_vars, frontend' = "server" PROVE ServerInv'
  BY ControlStep DEF QueueInv
<1>0. frontend = "server" /\ ControlInv /\ QueueInv /\ ServerInv
  <2>1. Inner => frontend' = frontend
    BY InnerStep DEF QueueInv
  <2>2. Outer => frontend' = frontend
    BY OuterControl
  <2> QED
    BY <2>1, <2>2, NextSplit
       DEF QueueInv, StartTurn, RebuildToken, Crash, AppendFails, vars
<1> USE <1>0 DEF ServerInv, QueueType, outside
<1>1. /\ Permits = Len(inbox) + (IF pc = "idle" THEN 0 ELSE 1) + Cardinality(Posters)
      /\ Permits' = Len(inbox') + (IF pc' = "idle" THEN 0 ELSE 1) + Cardinality(Posters')
      /\ Cardinality(Posters) \in Nat /\ Len(inbox) \in Nat /\ Permits \in Nat
      /\ QueueLimit \in Nat
  BY PermitsSplit, PostersNat, TurnAssumption
<1>2. UNCHANGED client => Posters' = Posters
  BY DEF Posters
<1>3. CASE Inner
  <2>1. (pc' = "idle" <=> pc = "idle") /\ UNCHANGED <<inbox, client, accepted, done>>
    BY <1>3, InnerStep
  <2>2. Permits' = Permits
    BY <1>1, <1>2, <2>1
  <2> QED
    BY <2>1, <2>2
<1>4. CASE Outer
  BY <1>4, OuterQueue
<1>5. CASE StartTurn
  <2>1. /\ pc = "idle" /\ inbox # <<>> /\ inbox' = Tail(inbox) /\ pc' = "append"
        /\ UNCHANGED <<client, accepted, done>>
    BY <1>5, StartsAppending DEF StartTurn
  <2>2. QueueType' /\ Len(inbox') = Len(inbox) - 1
    BY <2>1
  <2>3. Permits' = Permits
    BY <1>1, <1>2, <2>1, <2>2
  <2> QED
    BY <2>1, <2>2, <2>3
<1>6. CASE RebuildToken \/ (AppendFails /\ region = "entry" /\ AtRest)
  <2>1. /\ pc # "idle" /\ pc' = "idle" /\ done' = done + 1
        /\ UNCHANGED <<inbox, client, accepted>>
    BY <1>6, AtRestControl DEF RebuildToken, AppendFails
  <2>2. Permits' = Permits - 1
    BY <1>1, <1>2, <2>1
  <2> QED
    BY <1>1, <2>1, <2>2, SMTT(20)
<1>7. CASE Crash
  <2>1. /\ pc' = "idle" /\ inbox' = <<>> /\ client' = [c \in Clients |-> "idle"]
        /\ done' = accepted /\ UNCHANGED accepted
    BY <1>7, AtRestControl DEF Crash
  <2>2. Posters' = {}
    BY <2>1 DEF Posters, Posting
  <2>3. Permits' = 0
    BY <1>1, <2>1, <2>2, FS_EmptySet
  <2> QED
    BY <1>1, <2>1, <2>3
<1>8. CASE UNCHANGED vars
  <2>1. UNCHANGED <<pc, inbox, client, accepted, done>>
    BY <1>8 DEF vars, control
  <2>2. Permits' = Permits
    BY <1>1, <1>2, <2>1
  <2> QED
    BY <2>1, <2>2
<1>9. AppendFails /\ region = "entry" => AtRest \/ Inner
  BY <1>0 DEF AppendFails, Inner, Notice, ControlInv, InTodo
<1> QED
  BY <1>3, <1>4, <1>5, <1>6, <1>7, <1>8, <1>9, NextSplit

(***************************************************************************)
(* On the server every accepted message is finished or holds a permit, and *)
(* there are at most TURN_QUEUE_LIMIT of the latter, for any number of     *)
(* clients (send_message, cancel and the task that runs the turn).         *)
(***************************************************************************)
THEOREM ServerQueueBounded == Spec => []QueueBounded
<1>1. QueueInv => QueueBounded
  <2>1. ServerInv => accepted <= done + QueueLimit
    <3>1. Permits \in Nat \/ ~ServerInv
      BY PermitsSplit, PostersNat DEF ServerInv, QueueType
    <3> QED
      BY <3>1, TurnAssumption DEF ServerInv, QueueType
  <2> QED
    BY <2>1 DEF QueueInv, ServerInv, QueueBounded
<1> QED
  BY InitQueue, QueueStep, <1>1, PTL DEF Spec
--------------------------------------------------------------------------------
(* The search of Within, up to place m of t.                                *)
Search(f, s, t, m) ==
    f = [k \in 0..m |-> IF k = 0 THEN 0
                        ELSE IF f[k - 1] < Len(s) /\ s[f[k - 1] + 1] = t[k] THEN f[k - 1] + 1
                        ELSE f[k - 1]]

LEMMA SearchExists ==
    ASSUME NEW s, NEW t, NEW m \in Nat PROVE \E f : Search(f, s, t, m)
<1> DEFINE T == {x \in Nat : ~ \E f : Search(f, s, t, x)}
<1> SUFFICES ASSUME T # {} PROVE FALSE
  OBVIOUS
<1>1. PICK x \in T : \A y \in T : x <= y
  BY LeastNatural
<1>2. x # 0
  <2>1. Search([k \in 0..0 |-> 0], s, t, 0)
    BY DEF Search
  <2> QED
    BY <2>1
<1>3. x \in Nat /\ x - 1 \in Nat /\ x - 1 \notin T
  BY <1>1, <1>2
<1>4. PICK f : Search(f, s, t, x - 1)
  BY <1>3
<1> DEFINE reached == IF f[x - 1] < Len(s) /\ s[f[x - 1] + 1] = t[x] THEN f[x - 1] + 1 ELSE f[x - 1]
           g == [k \in 0..x |-> IF k = x THEN reached ELSE f[k]]
<1>5. \A k \in 0..(x - 1) : f[k] = IF k = 0 THEN 0
                        ELSE IF f[k - 1] < Len(s) /\ s[f[k - 1] + 1] = t[k] THEN f[k - 1] + 1
                        ELSE f[k - 1]
  BY <1>4 DEF Search
<1>6. g[x] = reached /\ \A k \in 0..(x - 1) : g[k] = f[k]
  BY <1>3
<1>7. \A k \in 0..x : g[k] = IF k = 0 THEN 0
                        ELSE IF g[k - 1] < Len(s) /\ s[g[k - 1] + 1] = t[k] THEN g[k - 1] + 1
                        ELSE g[k - 1]
  <2> SUFFICES ASSUME NEW k \in 0..x
               PROVE  g[k] = IF k = 0 THEN 0
                        ELSE IF g[k - 1] < Len(s) /\ s[g[k - 1] + 1] = t[k] THEN g[k - 1] + 1
                        ELSE g[k - 1]
    OBVIOUS
  <2> HIDE DEF g
  <2>1. CASE k = x
    <3>1. x - 1 \in 0..(x - 1)
      BY <1>3
    <3> QED
      BY <1>2, <1>6, <2>1, <3>1
  <2>2. CASE k # x
    <3>1. k \in 0..(x - 1) /\ (k # 0 => k - 1 \in 0..(x - 1))
      BY <1>3, <2>2
    <3> HIDE DEF reached
    <3> QED
      BY <1>5, <1>6, <3>1
  <2> QED
    BY <2>1, <2>2
<1>8. DOMAIN g = 0..x /\ g = [k \in 0..x |-> g[k]]
  OBVIOUS
<1> HIDE DEF g, reached
<1>9. Search(g, s, t, x)
  BY <1>7, <1>8 DEF Search
<1> QED
  BY <1>1, <1>9

(* What is embedded is found: the search is never behind an embedding.      *)
LEMMA EmbeddedIsWithin ==
    ASSUME NEW S, NEW s \in Seq(S), NEW t \in Seq(S), Embedded(s, t)
    PROVE  Within(s, t)
<1> DEFINE found == CHOOSE f : Search(f, s, t, Len(t))
<1>0. Len(s) \in Nat /\ Len(t) \in Nat /\ DOMAIN s = 1..Len(s) /\ DOMAIN t = 1..Len(t)
  OBVIOUS
<1>1. Search(found, s, t, Len(t))
  BY <1>0, SearchExists
<1>2. Within(s, t) <=> found[Len(t)] = Len(s)
  BY DEF Within, Search
<1>3. PICK f : Embeds(f, s, t)
  BY DEF Embedded
<1> HIDE DEF found
<1>4. \A k \in 0..Len(t) :
         found[k] = IF k = 0 THEN 0
                    ELSE IF found[k - 1] < Len(s) /\ s[found[k - 1] + 1] = t[k] THEN found[k - 1] + 1
                    ELSE found[k - 1]
  BY <1>1 DEF Search
<1> DEFINE Reaches(k) == /\ found[k] \in 0..Len(s)
                         /\ \A j \in DOMAIN s : f[j] <= k => j <= found[k]
           T == {k \in 0..Len(t) : ~ Reaches(k)}
<1>5. T = {}
  <2> SUFFICES ASSUME T # {} PROVE FALSE
    OBVIOUS
  <2>0. T \subseteq Nat
    OBVIOUS
  <2>1. PICK x \in T : \A y \in T : x <= y
    BY <2>0, LeastNatural
  <2>2. /\ \A i \in DOMAIN s : f[i] \in 1..Len(t) /\ t[f[i]] = s[i]
        /\ \A i, j \in DOMAIN s : i < j => f[i] < f[j]
    BY <1>0, <1>3 DEF Embeds
  <2>3. x # 0
    <3>1. found[0] = 0
      BY <1>0, <1>4
    <3>2. Reaches(0)
      BY <1>0, <2>2, <3>1
    <3> QED
      BY <2>1, <3>2
  <2>4. /\ x \in 1..Len(t) /\ x - 1 \in 0..Len(t) /\ x \in 0..Len(t) /\ Reaches(x - 1)
        /\ x - 1 \in Nat
    BY <1>0, <2>1, <2>3
  <2>5. found[x] = IF found[x - 1] < Len(s) /\ s[found[x - 1] + 1] = t[x] THEN found[x - 1] + 1
                   ELSE found[x - 1]
    BY <1>4, <2>3, <2>4
  <2>6. found[x] \in 0..Len(s) /\ found[x] >= found[x - 1] /\ found[x - 1] \in 0..Len(s)
    BY <1>0, <2>4, <2>5
  <2>7. ASSUME NEW j \in DOMAIN s, f[j] <= x PROVE j <= found[x]
    <3>0. j \in 1..Len(s) /\ f[j] \in 1..Len(t)
      BY <1>0, <2>2
    <3>1. CASE f[j] <= x - 1
      BY <1>0, <2>4, <2>6, <3>0, <3>1
    <3>2. CASE f[j] = x
      <4>1. j - 1 <= found[x - 1]
        <5>1. CASE j = 1
          BY <2>6, <5>1
        <5>2. CASE j # 1
          <6>1. j - 1 \in DOMAIN s /\ j - 1 < j
            BY <1>0, <3>0, <5>2
          <6>2. f[j - 1] < f[j] /\ f[j - 1] \in 1..Len(t)
            BY <2>2, <6>1
          <6>3. f[j - 1] <= x - 1
            BY <2>4, <3>2, <6>2
          <6> QED
            BY <2>4, <6>1, <6>3
        <5> QED
          BY <5>1, <5>2
      <4>2. CASE found[x - 1] = j - 1
        <5>1. found[x - 1] + 1 = j /\ found[x - 1] < Len(s) /\ s[j] = t[x]
          BY <1>0, <2>2, <3>0, <3>2, <4>2
        <5>2. found[x] = j
          BY <2>5, <5>1
        <5> QED
          BY <3>0, <5>2
      <4>3. CASE found[x - 1] >= j
        BY <2>6, <3>0, <4>3
      <4>4. found[x - 1] = j - 1 \/ found[x - 1] >= j
        <5>1. found[x - 1] \in Int /\ j \in Int
          BY <2>6, <3>0
        <5> QED
          BY <4>1, <5>1
      <4> QED
        BY <4>2, <4>3, <4>4
    <3> QED
      BY <2>4, <2>7, <3>0, <3>1, <3>2
  <2> QED
    BY <2>1, <2>6, <2>7
<1>6. Reaches(Len(t))
  BY <1>0, <1>5
<1>7. found[Len(t)] = Len(s)
  <2>1. CASE Len(s) = 0
    BY <1>0, <1>6, <2>1
  <2>2. CASE Len(s) # 0
    <3>1. Len(s) \in DOMAIN s /\ f[Len(s)] <= Len(t)
      BY <1>0, <1>3, <2>2 DEF Embeds
    <3> QED
      BY <1>0, <1>6, <3>1
  <2> QED
    BY <2>1, <2>2
<1> QED
  BY <1>2, <1>7

(* The events occur in the message log, and with the event that is about to  *)
(* be written they still do: its message has been stored.  A write that is   *)
(* under way can only make the log longer.                                   *)
Logged ==
    /\ Embedded(events, stored)
    /\ pc = "persist" => Embedded(Append(events, Head(todo)), stored)
HistoriesOver(S) == stored \in Seq(S) /\ events \in Seq(S) /\ late \in {<<>>} \union {<<x>> : x \in S}
LoggedInv == "storage" \notin scars => (\E S : HistoriesOver(S)) /\ Logged

(* What a step does to the histories, unless the log refuses a message.      *)
Same == UNCHANGED <<stored, events>> /\ late' \in {late, <<>>, <<Head(todo)>>}
Stores == stored' = Append(stored, Head(todo)) /\ UNCHANGED events /\ late' \in {late, <<>>}
Reports == pc = "persist" /\ events' = Append(events, Head(todo)) /\ UNCHANGED <<stored, late>>
Lands == late # <<>> /\ stored' = stored \o late /\ late' = <<>> /\ UNCHANGED events
Persists == pc' = "persist" /\ todo' = todo

LEMMA GoesOn ==
    ASSUME NEW msgs, NEW next \in Afters, Persisting(msgs, next) PROVE pc' # "persist"
BY DEF Persisting, Afters

LEMMA HistoryStep ==
    ASSUME ControlInv, [Next]_vars, "storage" \notin scars'
    PROVE  /\ "storage" \notin scars
           /\ \/ Same /\ (pc' = "persist" => pc = "persist" /\ todo' = todo)
              \/ Stores /\ (pc' = "persist" => todo' = todo)
              \/ Reports /\ pc' # "persist"
              \/ Lands /\ pc' = pc /\ todo' = todo
<1> USE DEF ControlInv, Afters, InTodo, InEnd, histories, control, bounds
<1>1. CASE AppendMessage
  BY <1>1 DEF AppendMessage, Stores
<1>2. CASE PersistMessage
  <2>1. pc' # "persist"
    BY <1>2, GoesOn DEF PersistMessage
  <2>2. "storage" \notin scars
    BY <1>2 DEF PersistMessage, Fault
  <2>3. CASE events' = Append(events, Head(todo))
    BY <1>2, <2>1, <2>2, <2>3 DEF PersistMessage, Reports
  <2>4. CASE UNCHANGED events
    BY <1>2, <2>1, <2>2, <2>4 DEF PersistMessage, Same
  <2> QED
    BY <1>2, <2>3, <2>4 DEF PersistMessage
<1>3. CASE BuildRequest
  BY <1>3 DEF BuildRequest, Same
<1>4. CASE TooManyIters
  BY <1>4, GoesOn DEF TooManyIters, Same
<1>5. CASE RepeatGuard
  <2>1. pc' # "persist"
    BY <1>5, GoesOn DEF RepeatGuard
  <2> QED
    BY <1>5, <2>1 DEF RepeatGuard, Same
<1>6. CASE StepEnds
  <2>1. pc' # "persist"
    BY <1>6, GoesOn DEF StepEnds
  <2> QED
    BY <1>6, <2>1 DEF StepEnds, Same
<1>7. CASE Backfill
  <2>1. pc' # "persist"
    BY <1>7, GoesOn DEF Backfill
  <2>2. "storage" \notin scars
    BY <1>7 DEF Backfill, Fault
  <2> QED
    BY <1>7, <2>1, <2>2 DEF Backfill, Same
<1>8. CASE Finish \/ Deactivate
  BY <1>8 DEF Finish, Deactivate, Same
<1>9. CASE AppendFails
  BY <1>9 DEF AppendFails, Fault
<1>10. CASE Reply
  BY <1>10, GoesOn DEF Reply, Same
<1>11. CASE Call
  <2>1. PICK n \in 1..MaxCalls : Persisting(<<Calling([k \in 1..n |-> called + k])>>, "guard")
    BY <1>11 DEF Call
  <2>2. pc' # "persist"
    BY <2>1, GoesOn
  <2> QED
    BY <1>11, <2>2 DEF Call, Same
<1>12. CASE ContextLength \/ Fail \/ ToolsFail
  BY <1>12 DEF ContextLength, Fail, ToolsFail, Same
<1>13. CASE ToolsFinish
  BY <1>13, GoesOn DEF ToolsFinish, Same
<1>14. CASE Drop
  <2>1. pc' = "backfill"
    BY <1>14 DEF Drop
  <2>2. "storage" \notin scars
    BY <1>14 DEF Drop, Fault
  <2> QED
    BY <1>14, <2>1, <2>2 DEF Drop, Same, Stores, Reports
<1>15. CASE LateWrite
  BY <1>15 DEF LateWrite, Lands
<1>16. CASE Outer
  BY <1>16, OuterControl, OuterHistories DEF Same
<1>17. CASE StartTurn
  BY <1>17, StartsAppending DEF StartTurn, Same
<1>18. CASE RebuildToken
  BY <1>18, AtRestControl DEF RebuildToken, Same
<1>19. CASE Crash
  <2>1. "storage" \notin scars /\ pc' = "idle"
    BY <1>19, AtRestControl DEF Crash, Fault
  <2> QED
    BY <1>19, <2>1 DEF Crash, Same, Stores
<1>20. CASE UNCHANGED vars
  BY <1>20 DEF vars, Same
<1> QED
  BY <1>1, <1>2, <1>3, <1>4, <1>5, <1>6, <1>7, <1>8, <1>9, <1>10, <1>11, <1>12, <1>13, <1>14,
     <1>15, <1>16, <1>17, <1>18, <1>19, <1>20, NextSplit DEF Inner

LEMMA LoggedStep ==
    ASSUME ControlInv, LoggedInv, [Next]_vars PROVE LoggedInv'
<1> SUFFICES ASSUME "storage" \notin scars' PROVE (\E S : HistoriesOver(S)') /\ Logged'
  BY DEF LoggedInv
<1>1. "storage" \notin scars
  BY HistoryStep
<1>2. PICK R : HistoriesOver(R)
  BY <1>1 DEF LoggedInv
<1>3. PICK S : /\ stored \in Seq(S) /\ events \in Seq(S) /\ Head(todo) \in S
               /\ late \in {<<>>} \union {<<x>> : x \in S}
  <2> DEFINE S == R \union {Head(todo)}
  <2>1. /\ stored \in Seq(S) /\ events \in Seq(S) /\ Head(todo) \in S
        /\ late \in {<<>>} \union {<<x>> : x \in S}
    BY <1>2 DEF HistoriesOver
  <2> QED
    BY <2>1
<1>4. Logged
  BY <1>1 DEF LoggedInv
<1>5. CASE Same /\ (pc' = "persist" => pc = "persist" /\ todo' = todo)
  <2>1. HistoriesOver(S)'
    BY <1>3, <1>5 DEF HistoriesOver, Same
  <2> QED
    BY <1>4, <1>5, <2>1 DEF Logged, Same
<1>6. CASE Stores /\ (pc' = "persist" => todo' = todo)
  <2>1. HistoriesOver(S)'
    BY <1>3, <1>6 DEF HistoriesOver, Stores
  <2>2. Embedded(events, stored') /\ Embedded(Append(events, Head(todo)), stored')
    BY <1>3, <1>4, <1>6, EmbeddedInLonger, EmbeddedExtends DEF Logged, Stores
  <2> QED
    BY <1>6, <2>1, <2>2 DEF Logged, Stores
<1>7. CASE Reports /\ pc' # "persist"
  <2>1. HistoriesOver(S)'
    BY <1>3, <1>7 DEF HistoriesOver, Reports
  <2> QED
    BY <1>4, <1>7, <2>1 DEF Logged, Reports
<1>8. CASE Lands /\ pc' = pc /\ todo' = todo
  <2>1. PICK x \in S : late = <<x>>
    BY <1>3, <1>8 DEF Lands
  <2>2. stored' = Append(stored, x)
    BY <1>3, <1>8, <2>1 DEF Lands
  <2>3. HistoriesOver(S)'
    BY <1>3, <1>8, <2>2 DEF HistoriesOver, Lands
  <2>4. Embedded(events, stored')
    BY <1>3, <1>4, <2>2, EmbeddedInLonger DEF Logged
  <2>5. pc = "persist" => Embedded(Append(events, Head(todo)), stored')
    <3>1. Append(events, Head(todo)) \in Seq(S)
      BY <1>3
    <3> QED
      BY <1>3, <1>4, <2>2, <3>1, EmbeddedInLonger DEF Logged
  <2> QED
    BY <1>8, <2>3, <2>4, <2>5 DEF Logged, Lands
<1> QED
  BY <1>5, <1>6, <1>7, <1>8, HistoryStep

(***************************************************************************)
(* Whatever is dropped, crashes, times out or is written late: as long as  *)
(* the message log has accepted every message it was given, the message    *)
(* events occur in it, in its order (append before persist_event, rt.rs).  *)
(***************************************************************************)
THEOREM EventsInLog == Spec => []EventsAreStored
<1>1. Init => LoggedInv
  <2> SUFFICES ASSUME Init PROVE LoggedInv
    OBVIOUS
  <2>1. HistoriesOver({})
    BY DEF Init, HistoriesOver
  <2>2. Embedded(events, stored)
    BY EmptyEmbedded DEF Init
  <2> QED
    BY <2>1, <2>2 DEF Init, LoggedInv, Logged
<1>2. LoggedInv => EventsAreStored
  <2> SUFFICES ASSUME LoggedInv, "storage" \notin scars PROVE Within(events, stored \o late)
    BY DEF EventsAreStored
  <2>1. PICK S : HistoriesOver(S)
    BY DEF LoggedInv
  <2>2. stored \in Seq(S) /\ events \in Seq(S) /\ stored \o late \in Seq(S)
    <3>1. late \in Seq(S)
      <4>1. late = <<>> \/ \E x \in S : late = <<x>>
        BY <2>1 DEF HistoriesOver
      <4>2. <<>> \in Seq(S)
        OBVIOUS
      <4>3. ASSUME NEW x \in S PROVE <<x>> \in Seq(S)
        OBVIOUS
      <4> QED
        BY <4>1, <4>2, <4>3
    <3> QED
      BY <2>1, <3>1 DEF HistoriesOver
  <2>3. Embedded(events, stored \o late)
    <3>1. CASE late = <<>>
      BY <2>2, <3>1 DEF LoggedInv, Logged
    <3>2. ASSUME NEW x \in S, late = <<x>> PROVE Embedded(events, stored \o late)
      <4>1. stored \o late = Append(stored, x)
        BY <2>2, <3>2
      <4> QED
        BY <2>2, <4>1, EmbeddedInLonger DEF LoggedInv, Logged
    <3> QED
      BY <2>1, <3>1, <3>2 DEF HistoriesOver
  <2> QED
    BY <2>2, <2>3, EmbeddedIsWithin
<1> QED
  BY InitControl, ControlStep, LoggedStep, <1>1, <1>2, PTL DEF Spec

--------------------------------------------------------------------------------
(***************************************************************************)
(* Calls and results.  The messages whose ids go up to n: results make no  *)
(* calls, and no message makes a call twice.                               *)
(***************************************************************************)
Messages(n) ==
    {m \in [role : {"user", "assistant", "tool"}, calls : Seq(1..n), answers : 0..n] :
        /\ m.role = "tool" => m.calls = <<>> /\ m.answers # 0
        /\ m.role # "tool" => m.answers = 0
        /\ \A k, l \in DOMAIN m.calls : m.calls[k] = m.calls[l] => k = l}

IsResult(m) == m.role = "tool"
Makes(m, id) == \E k \in DOMAIN m.calls : m.calls[k] = id
Declares(s, id) == \E i \in DOMAIN s : Makes(s[i], id)
Answers(s, id) == \E i \in DOMAIN s : IsResult(s[i]) /\ s[i].answers = id

(* A result of the call of s[i], or of no call of s at all. *)
Serves(s, i, m) == IsResult(m) /\ (Makes(s[i], m.answers) \/ ~Declares(s, m.answers))

(***************************************************************************)
(* A history is clustered when no call is made twice, no result is given   *)
(* twice, and a result is separated from its call by nothing but results   *)
(* of the same message (or of calls that the history does not have).  All  *)
(* histories of a session are, however turns are dropped; what repairs and *)
(* compression make of them still is.                                      *)
(***************************************************************************)
CallsDiffer(s) ==
    \A i, j \in DOMAIN s, id \in Nat : Makes(s[i], id) /\ Makes(s[j], id) => i = j
Near(s) ==
    \A i, j \in DOMAIN s : IsResult(s[j]) /\ Makes(s[i], s[j].answers) =>
        i < j /\ \A p \in DOMAIN s : i < p /\ p <= j => Serves(s, i, s[p])
Once(s) ==
    \A i, j \in DOMAIN s :
        IsResult(s[i]) /\ IsResult(s[j]) /\ s[i].answers = s[j].answers => i = j
Clustered(s) == CallsDiffer(s) /\ Near(s) /\ Once(s)

LEMMA MessageFacts ==
    ASSUME NEW c \in Nat, NEW m \in Messages(c)
    PROVE  /\ m.calls \in Seq(1..c) /\ m.answers \in 0..c
           /\ Len(m.calls) \in Nat /\ DOMAIN m.calls = 1..Len(m.calls)
           /\ \A id : Makes(m, id) => id \in 1..c /\ ~IsResult(m)
           /\ IsResult(m) => m.answers \in 1..c /\ m.calls = <<>>
  BY DEF Messages, Makes, IsResult

LEMMA MessagesGrow ==
    ASSUME NEW c \in Nat, NEW d \in Nat, c <= d
    PROVE  Messages(c) \subseteq Messages(d) /\ Seq(Messages(c)) \subseteq Seq(Messages(d))
<1>1. 1..c \subseteq 1..d /\ 0..c \subseteq 0..d
  OBVIOUS
<1>2. Seq(1..c) \subseteq Seq(1..d)
  BY <1>1
<1>3. Messages(c) \subseteq Messages(d)
  BY <1>1, <1>2 DEF Messages
<1> QED
  BY <1>3

LEMMA PlainMessages ==
    ASSUME NEW c \in Nat
    PROVE  /\ Text \in Messages(c) /\ User \in Messages(c)
           /\ Text.calls = <<>> /\ User.calls = <<>> /\ ~IsResult(Text) /\ ~IsResult(User)
           /\ \A id \in 1..c : /\ Result(id) \in Messages(c) /\ IsResult(Result(id))
                               /\ Result(id).answers = id /\ Result(id).calls = <<>>
  BY DEF Text, User, Result, IsResult, Messages

(* What a message behind a history adds to it. *)
LEMMA Appended ==
    ASSUME NEW S, NEW s \in Seq(S), NEW x \in S
    PROVE  /\ Append(s, x) \in Seq(S) /\ Len(s) \in Nat /\ DOMAIN s = 1..Len(s)
           /\ DOMAIN Append(s, x) = 1..(Len(s) + 1) /\ Len(Append(s, x)) = Len(s) + 1
           /\ \A i \in DOMAIN s : i \in 1..(Len(s) + 1) /\ Append(s, x)[i] = s[i]
           /\ Append(s, x)[Len(s) + 1] = x
           /\ \A i \in 1..(Len(s) + 1) : i \in DOMAIN s \/ i = Len(s) + 1
  OBVIOUS

LEMMA AppendedIds ==
    ASSUME NEW S, NEW s \in Seq(S), NEW x \in S
    PROVE  /\ \A id : Declares(Append(s, x), id) <=> Declares(s, id) \/ Makes(x, id)
           /\ \A id : Answers(Append(s, x), id) <=> Answers(s, id) \/ (IsResult(x) /\ x.answers = id)
<1> DEFINE t == Append(s, x)
           N == Len(s)
<1>1. /\ N \in Nat /\ DOMAIN s = 1..N /\ DOMAIN t = 1..(N + 1) /\ t[N + 1] = x
      /\ \A i \in DOMAIN s : i \in 1..(N + 1) /\ t[i] = s[i]
      /\ \A i \in 1..(N + 1) : i \in DOMAIN s \/ i = N + 1
  BY Appended
<1>2. N + 1 \in 1..(N + 1)
  BY <1>1
<1> HIDE DEF t, N
<1>3. \A id : Declares(t, id) <=> Declares(s, id) \/ Makes(x, id)
  BY <1>1, <1>2 DEF Declares
<1>4. \A id : Answers(t, id) <=> Answers(s, id) \/ (IsResult(x) /\ x.answers = id)
  BY <1>1, <1>2 DEF Answers
<1> QED
  BY <1>3, <1>4 DEF t

--------------------------------------------------------------------------------
(* The end of s is where a result of the call id belongs; a message fits behind s     *)
(* when it can be appended and leave s clustered.                                     *)
EndsWith(s, id) ==
    \E i \in DOMAIN s : Makes(s[i], id) /\ \A p \in DOMAIN s : i < p => Serves(s, i, s[p])
FitsBehind(s, m) ==
    /\ IsResult(m) => /\ ~Answers(s, m.answers)
                      /\ Declares(s, m.answers) => EndsWith(s, m.answers)
    /\ \A id \in Nat : Makes(m, id) => ~Declares(s, id) /\ ~Answers(s, id)

(* A message that fits leaves results with their calls. *)
LEMMA AppendClusters ==
    ASSUME NEW c \in Nat, NEW s \in Seq(Messages(c)), NEW x \in Messages(c),
           Clustered(s), FitsBehind(s, x)
    PROVE  Clustered(Append(s, x))
<1> DEFINE t == Append(s, x)
           N == Len(s)
<1>1. /\ N \in Nat /\ DOMAIN s = 1..N /\ DOMAIN t = 1..(N + 1) /\ t[N + 1] = x
      /\ \A i \in DOMAIN s : i \in 1..(N + 1) /\ t[i] = s[i] /\ t[i] \in Messages(c)
      /\ \A i \in 1..(N + 1) : i \in DOMAIN s \/ i = N + 1
  BY Appended
<1>2. /\ \A id : Declares(t, id) <=> Declares(s, id) \/ Makes(x, id)
      /\ \A id : Answers(t, id) <=> Answers(s, id) \/ (IsResult(x) /\ x.answers = id)
  BY AppendedIds
<1>3. \A i \in DOMAIN t : t[i] \in Messages(c)
  BY <1>1
<1> HIDE DEF t, N
<1>4. \A i \in DOMAIN t : \A id : Makes(t[i], id) => id \in Nat /\ ~IsResult(t[i])
  BY <1>3, MessageFacts
<1>5. CallsDiffer(t)
  <2> SUFFICES ASSUME NEW i \in DOMAIN t, NEW j \in DOMAIN t, NEW id \in Nat,
                      Makes(t[i], id), Makes(t[j], id)
               PROVE  i = j
    BY DEF CallsDiffer
  <2> QED
    BY <1>1 DEF Clustered, CallsDiffer, FitsBehind, Declares
<1>6. Near(t)
  <2> SUFFICES ASSUME NEW i \in DOMAIN t, NEW j \in DOMAIN t,
                      IsResult(t[j]), Makes(t[i], t[j].answers)
               PROVE  i < j /\ \A p \in DOMAIN t : i < p /\ p <= j => Serves(t, i, t[p])
    BY DEF Near
  <2>0. i \in DOMAIN s
    <3>1. ASSUME i = N + 1 PROVE FALSE
      <4>1. x = t[i] /\ j # i /\ Makes(x, t[j].answers) /\ t[j].answers \in Nat
        BY <1>1, <1>4, <3>1
      <4>2. Answers(s, t[j].answers)
        BY <1>1, <4>1, <3>1 DEF Answers
      <4> QED
        BY <4>1, <4>2 DEF FitsBehind
    <3> QED
      BY <1>1, <3>1
  <2>1. CASE j \in DOMAIN s
    <3>1. i < j /\ \A p \in DOMAIN s : i < p /\ p <= j => Serves(s, i, s[p])
      BY <1>1, <2>0, <2>1 DEF Clustered, Near
    <3> SUFFICES ASSUME NEW p \in DOMAIN t, i < p, p <= j PROVE Serves(t, i, t[p])
      BY <3>1
    <3>2. p \in DOMAIN s
      BY <1>1, <2>1
    <3>3. Serves(s, i, s[p])
      BY <3>1, <3>2
    <3>4. CASE Makes(s[i], s[p].answers)
      BY <1>1, <2>0, <3>2, <3>3, <3>4 DEF Serves
    <3>5. CASE ~Declares(s, s[p].answers)
      <4>1. Answers(s, s[p].answers)
        BY <3>2, <3>3 DEF Answers, Serves
      <4>2. ~Makes(x, s[p].answers)
        <5>1. Makes(x, s[p].answers) => s[p].answers \in Nat
          BY <1>1, <1>4
        <5> QED
          BY <4>1, <5>1 DEF FitsBehind
      <4> QED
        BY <1>1, <1>2, <2>0, <3>2, <3>3, <3>5, <4>2 DEF Serves
    <3> QED
      BY <3>3, <3>4, <3>5 DEF Serves
  <2>2. CASE j = N + 1
    <3>1. Declares(s, x.answers) /\ IsResult(x) /\ Makes(s[i], x.answers) /\ x.answers \in Nat
      BY <1>1, <1>4, <2>0, <2>2 DEF Declares
    <3>2. PICK h \in DOMAIN s : /\ Makes(s[h], x.answers)
                                /\ \A p \in DOMAIN s : h < p => Serves(s, h, s[p])
      BY <3>1 DEF FitsBehind, EndsWith
    <3>3. h = i
      BY <2>0, <3>1, <3>2 DEF Clustered, CallsDiffer
    <3>4. i < j
      BY <1>1, <2>0, <2>2
    <3> SUFFICES ASSUME NEW p \in DOMAIN t, i < p, p <= j PROVE Serves(t, i, t[p])
      BY <3>4
    <3>5. CASE p = N + 1
      BY <1>1, <2>0, <3>1, <3>5 DEF Serves
    <3>6. CASE p \in DOMAIN s
      <4>1. Serves(s, i, s[p]) /\ ~\E id : Makes(x, id)
        BY <1>1, <1>4, <3>1, <3>2, <3>3, <3>6
      <4> QED
        BY <1>1, <1>2, <2>0, <3>6, <4>1 DEF Serves
    <3> QED
      BY <1>1, <3>5, <3>6
  <2> QED
    BY <1>1, <2>1, <2>2
<1>7. Once(t)
  <2> SUFFICES ASSUME NEW i \in DOMAIN t, NEW j \in DOMAIN t, IsResult(t[i]), IsResult(t[j]),
                      t[i].answers = t[j].answers
               PROVE  i = j
    BY DEF Once
  <2>1. CASE i \in DOMAIN s /\ j \in DOMAIN s
    BY <1>1, <2>1 DEF Clustered, Once
  <2>2. ASSUME NEW k \in DOMAIN s, IsResult(t[k]), IsResult(x), t[k].answers = x.answers PROVE FALSE
    BY <1>1, <2>2 DEF FitsBehind, Answers
  <2> QED
    BY <1>1, <2>1, <2>2
<1> QED
  BY <1>5, <1>6, <1>7 DEF Clustered, t

(* A call that needs no backfill: it is answered in the log, or (where writes may   *)
(* land late) another call stands behind it there.                                    *)
Passed(st, id) == \E i, j \in DOMAIN st : i < j /\ Makes(st[i], id) /\ st[j].calls # <<>>
Settled(st, faulty, id) == Answers(st, id) \/ ("late" \in faulty /\ Passed(st, id))

(* What a history has to do with the log st: its messages are the log's but for those *)
(* of compression, and only the calls at its end are not settled.                     *)
View(s, st, faulty) ==
    /\ Clustered(s)
    /\ \A i \in DOMAIN s : s[i] = Text \/ \E n \in DOMAIN st : st[n] = s[i]
    /\ \A id \in Nat : Declares(s, id) => Settled(st, faulty, id) \/ EndsWith(s, id)

Extends(s, t) == \A i \in DOMAIN s : i \in DOMAIN t /\ t[i] = s[i]

LEMMA SettledStays ==
    ASSUME NEW s, NEW t, NEW F, NEW G, NEW id, Extends(s, t), F \subseteq G, Settled(s, F, id)
    PROVE  Settled(t, G, id)
<1>1. Answers(s, id) => Answers(t, id)
  BY DEF Extends, Answers
<1>2. Passed(s, id) => Passed(t, id)
  BY DEF Extends, Passed
<1> QED
  BY <1>1, <1>2 DEF Settled

LEMMA ViewStays ==
    ASSUME NEW s, NEW st, NEW st2, NEW F, NEW G, View(s, st, F), Extends(st, st2), F \subseteq G
    PROVE  View(s, st2, G)
<1>1. \A id \in Nat : Settled(st, F, id) => Settled(st2, G, id)
  BY SettledStays
<1>2. \A i \in DOMAIN s : s[i] = Text \/ \E n \in DOMAIN st2 : st2[n] = s[i]
  BY DEF View, Extends
<1> QED
  BY <1>1, <1>2 DEF View

(* The end of a history stays the end of its group when a result is put there. *)
LEMMA EndStays ==
    ASSUME NEW c \in Nat, NEW s \in Seq(Messages(c)), NEW x \in Messages(c),
           CallsDiffer(s), IsResult(x), FitsBehind(s, x), NEW id \in Nat, EndsWith(s, id)
    PROVE  EndsWith(Append(s, x), id)
<1> DEFINE t == Append(s, x)
           N == Len(s)
<1>1. /\ N \in Nat /\ DOMAIN s = 1..N /\ DOMAIN t = 1..(N + 1) /\ t[N + 1] = x
      /\ \A i \in DOMAIN s : i \in 1..(N + 1) /\ t[i] = s[i] /\ s[i] \in Messages(c)
      /\ \A i \in 1..(N + 1) : i \in DOMAIN s \/ i = N + 1
  BY Appended
<1>2. /\ \A m : Declares(t, m) <=> Declares(s, m) \/ Makes(x, m)
  BY AppendedIds
<1>3. \A m : ~Makes(x, m)
  BY MessageFacts
<1> HIDE DEF t, N
<1>4. PICK i \in DOMAIN s : Makes(s[i], id) /\ \A p \in DOMAIN s : i < p => Serves(s, i, s[p])
  BY DEF EndsWith
<1>5. Serves(s, i, x)
  <2>1. CASE Declares(s, x.answers)
    <3>1. PICK h \in DOMAIN s : /\ Makes(s[h], x.answers)
                                /\ \A p \in DOMAIN s : h < p => Serves(s, h, s[p])
      BY <2>1 DEF FitsBehind, EndsWith
    <3>2. ~IsResult(s[h]) /\ ~IsResult(s[i])
      BY <1>1, <1>4, <3>1, MessageFacts
    <3>3. ~(h < i) /\ ~(i < h)
      BY <1>4, <3>1, <3>2 DEF Serves
    <3>4. h = i
      BY <1>1, <3>3
    <3> QED
      BY <3>1, <3>4 DEF Serves
  <2> QED
    BY <2>1 DEF Serves
<1>6. \A m : Serves(s, i, m) => Serves(t, i, m)
  BY <1>1, <1>2, <1>3 DEF Serves
<1>7. \A p \in DOMAIN t : i < p => Serves(t, i, t[p])
  BY <1>1, <1>4, <1>5, <1>6
<1> QED
  BY <1>1, <1>4, <1>7 DEF EndsWith, t

LEMMA ViewAppended ==
    ASSUME NEW c \in Nat, NEW s \in Seq(Messages(c)), NEW x \in Messages(c), NEW st, NEW st2,
           NEW F, NEW G, View(s, st, F), Extends(st, st2), F \subseteq G,
           FitsBehind(s, x),
           x = Text \/ \E n \in DOMAIN st2 : st2[n] = x,
           IsResult(x) \/ \A id \in Nat : Declares(s, id) => Settled(st2, G, id)
    PROVE  View(Append(s, x), st2, G)
<1> DEFINE t == Append(s, x)
           N == Len(s)
<1>1. /\ N \in Nat /\ DOMAIN s = 1..N /\ DOMAIN t = 1..(N + 1) /\ t[N + 1] = x
      /\ \A i \in DOMAIN s : i \in 1..(N + 1) /\ t[i] = s[i]
      /\ \A i \in 1..(N + 1) : i \in DOMAIN s \/ i = N + 1
  BY Appended
<1>2. \A id : Declares(t, id) <=> Declares(s, id) \/ Makes(x, id)
  BY AppendedIds
<1>3. View(s, st2, G)
  BY ViewStays
<1>4. Clustered(t)
  BY AppendClusters DEF View
<1> HIDE DEF t, N
<1>5. \A i \in DOMAIN t : t[i] = Text \/ \E n \in DOMAIN st2 : st2[n] = t[i]
  BY <1>1, <1>3 DEF View
<1>6. ASSUME NEW id \in Nat, Declares(t, id), ~Settled(st2, G, id) PROVE EndsWith(t, id)
  <2>1. CASE Makes(x, id)
    <3>1. N + 1 \in DOMAIN t /\ \A p \in DOMAIN t : ~(N + 1 < p)
      BY <1>1
    <3> QED
      BY <1>1, <2>1, <3>1 DEF EndsWith
  <2>2. CASE Declares(s, id) /\ IsResult(x)
    BY <1>3, <1>6, <2>2, EndStays DEF View, Clustered, t
  <2> QED
    BY <1>2, <1>6, <2>1, <2>2
<1> QED
  BY <1>4, <1>5, <1>6 DEF View, t

(* What was to come behind a result still fits. *)
LEMMA FitsBehindResult ==
    ASSUME NEW c \in Nat, NEW s \in Seq(Messages(c)), NEW x \in Messages(c), NEW y \in Messages(c),
           CallsDiffer(s), IsResult(x), FitsBehind(s, x), FitsBehind(s, y), y.calls = <<>>,
           IsResult(y) => y.answers # x.answers
    PROVE  FitsBehind(Append(s, x), y)
<1>1. /\ \A id : Declares(Append(s, x), id) <=> Declares(s, id) \/ Makes(x, id)
      /\ \A id : Answers(Append(s, x), id) <=> Answers(s, id) \/ (IsResult(x) /\ x.answers = id)
  BY AppendedIds
<1>2. \A id : ~Makes(x, id) /\ ~Makes(y, id)
  BY MessageFacts DEF Makes
<1>3. IsResult(y) => y.answers \in Nat
  BY MessageFacts
<1> QED
  BY <1>1, <1>2, <1>3, EndStays DEF FitsBehind

(* The results of a call fit behind it, and where it never was. *)
LEMMA ResultsFit ==
    ASSUME NEW c \in Nat, NEW s \in Seq(Messages(c)), NEW x \in Messages(c), FitsBehind(s, x),
           NEW id, Makes(x, id)
    PROVE  FitsBehind(s, Result(id)) /\ FitsBehind(Append(s, x), Result(id))
<1> DEFINE t == Append(s, x)
           N == Len(s)
<1>1. /\ N \in Nat /\ DOMAIN t = 1..(N + 1) /\ t[N + 1] = x
  BY Appended
<1>2. /\ \A m : Declares(t, m) <=> Declares(s, m) \/ Makes(x, m)
      /\ \A m : Answers(t, m) <=> Answers(s, m) \/ (IsResult(x) /\ x.answers = m)
  BY AppendedIds
<1> HIDE DEF t, N
<1>3. id \in 1..c /\ ~IsResult(x) /\ id \in Nat
  BY MessageFacts
<1>4. IsResult(Result(id)) /\ Result(id).answers = id /\ \A m : ~Makes(Result(id), m)
  BY <1>3, PlainMessages DEF Makes
<1>5. EndsWith(t, id)
  <2>1. N + 1 \in DOMAIN t /\ \A p \in DOMAIN t : ~(N + 1 < p)
    BY <1>1
  <2> QED
    BY <1>1, <2>1 DEF EndsWith
<1> QED
  BY <1>2, <1>3, <1>4, <1>5 DEF FitsBehind, t

--------------------------------------------------------------------------------
(* Keep: each element that is kept has its place, in order.                          *)
KeptUpTo(k, s, S, n, g) ==
    /\ g \in [DOMAIN k -> 1..n]
    /\ \A i, j \in DOMAIN k : i < j => g[i] < g[j]
    /\ \A i \in DOMAIN k : g[i] \in S /\ s[g[i]] = k[i]
    /\ \A i \in 1..n : i \in S => \E p \in DOMAIN k : g[p] = i

LEMMA KeepsOne ==
    ASSUME NEW M, NEW k \in Seq(M), NEW s \in Seq(M), NEW S, NEW n \in 1..Len(s), NEW g,
           KeptUpTo(k, s, S, n - 1, g)
    PROVE  \E h : KeptUpTo(IF n \in S THEN Append(k, s[n]) ELSE k, s, S, n, h)
<1> USE DEF KeptUpTo
<1> DEFINE N == Len(k)
<1>1. N \in Nat /\ DOMAIN k = 1..N /\ n \in Nat /\ s[n] \in M
  OBVIOUS
<1>2. CASE n \notin S
  <2>1. g \in [DOMAIN k -> 1..n]
    BY <1>1
  <2>2. \A i \in 1..n : i \in S => i \in 1..(n - 1)
    BY <1>1, <1>2
  <2> QED
    BY <1>2, <2>1, <2>2
<1>3. CASE n \in S
  <2> DEFINE t == Append(k, s[n])
             h == [i \in 1..(N + 1) |-> IF i = N + 1 THEN n ELSE g[i]]
  <2>1. /\ DOMAIN t = 1..(N + 1) /\ t[N + 1] = s[n] /\ \A i \in 1..N : t[i] = k[i]
    BY <1>1
  <2> HIDE DEF t, N
  <2>2. /\ h[N + 1] = n /\ N + 1 \in 1..(N + 1)
        /\ \A i \in 1..N : h[i] = g[i] /\ g[i] \in 1..(n - 1) /\ i \in 1..(N + 1) /\ i < N + 1
        /\ \A i \in 1..(N + 1) : i \in 1..N \/ i = N + 1
    BY <1>1
  <2>3. h \in [1..(N + 1) -> 1..n]
    BY <1>1, <2>2
  <2> HIDE DEF h
  <2>4. ASSUME NEW i \in 1..(N + 1), NEW j \in 1..(N + 1), i < j PROVE h[i] < h[j]
    <3>1. i \in 1..N
      BY <1>1, <2>4
    <3>2. h[i] = g[i] /\ g[i] \in Int /\ g[i] < n
      BY <1>1, <2>2, <3>1
    <3> QED
      BY <1>1, <2>2, <2>4, <3>1, <3>2
  <2>5. \A i \in 1..(N + 1) : h[i] \in S /\ s[h[i]] = t[i]
    BY <1>1, <1>3, <2>1, <2>2
  <2>6. ASSUME NEW i \in 1..n, i \in S PROVE \E p \in 1..(N + 1) : h[p] = i
    <3>1. CASE i = n
      BY <2>2, <3>1
    <3>2. CASE i # n
      <4>1. i \in 1..(n - 1)
        BY <1>1, <3>2
      <4>2. PICK p \in 1..N : g[p] = i
        BY <1>1, <2>6, <4>1
      <4> QED
        BY <2>2, <4>2
    <3> QED
      BY <3>1, <3>2
  <2>7. KeptUpTo(t, s, S, n, h)
    BY <2>1, <2>3, <2>4, <2>5, <2>6
  <2> QED
    BY <1>3, <2>7 DEF t
<1> QED
  BY <1>2, <1>3

(* What a recursion over the positions of s yields that takes those in S.             *)
Picks(f, s, S) ==
    /\ f[0] = <<>>
    /\ \A n \in 1..Len(s) : f[n] = IF n \in S THEN Append(f[n - 1], s[n]) ELSE f[n - 1]

LEMMA PicksKeep ==
    ASSUME NEW M, NEW s \in Seq(M), NEW S, NEW f, Picks(f, s, S)
    PROVE  f[Len(s)] \in Seq(M) /\ \E g : KeptUpTo(f[Len(s)], s, S, Len(s), g)
<1> DEFINE N == Len(s)
           Good(n) == f[n] \in Seq(M) /\ \E g : KeptUpTo(f[n], s, S, n, g)
           Bad == {n \in 0..N : ~Good(n)}
<1>1. N \in Nat /\ (\A n \in 1..N : s[n] \in M) /\ N \in 0..N
  OBVIOUS
<1>2. 0 \notin Bad
  <2>1. KeptUpTo(<<>>, s, S, 0, <<>>)
    BY DEF KeptUpTo
  <2>2. <<>> \in Seq(M) /\ f[0] = <<>>
    BY DEF Picks
  <2> QED
    BY <2>1, <2>2
<1>3. SUFFICES ASSUME Bad # {} PROVE FALSE
  <2>1. N \notin Bad
    BY <1>3
  <2> QED
    BY <1>1, <2>1
<1>4. PICK k \in Bad : k \in 1..N /\ k - 1 \in 0..N /\ k - 1 \notin Bad
  <2>1. Bad \subseteq 0..N
    OBVIOUS
  <2> HIDE DEF Bad
  <2> QED
    BY <1>1, <1>2, <1>3, <2>1, FirstFailure
<1>5. Good(k - 1)
  BY <1>4
<1>6. PICK g : KeptUpTo(f[k - 1], s, S, k - 1, g)
  BY <1>5
<1>7. /\ f[k - 1] \in Seq(M) /\ s[k] \in M /\ k \in 1..Len(s)
      /\ f[k] = IF k \in S THEN Append(f[k - 1], s[k]) ELSE f[k - 1]
  BY <1>1, <1>4, <1>5 DEF Picks
<1>8. \E h : KeptUpTo(f[k], s, S, k, h)
  <2> HIDE DEF N
  <2> QED
    BY <1>6, <1>7, KeepsOne
<1>9. f[k] \in Seq(M)
  BY <1>7
<1> QED
  BY <1>4, <1>8, <1>9

(* Such a recursion has a solution.                                                   *)
LEMMA PicksExist ==
    ASSUME NEW M, NEW s \in Seq(M), NEW S
    PROVE  \E f : f = [n \in 0..Len(s) |-> IF n = 0 THEN <<>>
                                          ELSE IF n \in S THEN Append(f[n - 1], s[n]) ELSE f[n - 1]]
<1> DEFINE N == Len(s)
           K == Seq(M)
           step == [n \in 1..N |-> [k \in K |-> IF n \in S THEN Append(k, s[n]) ELSE k]]
<1>1. N \in Nat /\ \A n \in 1..N : s[n] \in M
  OBVIOUS
<1>2. Steps(step, N, <<>>, K)
  <2>1. \A n \in 1..N : \A k \in K : Append(k, s[n]) \in K
    BY <1>1
  <2> QED
    BY <1>1, <2>1 DEF Steps
<1> HIDE DEF K
<1>3. PICK f : Path(f, step, N, <<>>, K)
  BY <1>2, PathExists
<1>4. f \in [0..N -> K] /\ f[0] = <<>>
  BY <1>3 DEF Path
<1>5. ASSUME NEW n \in 1..N
      PROVE  f[n] = IF n \in S THEN Append(f[n - 1], s[n]) ELSE f[n - 1]
  <2>1. f[n - 1] \in K
    BY <1>1, <1>4
  <2> QED
    BY <1>3, <2>1 DEF Path
<1>6. \A n \in 0..N : n = 0 \/ n \in 1..N
  BY <1>1
<1>7. f = [n \in 0..N |-> IF n = 0 THEN <<>>
                         ELSE IF n \in S THEN Append(f[n - 1], s[n]) ELSE f[n - 1]]
  BY <1>4, <1>5, <1>6
<1> QED
  BY <1>7

LEMMA KeepIs ==
    ASSUME NEW M, NEW s \in Seq(M), NEW S
    PROVE  Keep(s, S) \in Seq(M) /\ \E g : KeptUpTo(Keep(s, S), s, S, Len(s), g)
<1> DEFINE kept == CHOOSE kept : kept =
                     [n \in 0..Len(s) |-> IF n = 0 THEN <<>>
                                         ELSE IF n \in S THEN Append(kept[n - 1], s[n]) ELSE kept[n - 1]]
<1>1. Keep(s, S) = kept[Len(s)]
  BY DEF Keep
<1>2. kept = [n \in 0..Len(s) |-> IF n = 0 THEN <<>>
                                 ELSE IF n \in S THEN Append(kept[n - 1], s[n]) ELSE kept[n - 1]]
  <2>1. PICK f : f = [n \in 0..Len(s) |-> IF n = 0 THEN <<>>
                                        ELSE IF n \in S THEN Append(f[n - 1], s[n]) ELSE f[n - 1]]
    BY PicksExist
  <2> QED
    BY <2>1
<1> HIDE DEF kept
<1>3. Len(s) \in Nat /\ 0 \in 0..Len(s) /\ \A n \in 1..Len(s) : n \in 0..Len(s) /\ n # 0
  OBVIOUS
<1>4. Picks(kept, s, S)
  BY <1>2, <1>3 DEF Picks
<1> QED
  BY <1>1, <1>4, PicksKeep

(* Known takes the messages that are no stray results. *)
NoStray(s) == {i \in DOMAIN s : ~(s[i].role = "tool" /\ s[i].answers \notin Declared(s))}

LEMMA KnownIs ==
    ASSUME NEW M, NEW s \in Seq(M)
    PROVE  Known(s) \in Seq(M) /\ \E g : KeptUpTo(Known(s), s, NoStray(s), Len(s), g)
<1> DEFINE body(f) == [n \in 0..Len(s) |->
                          IF n = 0 THEN <<>>
                          ELSE IF s[n].role = "tool" /\ s[n].answers \notin Declared(s)
                          THEN f[n - 1] ELSE Append(f[n - 1], s[n])]
           known == CHOOSE known : known = body(known)
<1>1. Known(s) = known[Len(s)]
  BY DEF Known
<1>2. Len(s) \in Nat /\ 0 \in 0..Len(s) /\ \A n \in 1..Len(s) : n \in 0..Len(s) /\ n # 0
  OBVIOUS
<1>3. PICK f : f = [n \in 0..Len(s) |->
                      IF n = 0 THEN <<>>
                      ELSE IF n \in NoStray(s) THEN Append(f[n - 1], s[n]) ELSE f[n - 1]]
  BY PicksExist
<1>4. f = body(f)
  <2>1. \A n \in 0..Len(s) : n # 0 =>
            (n \in NoStray(s) <=> ~(s[n].role = "tool" /\ s[n].answers \notin Declared(s)))
    BY DEF NoStray
  <2> QED
    BY <1>3, <2>1
<1>5. known = body(known)
  <2> HIDE DEF body
  <2> QED
    BY <1>4
<1> HIDE DEF known
<1>6. Picks(known, s, NoStray(s))
  <2>1. \A n \in 1..Len(s) :
            n \in NoStray(s) <=> ~(s[n].role = "tool" /\ s[n].answers \notin Declared(s))
    BY DEF NoStray
  <2>2. known[0] = <<>>
    BY <1>2, <1>5
  <2>3. ASSUME NEW n \in 1..Len(s)
        PROVE  known[n] = IF s[n].role = "tool" /\ s[n].answers \notin Declared(s)
                          THEN known[n - 1] ELSE Append(known[n - 1], s[n])
    <3>1. n \in 0..Len(s) /\ n # 0
      BY <1>2
    <3> QED
      BY <1>5, <3>1
  <2> QED
    BY <2>1, <2>2, <2>3 DEF Picks
<1> QED
  BY <1>1, <1>6, PicksKeep

(* What is left of a history, in its order, has its results with their calls.        *)
LEMMA PartClusters ==
    ASSUME NEW c \in Nat, NEW s \in Seq(Messages(c)), NEW t \in Seq(Messages(c)),
           Clustered(s), Embedded(t, s)
    PROVE  Clustered(t)
<1>1. PICK g : Embeds(g, t, s)
  BY DEF Embedded
<1>2. /\ \A i \in DOMAIN t : g[i] \in DOMAIN s /\ t[i] = s[g[i]]
      /\ \A i, j \in DOMAIN t : i < j => g[i] < g[j]
  BY <1>1 DEF Embeds
<1>3. DOMAIN t \subseteq Nat /\ DOMAIN s \subseteq Nat
  OBVIOUS
<1>4. \A i, j \in DOMAIN t : /\ g[i] < g[j] => i < j
                             /\ g[i] = g[j] => i = j
                             /\ i <= j => g[i] <= g[j]
  <2> TAKE i, j \in DOMAIN t
  <2>1. g[i] \in Nat /\ g[j] \in Nat /\ i \in Nat /\ j \in Nat
    BY <1>2, <1>3
  <2>2. CASE i < j
    BY <1>2, <2>1, <2>2
  <2>3. CASE j < i
    BY <1>2, <2>1, <2>3
  <2> QED
    BY <2>1, <2>2, <2>3
<1>5. \A id : Declares(t, id) => Declares(s, id)
  BY <1>2 DEF Declares
<1>6. CallsDiffer(t)
  BY <1>2, <1>4 DEF Clustered, CallsDiffer
<1>7. Near(t)
  <2> SUFFICES ASSUME NEW i \in DOMAIN t, NEW j \in DOMAIN t,
                      IsResult(t[j]), Makes(t[i], t[j].answers)
               PROVE  i < j /\ \A p \in DOMAIN t : i < p /\ p <= j => Serves(t, i, t[p])
    BY DEF Near
  <2>1. /\ g[i] < g[j]
        /\ \A p \in DOMAIN s : g[i] < p /\ p <= g[j] => Serves(s, g[i], s[p])
    BY <1>2 DEF Clustered, Near
  <2>2. ASSUME NEW p \in DOMAIN t, i < p, p <= j PROVE Serves(t, i, t[p])
    <3>1. Serves(s, g[i], s[g[p]])
      BY <1>2, <1>4, <2>1, <2>2
    <3> QED
      BY <1>2, <1>5, <3>1 DEF Serves
  <2> QED
    BY <1>4, <2>1, <2>2
<1>8. Once(t)
  <2> SUFFICES ASSUME NEW i \in DOMAIN t, NEW j \in DOMAIN t, IsResult(t[i]), IsResult(t[j]),
                      t[i].answers = t[j].answers
               PROVE  i = j
    BY DEF Once
  <2>1. g[i] \in DOMAIN s /\ g[j] \in DOMAIN s
    BY <1>2
  <2>2. g[i] = g[j]
    BY <1>2, <2>1 DEF Clustered, Once
  <2> QED
    BY <1>4, <2>2
<1> QED
  BY <1>6, <1>7, <1>8 DEF Clustered

LEMMA KeepIsPart ==
    ASSUME NEW M, NEW s \in Seq(M), NEW S PROVE Keep(s, S) \in Seq(M) /\ Embedded(Keep(s, S), s)
<1>1. Keep(s, S) \in Seq(M)
  BY KeepIs
<1>2. PICK g : KeptUpTo(Keep(s, S), s, S, Len(s), g)
  BY KeepIs
<1>3. DOMAIN s = 1..Len(s)
  OBVIOUS
<1>4. Embeds(g, Keep(s, S), s)
  BY <1>2, <1>3 DEF KeptUpTo, Embeds
<1> QED
  BY <1>1, <1>4 DEF Embedded

--------------------------------------------------------------------------------
(* Compression leaves a part of the history, with a summary for a part of it.        *)
Trims(t, s, c) ==
    /\ t \in Seq(Messages(c)) /\ Clustered(t)
    /\ \A i \in DOMAIN t : t[i] = Text \/ \E n \in DOMAIN s : s[n] = t[i]

LEMMA ExpandIsClosed ==
    ASSUME NEW c \in Nat, NEW s \in Seq(Messages(c)), NEW D \in SUBSET DOMAIN s,
           NEW p \in Expand(s, D), NEW i \in DOMAIN s, s[i].calls # <<>>, SameGroup(s, p, i), i <= p,
           \A k \in (i + 1)..p : IsResult(s[k])
    PROVE  i \in Expand(s, D)
<1>0. DOMAIN s = 1..Len(s) /\ Len(s) \in Nat /\ \A k \in DOMAIN s : s[k] \in Messages(c)
  OBVIOUS
<1>1. p \in DOMAIN s /\ p \in Nat /\ i \in Nat
  BY <1>0 DEF Expand
<1>2. CASE p \in D
  BY <1>2 DEF Expand
<1>3. CASE p \notin D
  <2>1. PICK q \in D : SameGroup(s, q, p)
    BY <1>3 DEF Expand
  <2>2. PICK h \in DOMAIN s : /\ s[h].calls # <<>> /\ h <= q /\ h <= p
                              /\ \A k \in (h + 1)..q \union (h + 1)..p : s[k].role = "tool"
    BY <2>1 DEF SameGroup
  <2>3. ~IsResult(s[h]) /\ ~IsResult(s[i])
    BY <1>0, <2>2, MessageFacts
  <2>4. h = i
    <3>1. h \in Nat
      BY <1>0
    <3>2. ~(h < i)
      <4>1. h < i => i \in (h + 1)..p
        BY <1>1, <3>1
      <4> QED
        BY <2>2, <2>3, <4>1 DEF IsResult
    <3>3. ~(i < h)
      <4>1. i < h => h \in (i + 1)..p
        BY <1>1, <2>2, <3>1
      <4> QED
        BY <2>3, <4>1
    <3> QED
      BY <1>1, <3>1, <3>2, <3>3
  <2>5. SameGroup(s, q, i)
    <3>1. (i + 1)..i = {}
      BY <1>1
    <3>2. i <= i
      BY <1>1
    <3> QED
      BY <2>2, <2>4, <3>1, <3>2 DEF SameGroup
  <2> QED
    BY <2>5 DEF Expand
<1> QED
  BY <1>2, <1>3

LEMMA SummaryTrims ==
    ASSUME NEW c \in Nat, NEW s \in Seq(Messages(c)), Clustered(s), NEW D0 \in SUBSET DOMAIN s, D0 # {}
    PROVE  Trims(Summarised(s, Expand(s, D0)), s, c)
<1> DEFINE D == Expand(s, D0)
           first == CHOOSE i \in D : \A j \in D : i <= j
           S == {i \in DOMAIN s : i > first /\ i \notin D}
           rest == Keep(s, S)
           t == SubSeq(s, 1, first - 1) \o <<Text>> \o rest
           u == [i \in DOMAIN s |-> IF i \in D THEN Text ELSE s[i]]
<1>0. DOMAIN s = 1..Len(s) /\ Len(s) \in Nat /\ \A k \in DOMAIN s : s[k] \in Messages(c)
  OBVIOUS
<1>t. Text \in Messages(c) /\ Text.calls = <<>> /\ ~IsResult(Text) /\ \A id : ~Makes(Text, id)
  BY PlainMessages DEF Makes
<1>1. D \subseteq DOMAIN s /\ D # {}
  BY DEF Expand
<1>2. Summarised(s, D) = t
  BY DEF Summarised
<1>3. first \in D /\ \A j \in D : first <= j
  <2>1. \E i \in D : \A j \in D : i <= j
    <3>1. D \subseteq Nat
      BY <1>0, <1>1
    <3> HIDE DEF D
    <3> QED
      BY <1>1, <3>1, LeastNatural
  <2> HIDE DEF D
  <2> QED
    BY <2>1
<1>4. first \in 1..Len(s)
  BY <1>0, <1>1, <1>3
<1> HIDE DEF first
<1>5. rest \in Seq(Messages(c)) /\ \E g : KeptUpTo(rest, s, S, Len(s), g)
  <2> HIDE DEF S
  <2> QED
    BY KeepIs
<1>6. PICK g : KeptUpTo(rest, s, S, Len(s), g)
  BY <1>5
<1>7. \A i \in DOMAIN rest : g[i] \in 1..Len(s) /\ g[i] > first /\ g[i] \notin D /\ s[g[i]] = rest[i]
  BY <1>6 DEF KeptUpTo
<1>7a. \A i, j \in DOMAIN rest : i < j => g[i] < g[j]
  BY <1>6 DEF KeptUpTo
<1> HIDE DEF rest, D
<1> DEFINE R == Len(rest)
<1>8. /\ R \in Nat /\ DOMAIN rest = 1..R
      /\ t \in Seq(Messages(c)) /\ DOMAIN t = 1..(first + R)
      /\ \A i \in 1..(first - 1) : t[i] = s[i]
      /\ t[first] = Text
      /\ \A i \in 1..R : t[first + i] = rest[i]
  BY <1>0, <1>t, <1>4, <1>5
<1> HIDE DEF t, R
<1>9. u \in Seq(Messages(c)) /\ DOMAIN u = 1..Len(s)
  BY <1>0, <1>t
<1>10. \A i \in 1..(first + R) : \/ i \in 1..(first - 1)
                                 \/ i = first
                                 \/ i - first \in 1..R /\ i = first + (i - first) /\ i > first
  BY <1>4, <1>8
<1>11. Embedded(t, u)
  <2> DEFINE f == [i \in 1..(first + R) |-> IF i <= first THEN i ELSE g[i - first]]
  <2> HIDE DEF f, u
  <2>0. \A i \in 1..(first + R) : /\ i <= first => f[i] = i
                                  /\ ~(i <= first) => f[i] = g[i - first]
    BY DEF f
  <2>1. DOMAIN f = 1..(first + R)
    BY DEF f
  <2>2. \A i \in DOMAIN s : u[i] = IF i \in D THEN Text ELSE s[i]
    BY DEF u
  <2>3. first \in Int /\ R \in Int /\ Len(s) \in Int /\ first >= 1 /\ first <= Len(s) /\ R >= 0
    BY <1>0, <1>4, <1>8
  <2>4. \A i \in 1..(first + R) : i \in Int /\ 1 <= i
    BY <2>3
  <2>5. \A i \in 1..(first + R) : i > first => i - first \in 1..R /\ first + (i - first) = i /\ ~(i <= first)
    BY <2>3
  <2>6. ASSUME NEW i \in 1..(first + R)
        PROVE  /\ f[i] \in 1..Len(s) /\ u[f[i]] = t[i]
               /\ i <= first => f[i] = i
               /\ i > first => f[i] = g[i - first] /\ f[i] > first
    <3>1. CASE i < first
      <4>1. f[i] = i /\ i \in 1..Len(s) /\ i \in 1..(first - 1) /\ ~(first <= i)
        BY <2>0, <2>3, <2>4, <3>1
      <4>2. i \notin D /\ i \in DOMAIN s
        BY <1>0, <1>3, <4>1
      <4>3. u[i] = s[i] /\ t[i] = s[i]
        BY <1>8, <2>2, <4>1, <4>2
      <4> QED
        BY <2>3, <2>4, <3>1, <4>1, <4>3
    <3>2. CASE i = first
      <4>1. f[i] = i /\ u[i] = Text /\ i \in 1..Len(s)
        BY <1>0, <1>3, <1>4, <2>0, <2>2, <2>3, <3>2
      <4> QED
        BY <1>8, <2>3, <3>2, <4>1
    <3>3. CASE i > first
      <4>1. f[i] = g[i - first] /\ i - first \in 1..R /\ t[i] = rest[i - first] /\ ~(i <= first)
        BY <1>8, <2>0, <2>5, <3>3
      <4>2. g[i - first] \in DOMAIN s /\ g[i - first] > first /\ u[g[i - first]] = rest[i - first]
        BY <1>0, <1>7, <1>8, <2>2, <4>1
      <4> QED
        BY <1>0, <3>3, <4>1, <4>2
    <3> QED
      BY <2>3, <2>4, <3>1, <3>2, <3>3
  <2>7. f \in [1..(first + R) -> 1..Len(s)]
    <3>1. f = [i \in 1..(first + R) |-> f[i]]
      BY <2>1 DEF f
    <3> QED
      BY <2>6, <3>1
  <2>8. ASSUME NEW i \in 1..(first + R), NEW j \in 1..(first + R), i < j PROVE f[i] < f[j]
    <3>1. i \in Int /\ j \in Int /\ f[i] \in Int /\ f[j] \in Int
      BY <2>3, <2>4, <2>6
    <3>2. CASE j <= first
      BY <2>3, <2>6, <2>8, <3>1, <3>2
    <3>3. CASE i <= first /\ j > first
      <4>1. f[i] = i /\ f[j] > first
        BY <2>6, <3>3
      <4> QED
        BY <2>3, <3>1, <3>3, <4>1
    <3>4. CASE i > first
      <4>1. j > first /\ i - first < j - first
        BY <2>3, <2>8, <3>1, <3>4
      <4>2. i - first \in DOMAIN rest /\ j - first \in DOMAIN rest
        BY <1>8, <2>5, <3>4, <4>1
      <4> QED
        BY <1>7a, <2>6, <3>4, <4>1, <4>2
    <3> QED
      BY <2>3, <3>1, <3>2, <3>3, <3>4
  <2>9. Embeds(f, t, u)
    BY <1>8, <1>9, <2>6, <2>7, <2>8 DEF Embeds
  <2> QED
    BY <2>9 DEF Embedded
<1>12. \A i \in DOMAIN s : i \notin D => u[i] = s[i]
  OBVIOUS
<1>13. \A i \in DOMAIN s : i \in D => u[i] = Text
  OBVIOUS
<1> HIDE DEF u
<1>14. \A id : Declares(u, id) => Declares(s, id)
  BY <1>0, <1>t, <1>9, <1>12, <1>13 DEF Declares
<1>15. CallsDiffer(u)
  BY <1>0, <1>t, <1>9, <1>12, <1>13 DEF CallsDiffer, Clustered
<1>16. Once(u)
  BY <1>0, <1>t, <1>9, <1>12, <1>13, <1>14 DEF Once, Clustered
<1>17. Near(u)
  <2> SUFFICES ASSUME NEW i \in DOMAIN u, NEW j \in DOMAIN u,
                      IsResult(u[j]), Makes(u[i], u[j].answers)
               PROVE  i < j /\ \A p \in DOMAIN u : i < p /\ p <= j => Serves(u, i, u[p])
    BY DEF Near
  <2>1. i \in DOMAIN s /\ j \in DOMAIN s /\ u[i] = s[i] /\ u[j] = s[j] /\ i \notin D
    BY <1>0, <1>t, <1>9, <1>12, <1>13
  <2>2. i < j /\ \A p \in DOMAIN s : i < p /\ p <= j => Serves(s, i, s[p])
    BY <2>1 DEF Clustered, Near
  <2>3. ASSUME NEW p \in DOMAIN u, i < p, p <= j PROVE Serves(u, i, u[p])
    <3>1. p \in DOMAIN s /\ Serves(s, i, s[p])
      BY <1>0, <1>9, <2>2, <2>3
    <3>2. p \notin D
      <4>1. \A k \in (i + 1)..p : IsResult(s[k])
        <5> TAKE k \in (i + 1)..p
        <5>1. k \in DOMAIN s /\ i < k /\ k <= j
          BY <1>0, <2>1, <2>3, <3>1
        <5> QED
          BY <2>2, <5>1 DEF Serves
      <4>2. s[i].calls # <<>>
        BY <1>0, <2>1, MessageFacts DEF Makes
      <4>3. i <= p /\ i <= i /\ (i + 1)..i = {}
        BY <1>0, <2>1, <2>3, <3>1
      <4>4. SameGroup(s, p, i)
        BY <2>1, <4>1, <4>2, <4>3 DEF SameGroup, IsResult
      <4> QED
        BY <2>1, <4>1, <4>2, <4>3, <4>4, ExpandIsClosed DEF D
    <3> QED
      BY <1>12, <1>14, <2>1, <3>1, <3>2 DEF Serves
  <2> QED
    BY <2>2, <2>3
<1>18. Clustered(t)
  BY <1>8, <1>9, <1>11, <1>15, <1>16, <1>17, PartClusters DEF Clustered
<1>19. \A i \in DOMAIN t : t[i] = Text \/ \E n \in DOMAIN s : s[n] = t[i]
  <2> TAKE i \in DOMAIN t
  <2>1. CASE i \in 1..(first - 1)
    <3>1. i \in DOMAIN s
      BY <1>0, <1>4, <2>1
    <3> QED
      BY <1>8, <2>1, <3>1
  <2>2. CASE i - first \in 1..R /\ i = first + (i - first)
    <3>1. t[i] = rest[i - first] /\ g[i - first] \in DOMAIN s
      BY <1>0, <1>7, <1>8, <2>2
    <3> QED
      BY <1>7, <1>8, <2>2, <3>1
  <2> QED
    BY <1>8, <1>10, <2>1, <2>2
<1> QED
  BY <1>2, <1>8, <1>18, <1>19 DEF Trims, D

LEMMA RolledTrims ==
    ASSUME NEW c \in Nat, NEW s \in Seq(Messages(c)), Clustered(s), NEW n
    PROVE  Trims(Rolled(s, n), s, c)
<1>1. Trims(s, s, c)
  BY DEF Trims
<1>2. ASSUME NEW S PROVE Trims(Keep(s, S), s, c)
  <2>1. Keep(s, S) \in Seq(Messages(c)) /\ Embedded(Keep(s, S), s)
    BY KeepIsPart
  <2>2. Clustered(Keep(s, S))
    BY <2>1, PartClusters
  <2>3. \A i \in DOMAIN Keep(s, S) : \E m \in DOMAIN s : s[m] = Keep(s, S)[i]
    BY <2>1 DEF Embedded, Embeds
  <2> QED
    BY <2>1, <2>2, <2>3 DEF Trims
<1> QED
  BY <1>1, <1>2 DEF Rolled

LEMMA TrimsAgain ==
    ASSUME NEW c, NEW s, NEW t, NEW u, Trims(t, s, c), Trims(u, t, c) PROVE Trims(u, s, c)
  BY DEF Trims

LEMMA CompressedTrims ==
    ASSUME NEW c \in Nat, NEW s \in Seq(Messages(c)), Clustered(s), NEW t \in Compressed(s)
    PROVE  Trims(t, s, c)
<1>1. Trims(s, s, c)
  BY DEF Trims
<1>2. ASSUME NEW m \in {s} \union Summaries(s) PROVE Trims(m, s, c)
  <2>1. \A D \in LightHalves(s) : D \in SUBSET DOMAIN s /\ D # {}
    BY DEF LightHalves
  <2> QED
    BY <1>1, <1>2, <2>1, SummaryTrims DEF Summaries
<1>3. ASSUME NEW m, Trims(m, s, c) PROVE Trims(Rolled(Rolled(m, Window), Threshold), s, c)
  <2>1. Trims(Rolled(m, Window), m, c)
    BY <1>3, RolledTrims DEF Trims
  <2>2. Trims(Rolled(Rolled(m, Window), Threshold), Rolled(m, Window), c)
    BY <2>1, RolledTrims DEF Trims
  <2> QED
    BY <1>3, <2>1, <2>2, TrimsAgain
<1>4. t \in {s} \union {IF Len(m) <= Threshold THEN m ELSE Rolled(Rolled(m, Window), Threshold) :
                            m \in {s} \union Summaries(s)}
  BY DEF Compressed
<1> QED
  BY <1>1, <1>2, <1>3, <1>4

--------------------------------------------------------------------------------
(* What precedes a message of a history whose results are with their calls is one     *)
(* that the message fits behind.                                                      *)
LEMMA PrefixFits ==
    ASSUME NEW c \in Nat, NEW s \in Seq(Messages(c)), Clustered(s), NEW n \in 1..Len(s)
    PROVE  FitsBehind(SubSeq(s, 1, n - 1), s[n])
<1> DEFINE p == SubSeq(s, 1, n - 1)
<1>1. /\ DOMAIN p = 1..(n - 1) /\ DOMAIN s = 1..Len(s) /\ Len(s) \in Nat
      /\ \A i \in 1..(n - 1) : p[i] = s[i] /\ i \in DOMAIN s /\ i < n /\ ~(n < i)
      /\ \A i \in DOMAIN s : s[i] \in Messages(c)
      /\ n \in DOMAIN s /\ \A i \in DOMAIN s : i < n => i \in 1..(n - 1)
  OBVIOUS
<1> HIDE DEF p
<1>2. \A id : Declares(p, id) => Declares(s, id)
  BY <1>1 DEF Declares
<1>3. ASSUME IsResult(s[n]), Answers(p, s[n].answers) PROVE FALSE
  BY <1>1, <1>3 DEF Answers, Clustered, Once
<1>4. ASSUME IsResult(s[n]), Declares(p, s[n].answers) PROVE EndsWith(p, s[n].answers)
  <2>1. PICK i \in DOMAIN p : Makes(p[i], s[n].answers)
    BY <1>4 DEF Declares
  <2>2. \A q \in DOMAIN s : i < q /\ q <= n => Serves(s, i, s[q])
    BY <1>1, <1>4, <2>1 DEF Clustered, Near
  <2>3. ASSUME NEW q \in DOMAIN p, i < q PROVE Serves(p, i, p[q])
    <3>1. q \in DOMAIN s /\ q <= n
      BY <1>1
    <3>2. Serves(s, i, s[q])
      BY <2>2, <2>3, <3>1
    <3> QED
      BY <1>1, <1>2, <2>1, <2>3, <3>2 DEF Serves
  <2> QED
    BY <2>1, <2>3 DEF EndsWith
<1>5. ASSUME NEW id \in Nat, Makes(s[n], id) PROVE ~Declares(p, id) /\ ~Answers(p, id)
  <2>1. ~Declares(p, id)
    BY <1>1, <1>5 DEF Declares, Clustered, CallsDiffer
  <2>2. ~Answers(p, id)
    BY <1>1, <1>5 DEF Answers, Clustered, Near
  <2> QED
    BY <2>1, <2>2
<1> QED
  BY <1>3, <1>4, <1>5 DEF FitsBehind, p

(* Results that each fit behind a history fit behind it one after the other.          *)
AllFit(s, r) ==
    /\ \A j \in DOMAIN r : IsResult(r[j]) /\ FitsBehind(s, r[j])
    /\ \A j, k \in DOMAIN r : r[j].answers = r[k].answers => j = k

LEMMA ResultsAppended ==
    ASSUME NEW c \in Nat, NEW s \in Seq(Messages(c)), NEW r \in Seq(Messages(c)),
           Clustered(s), AllFit(s, r)
    PROVE  /\ s \o r \in Seq(Messages(c)) /\ Clustered(s \o r)
           /\ \A id : Declares(s \o r, id) <=> Declares(s, id)
           /\ \A id : Answers(s \o r, id) <=> Answers(s, id) \/ \E j \in DOMAIN r : r[j].answers = id
           /\ \A id \in Nat : EndsWith(s, id) => EndsWith(s \o r, id)
<1> DEFINE N == Len(r)
           u(j) == s \o SubSeq(r, 1, j)
           Good(j) == /\ Clustered(u(j))
                      /\ \A id : Declares(u(j), id) <=> Declares(s, id)
                      /\ \A id : Answers(u(j), id) <=>
                             Answers(s, id) \/ \E k \in 1..j : r[k].answers = id
                      /\ \A id \in Nat : EndsWith(s, id) => EndsWith(u(j), id)
           Bad == {j \in 0..N : ~Good(j)}
<1>1. N \in Nat /\ DOMAIN r = 1..N /\ N \in 0..N /\ \A j \in 1..N : r[j] \in Messages(c)
  OBVIOUS
<1>2. u(0) = s /\ u(N) = s \o r
  <2>1. SubSeq(r, 1, 0) = <<>> /\ SubSeq(r, 1, N) = r
    OBVIOUS
  <2>2. s \o <<>> = s
    OBVIOUS
  <2> QED
    BY <2>1, <2>2
<1>3. \A j \in 0..N : u(j) \in Seq(Messages(c))
  OBVIOUS
<1>4. ASSUME NEW j \in 1..N PROVE u(j) = Append(u(j - 1), r[j])
  <2>1. SubSeq(r, 1, j) = Append(SubSeq(r, 1, j - 1), r[j])
    OBVIOUS
  <2>2. \A a \in Seq(Messages(c)), b \in Seq(Messages(c)), x \in Messages(c) :
            a \o Append(b, x) = Append(a \o b, x)
    OBVIOUS
  <2>3. SubSeq(r, 1, j - 1) \in Seq(Messages(c)) /\ r[j] \in Messages(c)
    OBVIOUS
  <2> QED
    BY <2>1, <2>2, <2>3
<1> HIDE DEF u
<1>5. 0 \notin Bad
  <2>1. 1..0 = {}
    OBVIOUS
  <2> QED
    BY <1>2, <2>1
<1>6. Good(N)
  <2>1. SUFFICES ASSUME Bad # {} PROVE FALSE
    BY <1>1
  <2>2. PICK k \in Bad : k \in 1..N /\ k - 1 \in 0..N /\ k - 1 \notin Bad
    <3>1. Bad \subseteq 0..N
      OBVIOUS
    <3> HIDE DEF Bad
    <3> QED
      BY <1>1, <1>5, <2>1, <3>1, FirstFailure
  <2> DEFINE t == u(k - 1)
             x == r[k]
  <2>3. Good(k - 1)
    BY <2>2
  <2>4. /\ t \in Seq(Messages(c)) /\ x \in Messages(c) /\ u(k) = Append(t, x)
        /\ IsResult(x) /\ FitsBehind(s, x) /\ x.answers \in Nat /\ \A id : ~Makes(x, id)
    <3>1. x \in Messages(c) /\ IsResult(x) /\ FitsBehind(s, x)
      BY <1>1, <2>2 DEF AllFit
    <3>2. x.answers \in Nat /\ \A id : ~Makes(x, id)
      BY <3>1, MessageFacts
    <3> QED
      BY <1>3, <1>4, <2>2, <3>1, <3>2
  <2> HIDE DEF Bad
  <2>5. FitsBehind(t, x)
    <3>1. ~Answers(t, x.answers)
      <4>1. \A l \in 1..(k - 1) : l \in DOMAIN r /\ k \in DOMAIN r /\ l # k
        BY <1>1, <2>2
      <4>2. \A l \in 1..(k - 1) : r[l].answers # x.answers
        BY <4>1 DEF AllFit
      <4> QED
        BY <2>3, <2>4, <4>2 DEF FitsBehind
    <3>2. Declares(t, x.answers) => EndsWith(t, x.answers)
      BY <2>3, <2>4 DEF FitsBehind
    <3> QED
      BY <2>4, <3>1, <3>2 DEF FitsBehind
  <2>6. Clustered(u(k))
    BY <2>3, <2>4, <2>5, AppendClusters
  <2>7. /\ \A id : Declares(u(k), id) <=> Declares(t, id)
        /\ \A id : Answers(u(k), id) <=> Answers(t, id) \/ x.answers = id
    BY <2>4, AppendedIds
  <2>8. \A l \in 1..k : l \in 1..(k - 1) \/ l = k
    BY <2>2
  <2>9. k \in 1..k /\ \A l \in 1..(k - 1) : l \in 1..k
    BY <2>2
  <2>10. \A id : Answers(u(k), id) <=> Answers(s, id) \/ \E l \in 1..k : r[l].answers = id
    BY <2>3, <2>7, <2>8, <2>9
  <2>11. \A id \in Nat : EndsWith(t, id) => EndsWith(u(k), id)
    BY <2>3, <2>4, <2>5, EndStays DEF Clustered
  <2>12. Good(k)
    BY <2>3, <2>6, <2>7, <2>10, <2>11
  <2> QED
    BY <2>2, <2>12 DEF Bad
<1> QED
  BY <1>1, <1>2, <1>3, <1>6

--------------------------------------------------------------------------------
(* The calls of a message that a history leaves open.                                 *)
LEMMA OpenIs ==
    ASSUME NEW c \in Nat, NEW s \in Seq(Messages(c)), NEW m \in Messages(c)
    PROVE  /\ Open(s, m) \in Seq(1..c)
           /\ \A k, l \in DOMAIN Open(s, m) : Open(s, m)[k] = Open(s, m)[l] => k = l
           /\ \A id : (\E k \in DOMAIN Open(s, m) : Open(s, m)[k] = id)
                         <=> Makes(m, id) /\ ~Answers(s, id)
<1> DEFINE S == {k \in DOMAIN m.calls : m.calls[k] \notin Answered(s)}
           o == Open(s, m)
<1>1. m.calls \in Seq(1..c) /\ DOMAIN m.calls = 1..Len(m.calls) /\ Len(m.calls) \in Nat
  BY MessageFacts
<1>2. o = Keep(m.calls, S)
  BY DEF Open
<1> HIDE DEF S, o
<1>3. o \in Seq(1..c) /\ \E g : KeptUpTo(o, m.calls, S, Len(m.calls), g)
  BY <1>1, <1>2, KeepIs
<1>4. PICK g : KeptUpTo(o, m.calls, S, Len(m.calls), g)
  BY <1>3
<1>5. \A id \in 1..c : id \in Answered(s) <=> Answers(s, id)
  <2>1. \A i \in DOMAIN s : s[i] \in Messages(c)
    OBVIOUS
  <2>2. \A i \in DOMAIN s : s[i].answers # 0 <=> IsResult(s[i])
    BY <2>1 DEF Messages, IsResult
  <2> QED
    BY <2>2 DEF Answered, Answers
<1>6. \A k, l \in DOMAIN m.calls : m.calls[k] = m.calls[l] => k = l
  BY DEF Messages
<1>7. DOMAIN o \subseteq Nat /\ \A k \in DOMAIN o : g[k] \in DOMAIN m.calls /\ g[k] \in Nat
  <2>1. DOMAIN o = 1..Len(o) /\ Len(o) \in Nat
    BY <1>3
  <2>2. g \in [DOMAIN o -> 1..Len(m.calls)]
    BY <1>4 DEF KeptUpTo
  <2>3. \A k \in DOMAIN o : g[k] \in 1..Len(m.calls)
    BY <2>2
  <2> QED
    BY <1>1, <2>1, <2>3
<1>8. ASSUME NEW k \in DOMAIN o, NEW l \in DOMAIN o, o[k] = o[l] PROVE k = l
  <2>1. g[k] = g[l]
    BY <1>4, <1>6, <1>7, <1>8 DEF KeptUpTo
  <2>2. ~(k < l) /\ ~(l < k)
    BY <1>4, <1>7, <2>1 DEF KeptUpTo
  <2> QED
    BY <1>7, <2>2
<1>9. ASSUME NEW id, NEW k \in DOMAIN o, o[k] = id PROVE Makes(m, id) /\ ~Answers(s, id)
  <2>1. g[k] \in DOMAIN m.calls /\ m.calls[g[k]] = id /\ g[k] \in S
    BY <1>4, <1>7, <1>9 DEF KeptUpTo
  <2>2. id \in 1..c /\ id \notin Answered(s)
    BY <1>1, <2>1 DEF S
  <2> QED
    BY <1>5, <2>1, <2>2 DEF Makes
<1>10. ASSUME NEW id, Makes(m, id), ~Answers(s, id) PROVE \E k \in DOMAIN o : o[k] = id
  <2>1. PICK i \in DOMAIN m.calls : m.calls[i] = id
    BY <1>10 DEF Makes
  <2>2. i \in S /\ i \in 1..Len(m.calls)
    BY <1>1, <1>5, <1>10, <2>1 DEF S
  <2>3. PICK k \in DOMAIN o : g[k] = i
    BY <1>4, <2>2 DEF KeptUpTo
  <2> QED
    BY <1>4, <2>1, <2>3 DEF KeptUpTo
<1> QED
  BY <1>3, <1>8, <1>9, <1>10 DEF o

LEMMA ResultsAre ==
    ASSUME NEW c \in Nat, NEW ids \in Seq(1..c)
    PROVE  /\ Results(ids) \in Seq(Messages(c)) /\ DOMAIN Results(ids) = DOMAIN ids
           /\ Len(Results(ids)) = Len(ids)
           /\ \A k \in DOMAIN ids : /\ Results(ids)[k] = Result(ids[k]) /\ ids[k] \in 1..c
                                    /\ IsResult(Result(ids[k])) /\ Result(ids[k]).answers = ids[k]
<1>1. \A id \in 1..c : Result(id) \in Messages(c) /\ IsResult(Result(id)) /\ Result(id).answers = id
  BY PlainMessages
<1>2. DOMAIN ids = 1..Len(ids) /\ Len(ids) \in Nat /\ \A k \in DOMAIN ids : ids[k] \in 1..c
  OBVIOUS
<1>3. Results(ids) = [k \in 1..Len(ids) |-> Result(ids[k])]
  BY <1>2 DEF Results
<1>4. \A k \in 1..Len(ids) : Result(ids[k]) \in Messages(c)
  BY <1>1, <1>2
<1>5. Results(ids) \in Seq(Messages(c)) /\ Len(Results(ids)) = Len(ids)
  BY <1>2, <1>3, <1>4
<1> QED
  BY <1>1, <1>2, <1>3, <1>5

--------------------------------------------------------------------------------
(* RepairDangling, as far as it has come: the calls of the messages it has passed are *)
(* answered, unless an answer is still to come.                                       *)
Repaired(t, p, s, c) ==
    /\ t \in Seq(Messages(c)) /\ Clustered(t)
    /\ \A id : Declares(t, id) <=> Declares(p, id)
    /\ \A id : Answers(t, id) <=> Answers(p, id) \/ (Declares(p, id) /\ ~Answers(s, id))
    /\ \A id \in Nat : EndsWith(p, id) => EndsWith(t, id)

LEMMA RepairStep ==
    ASSUME NEW c \in Nat, NEW s \in Seq(Messages(c)), Clustered(s), NEW n \in 1..Len(s),
           NEW t, Repaired(t, SubSeq(s, 1, n - 1), s, c)
    PROVE  Repaired(Append(t, s[n]) \o Results(Open(s, s[n])), SubSeq(s, 1, n), s, c)
<1> DEFINE p == SubSeq(s, 1, n - 1)
           q == SubSeq(s, 1, n)
           x == s[n]
           u == Append(t, x)
           o == Open(s, x)
           r == Results(o)
<1>1. /\ p \in Seq(Messages(c)) /\ q = Append(p, x) /\ x \in Messages(c) /\ n \in DOMAIN s
      /\ DOMAIN p = 1..(n - 1) /\ \A i \in DOMAIN p : i \in DOMAIN s /\ p[i] = s[i]
  OBVIOUS
<1>2. FitsBehind(p, x)
  BY PrefixFits
<1>3. /\ t \in Seq(Messages(c)) /\ Clustered(t)
      /\ \A id : Declares(t, id) <=> Declares(p, id)
      /\ \A id : Answers(t, id) <=> Answers(p, id) \/ (Declares(p, id) /\ ~Answers(s, id))
      /\ \A id \in Nat : EndsWith(p, id) => EndsWith(t, id)
  BY DEF Repaired
<1>4. /\ o \in Seq(1..c)
      /\ \A k, l \in DOMAIN o : o[k] = o[l] => k = l
      /\ \A id : (\E k \in DOMAIN o : o[k] = id) <=> Makes(x, id) /\ ~Answers(s, id)
  BY <1>1, OpenIs
<1> HIDE DEF p, q, o
<1>5. /\ r \in Seq(Messages(c)) /\ DOMAIN r = DOMAIN o
      /\ \A k \in DOMAIN o : r[k] \in Messages(c) /\ IsResult(r[k]) /\ r[k].answers = o[k] /\ o[k] \in Nat
  <2>1. \A k \in DOMAIN o : r[k] = Result(o[k]) /\ IsResult(Result(o[k])) /\ Result(o[k]).answers = o[k]
    BY <1>4, ResultsAre
  <2>2. r \in Seq(Messages(c)) /\ DOMAIN r = DOMAIN o
    BY <1>4, ResultsAre
  <2>3. \A k \in DOMAIN o : o[k] \in Nat
    BY <1>4
  <2>4. \A k \in DOMAIN r : r[k] \in Messages(c)
    BY <2>2
  <2> QED
    BY <2>1, <2>2, <2>3, <2>4
<1>6. \A id : Answers(p, id) => Answers(s, id)
  BY <1>1 DEF Answers
<1>7. IsResult(x) => Answers(s, x.answers) /\ x.answers \in Nat /\ \A id : ~Makes(x, id)
  BY <1>1, MessageFacts DEF Answers
<1>8. FitsBehind(t, x)
  BY <1>2, <1>3, <1>6, <1>7 DEF FitsBehind
<1>9. /\ u \in Seq(Messages(c)) /\ Clustered(u)
      /\ \A id : Declares(u, id) <=> Declares(t, id) \/ Makes(x, id)
      /\ \A id : Answers(u, id) <=> Answers(t, id) \/ (IsResult(x) /\ x.answers = id)
  BY <1>1, <1>3, <1>8, AppendClusters, AppendedIds
<1>10. /\ \A id : Declares(q, id) <=> Declares(p, id) \/ Makes(x, id)
       /\ \A id : Answers(q, id) <=> Answers(p, id) \/ (IsResult(x) /\ x.answers = id)
  BY <1>1, AppendedIds
<1>11. ASSUME NEW id, Makes(x, id) PROVE EndsWith(u, id)
  <2>1. /\ u[Len(t) + 1] = x /\ Len(t) + 1 \in DOMAIN u
        /\ \A i \in DOMAIN u : ~(Len(t) + 1 < i)
    BY <1>1, <1>3
  <2> QED
    BY <1>11, <2>1 DEF EndsWith
<1> HIDE DEF u, r, x
<1>12. ASSUME NEW k \in DOMAIN r PROVE FitsBehind(u, r[k])
  <2>1. Makes(x, o[k]) /\ ~Answers(s, o[k]) /\ o[k] \in Nat
    BY <1>4, <1>5, <1>12
  <2>2. ~Answers(t, o[k])
    BY <1>2, <1>3, <1>6, <2>1 DEF FitsBehind
  <2>3. ~Answers(u, o[k])
    BY <1>7, <1>9, <2>1, <2>2
  <2>4. \A id : ~Makes(r[k], id)
    BY <1>5, <1>12, MessageFacts
  <2> QED
    BY <1>5, <1>11, <1>12, <2>1, <2>3, <2>4 DEF FitsBehind
<1>13. AllFit(u, r)
  BY <1>4, <1>5, <1>12 DEF AllFit
<1>14. /\ u \o r \in Seq(Messages(c)) /\ Clustered(u \o r)
       /\ \A id : Declares(u \o r, id) <=> Declares(u, id)
       /\ \A id : Answers(u \o r, id) <=> Answers(u, id) \/ \E j \in DOMAIN r : r[j].answers = id
       /\ \A id \in Nat : EndsWith(u, id) => EndsWith(u \o r, id)
  BY <1>5, <1>9, <1>13, ResultsAppended
<1>15. \A id : Declares(u \o r, id) <=> Declares(q, id)
  BY <1>3, <1>9, <1>10, <1>14
<1>16. ASSUME NEW id
       PROVE  Answers(u \o r, id) <=> Answers(q, id) \/ (Declares(q, id) /\ ~Answers(s, id))
  <2>1. (\E j \in DOMAIN r : r[j].answers = id) <=> Makes(x, id) /\ ~Answers(s, id)
    BY <1>4, <1>5
  <2>2. IsResult(x) /\ x.answers = id => Answers(s, id)
    BY <1>7
  <2> QED
    BY <1>3, <1>6, <1>9, <1>10, <1>14, <2>1, <2>2
<1>17. ASSUME NEW id \in Nat, EndsWith(q, id) PROVE EndsWith(u \o r, id)
  <2>1. PICK i \in DOMAIN q : Makes(q[i], id) /\ \A j \in DOMAIN q : i < j => Serves(q, i, q[j])
    BY <1>17 DEF EndsWith
  <2>2. /\ Len(p) \in Nat /\ DOMAIN p = 1..Len(p) /\ DOMAIN q = 1..(Len(p) + 1) /\ q[Len(p) + 1] = x
        /\ \A j \in DOMAIN p : j \in DOMAIN q /\ q[j] = p[j]
        /\ \A j \in DOMAIN q : j \in DOMAIN p \/ j = Len(p) + 1
    BY <1>1, Appended DEF x
  <2>3. CASE Makes(x, id)
    BY <1>11, <1>14, <2>3
  <2>4. CASE ~Makes(x, id)
    <3>1. i \in DOMAIN p /\ Makes(p[i], id) /\ i < Len(p) + 1 /\ Len(p) + 1 \in DOMAIN q
      BY <2>1, <2>2, <2>4
    <3>2. IsResult(x)
      BY <2>1, <2>2, <3>1 DEF Serves
    <3>3. \A m : ~Makes(x, m)
      BY <1>7, <3>2
    <3>4. \A j \in DOMAIN p : i < j => Serves(p, i, p[j])
      BY <1>10, <2>1, <2>2, <3>1, <3>3 DEF Serves
    <3>5. EndsWith(t, id)
      BY <1>3, <3>1, <3>4 DEF EndsWith
    <3>6. EndsWith(u, id)
      BY <1>1, <1>3, <1>8, <3>2, <3>5, EndStays DEF u, x, Clustered
    <3> QED
      BY <1>14, <3>6
  <2> QED
    BY <2>3, <2>4
<1> QED
  BY <1>14, <1>15, <1>16, <1>17 DEF Repaired, u, r, x, o, q

LEMMA RepairExists ==
    ASSUME NEW c \in Nat, NEW s \in Seq(Messages(c))
    PROVE  \E f : f = [n \in 0..Len(s) |->
                         IF n = 0 THEN <<>> ELSE Append(f[n - 1], s[n]) \o Results(Open(s, s[n]))]
<1> DEFINE N == Len(s)
           K == Seq(Messages(c))
           step == [n \in 1..N |-> [k \in K |-> Append(k, s[n]) \o Results(Open(s, s[n]))]]
<1>1. N \in Nat /\ \A n \in 1..N : s[n] \in Messages(c)
  OBVIOUS
<1>2. Steps(step, N, <<>>, K)
  <2>1. ASSUME NEW n \in 1..N, NEW k \in K PROVE Append(k, s[n]) \o Results(Open(s, s[n])) \in K
    <3>1. s[n] \in Messages(c) /\ Open(s, s[n]) \in Seq(1..c)
      BY <1>1, OpenIs
    <3>2. Results(Open(s, s[n])) \in K
      BY <3>1, ResultsAre
    <3> QED
      BY <3>1, <3>2
  <2> QED
    BY <1>1, <2>1 DEF Steps
<1> HIDE DEF K
<1>3. PICK f : Path(f, step, N, <<>>, K)
  BY <1>2, PathExists
<1>4. f \in [0..N -> K] /\ f[0] = <<>>
  BY <1>3 DEF Path
<1>5. ASSUME NEW n \in 1..N PROVE f[n] = Append(f[n - 1], s[n]) \o Results(Open(s, s[n]))
  <2>1. f[n - 1] \in K
    BY <1>1, <1>4
  <2> QED
    BY <1>3, <2>1 DEF Path
<1>6. \A n \in 0..N : n = 0 \/ n \in 1..N
  BY <1>1
<1>7. f = [n \in 0..N |-> IF n = 0 THEN <<>> ELSE Append(f[n - 1], s[n]) \o Results(Open(s, s[n]))]
  BY <1>4, <1>5, <1>6
<1> QED
  BY <1>7

(* A repaired history has its results with their calls, and no call is left open.     *)
LEMMA RepairDanglingIs ==
    ASSUME NEW c \in Nat, NEW s \in Seq(Messages(c)), Clustered(s)
    PROVE  /\ RepairDangling(s) \in Seq(Messages(c)) /\ Clustered(RepairDangling(s))
           /\ \A id : Declares(RepairDangling(s), id) <=> Declares(s, id)
           /\ \A id : Answers(RepairDangling(s), id) <=> Answers(s, id) \/ Declares(s, id)
<1> DEFINE N == Len(s)
           out == CHOOSE out : out =
                    [n \in 0..N |-> IF n = 0 THEN <<>>
                                    ELSE Append(out[n - 1], s[n]) \o Results(Open(s, s[n]))]
           Good(n) == Repaired(out[n], SubSeq(s, 1, n), s, c)
           Bad == {n \in 0..N : ~Good(n)}
<1>1. RepairDangling(s) = out[N]
  BY DEF RepairDangling
<1>2. out = [n \in 0..N |-> IF n = 0 THEN <<>>
                            ELSE Append(out[n - 1], s[n]) \o Results(Open(s, s[n]))]
  <2>1. PICK f : f = [n \in 0..N |-> IF n = 0 THEN <<>>
                                     ELSE Append(f[n - 1], s[n]) \o Results(Open(s, s[n]))]
    BY RepairExists
  <2> QED
    BY <2>1
<1> HIDE DEF out
<1>3. N \in Nat /\ N \in 0..N /\ 0 \in 0..N /\ \A n \in 1..N : n \in 0..N /\ n # 0
  OBVIOUS
<1>4. out[0] = <<>> /\ \A n \in 1..N : out[n] = Append(out[n - 1], s[n]) \o Results(Open(s, s[n]))
  BY <1>2, <1>3
<1>5. 0 \notin Bad
  <2>1. SubSeq(s, 1, 0) = <<>> /\ <<>> \in Seq(Messages(c)) /\ DOMAIN <<>> = {}
    OBVIOUS
  <2>2. Clustered(<<>>) /\ \A id : ~Declares(<<>>, id) /\ ~Answers(<<>>, id) /\ ~EndsWith(<<>>, id)
    BY <2>1 DEF Clustered, CallsDiffer, Near, Once, Declares, Answers, EndsWith
  <2> QED
    BY <1>4, <2>1, <2>2 DEF Repaired
<1>6. Good(N)
  <2>1. SUFFICES ASSUME Bad # {} PROVE FALSE
    BY <1>3
  <2>2. PICK k \in Bad : k \in 1..N /\ k - 1 \in 0..N /\ k - 1 \notin Bad
    <3>1. Bad \subseteq 0..N
      OBVIOUS
    <3> HIDE DEF Bad
    <3> QED
      BY <1>3, <1>5, <2>1, <3>1, FirstFailure
  <2>3. Repaired(out[k - 1], SubSeq(s, 1, k - 1), s, c)
    BY <2>2
  <2>4. k \in 1..Len(s)
    BY <2>2
  <2>5. Repaired(Append(out[k - 1], s[k]) \o Results(Open(s, s[k])), SubSeq(s, 1, k), s, c)
    BY <2>3, <2>4, RepairStep
  <2> QED
    BY <1>4, <2>2, <2>5
<1>7. SubSeq(s, 1, N) = s
  OBVIOUS
<1> QED
  BY <1>1, <1>6, <1>7 DEF Repaired

(* A history without its stray results.                                               *)
LEMMA KnownClusters ==
    ASSUME NEW c \in Nat, NEW s \in Seq(Messages(c)), Clustered(s)
    PROVE  /\ Known(s) \in Seq(Messages(c)) /\ Clustered(Known(s))
           /\ \A id : Answers(Known(s), id) => Declares(Known(s), id)
<1> DEFINE t == Known(s)
<1>1. t \in Seq(Messages(c)) /\ \E g : KeptUpTo(t, s, NoStray(s), Len(s), g)
  BY KnownIs
<1> HIDE DEF t
<1>2. PICK g : KeptUpTo(t, s, NoStray(s), Len(s), g)
  BY <1>1
<1>3. DOMAIN s = 1..Len(s) /\ Len(s) \in Nat /\ \A i \in DOMAIN s : s[i] \in Messages(c)
  OBVIOUS
<1>4. Embedded(t, s)
  BY <1>2, <1>3 DEF KeptUpTo, Embedded, Embeds
<1>5. Clustered(t)
  BY <1>1, <1>4, PartClusters
<1>6. ASSUME NEW i \in DOMAIN t, IsResult(t[i]) PROVE Declares(t, t[i].answers)
  <2>1. g[i] \in DOMAIN s /\ s[g[i]] = t[i] /\ g[i] \in NoStray(s)
    BY <1>2, <1>3 DEF KeptUpTo
  <2>2. t[i].answers \in Declared(s)
    BY <1>6, <2>1 DEF NoStray, IsResult
  <2>3. PICK j \in DOMAIN s : t[i].answers \in ToSet(s[j].calls)
    BY <2>2 DEF Declared
  <2>4. Makes(s[j], t[i].answers)
    BY <2>3 DEF ToSet, Makes
  <2>5. ~IsResult(s[j])
    BY <1>3, <2>4, MessageFacts
  <2>6. j \in NoStray(s) /\ j \in 1..Len(s)
    BY <1>3, <2>5 DEF NoStray, IsResult
  <2>7. PICK k \in DOMAIN t : g[k] = j
    BY <1>2, <2>6 DEF KeptUpTo
  <2>8. t[k] = s[j]
    BY <1>2, <2>7 DEF KeptUpTo
  <2> QED
    BY <2>4, <2>8 DEF Declares
<1> QED
  BY <1>1, <1>5, <1>6 DEF Answers, t

--------------------------------------------------------------------------------
(* Where each result is with its call and each call has its result, the results of a  *)
(* message fill the places right behind it, one for each of its calls.                *)
LEMMA BlockIsFull ==
    ASSUME NEW c \in Nat, NEW t \in Seq(Messages(c)), Clustered(t),
           \A id : Answers(t, id) <=> Declares(t, id), NEW i \in DOMAIN t
    PROVE  /\ i + Len(t[i].calls) <= Len(t)
           /\ \A j \in DOMAIN t : IsResult(t[j]) /\ Makes(t[i], t[j].answers)
                                     <=> j \in (i + 1)..(i + Len(t[i].calls))
<1> DEFINE m == Len(t[i].calls)
           A == {j \in DOMAIN t : IsResult(t[j]) /\ Makes(t[i], t[j].answers)}
           f == [k \in 1..m |-> CHOOSE j \in DOMAIN t : IsResult(t[j]) /\ t[j].answers = t[i].calls[k]]
<1>1. DOMAIN t = 1..Len(t) /\ Len(t) \in Nat /\ \A j \in DOMAIN t : t[j] \in Messages(c)
  OBVIOUS
<1>2. m \in Nat /\ DOMAIN t[i].calls = 1..m
  BY <1>1, MessageFacts
<1>3. \A k, l \in 1..m : t[i].calls[k] = t[i].calls[l] => k = l
  BY <1>1, <1>2 DEF Messages
<1>4. ASSUME NEW k \in 1..m
      PROVE  /\ f[k] \in DOMAIN t /\ IsResult(t[f[k]]) /\ t[f[k]].answers = t[i].calls[k]
             /\ f[k] \in A
  <2>1. Declares(t, t[i].calls[k]) /\ Makes(t[i], t[i].calls[k])
    BY <1>2 DEF Declares, Makes
  <2>2. \E j \in DOMAIN t : IsResult(t[j]) /\ t[j].answers = t[i].calls[k]
    BY <2>1 DEF Answers
  <2> QED
    BY <2>1, <2>2
<1>5. f \in Bijection(1..m, A)
  <2>1. f \in [1..m -> A]
    BY <1>4
  <2>2. \A k, l \in 1..m : f[k] = f[l] => k = l
    BY <1>3, <1>4
  <2>3. ASSUME NEW j \in A PROVE \E k \in 1..m : f[k] = j
    <3>1. PICK k \in 1..m : t[i].calls[k] = t[j].answers
      BY <1>2 DEF Makes
    <3>2. f[k] = j
      BY <1>4, <3>1 DEF Clustered, Once
    <3> QED
      BY <3>2
  <2> HIDE DEF f, A
  <2> QED
    BY <2>1, <2>2, <2>3 DEF Bijection, Injection, Surjection, IsInjective
<1> HIDE DEF f
<1>6. IsFiniteSet(A) /\ Cardinality(A) = m
  <2>1. IsFiniteSet(1..m) /\ Cardinality(1..m) = m
    <3>1. 1 \in Int /\ m \in Int /\ m >= 0
      BY <1>2
    <3> HIDE DEF m
    <3>2. IsFiniteSet(1..m) /\ Cardinality(1..m) = IF 1 > m THEN 0 ELSE m - 1 + 1
      BY <3>1, FS_Interval
    <3> QED
      BY <3>1, <3>2
  <2>2. ExistsBijection(1..m, A)
    BY <1>5 DEF ExistsBijection
  <2> HIDE DEF A
  <2> QED
    BY <2>1, <2>2, FS_Bijection
<1>7. A \subseteq DOMAIN t /\ \A j \in A : i < j
  BY DEF Clustered, Near
<1>8. ASSUME NEW j \in A, NEW p \in (i + 1)..j PROVE p \in A
  <2>1. p \in DOMAIN t /\ i < p /\ p <= j
    BY <1>1, <1>8
  <2>2. Serves(t, i, t[p])
    BY <1>8, <2>1 DEF Clustered, Near
  <2>3. Declares(t, t[p].answers)
    BY <2>1, <2>2 DEF Serves, Answers
  <2> QED
    BY <2>1, <2>2, <2>3 DEF Serves
<1> DEFINE B == (i + 1)..(i + m)
<1>9. i \in Nat /\ Cardinality(B) = m /\ IsFiniteSet(B)
  <2>1. i \in Nat /\ i + 1 \in Int /\ i + m \in Int
    BY <1>1, <1>2
  <2>2. IsFiniteSet(B) /\ Cardinality(B) = IF i + 1 > i + m THEN 0 ELSE (i + m) - (i + 1) + 1
    BY <2>1, FS_Interval
  <2> QED
    BY <1>2, <2>1, <2>2
<1> HIDE DEF A
<1>10. A \subseteq B
  <2> SUFFICES ASSUME NEW j \in A, j \notin B PROVE FALSE
    OBVIOUS
  <2>1. j \in Nat /\ j > i + m
    BY <1>1, <1>2, <1>7, <1>9
  <2>2. (i + 1)..j \subseteq A
    BY <1>8
  <2>3. Cardinality((i + 1)..j) = j - i
    <3>1. i + 1 \in Int /\ j \in Int /\ ~(i + 1 > j)
      BY <1>2, <1>9, <2>1
    <3>2. Cardinality((i + 1)..j) = IF i + 1 > j THEN 0 ELSE j - (i + 1) + 1
      BY <3>1, FS_Interval
    <3> QED
      BY <1>9, <2>1, <3>1, <3>2
  <2>4. Cardinality((i + 1)..j) <= Cardinality(A)
    BY <1>6, <2>2, FS_Subset
  <2> QED
    BY <1>2, <1>6, <1>9, <2>1, <2>3, <2>4
<1>11. A = B
  BY <1>6, <1>9, <1>10, FS_Subset
<1>12. i + m <= Len(t)
  <2>1. CASE m = 0
    BY <1>1, <2>1
  <2>2. CASE m # 0
    <3>1. i + m \in A
      BY <1>2, <1>9, <1>11, <2>2
    <3> QED
      BY <1>1, <1>7, <3>1
  <2> QED
    BY <2>1, <2>2
<1> QED
  BY <1>11, <1>12 DEF A

LEMMA FullIsPaired ==
    ASSUME NEW c \in Nat, NEW t \in Seq(Messages(c)), Clustered(t),
           \A id : Answers(t, id) <=> Declares(t, id)
    PROVE  Paired(t)
<1>1. DOMAIN t = 1..Len(t) /\ Len(t) \in Nat /\ \A j \in DOMAIN t : t[j] \in Messages(c)
  OBVIOUS
<1>2. ASSUME NEW i \in DOMAIN t
      PROVE  /\ i \in Nat /\ Len(t[i].calls) \in Nat /\ DOMAIN t[i].calls = 1..Len(t[i].calls)
             /\ \A id : Makes(t[i], id) <=> id \in ToSet(t[i].calls)
  BY <1>1, MessageFacts DEF Makes, ToSet
<1>3. ASSUME NEW i \in DOMAIN t
      PROVE  /\ i + Len(t[i].calls) <= Len(t)
             /\ {t[i + k].answers : k \in DOMAIN t[i].calls} = ToSet(t[i].calls)
  <2> DEFINE m == Len(t[i].calls)
  <2>1. /\ i + m <= Len(t)
        /\ \A j \in DOMAIN t : IsResult(t[j]) /\ Makes(t[i], t[j].answers) <=> j \in (i + 1)..(i + m)
    BY BlockIsFull
  <2>2. i \in Nat /\ m \in Nat /\ DOMAIN t[i].calls = 1..m
    BY <1>2
  <2> HIDE DEF m
  <2>3. ASSUME NEW k \in 1..m PROVE t[i + k].answers \in ToSet(t[i].calls)
    <3>1. i + k \in DOMAIN t /\ i + k \in (i + 1)..(i + m)
      BY <1>1, <2>1, <2>2
    <3> QED
      BY <1>2, <2>1, <3>1
  <2>4. ASSUME NEW id \in ToSet(t[i].calls) PROVE \E k \in 1..m : t[i + k].answers = id
    <3>1. Makes(t[i], id) /\ Answers(t, id)
      BY <1>2 DEF Declares
    <3>2. PICK j \in DOMAIN t : IsResult(t[j]) /\ t[j].answers = id
      BY <3>1 DEF Answers
    <3>3. j \in (i + 1)..(i + m)
      BY <2>1, <3>1, <3>2
    <3>4. j - i \in 1..m /\ i + (j - i) = j
      BY <2>2, <3>3
    <3> QED
      BY <3>2, <3>4
  <2> QED
    BY <2>1, <2>2, <2>3, <2>4 DEF m
<1>4. ASSUME NEW j \in DOMAIN t, t[j].role = "tool"
      PROVE  \E i \in 1..(j - 1) : j <= i + Len(t[i].calls) /\ t[j].answers \in ToSet(t[i].calls)
  <2>1. Declares(t, t[j].answers)
    BY <1>4 DEF Answers, IsResult
  <2>2. PICK i \in DOMAIN t : Makes(t[i], t[j].answers)
    BY <2>1 DEF Declares
  <2>3. j \in (i + 1)..(i + Len(t[i].calls))
    BY <1>4, <2>2, BlockIsFull DEF IsResult
  <2>4. i \in 1..(j - 1) /\ j <= i + Len(t[i].calls)
    BY <1>1, <1>2, <2>3
  <2> QED
    BY <1>2, <2>2, <2>4
<1> QED
  BY <1>3, <1>4 DEF Paired

(* A user message in front changes nothing about it.                                  *)
LEMMA UserInFront ==
    ASSUME NEW c \in Nat, NEW t \in Seq(Messages(c)), Paired(t)
    PROVE  Paired(BehindUser(t))
<1> DEFINE u == <<User>> \o t
<1>1. /\ DOMAIN t = 1..Len(t) /\ Len(t) \in Nat /\ Len(u) = Len(t) + 1
      /\ DOMAIN u = 1..(Len(t) + 1) /\ u[1] = User
      /\ \A i \in DOMAIN t : i \in Nat /\ i + 1 \in DOMAIN u /\ u[i + 1] = t[i]
      /\ \A i \in DOMAIN u : i = 1 \/ (i - 1 \in DOMAIN t /\ (i - 1) + 1 = i)
  OBVIOUS
<1>2. \A i \in DOMAIN t : t[i] \in Messages(c) /\ DOMAIN t[i].calls = 1..Len(t[i].calls) /\ Len(t[i].calls) \in Nat
  BY MessageFacts
<1> HIDE DEF u
<1>3. User.calls = <<>> /\ Len(User.calls) = 0 /\ DOMAIN User.calls = {} /\ User.role # "tool"
      /\ ToSet(User.calls) = {}
  BY DEF User, ToSet
<1>4. ASSUME NEW i \in DOMAIN u
      PROVE  /\ i + Len(u[i].calls) <= Len(u)
             /\ {u[i + k].answers : k \in DOMAIN u[i].calls} = ToSet(u[i].calls)
  <2>1. CASE i = 1
    BY <1>1, <1>3, <2>1
  <2>2. CASE i - 1 \in DOMAIN t /\ (i - 1) + 1 = i
    <3> DEFINE h == i - 1
    <3>1. h \in DOMAIN t /\ h \in Nat /\ u[i] = t[h] /\ i = h + 1
      BY <1>1, <2>2
    <3>2. /\ h + Len(t[h].calls) <= Len(t)
          /\ {t[h + k].answers : k \in DOMAIN t[h].calls} = ToSet(t[h].calls)
      BY <3>1 DEF Paired
    <3> HIDE DEF h
    <3>3. \A k \in DOMAIN t[h].calls : u[i + k] = t[h + k]
      <4> TAKE k \in DOMAIN t[h].calls
      <4>0. k \in 1..Len(t[h].calls) /\ Len(t[h].calls) \in Nat
        BY <1>2, <3>1
      <4>1. k \in Nat /\ h + k \in DOMAIN t /\ (h + k) + 1 = i + k
        <5>1. h + k \in 1..Len(t)
          BY <1>1, <3>1, <3>2, <4>0
        <5>2. k \in Nat /\ h \in Nat
          BY <3>1, <4>0
        <5>3. (h + k) + 1 = i + k
          BY <3>1, <5>2
        <5> QED
          BY <1>1, <5>1, <5>2, <5>3
      <4> QED
        BY <1>1, <4>1
    <3>4. {u[i + k].answers : k \in DOMAIN u[i].calls} = {t[h + k].answers : k \in DOMAIN t[h].calls}
      BY <3>1, <3>3
    <3>5. i + Len(u[i].calls) <= Len(u)
      BY <1>1, <1>2, <3>1, <3>2
    <3> QED
      BY <3>1, <3>2, <3>4, <3>5
  <2> QED
    BY <1>1, <2>1, <2>2
<1>5. ASSUME NEW j \in DOMAIN u, u[j].role = "tool"
      PROVE  \E i \in 1..(j - 1) : j <= i + Len(u[i].calls) /\ u[j].answers \in ToSet(u[i].calls)
  <2>1. j - 1 \in DOMAIN t /\ (j - 1) + 1 = j /\ u[j] = t[j - 1]
    BY <1>1, <1>3, <1>5
  <2>2. PICK i \in 1..((j - 1) - 1) : /\ j - 1 <= i + Len(t[i].calls)
                                      /\ t[j - 1].answers \in ToSet(t[i].calls)
    BY <1>5, <2>1 DEF Paired
  <2>3. i \in DOMAIN t /\ i + 1 \in 1..(j - 1) /\ u[i + 1] = t[i] /\ j <= (i + 1) + Len(t[i].calls)
    <3>1. j \in Nat /\ j - 1 \in 1..Len(t)
      BY <1>1, <2>1
    <3>2. i \in 1..Len(t) /\ i \in Nat /\ i + 1 \in 1..(j - 1)
      BY <1>1, <3>1
    <3>3. Len(t[i].calls) \in Nat
      BY <1>1, <1>2, <3>2
    <3>4. j <= (i + 1) + Len(t[i].calls)
      <4> DEFINE L == Len(t[i].calls)
      <4>1. L \in Nat /\ j - 1 <= i + L
        BY <2>2, <3>3
      <4> HIDE DEF L
      <4>2. j <= (i + 1) + L
        BY <3>1, <3>2, <4>1
      <4> QED
        BY <4>2 DEF L
    <3> QED
      BY <1>1, <3>2, <3>4
  <2> QED
    BY <2>1, <2>2, <2>3
<1>6. Paired(u)
  BY <1>4, <1>5 DEF Paired
<1> QED
  BY <1>6 DEF BehindUser, u

(* What is sent of a history whose results are with their calls is accepted.          *)
LEMMA RequestIsPaired ==
    ASSUME NEW c \in Nat, NEW s \in Seq(Messages(c)), Clustered(s)
    PROVE  Paired(RepairRequest(s))
<1> DEFINE k == Known(s)
           t == RepairDangling(k)
<1>1. k \in Seq(Messages(c)) /\ Clustered(k) /\ \A id : Answers(k, id) => Declares(k, id)
  BY KnownClusters
<1> HIDE DEF k
<1>2. /\ t \in Seq(Messages(c)) /\ Clustered(t)
      /\ \A id : Declares(t, id) <=> Declares(k, id)
      /\ \A id : Answers(t, id) <=> Answers(k, id) \/ Declares(k, id)
  BY <1>1, RepairDanglingIs
<1> HIDE DEF t
<1>3. Paired(t)
  BY <1>1, <1>2, FullIsPaired
<1>4. Paired(BehindUser(t))
  BY <1>2, <1>3, UserInFront
<1> QED
  BY <1>4 DEF RepairRequest, t, k

--------------------------------------------------------------------------------
(* Messages that fit behind a history, one after the other where they are results.    *)
Fit(s, due) == \A n \in DOMAIN due : FitsBehind(s, due[n])
InLine(due) ==
    /\ \A n \in DOMAIN due : n < Len(due) => IsResult(due[n])
    /\ \A m, n \in DOMAIN due :
          IsResult(due[m]) /\ IsResult(due[n]) /\ due[m].answers = due[n].answers => m = n

LEMMA HeadAndTail ==
    ASSUME NEW S, NEW q \in Seq(S), q # <<>>
    PROVE  /\ Head(q) = q[1] /\ 1 \in DOMAIN q /\ Head(q) \in S /\ Tail(q) \in Seq(S)
           /\ Len(q) \in Nat /\ DOMAIN q = 1..Len(q) /\ Len(Tail(q)) = Len(q) - 1
           /\ \A n \in DOMAIN Tail(q) : n \in Nat /\ n + 1 \in DOMAIN q /\ Tail(q)[n] = q[n + 1]
           /\ DOMAIN Tail(q) = 1..(Len(q) - 1)
           /\ Len(q) = 1 <=> Tail(q) = <<>>
           /\ ~(1 < Len(q)) => Tail(q) = <<>>
<1>1. /\ Head(q) = q[1] /\ 1 \in DOMAIN q /\ Head(q) \in S /\ Tail(q) \in Seq(S)
      /\ Len(q) \in Nat /\ DOMAIN q = 1..Len(q) /\ Len(Tail(q)) = Len(q) - 1
  OBVIOUS
<1>2. /\ \A n \in DOMAIN Tail(q) : n \in Nat /\ n + 1 \in DOMAIN q /\ Tail(q)[n] = q[n + 1]
      /\ DOMAIN Tail(q) = 1..(Len(q) - 1)
  OBVIOUS
<1>3. Len(q) # 0
  BY <1>1
<1>4. Tail(q) = <<>> <=> Len(Tail(q)) = 0
  BY <1>1
<1> QED
  BY <1>1, <1>2, <1>3, <1>4

LEMMA TailInLine ==
    ASSUME NEW S, NEW q \in Seq(S), q # <<>>, InLine(q) PROVE InLine(Tail(q))
<1>1. /\ Len(q) \in Nat /\ Len(Tail(q)) = Len(q) - 1
      /\ \A n \in DOMAIN Tail(q) : n \in Nat /\ n + 1 \in DOMAIN q /\ Tail(q)[n] = q[n + 1]
  BY HeadAndTail
<1>2. ASSUME NEW n \in DOMAIN Tail(q), n < Len(Tail(q)) PROVE IsResult(Tail(q)[n])
  <2>1. n + 1 \in DOMAIN q /\ n + 1 < Len(q) /\ Tail(q)[n] = q[n + 1]
    BY <1>1, <1>2
  <2> QED
    BY <2>1 DEF InLine
<1>3. ASSUME NEW m \in DOMAIN Tail(q), NEW n \in DOMAIN Tail(q), IsResult(Tail(q)[m]),
             IsResult(Tail(q)[n]), Tail(q)[m].answers = Tail(q)[n].answers
      PROVE  m = n
  <2>1. m + 1 = n + 1
    BY <1>1, <1>3 DEF InLine
  <2> QED
    BY <1>1, <2>1
<1> QED
  BY <1>2, <1>3 DEF InLine

LEMMA FitGoesOn ==
    ASSUME NEW c \in Nat, NEW s \in Seq(Messages(c)), CallsDiffer(s), NEW q \in Seq(Messages(c)),
           q # <<>>, InLine(q), \A n \in DOMAIN q : q[n].calls = <<>>,
           FitsBehind(s, Head(q)), Fit(s, Tail(q))
    PROVE  Fit(Append(s, Head(q)), Tail(q))
<1>1. /\ Head(q) = q[1] /\ 1 \in DOMAIN q /\ Len(q) \in Nat
      /\ \A n \in DOMAIN Tail(q) : n \in Nat /\ n + 1 \in DOMAIN q /\ Tail(q)[n] = q[n + 1]
      /\ \A n \in DOMAIN Tail(q) : n # 0
      /\ ~(1 < Len(q)) => Tail(q) = <<>>
  BY HeadAndTail
<1> SUFFICES ASSUME NEW n \in DOMAIN Tail(q) PROVE FitsBehind(Append(s, Head(q)), Tail(q)[n])
  BY DEF Fit
<1>2. n + 1 # 1 /\ 1 < Len(q)
  <2>1. DOMAIN <<>> = {}
    OBVIOUS
  <2> QED
    BY <1>1, <2>1
<1>3. IsResult(q[1])
  BY <1>1, <1>2 DEF InLine
<1>4. q[n + 1] \in Messages(c) /\ q[1] \in Messages(c) /\ q[n + 1].calls = <<>>
  BY <1>1
<1>5. IsResult(q[n + 1]) => q[n + 1].answers # q[1].answers
  BY <1>1, <1>2, <1>3 DEF InLine
<1>6. FitsBehind(s, q[n + 1]) /\ FitsBehind(s, q[1])
  BY <1>1 DEF Fit
<1>7. FitsBehind(Append(s, q[1]), q[n + 1])
  BY <1>3, <1>4, <1>5, <1>6, FitsBehindResult
<1> QED
  BY <1>1, <1>7

(* The results of the calls of a message that fits. *)
LEMMA CallsFit ==
    ASSUME NEW c \in Nat, NEW s \in Seq(Messages(c)), NEW x \in Messages(c), FitsBehind(s, x)
    PROVE  Fit(s, Results(x.calls)) /\ Fit(Append(s, x), Results(x.calls))
<1>1. x.calls \in Seq(1..c)
  BY MessageFacts
<1>2. /\ DOMAIN Results(x.calls) = DOMAIN x.calls
      /\ \A k \in DOMAIN x.calls : Results(x.calls)[k] = Result(x.calls[k])
  BY <1>1, ResultsAre
<1>3. \A k \in DOMAIN x.calls : Makes(x, x.calls[k])
  BY DEF Makes
<1> QED
  BY <1>2, <1>3, ResultsFit DEF Fit

LEMMA CallsInLine ==
    ASSUME NEW c \in Nat, NEW x \in Messages(c)
    PROVE  /\ Results(x.calls) \in Seq(Messages(c)) /\ InLine(Results(x.calls))
           /\ \A n \in DOMAIN Results(x.calls) : /\ Results(x.calls)[n].calls = <<>>
                                                 /\ IsResult(Results(x.calls)[n])
           /\ \A id : Makes(x, id) <=> \E n \in DOMAIN Results(x.calls) : Results(x.calls)[n].answers = id
<1>1. x.calls \in Seq(1..c)
  BY MessageFacts
<1>2. /\ Results(x.calls) \in Seq(Messages(c)) /\ DOMAIN Results(x.calls) = DOMAIN x.calls
      /\ \A k \in DOMAIN x.calls : /\ Results(x.calls)[k] = Result(x.calls[k]) /\ x.calls[k] \in 1..c
                                   /\ IsResult(Result(x.calls[k])) /\ Result(x.calls[k]).answers = x.calls[k]
  BY <1>1, ResultsAre
<1>3. \A k, l \in DOMAIN x.calls : x.calls[k] = x.calls[l] => k = l
  BY DEF Messages
<1>4. InLine(Results(x.calls))
  BY <1>2, <1>3 DEF InLine
<1>5. \A k \in DOMAIN x.calls : Result(x.calls[k]).calls = <<>>
  BY DEF Result
<1> QED
  BY <1>2, <1>4, <1>5 DEF Makes

LEMMA CallsAnswered ==
    ASSUME NEW c \in Nat, NEW x \in Messages(c), NEW id
    PROVE  Makes(x, id) <=> \E n \in DOMAIN Results(x.calls) :
                                /\ IsResult(Results(x.calls)[n])
                                /\ Results(x.calls)[n].answers = id
<1>1. x.calls \in Seq(1..c)
  BY MessageFacts
<1>2. /\ DOMAIN Results(x.calls) = DOMAIN x.calls
      /\ \A k \in DOMAIN x.calls : /\ Results(x.calls)[k] = Result(x.calls[k])
                                   /\ IsResult(Result(x.calls[k])) /\ Result(x.calls[k]).answers = x.calls[k]
  BY <1>1, ResultsAre
<1> QED
  BY <1>2 DEF Makes

--------------------------------------------------------------------------------
(***************************************************************************)
(* The invariant behind the pairing of the three histories, as long as     *)
(* nothing worse has happened than lost events and late writes.  Due is    *)
(* what the turn has still to append: once a message that calls tools is   *)
(* in the context, also the results of its calls.  The log, the context    *)
(* and the events are three views of the session that a drop, a lost event *)
(* or a late write sets apart; what holds them together is that each call  *)
(* of theirs is settled in the log, which the backfill reads, or is still  *)
(* to be answered where it stands, at the end.                             *)
(***************************************************************************)
Opens == pc \in {"guard", "tools"} \/ (pc = "persist" /\ after = "guard")
Due == IF pc = "append" THEN todo
       ELSE IF Opens THEN Results(ctx[Len(ctx)].calls)
       ELSE IF pc = "persist" THEN Tail(todo) ELSE <<>>
Lax == "late" \in scars
Mild == scars \subseteq {"event", "late"}
Pending(id) == \E n \in DOMAIN Due : IsResult(Due[n]) /\ Due[n].answers = id

TypedHistories ==
    /\ called \in Nat
    /\ \A msgs \in {stored, events, ctx, late, todo} : msgs \in Seq(Messages(called))
    /\ Len(late) <= 1
TodoInv ==
    /\ pc \in InTodo =>
          /\ todo # <<>> /\ InLine(todo)
          /\ \A n \in DOMAIN todo : IsResult(todo[n]) => Declares(stored, todo[n].answers)
          /\ after = "guard" => Len(todo) = 1 /\ ~IsResult(todo[1])
          /\ after # "guard" => \A n \in DOMAIN todo : todo[n].calls = <<>>
    /\ pc = "persist" => ctx[Len(ctx)] = Head(todo) /\ \E n \in DOMAIN stored : stored[n] = Head(todo)
    /\ Opens => ctx # <<>>
(* Calls differ, even those of a write that has not landed. *)
LateInv ==
    /\ CallsDiffer(stored)
    /\ late # <<>> => Lax
    /\ \A id \in Nat : Declares(late, id) => ~Declares(stored, id)
    /\ \A n \in DOMAIN Due, id \in Nat :
          Makes(Due[n], id) => ~Declares(stored, id) /\ ~Declares(late, id)
    /\ ~Lax => \A id \in Nat : Answers(stored, id) => Declares(stored, id)
ViewsInv ==
    /\ View(ctx, stored, scars) /\ Fit(ctx, Due)
    /\ View(events, stored, scars) /\ Fit(events, Due)
    /\ pc = "persist" => FitsBehind(events, Head(todo))
    /\ ~Lax => View(stored, stored, scars) /\ Fit(stored, Due)
(* Until the turn is dropped, a call that is not settled is about to be. *)
QuietInv ==
    pc # "backfill" =>
       \A id \in Nat : Declares(ctx, id) \/ Declares(events, id) \/ (~Lax /\ Declares(stored, id))
           => Settled(stored, scars, id) \/ Pending(id)
RequestInv == pc = "llm" /\ ~retried => Paired(request)
PairedInv == TypedHistories /\ TodoInv /\ LateInv /\ ViewsInv /\ QuietInv /\ RequestInv
PairInv == Mild => PairedInv

LEMMA InitPair == Init => PairInv
<1> SUFFICES ASSUME Init PROVE PairedInv
  BY DEF PairInv
<1>1. /\ stored = <<>> /\ events = <<>> /\ ctx = <<>> /\ late = <<>> /\ todo = <<>> /\ called = 0
      /\ pc = "idle"
  BY DEF Init
<1>2. DOMAIN <<>> = {} /\ Len(<<>>) = 0 /\ \A S : <<>> \in Seq(S)
  OBVIOUS
<1>3. Due = <<>> /\ ~Opens
  BY <1>1 DEF Due, Opens
<1>4. TypedHistories
  BY <1>1, <1>2 DEF TypedHistories
<1>5. CallsDiffer(<<>>) /\ Clustered(<<>>) /\ \A id : ~Declares(<<>>, id) /\ ~Answers(<<>>, id)
  BY <1>2 DEF Clustered, CallsDiffer, Near, Once, Declares, Answers
<1>6. TodoInv /\ LateInv /\ QuietInv /\ RequestInv
  BY <1>1, <1>2, <1>3, <1>5 DEF TodoInv, LateInv, QuietInv, RequestInv, InTodo
<1>7. ViewsInv
  BY <1>1, <1>2, <1>3, <1>5 DEF ViewsInv, View, Fit
<1> QED
  BY <1>4, <1>6, <1>7 DEF PairedInv

LEMMA PairUnchanged ==
    ASSUME PairedInv,
           UNCHANGED <<stored, events, ctx, late, todo, pc, after, called, scars, request, retried>>
    PROVE  PairedInv'
<1>1. Due' = Due /\ (Opens <=> Opens') /\ (Lax <=> Lax') /\ \A id : Pending(id) <=> Pending(id)'
  BY DEF Due, Opens, Lax, Pending
<1>2. TypedHistories' /\ TodoInv' /\ RequestInv'
  BY <1>1 DEF PairedInv, TypedHistories, TodoInv, RequestInv
<1>3. LateInv' /\ ViewsInv'
  BY <1>1 DEF PairedInv, LateInv, ViewsInv
<1>4. QuietInv'
  BY <1>1 DEF PairedInv, QuietInv
<1> QED
  BY <1>2, <1>3, <1>4 DEF PairedInv

--------------------------------------------------------------------------------
(* What the turn is about to append: its head, and what follows it.                   *)
LEMMA TodoFacts ==
    ASSUME PairedInv, pc \in InTodo
    PROVE  /\ called \in Nat /\ todo \in Seq(Messages(called)) /\ todo # <<>> /\ InLine(todo)
           /\ Head(todo) = todo[1] /\ Head(todo) \in Messages(called) /\ 1 \in DOMAIN todo
           /\ stored \in Seq(Messages(called)) /\ ctx \in Seq(Messages(called))
           /\ events \in Seq(Messages(called)) /\ late \in Seq(Messages(called))
           /\ \A n \in DOMAIN todo : IsResult(todo[n]) => Declares(stored, todo[n].answers)
           /\ after = "guard" => Tail(todo) = <<>> /\ ~IsResult(todo[1]) /\ Len(todo) = 1
           /\ after # "guard" => \A n \in DOMAIN todo : todo[n].calls = <<>>
<1>1. todo \in Seq(Messages(called)) /\ todo # <<>>
  BY DEF PairedInv, TypedHistories, TodoInv
<1>2. /\ Head(todo) = todo[1] /\ 1 \in DOMAIN todo /\ Head(todo) \in Messages(called)
      /\ Len(todo) = 1 => Tail(todo) = <<>>
  BY <1>1, HeadAndTail
<1> QED
  BY <1>1, <1>2 DEF PairedInv, TypedHistories, TodoInv

LEMMA SettledBefore ==
    ASSUME PairedInv, pc = "append", ~IsResult(Head(todo)), NEW id \in Nat,
           Declares(ctx, id) \/ Declares(events, id) \/ (~Lax /\ Declares(stored, id))
    PROVE  Settled(stored, scars, id)
<1>1. Due = todo /\ pc # "backfill" /\ pc \in InTodo
  BY DEF Due, InTodo
<1>2. /\ todo \in Seq(Messages(called)) /\ todo # <<>> /\ InLine(todo) /\ Head(todo) = todo[1]
      /\ 1 \in DOMAIN todo
  BY <1>1, TodoFacts
<1>3. ASSUME NEW n \in DOMAIN todo, IsResult(todo[n]) PROVE FALSE
  <2>1. n # 1 /\ n \in 1..Len(todo) /\ Len(todo) \in Nat
    BY <1>2, <1>3
  <2>2. 1 < Len(todo)
    BY <2>1
  <2> QED
    BY <1>2, <2>2 DEF InLine
<1>4. ~Pending(id)
  BY <1>1, <1>3 DEF Pending
<1> QED
  BY <1>1, <1>4 DEF PairedInv, QuietInv

(* The message log with the head of what is to be appended. *)
LEMMA LogGrows ==
    ASSUME PairedInv, pc = "append", NEW st, st = Append(stored, Head(todo))
    PROVE  /\ st \in Seq(Messages(called)) /\ Extends(stored, st)
           /\ \E n \in DOMAIN st : st[n] = Head(todo)
           /\ View(ctx, st, scars) /\ View(events, st, scars)
           /\ ~Lax => View(st, st, scars)
           /\ CallsDiffer(st)
           /\ \A id \in Nat : Declares(late, id) => ~Declares(st, id)
           /\ ~Lax => \A id \in Nat : Answers(st, id) => Declares(st, id)
           /\ \A id : Declares(st, id) <=> Declares(stored, id) \/ Makes(Head(todo), id)
           /\ \A id : Answers(st, id) <=> Answers(stored, id)
                                          \/ (IsResult(Head(todo)) /\ Head(todo).answers = id)
<1> DEFINE x == Head(todo)
<1>1. Due = todo /\ pc \in InTodo
  BY DEF Due, InTodo
<1>2. /\ called \in Nat /\ stored \in Seq(Messages(called)) /\ ctx \in Seq(Messages(called))
      /\ events \in Seq(Messages(called)) /\ x \in Messages(called) /\ x = todo[1] /\ 1 \in DOMAIN todo
      /\ \A n \in DOMAIN todo : IsResult(todo[n]) => Declares(stored, todo[n].answers)
  BY <1>1, TodoFacts
<1>3. /\ st \in Seq(Messages(called)) /\ DOMAIN stored = 1..Len(stored) /\ Len(stored) \in Nat
      /\ DOMAIN st = 1..(Len(stored) + 1) /\ st[Len(stored) + 1] = x
      /\ \A i \in DOMAIN stored : i \in DOMAIN st /\ st[i] = stored[i]
  BY <1>2, Appended
<1>4. Extends(stored, st) /\ \E n \in DOMAIN st : st[n] = x
  <2>1. Len(stored) + 1 \in DOMAIN st
    BY <1>3
  <2> QED
    BY <1>3, <2>1 DEF Extends
<1>5. /\ \A id : Declares(st, id) <=> Declares(stored, id) \/ Makes(x, id)
      /\ \A id : Answers(st, id) <=> Answers(stored, id) \/ (IsResult(x) /\ x.answers = id)
  BY <1>2, AppendedIds
<1>6. /\ View(ctx, stored, scars) /\ View(events, stored, scars)
      /\ ~Lax => View(stored, stored, scars) /\ Fit(stored, todo)
  BY <1>1 DEF PairedInv, ViewsInv
<1>7. /\ CallsDiffer(stored) /\ \A id \in Nat : Declares(late, id) => ~Declares(stored, id)
      /\ \A id \in Nat : Makes(x, id) => ~Declares(stored, id) /\ ~Declares(late, id)
      /\ ~Lax => \A id \in Nat : Answers(stored, id) => Declares(stored, id)
  BY <1>1, <1>2 DEF PairedInv, LateInv
<1> HIDE DEF x
<1>8. View(ctx, st, scars) /\ View(events, st, scars)
  BY <1>4, <1>6, ViewStays
<1>9. ASSUME ~Lax PROVE View(st, st, scars)
  <2>1. FitsBehind(stored, x)
    BY <1>2, <1>6, <1>9 DEF Fit
  <2>2. IsResult(x) \/ \A id \in Nat : Declares(stored, id) => Settled(st, scars, id)
    BY <1>4, <1>9, SettledBefore, SettledStays DEF x
  <2>3. View(Append(stored, x), st, scars)
    BY <1>2, <1>4, <1>6, <1>9, <2>1, <2>2, ViewAppended
  <2> QED
    BY <2>3 DEF x
<1>10. CallsDiffer(st)
  <2> SUFFICES ASSUME NEW i \in DOMAIN st, NEW j \in DOMAIN st, NEW id \in Nat,
                      Makes(st[i], id), Makes(st[j], id)
               PROVE  i = j
    BY DEF CallsDiffer
  <2>1. \A k \in DOMAIN st : k \in DOMAIN stored \/ k = Len(stored) + 1
    BY <1>3
  <2>2. \A k \in DOMAIN stored : Makes(stored[k], id) => Declares(stored, id)
    BY DEF Declares
  <2> QED
    BY <1>3, <1>7, <2>1, <2>2 DEF CallsDiffer
<1>11. \A id \in Nat : Declares(late, id) => ~Declares(st, id)
  BY <1>5, <1>7
<1>12. ASSUME ~Lax, NEW id \in Nat, Answers(st, id) PROVE Declares(st, id)
  BY <1>2, <1>5, <1>7, <1>12
<1> QED
  BY <1>3, <1>4, <1>5, <1>8, <1>9, <1>10, <1>11, <1>12 DEF x

(* The events with the message that is being persisted. *)
LEMMA EventGrows ==
    ASSUME PairedInv, pc = "persist"
    PROVE  /\ View(Append(events, Head(todo)), stored, scars)
           /\ Fit(Append(events, Head(todo)), Due)
<1> DEFINE x == Head(todo)
<1>1. pc \in InTodo /\ Due = IF after = "guard" THEN Results(ctx[Len(ctx)].calls) ELSE Tail(todo)
  BY DEF Due, Opens, InTodo
<1>2. /\ called \in Nat /\ events \in Seq(Messages(called)) /\ x \in Messages(called)
      /\ todo \in Seq(Messages(called)) /\ todo # <<>> /\ InLine(todo) /\ x = todo[1] /\ 1 \in DOMAIN todo
      /\ after = "guard" => Tail(todo) = <<>> /\ ~IsResult(todo[1]) /\ Len(todo) = 1
      /\ after # "guard" => \A n \in DOMAIN todo : todo[n].calls = <<>>
  BY <1>1, TodoFacts
<1>3. ctx[Len(ctx)] = x /\ \E n \in DOMAIN stored : stored[n] = x
  BY DEF PairedInv, TodoInv
<1>4. View(events, stored, scars) /\ Fit(events, Due) /\ FitsBehind(events, x)
  BY DEF PairedInv, ViewsInv
<1>5. CallsDiffer(events)
  BY <1>4 DEF View, Clustered
<1>6. Fit(Append(events, x), Due)
  <2>1. CASE after = "guard"
    BY <1>1, <1>2, <1>3, <1>4, <2>1, CallsFit
  <2>2. CASE after # "guard"
    BY <1>1, <1>2, <1>4, <1>5, <2>2, FitGoesOn
  <2> QED
    BY <2>1, <2>2
<1>7. ASSUME ~IsResult(x), NEW id \in Nat, Declares(events, id) PROVE Settled(stored, scars, id)
  <2>1. ~Pending(id)
    <3>1. CASE after = "guard"
      <4>0. Due = Results(x.calls)
        BY <1>1, <1>3, <3>1
      <4> HIDE DEF x
      <4>1. ~Makes(x, id)
        BY <1>4, <1>7 DEF FitsBehind
      <4>2. ~\E n \in DOMAIN Results(x.calls) :
                  IsResult(Results(x.calls)[n]) /\ Results(x.calls)[n].answers = id
        BY <1>2, <4>1, CallsAnswered
      <4> QED
        BY <4>0, <4>2 DEF Pending
    <3>2. CASE after # "guard"
      <4>1. ~(1 < Len(todo))
        BY <1>2, <1>7 DEF InLine
      <4>2. Tail(todo) = <<>> /\ DOMAIN <<>> = {}
        BY <1>2, <4>1, HeadAndTail
      <4> QED
        BY <1>1, <3>2, <4>2 DEF Pending
    <3> QED
      BY <3>1, <3>2
  <2> QED
    BY <1>7, <2>1 DEF PairedInv, QuietInv
<1>8. View(Append(events, x), stored, scars)
  <2>1. Extends(stored, stored)
    BY DEF Extends
  <2> HIDE DEF x
  <2> QED
    BY <1>2, <1>3, <1>4, <1>7, <2>1, ViewAppended
<1> QED
  BY <1>6, <1>8

--------------------------------------------------------------------------------
LEMMA AppendPair == PairedInv /\ AppendMessage => PairedInv'
<1> SUFFICES ASSUME PairedInv, AppendMessage PROVE PairedInv'
  OBVIOUS
<1> DEFINE x == Head(todo)
           D == IF after = "guard" THEN Results(x.calls) ELSE Tail(todo)
<1>1. /\ pc = "append" /\ pc' = "persist" /\ stored' = Append(stored, x) /\ ctx' = Append(ctx, x)
      /\ UNCHANGED <<events, late, todo, after, called, scars>>
  BY DEF AppendMessage
<1>2. pc \in InTodo /\ Due = todo
  BY <1>1 DEF InTodo, Due
<1>3. /\ called \in Nat /\ stored \in Seq(Messages(called)) /\ ctx \in Seq(Messages(called))
      /\ events \in Seq(Messages(called)) /\ late \in Seq(Messages(called))
      /\ todo \in Seq(Messages(called)) /\ todo # <<>> /\ InLine(todo)
      /\ x \in Messages(called) /\ x = todo[1] /\ 1 \in DOMAIN todo
      /\ \A n \in DOMAIN todo : IsResult(todo[n]) => Declares(stored, todo[n].answers)
      /\ after = "guard" => Tail(todo) = <<>> /\ ~IsResult(todo[1]) /\ Len(todo) = 1
      /\ after # "guard" => \A n \in DOMAIN todo : todo[n].calls = <<>>
  BY <1>2, TodoFacts
<1>4. /\ stored' \in Seq(Messages(called)) /\ Extends(stored, stored')
      /\ \E n \in DOMAIN stored' : stored'[n] = x
      /\ View(ctx, stored', scars) /\ View(events, stored', scars)
      /\ ~Lax => View(stored', stored', scars)
      /\ CallsDiffer(stored')
      /\ \A id \in Nat : Declares(late, id) => ~Declares(stored', id)
      /\ ~Lax => \A id \in Nat : Answers(stored', id) => Declares(stored', id)
      /\ \A id : Declares(stored', id) <=> Declares(stored, id) \/ Makes(x, id)
      /\ \A id : Answers(stored', id) <=> Answers(stored, id) \/ (IsResult(x) /\ x.answers = id)
  BY <1>1, LogGrows
<1>5. ctx' \in Seq(Messages(called)) /\ ctx' # <<>> /\ ctx'[Len(ctx')] = x
      /\ \A id : Declares(ctx', id) <=> Declares(ctx, id) \/ Makes(x, id)
  <2> HIDE DEF x
  <2>1. /\ ctx' \in Seq(Messages(called)) /\ Len(ctx') = Len(ctx) + 1 /\ Len(ctx) \in Nat
        /\ ctx'[Len(ctx) + 1] = x
    BY <1>1, <1>3
  <2>2. Len(<<>>) = 0
    OBVIOUS
  <2>3. \A id : Declares(Append(ctx, x), id) <=> Declares(ctx, id) \/ Makes(x, id)
    BY <1>3, AppendedIds
  <2>4. ctx' # <<>>
    BY <2>1, <2>2
  <2> QED
    BY <1>1, <2>1, <2>3, <2>4
<1>6. Due' = D /\ (Opens' <=> after = "guard")
  BY <1>1, <1>5 DEF Due, Opens
<1>7. /\ D \in Seq(Messages(called))
      /\ \A n \in DOMAIN D : D[n].calls = <<>>
      /\ \A n \in DOMAIN D : ~\E id : Makes(D[n], id)
  <2>1. CASE after = "guard"
    <3> HIDE DEF x
    <3>1. D = Results(x.calls)
      BY <2>1
    <3>2. /\ Results(x.calls) \in Seq(Messages(called))
          /\ \A n \in DOMAIN Results(x.calls) : Results(x.calls)[n].calls = <<>>
      BY <1>3, CallsInLine
    <3> HIDE DEF D
    <3> QED
      BY <3>1, <3>2 DEF Makes
  <2>2. CASE after # "guard"
    <3>1. \A n \in DOMAIN Tail(todo) : n + 1 \in DOMAIN todo /\ Tail(todo)[n] = todo[n + 1]
      BY <1>3, HeadAndTail
    <3>2. Tail(todo) \in Seq(Messages(called))
      BY <1>3
    <3> QED
      BY <1>3, <2>2, <3>1, <3>2 DEF Makes
  <2> QED
    BY <2>1, <2>2
<1>8. ASSUME NEW s \in Seq(Messages(called)), CallsDiffer(s), Fit(s, todo)
      PROVE  FitsBehind(s, x) /\ Fit(s, D) /\ Fit(Append(s, x), D)
  <2>1. FitsBehind(s, x)
    BY <1>3, <1>8 DEF Fit
  <2>2. CASE after = "guard"
    BY <1>3, <2>1, <2>2, CallsFit
  <2>3. CASE after # "guard"
    <3>1. \A n \in DOMAIN Tail(todo) : n + 1 \in DOMAIN todo /\ Tail(todo)[n] = todo[n + 1]
      BY <1>3, HeadAndTail
    <3>2. Fit(s, Tail(todo))
      BY <1>8, <3>1 DEF Fit
    <3> QED
      BY <1>3, <1>8, <2>1, <2>3, <3>2, FitGoesOn
  <2> QED
    BY <2>1, <2>2, <2>3
<1>9. /\ View(ctx, stored, scars) /\ Fit(ctx, todo) /\ View(events, stored, scars) /\ Fit(events, todo)
      /\ ~Lax => View(stored, stored, scars) /\ Fit(stored, todo)
  BY <1>2 DEF PairedInv, ViewsInv
<1>10. /\ CallsDiffer(ctx) /\ CallsDiffer(events) /\ (~Lax => CallsDiffer(stored))
  BY <1>9 DEF View, Clustered
<1> HIDE DEF D
<1>11. TypedHistories'
  BY <1>1, <1>3, <1>4, <1>5 DEF TypedHistories, PairedInv
<1>12. TodoInv'
  BY <1>1, <1>3, <1>4, <1>5, <1>6 DEF TodoInv, InTodo
<1>13. LateInv'
  <2>1. (late # <<>> => Lax) /\ (Lax <=> Lax')
    BY <1>1 DEF PairedInv, LateInv, Lax
  <2> QED
    BY <1>1, <1>4, <1>6, <1>7, <2>1 DEF LateInv
<1>14. View(ctx', stored', scars')
  <2>1. IsResult(x) \/ \A id \in Nat : Declares(ctx, id) => Settled(stored', scars, id)
    BY <1>1, <1>4, SettledBefore, SettledStays
  <2>2. FitsBehind(ctx, x)
    BY <1>3, <1>8, <1>9, <1>10
  <2>3. View(Append(ctx, x), stored', scars)
    BY <1>3, <1>4, <1>9, <2>1, <2>2, ViewAppended
  <2> QED
    BY <1>1, <2>3
<1>15. ViewsInv'
  <2>1. Fit(ctx', D) /\ Fit(events, D) /\ FitsBehind(events, x)
    BY <1>1, <1>3, <1>8, <1>9, <1>10
  <2>2. ~Lax => Fit(stored', D)
    BY <1>1, <1>3, <1>8, <1>9, <1>10
  <2>3. Lax <=> Lax'
    BY <1>1 DEF Lax
  <2> QED
    BY <1>1, <1>4, <1>6, <1>14, <2>1, <2>2, <2>3 DEF ViewsInv
<1>16. QuietInv'
  <2> SUFFICES ASSUME NEW id \in Nat,
                      Declares(ctx', id) \/ Declares(events', id) \/ (~Lax' /\ Declares(stored', id))
               PROVE  Settled(stored', scars', id) \/ Pending(id)'
    BY DEF QuietInv
  <2>1. CASE Makes(x, id)
    <3>1. after = "guard"
      BY <1>3, <2>1 DEF Makes
    <3>2. Due' = Results(x.calls)
      BY <1>6, <3>1 DEF D
    <3> HIDE DEF x
    <3>3. \E n \in DOMAIN Results(x.calls) :
              IsResult(Results(x.calls)[n]) /\ Results(x.calls)[n].answers = id
      <4>1. called \in Nat /\ x \in Messages(called)
        BY <1>3
      <4> QED
        BY <2>1, <4>1, CallsAnswered
    <3> QED
      BY <3>2, <3>3 DEF Pending
  <2>2. CASE ~Makes(x, id)
    <3>1. Settled(stored, scars, id) \/ Pending(id)
      <4>1. Declares(ctx, id) \/ Declares(events, id) \/ (~Lax /\ Declares(stored, id))
        BY <1>1, <1>4, <1>5, <2>2 DEF Lax
      <4> QED
        BY <1>1, <4>1 DEF PairedInv, QuietInv
    <3>2. CASE Settled(stored, scars, id)
      BY <1>1, <1>4, <3>2, SettledStays
    <3>3. CASE Pending(id)
      <4>1. PICK n \in DOMAIN todo : IsResult(todo[n]) /\ todo[n].answers = id
        BY <1>2, <3>3 DEF Pending
      <4>2. CASE n = 1
        BY <1>1, <1>3, <1>4, <4>1, <4>2 DEF Settled
      <4>3. CASE n # 1
        <5>1. n \in 1..Len(todo) /\ Len(todo) \in Nat
          BY <1>3
        <5>2. after # "guard"
          BY <1>3, <4>3, <5>1
        <5>3. Due' = Tail(todo)
          BY <1>6, <5>2 DEF D
        <5>4. n - 1 \in DOMAIN Tail(todo) /\ (n - 1) + 1 = n
          BY <1>3, <4>3, <5>1, HeadAndTail
        <5>5. Tail(todo)[n - 1] = todo[n]
          BY <1>3, <5>4, HeadAndTail
        <5> QED
          BY <4>1, <5>3, <5>4, <5>5 DEF Pending
      <4> QED
        BY <4>2, <4>3
    <3> QED
      BY <3>1, <3>2, <3>3
  <2> QED
    BY <2>1, <2>2
<1>17. RequestInv'
  BY <1>1 DEF RequestInv
<1> QED
  BY <1>11, <1>12, <1>13, <1>15, <1>16, <1>17 DEF PairedInv

(* Where what is about to be appended stays the same, so does what it has to fit behind. *)
LEMMA DueKept ==
    ASSUME PairedInv, UNCHANGED <<stored, events, ctx, late, called, scars>>, Due' = Due,
           pc # "backfill", pc' \notin {"persist", "llm"},
           todo' \in Seq(Messages(called)), TodoInv'
    PROVE  PairedInv'
<1>1. (Lax <=> Lax') /\ \A id : Pending(id) <=> Pending(id)'
  BY DEF Lax, Pending
<1>2. TypedHistories' /\ RequestInv'
  BY DEF PairedInv, TypedHistories, RequestInv
<1>3. LateInv' /\ ViewsInv'
  BY <1>1 DEF PairedInv, LateInv, ViewsInv
<1>4. QuietInv'
  BY <1>1 DEF PairedInv, QuietInv
<1> QED
  BY <1>2, <1>3, <1>4 DEF PairedInv

LEMMA PersistPair == ControlInv /\ PairedInv /\ PersistMessage => PairedInv'
<1> SUFFICES ASSUME ControlInv, PairedInv, PersistMessage PROVE PairedInv'
  OBVIOUS
<1> DEFINE x == Head(todo)
<1>1. /\ pc = "persist" /\ pc' = (IF Tail(todo) = <<>> THEN after ELSE "append")
      /\ todo' = Tail(todo) /\ after' = after
      /\ events' = Append(events, x) \/ events' = events
      /\ UNCHANGED <<stored, ctx, late, called>>
      /\ scars' = scars \/ scars' = scars \union {"event"}
  BY DEF PersistMessage, Persisting, Fault
<1>2. pc \in InTodo /\ after \in {"build", "reply", "guard", "finish", "step"}
  BY <1>1 DEF ControlInv, InTodo, Afters
<1>3. /\ called \in Nat /\ stored \in Seq(Messages(called)) /\ ctx \in Seq(Messages(called))
      /\ events \in Seq(Messages(called)) /\ x \in Messages(called) /\ x = todo[1] /\ 1 \in DOMAIN todo
      /\ todo \in Seq(Messages(called)) /\ todo # <<>> /\ InLine(todo)
      /\ \A n \in DOMAIN todo : IsResult(todo[n]) => Declares(stored, todo[n].answers)
      /\ after = "guard" => Tail(todo) = <<>>
      /\ after # "guard" => \A n \in DOMAIN todo : todo[n].calls = <<>>
  BY <1>2, TodoFacts
<1>4. ctx[Len(ctx)] = x /\ (after = "guard" => ctx # <<>>)
  BY <1>1 DEF PairedInv, TodoInv, Opens
<1>5. Due' = Due
  BY <1>1, <1>2, <1>3 DEF Due, Opens
<1>6. (Lax <=> Lax') /\ scars \subseteq scars' /\ \A id : Pending(id) <=> Pending(id)'
  BY <1>1, <1>5 DEF Lax, Pending
<1>7. /\ \A n \in DOMAIN Tail(todo) : n + 1 \in DOMAIN todo /\ Tail(todo)[n] = todo[n + 1]
      /\ Tail(todo) \in Seq(Messages(called)) /\ InLine(Tail(todo))
  BY <1>3, HeadAndTail, TailInLine
<1>8. events' \in Seq(Messages(called))
  <2> HIDE DEF x
  <2>1. events \in Seq(Messages(called)) /\ x \in Messages(called)
    BY <1>3
  <2>2. Append(events, x) \in Seq(Messages(called))
    BY <2>1
  <2> QED
    BY <1>1, <2>1, <2>2
<1>9. TypedHistories'
  BY <1>1, <1>7, <1>8 DEF PairedInv, TypedHistories
<1>10. TodoInv'
  <2>1. pc' # "persist" /\ (pc' \in InTodo => Tail(todo) # <<>> /\ after # "guard")
    BY <1>1, <1>2, <1>3 DEF InTodo
  <2>2. Opens' => ctx # <<>>
    BY <1>1, <1>2, <1>4 DEF Opens
  <2> QED
    BY <1>1, <1>3, <1>7, <2>1, <2>2 DEF TodoInv
<1>11. LateInv'
  BY <1>1, <1>5, <1>6 DEF PairedInv, LateInv
<1>12. Extends(stored, stored)
  BY DEF Extends
<1>13. /\ View(Append(events, x), stored, scars) /\ Fit(Append(events, x), Due)
       /\ View(events, stored, scars) /\ Fit(events, Due)
       /\ View(ctx, stored, scars) /\ Fit(ctx, Due)
       /\ ~Lax => View(stored, stored, scars) /\ Fit(stored, Due)
  BY <1>1, EventGrows DEF PairedInv, ViewsInv
<1>14. View(events', stored, scars) /\ Fit(events', Due)
  BY <1>1, <1>13
<1>15. ViewsInv'
  <2>1. View(ctx, stored, scars') /\ View(events', stored, scars')
    BY <1>6, <1>12, <1>13, <1>14, ViewStays
  <2>2. ~Lax => View(stored, stored, scars')
    BY <1>6, <1>12, <1>13, ViewStays
  <2>3. pc' # "persist"
    BY <1>1, <1>2
  <2> QED
    BY <1>1, <1>5, <1>6, <1>13, <1>14, <2>1, <2>2, <2>3 DEF ViewsInv
<1>16. ASSUME NEW id \in Nat, Declares(events', id)
       PROVE  Declares(ctx, id) \/ Declares(events, id)
  <2>1. Declares(events, id) \/ Makes(x, id)
    <3> HIDE DEF x
    <3>1. events \in Seq(Messages(called)) /\ x \in Messages(called)
      BY <1>3
    <3>2. Declares(Append(events, x), id) <=> Declares(events, id) \/ Makes(x, id)
      BY <3>1, AppendedIds
    <3> QED
      BY <1>1, <1>16, <3>2
  <2>2. CASE Makes(x, id)
    <3>1. after = "guard"
      BY <1>3, <2>2 DEF Makes
    <3>2. Len(ctx) \in DOMAIN ctx
      BY <1>3, <1>4, <3>1
    <3> QED
      BY <1>4, <2>2, <3>2 DEF Declares
  <2> QED
    BY <2>1, <2>2
<1>17. QuietInv'
  <2> SUFFICES ASSUME NEW id \in Nat,
                      Declares(ctx', id) \/ Declares(events', id) \/ (~Lax' /\ Declares(stored', id))
               PROVE  Settled(stored', scars', id) \/ Pending(id)'
    BY DEF QuietInv
  <2>1. Settled(stored, scars, id) \/ Pending(id)
    BY <1>1, <1>6, <1>16 DEF PairedInv, QuietInv
  <2> QED
    BY <1>1, <1>6, <1>12, <2>1, SettledStays
<1>18. RequestInv'
  BY <1>1, <1>2 DEF RequestInv
<1> QED
  BY <1>9, <1>10, <1>11, <1>15, <1>17, <1>18 DEF PairedInv

--------------------------------------------------------------------------------
(* Messages that neither call nor answer fit anywhere. *)
LEMMA PlainFits ==
    ASSUME NEW due \in {<<>>, <<Text>>, <<User>>}
    PROVE  /\ InLine(due) /\ \A s : Fit(s, due)
           /\ \A n \in DOMAIN due : due[n].calls = <<>> /\ ~IsResult(due[n]) /\ \A id : ~Makes(due[n], id)
           /\ due \in Seq(Messages(called)) \/ called \notin Nat
<1>1. \A n \in DOMAIN due : due[n] \in {Text, User}
  OBVIOUS
<1>2. Text.calls = <<>> /\ User.calls = <<>> /\ ~IsResult(Text) /\ ~IsResult(User)
  BY DEF Text, User, IsResult
<1>3. \A id : ~Makes(Text, id) /\ ~Makes(User, id)
  BY <1>2 DEF Makes
<1>4. \A n \in DOMAIN due : due[n].calls = <<>> /\ ~IsResult(due[n]) /\ \A id : ~Makes(due[n], id)
  BY <1>1, <1>2, <1>3
<1>5. \A s : Fit(s, due)
  BY <1>4 DEF Fit, FitsBehind
<1>6. \A n \in DOMAIN due : ~(n < Len(due))
  OBVIOUS
<1>7. InLine(due)
  BY <1>4, <1>6 DEF InLine
<1>8. called \in Nat => due \in Seq(Messages(called))
  <2>1. called \in Nat => Text \in Messages(called) /\ User \in Messages(called)
    BY PlainMessages
  <2>2. CASE due = <<>>
    BY <2>2
  <2>3. CASE due = <<Text>>
    BY <2>1, <2>3
  <2>4. CASE due = <<User>>
    BY <2>1, <2>4
  <2> QED
    BY <2>2, <2>3, <2>4
<1> QED
  BY <1>4, <1>5, <1>7, <1>8

(* A step of the turn that appends nothing, or that is about to append such a message. *)
LEMMA PlainStep ==
    ASSUME PairedInv, UNCHANGED <<stored, events, ctx, late, called, scars>>,
           pc \notin {"append", "persist", "guard", "tools", "backfill"},
           todo' \in {todo, <<>>, <<Text>>, <<User>>},
           \/ pc' \in {"idle", "build", "failed", "ended", "rebuild"}
           \/ pc' = "append" /\ todo' \in {<<Text>>, <<User>>} /\ after' # "guard"
    PROVE  PairedInv'
<1>1. Due = <<>> /\ Due' \in {<<>>, <<Text>>, <<User>>} /\ ~Opens' /\ pc' # "persist"
      /\ (pc' = "append" => Due' = todo')
  BY DEF Due, Opens
<1>2. /\ InLine(Due') /\ \A s : Fit(s, Due')
      /\ \A n \in DOMAIN Due' : Due'[n].calls = <<>> /\ ~IsResult(Due'[n]) /\ \A id : ~Makes(Due'[n], id)
  BY <1>1, PlainFits
<1>3. (Lax <=> Lax') /\ \A id : ~Pending(id)
  <2>1. DOMAIN <<>> = {}
    OBVIOUS
  <2> QED
    BY <1>1, <2>1 DEF Lax, Pending
<1>4. TypedHistories'
  <2>1. called \in Nat
    BY DEF PairedInv, TypedHistories
  <2>2. todo' \in Seq(Messages(called))
    BY <2>1, PlainFits DEF PairedInv, TypedHistories
  <2> QED
    BY <2>2 DEF PairedInv, TypedHistories
<1>5. TodoInv'
  <2>1. pc' \in InTodo => pc' = "append" /\ todo' \in {<<Text>>, <<User>>} /\ after' # "guard"
    BY <1>1 DEF InTodo
  <2>2. <<Text>> # <<>> /\ <<User>> # <<>>
    OBVIOUS
  <2> QED
    BY <1>1, <1>2, <2>1, <2>2 DEF TodoInv
<1>6. LateInv' /\ ViewsInv'
  <2>1. LateInv'
    BY <1>2, <1>3 DEF PairedInv, LateInv
  <2>2. ViewsInv'
    BY <1>1, <1>2, <1>3 DEF PairedInv, ViewsInv
  <2> QED
    BY <2>1, <2>2
<1>7. QuietInv'
  BY <1>3 DEF PairedInv, QuietInv
<1>8. RequestInv'
  BY DEF RequestInv
<1> QED
  BY <1>4, <1>5, <1>6, <1>7, <1>8 DEF PairedInv

LEMMA PlainSteps ==
    ASSUME PairedInv, ControlInv,
           StartTurn \/ TooManyIters \/ Reply \/ StepEnds \/ Fail \/ Finish \/ Deactivate \/ RebuildToken
    PROVE  PairedInv'
<1>1. UNCHANGED <<stored, events, ctx, late, called, scars>>
  BY DEF StartTurn, TooManyIters, Reply, StepEnds, Fail, Finish, Deactivate, RebuildToken, histories, bounds
<1>2. pc \notin {"append", "persist", "guard", "tools", "backfill"}
  BY DEF StartTurn, TooManyIters, Reply, StepEnds, Fail, Finish, Deactivate, RebuildToken
<1>3. /\ todo' \in {todo, <<>>, <<Text>>, <<User>>}
      /\ \/ pc' \in {"idle", "build", "failed", "ended", "rebuild"}
         \/ pc' = "append" /\ todo' \in {<<Text>>, <<User>>} /\ after' # "guard"
  <2>1. <<Text>> # <<>> /\ <<User>> # <<>>
    OBVIOUS
  <2> QED
    BY <2>1 DEF StartTurn, TooManyIters, Reply, StepEnds, Fail, Finish, Deactivate, RebuildToken,
                Persisting, AtRest
<1> QED
  BY <1>1, <1>2, <1>3, PlainStep

--------------------------------------------------------------------------------
(* The calls that are about to be answered are those of the last message of the context. *)
LEMMA LastCalls ==
    ASSUME PairedInv, ctx # <<>>
    PROVE  /\ called \in Nat /\ ctx[Len(ctx)] \in Messages(called)
           /\ \A id \in Nat : Makes(ctx[Len(ctx)], id) => Declares(stored, id)
<1>1. called \in Nat /\ ctx \in Seq(Messages(called))
  BY DEF PairedInv, TypedHistories
<1>2. Len(ctx) \in DOMAIN ctx /\ ctx[Len(ctx)] \in Messages(called)
  BY <1>1
<1>3. ctx[Len(ctx)] = Text \/ \E n \in DOMAIN stored : stored[n] = ctx[Len(ctx)]
  BY <1>2 DEF PairedInv, ViewsInv, View
<1>4. \A id : ~Makes(Text, id)
  BY PlainMessages, <1>1 DEF Makes
<1> QED
  BY <1>1, <1>2, <1>3, <1>4 DEF Declares

LEMMA ToolsPair ==
    ASSUME PairedInv, ToolsFinish PROVE PairedInv'
<1> DEFINE m == ctx[Len(ctx)]
           r == Results(m.calls)
<1>1. /\ pc = "tools" /\ UNCHANGED <<stored, events, ctx, late, called, scars>>
      /\ todo' = r /\ after' = "step" /\ pc' = IF r = <<>> THEN "step" ELSE "append"
  BY DEF ToolsFinish, Persisting, histories, bounds, Last
<1>2. ctx # <<>> /\ Due = r
  BY <1>1 DEF PairedInv, TodoInv, Opens, Due
<1>3. /\ called \in Nat /\ m \in Messages(called)
      /\ \A id \in Nat : Makes(m, id) => Declares(stored, id)
  BY <1>2, LastCalls
<1> HIDE DEF m
<1>4. /\ r \in Seq(Messages(called)) /\ InLine(r)
      /\ \A n \in DOMAIN r : r[n].calls = <<>> /\ IsResult(r[n])
  BY <1>3, CallsInLine
<1>5. ASSUME NEW n \in DOMAIN r PROVE Declares(stored, r[n].answers)
  <2>1. Makes(m, r[n].answers)
    BY <1>3, <1>4, CallsAnswered
  <2>2. r[n].answers \in Nat
    BY <1>3, <2>1, MessageFacts
  <2> QED
    BY <1>3, <2>1, <2>2
<1> HIDE DEF r
<1>6. Due' = Due /\ ~Opens'
  BY <1>1, <1>2 DEF Due, Opens
<1>7. TodoInv'
  BY <1>1, <1>4, <1>5, <1>6 DEF TodoInv, InTodo
<1>8. pc # "backfill" /\ pc' \notin {"persist", "llm"} /\ todo' \in Seq(Messages(called))
  BY <1>1, <1>4
<1> QED
  BY <1>1, <1>6, <1>7, <1>8, DueKept

LEMMA GuardPair ==
    ASSUME PairedInv, RepeatGuard, Mild' PROVE PairedInv'
<1>1. /\ pc = "guard" /\ pc' = "tools" /\ UNCHANGED <<stored, events, ctx, late, called, scars, todo, after>>
  BY DEF RepeatGuard, Mild, histories, bounds
<1>2. Due' = Due /\ Opens /\ Opens'
  BY <1>1 DEF Due, Opens
<1>3. TodoInv'
  BY <1>1, <1>2 DEF PairedInv, TodoInv, InTodo
<1>4. todo' \in Seq(Messages(called))
  BY <1>1 DEF PairedInv, TypedHistories
<1> QED
  BY <1>1, <1>2, <1>3, <1>4, DueKept

--------------------------------------------------------------------------------
(* The ids of new calls are those of no message yet. *)
LEMMA NewIds ==
    ASSUME NEW c \in Nat, NEW n \in Nat, NEW s \in Seq(Messages(c)),
           NEW x, \A id : Makes(x, id) => id \in (c + 1)..(c + n), ~IsResult(x)
    PROVE  /\ \A id : Makes(x, id) => ~Declares(s, id) /\ ~Answers(s, id)
           /\ FitsBehind(s, x)
<1>1. \A i \in DOMAIN s : s[i] \in Messages(c)
  OBVIOUS
<1>2. ASSUME NEW id, Declares(s, id) \/ Answers(s, id) PROVE id \in 0..c
  BY <1>1, <1>2, MessageFacts DEF Declares, Answers
<1>3. \A id \in 0..c : id \notin (c + 1)..(c + n)
  OBVIOUS
<1> QED
  BY <1>2, <1>3 DEF FitsBehind

LEMMA CallingIs ==
    ASSUME NEW c \in Nat, NEW n \in Nat
    PROVE  /\ Calling([k \in 1..n |-> c + k]) \in Messages(c + n)
           /\ \A id : Makes(Calling([k \in 1..n |-> c + k]), id) => id \in (c + 1)..(c + n)
           /\ ~IsResult(Calling([k \in 1..n |-> c + k]))
<1> DEFINE ids == [k \in 1..n |-> c + k]
<1>1. /\ DOMAIN ids = 1..n /\ \A k \in 1..n : ids[k] = c + k /\ c + k \in 1..(c + n) /\ c + k \in (c + 1)..(c + n)
  OBVIOUS
<1>2. ids \in Seq(1..(c + n))
  BY <1>1
<1>3. \A k, l \in DOMAIN ids : ids[k] = ids[l] => k = l
  OBVIOUS
<1> HIDE DEF ids
<1>4. Calling(ids).role = "assistant" /\ Calling(ids).calls = ids /\ Calling(ids).answers = 0
  BY DEF Calling
<1>5. Calling(ids) \in [role : {"user", "assistant", "tool"}, calls : Seq(1..(c + n)), answers : 0..(c + n)]
  BY <1>2 DEF Calling
<1>6. Calling(ids) \in Messages(c + n)
  BY <1>3, <1>4, <1>5 DEF Messages
<1> QED
  BY <1>1, <1>4, <1>6 DEF ids, Makes, IsResult

LEMMA CallPair ==
    ASSUME PairedInv, Call PROVE PairedInv'
<1>1. PICK n \in 1..MaxCalls :
          /\ Persisting(<<Calling([k \in 1..n |-> called + k])>>, "guard")
          /\ called' = called + n
  BY DEF Call
<1> DEFINE x == Calling([k \in 1..n |-> called + k])
<1>2. /\ pc = "llm" /\ UNCHANGED <<stored, events, ctx, late, scars>>
  BY DEF Call, histories, bounds
<1>3. /\ called \in Nat /\ stored \in Seq(Messages(called)) /\ ctx \in Seq(Messages(called))
      /\ events \in Seq(Messages(called)) /\ late \in Seq(Messages(called))
  BY DEF PairedInv, TypedHistories
<1>4. n \in Nat /\ called' \in Nat /\ called <= called'
  BY <1>1, <1>3, TurnAssumption
<1>5. x \in Messages(called') /\ ~IsResult(x) /\ \A id : Makes(x, id) => id \in (called + 1)..(called + n)
  BY <1>1, <1>3, <1>4, CallingIs
<1>6. todo' = <<x>> /\ after' = "guard" /\ pc' = "append"
  <2>1. <<x>> # <<>>
    OBVIOUS
  <2> QED
    BY <1>1, <2>1 DEF Persisting
<1> HIDE DEF x
<1>7. Due = <<>> /\ Due' = <<x>> /\ ~Opens' /\ DOMAIN <<x>> = {1} /\ DOMAIN <<>> = {} /\ Len(<<x>>) = 1
  BY <1>2, <1>6 DEF Due, Opens
<1>8. Seq(Messages(called)) \subseteq Seq(Messages(called'))
  BY <1>3, <1>4, MessagesGrow
<1>9. TypedHistories'
  <2>1. <<x>> \in Seq(Messages(called'))
    BY <1>5
  <2>2. Len(late) <= 1
    BY DEF PairedInv, TypedHistories
  <2> QED
    BY <1>2, <1>3, <1>4, <1>6, <1>8, <2>1, <2>2 DEF TypedHistories
<1>10. /\ \A id : Makes(x, id) => ~Declares(stored, id) /\ ~Declares(late, id)
       /\ FitsBehind(stored, x) /\ FitsBehind(ctx, x) /\ FitsBehind(events, x)
  BY <1>3, <1>4, <1>5, NewIds
<1>11. TodoInv'
  <2>1. InLine(<<x>>)
    BY <1>7 DEF InLine
  <2>2. <<x>> # <<>> /\ <<x>>[1] = x
    OBVIOUS
  <2> QED
    BY <1>5, <1>6, <1>7, <2>1, <2>2 DEF TodoInv, InTodo
<1>12. Lax <=> Lax'
  BY <1>2 DEF Lax
<1>13. <<x>>[1] = x
  OBVIOUS
<1>14. LateInv'
  BY <1>2, <1>7, <1>10, <1>12, <1>13 DEF PairedInv, LateInv
<1>15. ViewsInv'
  BY <1>2, <1>6, <1>7, <1>10, <1>12, <1>13 DEF PairedInv, ViewsInv, Fit
<1>16. QuietInv'
  BY <1>2, <1>7, <1>12 DEF PairedInv, QuietInv, Pending
<1>17. RequestInv'
  BY <1>6 DEF RequestInv
<1> QED
  BY <1>9, <1>11, <1>14, <1>15, <1>16, <1>17 DEF PairedInv

--------------------------------------------------------------------------------
(* A dropped turn leaves nothing to append but what the backfill finds. *)
LEMMA DropPair ==
    ASSUME PairedInv, Drop PROVE PairedInv'
<1> DEFINE x == Head(todo)
<1>1. /\ UNCHANGED <<ctx, called>> /\ pc' = "backfill" /\ todo' = <<>> /\ scars \subseteq scars'
      /\ \/ UNCHANGED <<stored, events, late, scars>>
         \/ /\ pc = "append" /\ stored' = Append(stored, x) /\ UNCHANGED <<events, late, scars>>
         \/ /\ pc = "append" /\ late = <<>> /\ late' = <<x>> /\ scars' = scars \union {"late"}
            /\ UNCHANGED <<stored, events>>
         \/ /\ pc = "persist" /\ events' = Append(events, x) /\ UNCHANGED <<stored, late, scars>>
  BY DEF Drop, Fault
<1>2. Due' = <<>> /\ ~Opens' /\ DOMAIN <<>> = {}
  BY <1>1 DEF Due, Opens
<1>3. TodoInv' /\ QuietInv' /\ RequestInv'
  BY <1>1, <1>2 DEF TodoInv, QuietInv, RequestInv, InTodo
<1>4. /\ called \in Nat /\ stored \in Seq(Messages(called)) /\ ctx \in Seq(Messages(called))
      /\ events \in Seq(Messages(called)) /\ late \in Seq(Messages(called)) /\ Len(late) <= 1
      /\ todo \in Seq(Messages(called))
  BY DEF PairedInv, TypedHistories
<1>5. /\ CallsDiffer(stored) /\ (late # <<>> => Lax)
      /\ \A id \in Nat : Declares(late, id) => ~Declares(stored, id)
      /\ ~Lax => \A id \in Nat : Answers(stored, id) => Declares(stored, id)
  BY DEF PairedInv, LateInv
<1>6. /\ View(ctx, stored, scars) /\ View(events, stored, scars)
      /\ ~Lax => View(stored, stored, scars)
  BY DEF PairedInv, ViewsInv
<1>7. \A s : Fit(s, Due')
  BY <1>2 DEF Fit
<1>8. CASE UNCHANGED <<stored, events, late, scars>>
  <2>1. TypedHistories'
    <3>1. <<>> \in Seq(Messages(called))
      OBVIOUS
    <3> QED
      BY <1>1, <1>4, <1>8, <3>1 DEF TypedHistories
  <2>2. LateInv' /\ ViewsInv'
    <3>1. Lax <=> Lax'
      BY <1>8 DEF Lax
    <3>2. LateInv'
      BY <1>2, <1>5, <1>8, <3>1 DEF LateInv
    <3>3. ViewsInv'
      BY <1>1, <1>6, <1>7, <1>8, <3>1 DEF ViewsInv
    <3> QED
      BY <3>2, <3>3
  <2> QED
    BY <1>3, <2>1, <2>2 DEF PairedInv
<1>9. CASE pc = "append" /\ stored' = Append(stored, x) /\ UNCHANGED <<events, late, scars>>
  <2>1. /\ stored' \in Seq(Messages(called))
        /\ View(ctx, stored', scars) /\ View(events, stored', scars)
        /\ ~Lax => View(stored', stored', scars)
        /\ CallsDiffer(stored')
        /\ \A id \in Nat : Declares(late, id) => ~Declares(stored', id)
        /\ ~Lax => \A id \in Nat : Answers(stored', id) => Declares(stored', id)
    BY <1>9, LogGrows
  <2>2. Lax <=> Lax'
    BY <1>9 DEF Lax
  <2>3. TypedHistories'
    <3>1. <<>> \in Seq(Messages(called))
      OBVIOUS
    <3> QED
      BY <1>1, <1>4, <1>9, <2>1, <3>1 DEF TypedHistories
  <2>4. LateInv'
    BY <1>2, <1>5, <1>9, <2>1, <2>2 DEF LateInv
  <2>5. ViewsInv'
    BY <1>1, <1>7, <1>9, <2>1, <2>2 DEF ViewsInv
  <2> QED
    BY <1>3, <2>3, <2>4, <2>5 DEF PairedInv
<1>10. CASE /\ pc = "append" /\ late = <<>> /\ late' = <<x>> /\ scars' = scars \union {"late"}
            /\ UNCHANGED <<stored, events>>
  <2>1. Lax' /\ Due = todo /\ pc \in InTodo
    BY <1>10 DEF Lax, Due, InTodo
  <2>2. x \in Messages(called) /\ 1 \in DOMAIN todo /\ x = todo[1]
    BY <2>1, TodoFacts
  <2>3. \A id \in Nat : Makes(x, id) => ~Declares(stored, id)
    BY <2>1, <2>2 DEF PairedInv, LateInv
  <2> HIDE DEF x
  <2>4. <<x>> \in Seq(Messages(called)) /\ DOMAIN <<x>> = {1} /\ <<x>>[1] = x /\ Len(<<x>>) = 1
    BY <2>2
  <2>5. \A id : Declares(<<x>>, id) <=> Makes(x, id)
    BY <2>4 DEF Declares
  <2>6. TypedHistories'
    <3>1. <<>> \in Seq(Messages(called)) /\ Len(<<x>>) <= 1
      BY <2>4
    <3> QED
      BY <1>1, <1>4, <1>10, <2>4, <3>1 DEF TypedHistories
  <2>7. LateInv'
    BY <1>2, <1>5, <1>10, <2>1, <2>3, <2>5 DEF LateInv
  <2>8. ViewsInv'
    <3>1. Extends(stored, stored)
      BY DEF Extends
    <3>2. View(ctx, stored, scars') /\ View(events, stored, scars')
      BY <1>1, <1>6, <3>1, ViewStays
    <3> QED
      BY <1>1, <1>7, <1>10, <2>1, <3>2 DEF ViewsInv
  <2> QED
    BY <1>3, <2>6, <2>7, <2>8 DEF PairedInv
<1>11. CASE pc = "persist" /\ events' = Append(events, x) /\ UNCHANGED <<stored, late, scars>>
  <2>1. View(events', stored, scars)
    BY <1>11, EventGrows
  <2>2. events' \in Seq(Messages(called))
    <3>1. x \in Messages(called)
      BY <1>11, TodoFacts DEF InTodo
    <3> HIDE DEF x
    <3>2. Append(events, x) \in Seq(Messages(called))
      BY <1>4, <3>1
    <3> QED
      BY <1>11, <3>2
  <2>3. Lax <=> Lax'
    BY <1>11 DEF Lax
  <2>4. TypedHistories'
    <3>1. <<>> \in Seq(Messages(called))
      OBVIOUS
    <3> QED
      BY <1>1, <1>4, <1>11, <2>2, <3>1 DEF TypedHistories
  <2>5. LateInv'
    BY <1>2, <1>5, <1>11, <2>3 DEF LateInv
  <2>6. ViewsInv'
    BY <1>1, <1>6, <1>7, <1>11, <2>1, <2>3 DEF ViewsInv
  <2> QED
    BY <1>3, <2>4, <2>5, <2>6 DEF PairedInv
<1> QED
  BY <1>1, <1>8, <1>9, <1>10, <1>11

LEMMA OnlyOne ==
    ASSUME NEW S, NEW q \in Seq(S), q # <<>>, Len(q) <= 1
    PROVE  q[1] \in S /\ 1 \in DOMAIN q /\ q = <<q[1]>>
<1>1. Len(q) \in Nat /\ (q = <<>> <=> Len(q) = 0) /\ DOMAIN q = 1..Len(q)
  OBVIOUS
<1>2. Len(q) = 1
  BY <1>1
<1> QED
  BY <1>1, <1>2

LEMMA LatePair ==
    ASSUME PairedInv, LateWrite PROVE PairedInv'
<1>1. /\ late # <<>> /\ stored' = stored \o late /\ late' = <<>>
      /\ UNCHANGED <<events, ctx, pc, todo, after, request, retried, called, scars>>
  BY DEF LateWrite, control, bounds
<1>2. /\ called \in Nat /\ stored \in Seq(Messages(called)) /\ ctx \in Seq(Messages(called))
      /\ events \in Seq(Messages(called)) /\ late \in Seq(Messages(called)) /\ Len(late) <= 1
      /\ todo \in Seq(Messages(called))
  BY DEF PairedInv, TypedHistories
<1> DEFINE y == late[1]
<1>3. y \in Messages(called) /\ 1 \in DOMAIN late /\ late = <<y>>
  BY <1>1, <1>2, OnlyOne
<1> HIDE DEF y
<1>4. stored' = Append(stored, y) /\ stored' \in Seq(Messages(called))
  BY <1>1, <1>2, <1>3
<1>5. /\ DOMAIN stored = 1..Len(stored) /\ Len(stored) \in Nat
      /\ DOMAIN stored' = 1..(Len(stored) + 1) /\ stored'[Len(stored) + 1] = y
      /\ \A i \in DOMAIN stored : i \in DOMAIN stored' /\ stored'[i] = stored[i]
      /\ \A i \in DOMAIN stored' : i \in DOMAIN stored \/ i = Len(stored) + 1
  BY <1>2, <1>3, <1>4, Appended
<1>6. Extends(stored, stored')
  BY <1>5 DEF Extends
<1>7. \A id : Declares(stored', id) <=> Declares(stored, id) \/ Makes(y, id)
  BY <1>2, <1>3, <1>4, AppendedIds
<1>8. /\ Lax /\ Lax' /\ CallsDiffer(stored)
      /\ \A id \in Nat : Declares(late, id) => ~Declares(stored, id)
      /\ \A n \in DOMAIN Due, id \in Nat :
            Makes(Due[n], id) => ~Declares(stored, id) /\ ~Declares(late, id)
  BY <1>1 DEF PairedInv, LateInv, Lax
<1>9. \A id : Makes(y, id) => Declares(late, id)
  <2>1. late[1] = y
    BY DEF y
  <2> QED
    BY <1>3, <2>1 DEF Declares
<1>10. Due' = Due /\ (Opens' <=> Opens) /\ \A id : Pending(id) <=> Pending(id)'
  BY <1>1 DEF Due, Opens, Pending
<1>11. TypedHistories'
  <2>1. <<>> \in Seq(Messages(called)) /\ Len(<<>>) <= 1
    OBVIOUS
  <2> QED
    BY <1>1, <1>2, <1>4, <2>1 DEF TypedHistories
<1>12. TodoInv'
  <2>1. \A id : Declares(stored, id) => Declares(stored', id)
    BY <1>7
  <2>2. \A m : (\E n \in DOMAIN stored : stored[n] = m) => \E n \in DOMAIN stored' : stored'[n] = m
    BY <1>5
  <2> QED
    BY <1>1, <1>10, <2>1, <2>2 DEF PairedInv, TodoInv
<1>13. CallsDiffer(stored')
  <2> SUFFICES ASSUME NEW i \in DOMAIN stored', NEW j \in DOMAIN stored', NEW id \in Nat,
                      Makes(stored'[i], id), Makes(stored'[j], id)
               PROVE  i = j
    BY DEF CallsDiffer
  <2>1. \A k \in DOMAIN stored : Makes(stored[k], id) => Declares(stored, id)
    BY DEF Declares
  <2>2. Makes(y, id) => ~Declares(stored, id)
    BY <1>8, <1>9
  <2> QED
    BY <1>5, <1>8, <2>1, <2>2 DEF CallsDiffer
<1>14. LateInv'
  <2>1. DOMAIN <<>> = {}
    OBVIOUS
  <2>2. \A id : ~Declares(late', id)
    BY <1>1, <2>1 DEF Declares
  <2> QED
    BY <1>1, <1>7, <1>8, <1>9, <1>10, <1>13, <2>2 DEF LateInv
<1>15. ViewsInv'
  <2>1. View(ctx, stored, scars) /\ View(events, stored, scars)
    BY DEF PairedInv, ViewsInv
  <2>2. View(ctx, stored', scars) /\ View(events, stored', scars)
    BY <1>6, <2>1, ViewStays
  <2> QED
    BY <1>1, <1>8, <1>10, <2>2 DEF PairedInv, ViewsInv
<1>16. QuietInv'
  <2> SUFFICES ASSUME pc # "backfill", NEW id \in Nat, Declares(ctx, id) \/ Declares(events, id)
               PROVE  Settled(stored', scars', id) \/ Pending(id)'
    BY <1>1, <1>8 DEF QuietInv
  <2>1. Settled(stored, scars, id) \/ Pending(id)
    BY DEF PairedInv, QuietInv
  <2> QED
    BY <1>1, <1>6, <1>10, <2>1, SettledStays
<1>17. RequestInv'
  BY <1>1 DEF PairedInv, RequestInv
<1> QED
  BY <1>11, <1>12, <1>14, <1>15, <1>16, <1>17 DEF PairedInv

--------------------------------------------------------------------------------
(* A request is built from the context or from what compression leaves of it. *)
LEMMA TrimmedPair ==
    ASSUME PairedInv, UNCHANGED <<stored, events, late, called, scars, todo>>,
           pc \in {"build", "llm"}, pc' = "llm", Trims(ctx', ctx, called), RequestInv'
    PROVE  PairedInv'
<1>1. Due = <<>> /\ Due' = <<>> /\ ~Opens' /\ DOMAIN <<>> = {} /\ (Lax <=> Lax')
  BY DEF Due, Opens, Lax
<1>2. called \in Nat
  BY DEF PairedInv, TypedHistories
<1>3. /\ ctx' \in Seq(Messages(called)) /\ Clustered(ctx')
      /\ \A i \in DOMAIN ctx' : ctx'[i] = Text \/ \E n \in DOMAIN ctx : ctx[n] = ctx'[i]
  BY DEF Trims
<1>4. TypedHistories' /\ TodoInv'
  BY <1>1, <1>3 DEF PairedInv, TypedHistories, TodoInv, InTodo
<1>5. LateInv'
  BY <1>1 DEF PairedInv, LateInv
<1>6. \A id : ~Makes(Text, id)
  BY <1>2, PlainMessages DEF Makes
<1>7. \A id : Declares(ctx', id) => Declares(ctx, id)
  BY <1>3, <1>6 DEF Declares
<1>8. ASSUME NEW id \in Nat,
             Declares(ctx, id) \/ Declares(events, id) \/ (~Lax /\ Declares(stored, id))
      PROVE  Settled(stored, scars, id)
  BY <1>1, <1>8 DEF PairedInv, QuietInv, Pending
<1>9. View(ctx', stored, scars)
  <2>1. \A i \in DOMAIN ctx : ctx[i] = Text \/ \E n \in DOMAIN stored : stored[n] = ctx[i]
    BY DEF PairedInv, ViewsInv, View
  <2> QED
    BY <1>3, <1>7, <1>8, <2>1 DEF View
<1>10. ViewsInv'
  BY <1>1, <1>9 DEF PairedInv, ViewsInv, Fit
<1>11. QuietInv'
  BY <1>1, <1>7, <1>8 DEF QuietInv
<1> QED
  BY <1>4, <1>5, <1>10, <1>11 DEF PairedInv

LEMMA BuildPair ==
    ASSUME PairedInv, BuildRequest \/ ContextLength PROVE PairedInv'
<1>1. /\ pc \in {"build", "llm"} /\ pc' = "llm" /\ UNCHANGED <<stored, events, late, called, scars, todo>>
      /\ ctx' = ctx \/ ctx' \in Compressed(ctx)
      /\ retried' \/ request' = RepairRequest(ctx')
  BY DEF BuildRequest, ContextLength
<1>2. called \in Nat /\ ctx \in Seq(Messages(called)) /\ Clustered(ctx)
  BY DEF PairedInv, TypedHistories, ViewsInv, View
<1>3. Trims(ctx', ctx, called)
  <2>1. Trims(ctx, ctx, called)
    BY <1>2 DEF Trims
  <2> QED
    BY <1>1, <1>2, <2>1, CompressedTrims
<1>4. RequestInv'
  <2>1. ctx' \in Seq(Messages(called)) /\ Clustered(ctx')
    BY <1>3 DEF Trims
  <2>2. Paired(RepairRequest(ctx'))
    BY <1>2, <2>1, RequestIsPaired
  <2> QED
    BY <1>1, <2>2 DEF RequestInv
<1> QED
  BY <1>1, <1>3, <1>4, TrimmedPair

--------------------------------------------------------------------------------
(* The last message of a log that calls tools. *)
LEMMA LastCaller ==
    ASSUME NEW c \in Nat, NEW s \in Seq(Messages(c)),
           NEW A, A = {i \in DOMAIN s : s[i].calls # <<>>}, A # {}
    PROVE  \E i \in A : \A j \in A : i >= j
<1> DEFINE T == {Len(s) - i : i \in A}
<1>1. Len(s) \in Nat /\ A \subseteq 1..Len(s)
  OBVIOUS
<1>2. T \subseteq Nat /\ T # {}
  BY <1>1
<1>3. PICK x \in T : \A y \in T : x <= y
  BY <1>2, LeastNatural
<1>4. PICK i \in A : x = Len(s) - i
  BY <1>3
<1>5. ASSUME NEW j \in A PROVE i >= j
  <2>1. Len(s) - i <= Len(s) - j
    BY <1>3, <1>4
  <2> QED
    BY <1>1, <1>4, <2>1
<1> QED
  BY <1>4, <1>5

(* What the backfill makes up: results of the open calls of that message. *)
LEMMA MissingIs ==
    ASSUME NEW c \in Nat, NEW s \in Seq(Messages(c))
    PROVE  /\ Missing(s) \in Seq(Messages(c))
           /\ \A n \in DOMAIN Missing(s) :
                 /\ IsResult(Missing(s)[n]) /\ Missing(s)[n].calls = <<>>
                 /\ ~Answers(s, Missing(s)[n].answers)
                 /\ \E i \in DOMAIN s : /\ Makes(s[i], Missing(s)[n].answers)
                                        /\ \A j \in DOMAIN s : i < j => s[j].calls = <<>>
           /\ \A m, n \in DOMAIN Missing(s) : Missing(s)[m].answers = Missing(s)[n].answers => m = n
           /\ \A i \in DOMAIN s : \A id :
                 /\ Makes(s[i], id) /\ ~Answers(s, id)
                 /\ \A j \in DOMAIN s : i < j => s[j].calls = <<>>
                 => \E n \in DOMAIN Missing(s) : IsResult(Missing(s)[n]) /\ Missing(s)[n].answers = id
<1> DEFINE A == {i \in DOMAIN s : s[i].calls # <<>>}
           L == CHOOSE i \in A : \A j \in A : i >= j
           o == Open(s, s[L])
<1>1. DOMAIN s = 1..Len(s) /\ Len(s) \in Nat /\ \A i \in DOMAIN s : s[i] \in Messages(c)
  OBVIOUS
<1>2. DOMAIN <<>> = {}
  OBVIOUS
<1>3. \A i \in DOMAIN s : \A id : Makes(s[i], id) => i \in A
  BY <1>2 DEF Makes
<1>4. CASE A = {}
  <2>1. Missing(s) = <<>>
    BY <1>4 DEF Missing
  <2>2. <<>> \in Seq(Messages(c))
    OBVIOUS
  <2>3. \A i \in DOMAIN s : \A id : ~Makes(s[i], id)
    BY <1>3, <1>4
  <2> QED
    BY <1>2, <2>1, <2>2, <2>3
<1>5. CASE A # {}
  <2>1. Missing(s) = Results(o)
    BY <1>5 DEF Missing
  <2>2. \E i \in A : \A j \in A : i >= j
    BY <1>5, LastCaller
  <2>3. L \in A /\ \A j \in A : L >= j
    <3> HIDE DEF A
    <3> QED
      BY <2>2
  <2> HIDE DEF L
  <2>4. L \in DOMAIN s /\ s[L].calls # <<>> /\ s[L] \in Messages(c) /\ L \in Nat
    BY <1>1, <2>3
  <2>5. \A j \in DOMAIN s : L < j => s[j].calls = <<>>
    BY <1>1, <2>3, <2>4
  <2>6. /\ o \in Seq(1..c)
        /\ \A k, l \in DOMAIN o : o[k] = o[l] => k = l
        /\ \A id : (\E k \in DOMAIN o : o[k] = id) <=> Makes(s[L], id) /\ ~Answers(s, id)
    BY <2>4, OpenIs
  <2> HIDE DEF o
  <2>7. /\ Results(o) \in Seq(Messages(c)) /\ DOMAIN Results(o) = DOMAIN o
        /\ \A k \in DOMAIN o : /\ Results(o)[k] = Result(o[k]) /\ o[k] \in 1..c
                               /\ IsResult(Result(o[k])) /\ Result(o[k]).answers = o[k]
    BY <2>6, ResultsAre
  <2>8. ASSUME NEW n \in DOMAIN Missing(s)
        PROVE  /\ IsResult(Missing(s)[n]) /\ Missing(s)[n].calls = <<>>
               /\ ~Answers(s, Missing(s)[n].answers)
               /\ \E i \in DOMAIN s : /\ Makes(s[i], Missing(s)[n].answers)
                                      /\ \A j \in DOMAIN s : i < j => s[j].calls = <<>>
    <3>1. /\ n \in DOMAIN o /\ Missing(s)[n] = Result(o[n]) /\ IsResult(Missing(s)[n])
          /\ Missing(s)[n].answers = o[n]
      BY <2>1, <2>7, <2>8
    <3>2. Makes(s[L], o[n]) /\ ~Answers(s, o[n])
      BY <2>6, <3>1
    <3>3. Result(o[n]).calls = <<>>
      BY DEF Result
    <3> QED
      BY <2>4, <2>5, <3>1, <3>2, <3>3
  <2>9. ASSUME NEW m \in DOMAIN Missing(s), NEW n \in DOMAIN Missing(s),
               Missing(s)[m].answers = Missing(s)[n].answers
        PROVE  m = n
    BY <2>1, <2>6, <2>7, <2>9
  <2>10. ASSUME NEW i \in DOMAIN s, NEW id, Makes(s[i], id), ~Answers(s, id),
                \A j \in DOMAIN s : i < j => s[j].calls = <<>>
         PROVE  \E n \in DOMAIN Missing(s) : IsResult(Missing(s)[n]) /\ Missing(s)[n].answers = id
    <3>1. i \in A /\ i \in Nat
      BY <1>1, <1>3, <2>10
    <3>2. i = L
      BY <2>3, <2>4, <2>10, <3>1
    <3>3. PICK k \in DOMAIN o : o[k] = id
      BY <2>6, <2>10, <3>2
    <3> QED
      BY <2>1, <2>7, <3>3
  <2> QED
    BY <2>1, <2>7, <2>8, <2>9, <2>10
<1> QED
  BY <1>4, <1>5

(* A result behind a history of messages of the log, of a call that the log leaves open. *)
LEMMA MissingFits ==
    ASSUME NEW c \in Nat, NEW st \in Seq(Messages(c)), NEW s \in Seq(Messages(c)), NEW F,
           CallsDiffer(st), View(s, st, F), NEW n \in DOMAIN Missing(st)
    PROVE  FitsBehind(s, Missing(st)[n])
<1> DEFINE r == Missing(st)[n]
           id == r.answers
<1>1. /\ IsResult(r) /\ r.calls = <<>> /\ ~Answers(st, id) /\ r \in Messages(c)
      /\ \E i \in DOMAIN st : Makes(st[i], id) /\ \A j \in DOMAIN st : i < j => st[j].calls = <<>>
  BY MissingIs
<1> HIDE DEF r
<1>2. PICK i \in DOMAIN st : Makes(st[i], id) /\ \A j \in DOMAIN st : i < j => st[j].calls = <<>>
  BY <1>1
<1>3. id \in Nat /\ \A m : ~Makes(r, m)
  <2>1. id \in 1..c /\ DOMAIN <<>> = {}
    BY <1>1, MessageFacts
  <2>2. \A m : ~Makes(r, m)
    BY <1>1, <2>1 DEF Makes
  <2> QED
    BY <2>1, <2>2
<1>4. ~IsResult(Text)
  BY PlainMessages
<1>5. ~Answers(s, id)
  BY <1>1, <1>4 DEF Answers, View
<1>6. ~Passed(st, id)
  <2> SUFFICES ASSUME NEW k \in DOMAIN st, NEW j \in DOMAIN st, k < j, Makes(st[k], id),
                      st[j].calls # <<>>
               PROVE  FALSE
    BY DEF Passed
  <2>1. k = i
    BY <1>2, <1>3 DEF CallsDiffer
  <2> QED
    BY <1>2, <2>1
<1>7. Declares(s, id) => EndsWith(s, id)
  BY <1>1, <1>3, <1>6 DEF View, Settled
<1> QED
  BY <1>1, <1>3, <1>5, <1>7 DEF FitsBehind, r

LEMMA BackfillPair ==
    ASSUME PairedInv, Backfill, Mild' PROVE PairedInv'
<1> DEFINE r == Missing(stored)
           q == Append(r, Text)
<1>1. /\ pc = "backfill" /\ UNCHANGED <<stored, events, ctx, late, called, scars>>
      /\ Persisting(q, "finish")
  BY DEF Backfill, Mild, Fault, histories
<1>2. /\ called \in Nat /\ stored \in Seq(Messages(called)) /\ ctx \in Seq(Messages(called))
      /\ events \in Seq(Messages(called)) /\ late \in Seq(Messages(called)) /\ Len(late) <= 1
  BY DEF PairedInv, TypedHistories
<1>3. /\ r \in Seq(Messages(called))
      /\ \A n \in DOMAIN r :
            /\ IsResult(r[n]) /\ r[n].calls = <<>>
            /\ \E i \in DOMAIN stored : Makes(stored[i], r[n].answers)
      /\ \A m, n \in DOMAIN r : r[m].answers = r[n].answers => m = n
  BY <1>2, MissingIs
<1>4. \A i \in DOMAIN stored : \A id :
         /\ Makes(stored[i], id) /\ ~Answers(stored, id)
         /\ \A j \in DOMAIN stored : i < j => stored[j].calls = <<>>
         => \E n \in DOMAIN r : IsResult(r[n]) /\ r[n].answers = id
  BY <1>2, MissingIs
<1>5. CallsDiffer(stored)
  BY DEF PairedInv, LateInv
<1>6. /\ View(ctx, stored, scars) /\ View(events, stored, scars)
      /\ ~Lax => View(stored, stored, scars)
  BY DEF PairedInv, ViewsInv
<1>7. /\ \A n \in DOMAIN r : FitsBehind(ctx, r[n]) /\ FitsBehind(events, r[n])
      /\ ~Lax => \A n \in DOMAIN r : FitsBehind(stored, r[n])
  BY <1>2, <1>5, <1>6, MissingFits
<1> HIDE DEF r
<1>8. Text \in Messages(called) /\ Text.calls = <<>> /\ ~IsResult(Text) /\ \A id : ~Makes(Text, id)
  BY <1>2, PlainMessages DEF Makes
<1>9. \A s : FitsBehind(s, Text)
  BY <1>8 DEF FitsBehind
<1>10. /\ q \in Seq(Messages(called)) /\ Len(r) \in Nat /\ DOMAIN r = 1..Len(r)
       /\ DOMAIN q = 1..(Len(r) + 1) /\ Len(q) = Len(r) + 1
       /\ \A n \in DOMAIN r : n \in DOMAIN q /\ q[n] = r[n]
       /\ q[Len(r) + 1] = Text /\ q # <<>>
       /\ \A n \in DOMAIN q : n \in DOMAIN r \/ n = Len(r) + 1
       /\ \A n \in DOMAIN q : n < Len(q) => n \in DOMAIN r
  <2>1. /\ q \in Seq(Messages(called)) /\ Len(r) \in Nat /\ DOMAIN r = 1..Len(r)
        /\ DOMAIN q = 1..(Len(r) + 1) /\ Len(q) = Len(r) + 1
        /\ \A n \in DOMAIN r : n \in DOMAIN q /\ q[n] = r[n]
        /\ q[Len(r) + 1] = Text
        /\ \A n \in DOMAIN q : n \in DOMAIN r \/ n = Len(r) + 1
    BY <1>3, <1>8, Appended
  <2>2. Len(<<>>) = 0 /\ Len(q) # 0
    BY <2>1
  <2>3. q # <<>>
    BY <2>2
  <2> QED
    BY <2>1, <2>3
<1> HIDE DEF q
<1>11. todo' = q /\ after' = "finish" /\ pc' = "append" /\ Due' = q /\ ~Opens' /\ (Lax <=> Lax')
  BY <1>1, <1>10 DEF Persisting, Due, Opens, Lax
<1>12. \A n \in DOMAIN q : q[n].calls = <<>> /\ \A id : ~Makes(q[n], id)
  <2>1. DOMAIN <<>> = {}
    OBVIOUS
  <2> QED
    BY <1>3, <1>8, <1>10, <2>1 DEF Makes
<1>13. TypedHistories'
  BY <1>1, <1>2, <1>10, <1>11 DEF TypedHistories
<1>14. InLine(q)
  BY <1>3, <1>8, <1>10 DEF InLine
<1>15. ASSUME NEW n \in DOMAIN q, IsResult(q[n]) PROVE Declares(stored, q[n].answers)
  <2>1. n \in DOMAIN r /\ q[n] = r[n]
    BY <1>8, <1>10, <1>15
  <2> QED
    BY <1>3, <2>1 DEF Declares
<1>16. TodoInv'
  BY <1>1, <1>10, <1>11, <1>12, <1>14, <1>15 DEF TodoInv, InTodo
<1>17. LateInv'
  BY <1>1, <1>11, <1>12 DEF PairedInv, LateInv
<1>18. Fit(ctx, q) /\ Fit(events, q) /\ (~Lax => Fit(stored, q))
  BY <1>7, <1>9, <1>10 DEF Fit
<1>19. ViewsInv'
  BY <1>1, <1>6, <1>11, <1>18 DEF ViewsInv
<1>20. ASSUME NEW id \in Nat,
              Declares(ctx, id) \/ Declares(events, id) \/ (~Lax /\ Declares(stored, id)),
              ~Settled(stored, scars, id)
       PROVE  \E n \in DOMAIN q : IsResult(q[n]) /\ q[n].answers = id
  <2>1. Declares(stored, id)
    BY <1>6, <1>8, <1>20 DEF Declares, View
  <2>2. PICK i \in DOMAIN stored : Makes(stored[i], id)
    BY <2>1 DEF Declares
  <2>3. ~Answers(stored, id) /\ (Lax => ~Passed(stored, id))
    BY <1>20 DEF Settled, Lax
  <2>4. ASSUME NEW j \in DOMAIN stored, i < j PROVE stored[j].calls = <<>>
    <3>1. CASE Lax
      BY <2>2, <2>3, <2>4, <3>1 DEF Passed
    <3>2. CASE ~Lax
      <4>1. EndsWith(stored, id)
        BY <1>6, <1>20, <2>1, <3>2 DEF View
      <4>2. PICK k \in DOMAIN stored : /\ Makes(stored[k], id)
                                       /\ \A p \in DOMAIN stored : k < p => Serves(stored, k, stored[p])
        BY <4>1 DEF EndsWith
      <4>3. k = i
        BY <1>5, <2>2, <4>2 DEF CallsDiffer
      <4>4. IsResult(stored[j])
        BY <2>4, <4>2, <4>3 DEF Serves
      <4>5. stored[j] \in Messages(called)
        BY <1>2
      <4> QED
        BY <1>2, <4>4, <4>5, MessageFacts
    <3> QED
      BY <3>1, <3>2
  <2>5. PICK n \in DOMAIN r : IsResult(r[n]) /\ r[n].answers = id
    BY <1>4, <2>2, <2>3, <2>4
  <2> QED
    BY <1>10, <2>5
<1>21. QuietInv'
  BY <1>1, <1>11, <1>20 DEF QuietInv, Pending
<1>22. RequestInv'
  BY <1>11 DEF RequestInv
<1> QED
  BY <1>13, <1>16, <1>17, <1>19, <1>21, <1>22 DEF PairedInv

--------------------------------------------------------------------------------
(* Only a mild fault keeps the session within what the invariant is about. *)
LEMMA MildBefore == [Next]_vars => scars \subseteq scars'
<1> SUFFICES ASSUME [Next]_vars PROVE scars \subseteq scars'
  OBVIOUS
<1>1. CASE Outer
  BY <1>1, OuterControl
<1>2. CASE StartTurn \/ RebuildToken \/ Crash \/ AppendFails \/ UNCHANGED vars
  BY <1>2 DEF StartTurn, RebuildToken, Crash, AppendFails, Fault, vars, bounds
<1>3. CASE \/ AppendMessage \/ PersistMessage \/ BuildRequest \/ TooManyIters \/ RepeatGuard
           \/ StepEnds \/ Backfill \/ Finish \/ Deactivate
  BY <1>3 DEF AppendMessage, PersistMessage, BuildRequest, TooManyIters, RepeatGuard, StepEnds, Backfill,
              Finish, Deactivate, Fault, bounds
<1>4. CASE \/ Reply \/ Call \/ ContextLength \/ Fail \/ ToolsFinish \/ ToolsFail \/ Drop \/ LateWrite
  BY <1>4 DEF Reply, Call, ContextLength, Fail, ToolsFinish, ToolsFail, Drop, LateWrite, Fault, bounds
<1> QED
  BY <1>1, <1>2, <1>3, <1>4, NextSplit DEF Inner

LEMMA OuterCalls == Outer => UNCHANGED called
<1>1. CASE CancelTurn \/ Submit \/ CtrlC \/ TuiCtrlC
  BY <1>1 DEF CancelTurn, Submit, CtrlC, TuiCtrlC
<1>2. ASSUME NEW c \in Clients, Post(c) \/ PostCancel(c) \/ Serve(c) PROVE UNCHANGED called
  BY <1>2 DEF Post, PostCancel, Serve, CheckActive, CancelToken
<1> QED
  BY <1>1, <1>2 DEF Outer

LEMMA PairStep == ControlInv /\ PairInv /\ [Next]_vars => PairInv'
<1> SUFFICES ASSUME ControlInv, PairInv, [Next]_vars, Mild' PROVE PairedInv'
  BY DEF PairInv
<1>1. PairedInv
  <2>1. scars \subseteq scars'
    BY MildBefore
  <2> QED
    BY <2>1 DEF PairInv, Mild
<1>2. CASE Outer
  <2>1. UNCHANGED histories /\ UNCHANGED control /\ scars' = scars /\ called' = called
    BY <1>2, OuterHistories, OuterControl, OuterCalls
  <2> QED
    BY <1>1, <2>1, PairUnchanged DEF histories, control
<1>3. CASE UNCHANGED vars
  BY <1>1, <1>3, PairUnchanged DEF vars, histories, control
<1>4. CASE \/ StartTurn \/ TooManyIters \/ Reply \/ StepEnds \/ Fail \/ Finish \/ Deactivate
           \/ RebuildToken
  BY <1>1, <1>4, PlainSteps
<1>5. CASE AppendMessage
  BY <1>1, <1>5, AppendPair
<1>6. CASE PersistMessage
  BY <1>1, <1>6, PersistPair
<1>7. CASE BuildRequest \/ ContextLength
  BY <1>1, <1>7, BuildPair
<1>8. CASE RepeatGuard
  BY <1>1, <1>8, GuardPair
<1>9. CASE Backfill
  BY <1>1, <1>9, BackfillPair
<1>10. CASE Call
  BY <1>1, <1>10, CallPair
<1>11. CASE ToolsFinish
  BY <1>1, <1>11, ToolsPair
<1>12. CASE Drop
  BY <1>1, <1>12, DropPair
<1>13. CASE LateWrite
  BY <1>1, <1>13, LatePair
<1>14. CASE AppendFails \/ ToolsFail \/ Crash
  BY <1>14 DEF AppendFails, ToolsFail, Crash, Fault, Mild
<1> QED
  BY <1>2, <1>3, <1>4, <1>5, <1>6, <1>7, <1>8, <1>9, <1>10, <1>11, <1>12, <1>13, <1>14, NextSplit DEF Inner

LEMMA PairInvariant == Spec => []PairInv
BY InitControl, ControlStep, InitPair, PairStep, PTL DEF Spec

(***************************************************************************)
(* What repair_request_messages makes of the context is a request that a   *)
(* strict provider accepts: for every number of turns, calls, drops, lost  *)
(* events and late writes, and for whatever compression takes away or      *)
(* sums up (build_request_messages and backfill_missing_tool_results,      *)
(* runtime/turn.rs and rt.rs).                                             *)
(***************************************************************************)
THEOREM RequestsArePaired == Spec => []RequestsPaired
<1>1. PairInv => RequestsPaired
  BY DEF PairInv, Mild, PairedInv, RequestInv, RequestsPaired
<1> QED
  BY PairInvariant, <1>1, PTL

(***************************************************************************)
(* Between turns every call of the message log has its result in the block *)
(* behind it, and there is no other result, however often turns were       *)
(* dropped by a cancel or the timeout, in the middle of whatever: the      *)
(* backfill finds all that is open (run_turn's cancel and timeout          *)
(* branches, rt.rs).                                                       *)
(***************************************************************************)
THEOREM LogIsPaired == Spec => []StoredPaired
<1>1. ASSUME PairInv, pc \in {"idle", "rebuild"}, scars \subseteq {"event"} PROVE Paired(stored)
  <2>1. PairedInv /\ ~Lax /\ Due = <<>> /\ pc # "backfill" /\ DOMAIN <<>> = {}
    BY <1>1 DEF PairInv, Mild, Lax, Due, Opens
  <2>2. called \in Nat /\ stored \in Seq(Messages(called))
    BY <2>1 DEF PairedInv, TypedHistories
  <2>3. Clustered(stored)
    BY <2>1 DEF PairedInv, ViewsInv, View
  <2>4. ASSUME NEW id PROVE Answers(stored, id) <=> Declares(stored, id)
    <3>1. \A m \in DOMAIN stored : stored[m] \in Messages(called)
      BY <2>2
    <3>2. Answers(stored, id) \/ Declares(stored, id) => id \in Nat
      BY <2>2, <3>1, MessageFacts DEF Answers, Declares
    <3>3. id \in Nat /\ Answers(stored, id) => Declares(stored, id)
      BY <2>1 DEF PairedInv, LateInv
    <3>4. id \in Nat /\ Declares(stored, id) => Answers(stored, id)
      BY <2>1 DEF PairedInv, QuietInv, Pending, Settled, Lax
    <3> QED
      BY <3>2, <3>3, <3>4
  <2> QED
    BY <2>2, <2>3, <2>4, FullIsPaired
<1>2. PairInv => StoredPaired
  BY <1>1 DEF StoredPaired
<1> QED
  BY PairInvariant, <1>2, PTL

(***************************************************************************)
(* Were the process to die at any moment, the first request after the      *)
(* restart would be accepted: the replayed events, repaired by             *)
(* restore_history and then by repair_request_messages, are paired,        *)
(* whatever events were lost on the way.                                   *)
(***************************************************************************)
THEOREM ReplayIsPaired == Spec => []Resumable
<1>1. ASSUME PairInv, Mild PROVE Paired(RepairRequest(RepairDangling(events)))
  <2>1. called \in Nat /\ events \in Seq(Messages(called)) /\ Clustered(events)
    BY <1>1 DEF PairInv, PairedInv, TypedHistories, ViewsInv, View
  <2>2. RepairDangling(events) \in Seq(Messages(called)) /\ Clustered(RepairDangling(events))
    BY <2>1, RepairDanglingIs
  <2> QED
    BY <2>1, <2>2, RequestIsPaired
<1>2. PairInv => Resumable
  BY <1>1 DEF Resumable, Mild
<1> QED
  BY PairInvariant, <1>2, PTL
================================================================================
