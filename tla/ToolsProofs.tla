------------------------------- MODULE ToolsProofs -------------------------------
(***************************************************************************)
(* Theorems about what runs the tools, and about what the tools work with: *)
(* a round of calls (ToolCalls), the pool of MCP connections (Mcp), the    *)
(* background shells (Shells) and the journal of file changes (Journal),   *)
(* with the types that their variables keep.                               *)
(***************************************************************************)
EXTENDS ToolCalls, Mcp, Shells, Journal, SequenceLemmas, SequenceTheorems,
        FiniteSetTheorems, TLAPS

--------------------------------------------------------------------------------
(***************************************************************************)
(* ToolCalls, for any calls, rounds, modes and widths: what the policy     *)
(* denies does not run, a project document is asked about, the calls keep  *)
(* their order, and the breaker ends the turn.                             *)
(***************************************************************************)
LEMMA MinOfNaturals ==
    ASSUME NEW S \in SUBSET Nat, S # {}
    PROVE  Min(S) \in S /\ \A x \in S : Min(S) <= x
BY LeastNatural DEF Min

--------------------------------------------------------------------------------
Snaps == [mode : PermissionMode, approved : BOOLEAN]
Verdicts == {"allow", "ask", "restricted", "deny"}
Chains == [pc : {"none", "hook", "request", "prompt", "run", "fallback", "retry"},
           snap : Snaps, verdict : Verdicts, effective : Inputs \union {"none"},
           by : {"none", "hook", "policy", "always", "answer"}]

ToolTypes ==
    /\ plan \in [mode : Modes, approved : BOOLEAN]
    /\ phase \in {"idle", "model", "calls"}
    /\ calls \in Seq(Inputs) /\ at \in Nat
    /\ chain \in Chains
    /\ breaker \in Nat /\ denied \in [count : Nat, tripped : BOOLEAN]

(* The bucket holds the reads between the last call with a side effect that has  *)
(* been answered and the one the loop has come to; a chain runs on an empty one. *)
RoundInv ==
    /\ phase # "calls" => flying = {} /\ chain.pc = "none"
    /\ phase = "calls" => at \in 1..(Len(calls) + 1)
    /\ phase = "calls" /\ at \in Lines => SideEffects(calls[at])
    /\ done \subseteq {k \in Lines : k < at}
    /\ flying \subseteq Bucket
    /\ \A k \in Bucket : ~SideEffects(calls[k])
    /\ \A i \in Bucket : \A k \in Lines : SideEffects(calls[k]) /\ k < at => k < i
    /\ chain.pc # "none" => phase = "calls" /\ at \in Lines /\ Bucket = {}

(* What is known of a call at each place of its chain. *)
DenyInv ==
    /\ chain.pc = "hook" =>
          chain.verdict = Check(calls[at], chain.snap) /\ chain.effective = calls[at]
    /\ chain.pc \in {"request", "prompt", "run", "fallback", "retry"} =>
          /\ Check(calls[at], chain.snap) # "deny"
          /\ Check(chain.effective, chain.snap) # "deny"
    /\ chain.pc \in {"request", "prompt"} /\ calls[at] = "doc" => chain.verdict = "restricted"
    /\ chain.pc \in {"run", "fallback", "retry"} /\ calls[at] = "doc" =>
          chain.by \in {"hook", "answer"}

(* Between two looks at the breaker the history's count is the breaker's. *)
BreakerInv ==
    /\ denied.count = breaker
    /\ phase = "model" => breaker < HardTrip
    /\ denied.tripped => breaker >= HardTrip

ToolInv == ToolTypes /\ RoundInv /\ DenyInv /\ BreakerInv

--------------------------------------------------------------------------------
LEMMA NextEffectFacts ==
    ASSUME NEW cs \in Seq(Inputs), NEW i \in Nat \ {0}, i <= Len(cs) + 1
    PROVE  /\ NextEffect(cs, i) \in i..(Len(cs) + 1)
           /\ NextEffect(cs, i) \in DOMAIN cs => SideEffects(cs[NextEffect(cs, i)])
           /\ \A k \in DOMAIN cs : i <= k /\ k < NextEffect(cs, i) => ~SideEffects(cs[k])
<1> DEFINE S == {k \in i..Len(cs) : SideEffects(cs[k])} \union {Len(cs) + 1}
           n == NextEffect(cs, i)
<1>1. Len(cs) \in Nat /\ DOMAIN cs = 1..Len(cs)
  OBVIOUS
<1>2. S \in SUBSET Nat /\ S # {}
  BY <1>1
<1>3. n = Min(S)
  BY DEF NextEffect
<1>4. n \in S /\ \A x \in S : n <= x
  <2> HIDE DEF S, n
  <2> QED
    BY <1>2, <1>3, MinOfNaturals
<1> HIDE DEF n
<1>5. n \in i..(Len(cs) + 1)
  BY <1>1, <1>4
<1>6. n \in DOMAIN cs => SideEffects(cs[n])
  BY <1>1, <1>4
<1>7. \A k \in DOMAIN cs : i <= k /\ k < n => ~SideEffects(cs[k])
  <2> SUFFICES ASSUME NEW k \in DOMAIN cs, i <= k, k < n, SideEffects(cs[k]) PROVE FALSE
    OBVIOUS
  <2>1. k \in S
    BY <1>1
  <2>2. n <= k
    BY <1>4, <2>1
  <2> QED
    BY <1>1, <1>5, <2>2
<1> QED
  BY <1>5, <1>6, <1>7 DEF n

(* A call with a side effect gets one of the four verdicts, a document never one *)
(* that lets it pass.                                                            *)
LEMMA CheckFacts ==
    ASSUME NEW input \in Inputs, SideEffects(input), NEW snap \in Snaps
    PROVE  /\ Check(input, snap) \in Verdicts
           /\ input = "doc" => Check(input, snap) \in {"restricted", "deny"}
<1>1. input \in {"edit", "top", "doc", "vcs", "run", "wipe"}
  BY ToolAssumption DEF ToolAssumption, SideEffects, Reads, Writes, Commands
<1>2. CASE input \in {"vcs", "wipe"}
  BY <1>2 DEF Check, Verdicts
<1>3. CASE input \notin {"vcs", "wipe"} /\ snap.mode = "plan"
  BY <1>3 DEF Check, Verdicts
<1>4. CASE input = "run" /\ snap.mode # "plan"
  BY <1>4 DEF Check, Verdicts
<1>5. CASE input = "doc" /\ snap.mode # "plan"
  BY <1>5 DEF Check, Verdicts
<1>6. CASE input \in {"edit", "top"} /\ snap.mode # "plan"
  BY <1>6 DEF Check, Verdicts
<1> QED
  BY <1>1, <1>2, <1>3, <1>4, <1>5, <1>6

LEMMA StricterFacts ==
    ASSUME NEW a \in Verdicts, NEW b \in Verdicts
    PROVE  /\ Stricter(a, b) \in Verdicts
           /\ Stricter(a, b) # "deny" => a # "deny" /\ b # "deny"
           /\ Stricter(a, b) # "deny" /\ a = "restricted" => Stricter(a, b) = "restricted"
BY DEF Stricter, Rank, Verdicts

(* What both verdicts of a call on its way through the PreToolUse hook amount to. *)
LEMMA JudgedFacts ==
    ASSUME ToolTypes, RoundInv, DenyInv, chain.pc = "hook",
           NEW effective \in Inputs, SideEffects(effective)
    PROVE  LET v == JudgedAgain(chain.verdict, effective)
           IN /\ v \in Verdicts
              /\ v # "deny" =>
                    /\ Check(calls[at], chain.snap) # "deny"
                    /\ Check(effective, chain.snap) # "deny"
                    /\ calls[at] = "doc" => v = "restricted"
<1>1. at \in Lines /\ calls[at] \in Inputs /\ SideEffects(calls[at])
  BY DEF ToolTypes, RoundInv, Lines
<1>2. chain.snap \in Snaps /\ chain.verdict = Check(calls[at], chain.snap)
  BY DEF ToolTypes, Chains, DenyInv
<1>3. /\ chain.verdict \in Verdicts
      /\ calls[at] = "doc" => chain.verdict \in {"restricted", "deny"}
  BY <1>1, <1>2, CheckFacts
<1>4. Check(effective, chain.snap) \in Verdicts
  BY <1>2, CheckFacts
<1>5. CASE effective = calls[at]
  BY <1>2, <1>3, <1>5 DEF JudgedAgain
<1>6. CASE effective # calls[at]
  BY <1>2, <1>3, <1>4, <1>6, StricterFacts DEF JudgedAgain
<1> QED
  BY <1>5, <1>6

--------------------------------------------------------------------------------
(* The call the loop has come to is answered: the reads after it are the bucket. *)
LEMMA AnsweredKeeps ==
    ASSUME ToolTypes, RoundInv, chain.pc # "none", Answered, UNCHANGED <<phase, calls, flying>>
    PROVE  RoundInv' /\ at' \in Nat /\ chain' \in Chains /\ chain'.pc = "none"
<1> DEFINE n == NextEffect(calls, at + 1)
<1>1. /\ phase = "calls" /\ at \in Lines /\ Bucket = {} /\ flying = {}
      /\ done \subseteq {k \in Lines : k < at}
  BY DEF RoundInv
<1>2. Len(calls) \in Nat /\ Lines = 1..Len(calls) /\ calls \in Seq(Inputs)
  BY DEF ToolTypes, Lines
<1>3. at + 1 \in Nat \ {0} /\ at + 1 <= Len(calls) + 1
  BY <1>1, <1>2
<1>4. /\ n \in (at + 1)..(Len(calls) + 1)
      /\ n \in Lines => SideEffects(calls[n])
      /\ \A k \in Lines : at + 1 <= k /\ k < n => ~SideEffects(calls[k])
  BY <1>2, <1>3, NextEffectFacts DEF Lines
<1>5. /\ done' = done \union {at} /\ at' = n /\ chain' = NoChain
      /\ phase' = phase /\ calls' = calls /\ flying' = flying /\ Lines' = Lines
  BY DEF Answered, Lines
<1> HIDE DEF n
<1>6. \A k \in Lines : k < at => k \in done
  BY <1>1 DEF Bucket
<1>7. Bucket' = {k \in Lines : at < k /\ k < n}
  BY <1>1, <1>2, <1>4, <1>5, <1>6 DEF Bucket
<1>8. chain' \in Chains /\ chain'.pc = "none"
  BY <1>5 DEF NoChain, Chains, Snaps, Verdicts, PermissionMode
<1>9. at' \in 1..(Len(calls) + 1) /\ at' \in Nat
  BY <1>2, <1>4, <1>5, <1>1
<1>10. done' \subseteq {k \in Lines : k < at'}
  BY <1>1, <1>2, <1>4, <1>5
<1>11. \A k \in Bucket' : ~SideEffects(calls[k])
  BY <1>1, <1>2, <1>4, <1>7
<1>12. \A i \in Bucket' : \A k \in Lines : SideEffects(calls[k]) /\ k < at' => k < i
  <2> SUFFICES ASSUME NEW i \in Bucket', NEW k \in Lines, SideEffects(calls[k]), k < n
               PROVE  k < i
    BY <1>5
  <2>1. k <= at
    BY <1>1, <1>2, <1>4
  <2> QED
    BY <1>1, <1>2, <1>7, <2>1
<1>13. RoundInv'
  BY <1>1, <1>4, <1>5, <1>8, <1>9, <1>10, <1>11, <1>12 DEF RoundInv
<1> QED
  BY <1>8, <1>9, <1>13

(* A step of the chain that leaves the round alone. *)
LEMMA ChainKeeps ==
    ASSUME RoundInv, chain.pc # "none", UNCHANGED <<phase, calls, done, flying, at>>
    PROVE  RoundInv'
BY DEF RoundInv, Bucket, Lines

LEMMA RecordedKeeps ==
    ASSUME ToolTypes, BreakerInv, phase = "calls", UNCHANGED phase,
           NEW refused \in BOOLEAN, Recorded(refused)
    PROVE  breaker' \in Nat /\ denied' \in [count : Nat, tripped : BOOLEAN] /\ BreakerInv'
<1>1. /\ breaker \in Nat /\ denied \in [count : Nat, tripped : BOOLEAN] /\ HardTrip \in Nat
  BY ToolAssumption DEF ToolTypes, ToolAssumption
<1>2. CASE refused
  BY <1>1, <1>2 DEF Recorded, BreakerInv
<1>3. CASE ~refused
  BY <1>1, <1>3 DEF Recorded, BreakerInv
<1> QED
  BY <1>2, <1>3

--------------------------------------------------------------------------------
LEMMA ToolInitInv == ToolInit => ToolInv
<1> SUFFICES ASSUME ToolInit PROVE ToolInv
  OBVIOUS
<1>1. chain \in Chains /\ chain.pc = "none"
  BY DEF ToolInit, NoChain, Chains, Snaps, Verdicts, PermissionMode
<1>2. ToolTypes
  <2>1. plan \in [mode : Modes, approved : BOOLEAN]
    BY DEF ToolInit
  <2>2. calls = <<>> /\ calls \in Seq(Inputs)
    BY DEF ToolInit
  <2>3. denied \in [count : Nat, tripped : BOOLEAN]
    BY DEF ToolInit, Untried
  <2> QED
    BY <1>1, <2>1, <2>2, <2>3 DEF ToolInit, ToolTypes
<1>3. RoundInv
  BY <1>1 DEF ToolInit, RoundInv, Bucket, Lines
<1>4. DenyInv
  BY <1>1 DEF DenyInv
<1>5. BreakerInv
  BY ToolAssumption DEF ToolInit, BreakerInv, Untried, ToolAssumption
<1> QED
  BY <1>2, <1>3, <1>4, <1>5 DEF ToolInv

(* The steps outside a round, and those that begin and end one. *)
LEMMA TurnKeeps ==
    ASSUME ToolInv, BeginTurn \/ ModelStops \/ BeginRound \/ EndRound \/ Interrupted
    PROVE  ToolInv'
<1> USE DEF ToolInv
<1>1. NoChain \in Chains /\ NoChain.pc = "none"
  BY DEF NoChain, Chains, Snaps, Verdicts, PermissionMode
<1>2. /\ Untried \in [count : Nat, tripped : BOOLEAN]
      /\ Untried.count = 0 /\ Untried.tripped = FALSE
  BY DEF Untried
<1>3. HardTrip \in Nat \ {0}
  BY ToolAssumption DEF ToolAssumption
<1>4. ASSUME Rest, phase' # "calls" PROVE chain' \in Chains /\ RoundInv' /\ DenyInv'
                                          /\ calls' \in Seq(Inputs) /\ at' \in Nat
  <2>1. chain' \in Chains /\ chain'.pc = "none"
    BY <1>1, <1>4 DEF Rest
  <2>2. RoundInv'
    BY <1>4, <2>1 DEF Rest, RoundInv, Bucket, Lines
  <2>3. DenyInv'
    BY <2>1 DEF DenyInv
  <2> QED
    BY <1>4, <2>1, <2>2, <2>3 DEF Rest
<1>5. CASE BeginTurn
  <2>1. phase = "idle" /\ phase' = "model" /\ breaker' = 0 /\ denied' = Untried
        /\ UNCHANGED <<plan, calls, done, flying, at, chain>>
    BY <1>5 DEF BeginTurn, BreakerReset
  <2>2. ToolTypes'
    BY <1>2, <2>1 DEF ToolTypes
  <2>3. RoundInv'
    BY <2>1 DEF RoundInv, Bucket, Lines
  <2>4. DenyInv'
    BY <2>1 DEF DenyInv
  <2>5. BreakerInv'
    BY <1>2, <1>3, <2>1 DEF BreakerInv
  <2> QED
    BY <2>2, <2>3, <2>4, <2>5
<1>6. CASE ModelStops
  <2>1. phase' = "idle" /\ Rest /\ UNCHANGED <<plan, breaker, denied>>
    BY <1>6 DEF ModelStops
  <2>2. BreakerInv'
    BY <2>1 DEF BreakerInv
  <2>3. ToolTypes'
    BY <1>4, <2>1 DEF ToolTypes
  <2> QED
    BY <1>4, <2>1, <2>2, <2>3
<1>7. CASE Interrupted
  <2>1. phase' = "idle" /\ Rest /\ UNCHANGED <<plan, breaker, denied>>
    BY <1>7 DEF Interrupted
  <2>2. BreakerInv'
    BY <2>1 DEF BreakerInv
  <2>3. ToolTypes'
    BY <1>4, <2>1 DEF ToolTypes
  <2> QED
    BY <1>4, <2>1, <2>2, <2>3
<1>8. CASE EndRound
  <2>1. /\ phase' = IF Tripped(breaker) THEN "idle" ELSE "model"
        /\ denied' = [denied EXCEPT !.tripped = Tripped(breaker)]
        /\ Rest /\ UNCHANGED <<plan, breaker>>
    BY <1>8 DEF EndRound
  <2>2. breaker \in Nat /\ denied \in [count : Nat, tripped : BOOLEAN]
    BY DEF ToolTypes
  <2>3. BreakerInv'
    BY <1>3, <2>1, <2>2 DEF BreakerInv, Tripped
  <2>4. phase' # "calls" /\ phase' \in {"idle", "model"}
    BY <2>1
  <2>5. denied' \in [count : Nat, tripped : BOOLEAN]
    <3>1. Tripped(breaker) \in BOOLEAN
      BY DEF Tripped
    <3> QED
      BY <2>1, <2>2, <3>1
  <2>6. ToolTypes'
    BY <1>4, <2>1, <2>4, <2>5 DEF ToolTypes
  <2> QED
    BY <1>4, <2>1, <2>3, <2>4, <2>6
<1>9. CASE BeginRound
  <2>0. PICK n \in 1..MaxCalls :
            \E cs \in [1..n -> Inputs] : calls' = cs /\ at' = NextEffect(cs, 1)
    BY <1>9 DEF BeginRound
  <2>1. PICK cs \in [1..n -> Inputs] : calls' = cs /\ at' = NextEffect(cs, 1)
    BY <2>0
  <2>2. /\ phase = "model" /\ phase' = "calls"
        /\ done' = {} /\ flying' = {} /\ chain' = NoChain
        /\ UNCHANGED <<plan, breaker, denied>>
    BY <1>9 DEF BeginRound
  <2>3. n \in Nat /\ cs \in Seq(Inputs) /\ Len(cs) = n /\ DOMAIN cs = 1..n
    BY ToolAssumption DEF ToolAssumption
  <2>4. /\ at' \in 1..(Len(cs) + 1)
        /\ at' \in DOMAIN cs => SideEffects(cs[at'])
        /\ \A k \in DOMAIN cs : 1 <= k /\ k < at' => ~SideEffects(cs[k])
    <3>1. /\ NextEffect(cs, 1) \in 1..(Len(cs) + 1)
          /\ NextEffect(cs, 1) \in DOMAIN cs => SideEffects(cs[NextEffect(cs, 1)])
          /\ \A k \in DOMAIN cs : 1 <= k /\ k < NextEffect(cs, 1) => ~SideEffects(cs[k])
      <4>1. 1 \in Nat \ {0} /\ 1 <= Len(cs) + 1
        BY <2>3
      <4> QED
        BY <2>3, <4>1, NextEffectFacts
    <3>2. at' = NextEffect(cs, 1)
      BY <2>1
    <3> QED
      BY <3>1, <3>2
  <2>5. Lines' = 1..n /\ Bucket' \subseteq {k \in 1..n : k < at'}
    BY <2>1, <2>2, <2>3 DEF Lines, Bucket
  <2>6. RoundInv'
    BY <1>1, <2>1, <2>2, <2>3, <2>4, <2>5 DEF RoundInv
  <2>7. ToolTypes'
    BY <1>1, <2>1, <2>2, <2>3, <2>4 DEF ToolTypes
  <2>8. DenyInv'
    BY <1>1, <2>2 DEF DenyInv
  <2>9. BreakerInv'
    BY <2>2 DEF BreakerInv
  <2> QED
    BY <2>6, <2>7, <2>8, <2>9
<1> QED
  BY <1>5, <1>6, <1>7, <1>8, <1>9

(* The reads, and the mode of the session. *)
LEMMA ReadsKeep ==
    ASSUME ToolInv, StartRead \/ FinishRead \/ SwitchMode
    PROVE  ToolInv'
<1> USE DEF ToolInv
<1>1. CASE StartRead
  <2>1. /\ phase = "calls" /\ Bucket \ flying # {}
        /\ flying' = flying \union {Min(Bucket \ flying)}
        /\ UNCHANGED <<plan, phase, calls, done, at, chain, breaker, denied>>
    BY <1>1 DEF StartRead, place
  <2>2. Bucket \ flying \in SUBSET Nat
    BY DEF Bucket, Lines, ToolTypes
  <2>3. Min(Bucket \ flying) \in Bucket \ flying
    BY <2>1, <2>2, MinOfNaturals
  <2>4. flying' \subseteq Bucket
    BY <2>1, <2>3 DEF RoundInv
  <2>5. RoundInv'
    BY <2>1, <2>4 DEF RoundInv, Bucket, Lines
  <2>6. ToolTypes' /\ DenyInv' /\ BreakerInv'
    BY <2>1 DEF ToolTypes, DenyInv, BreakerInv
  <2> QED
    BY <2>5, <2>6
<1>2. CASE FinishRead
  <2>1. PICK k \in flying, refused \in BOOLEAN, to \in Modes \ {"plan"}, approved \in BOOLEAN :
            /\ flying' = flying \ {k} /\ done' = done \union {k}
            /\ Recorded(refused)
            /\ IF calls[k] = "leave" /\ ~refused THEN LeavesPlan(to, approved) ELSE UNCHANGED plan
    BY <1>2 DEF FinishRead
  <2>2. UNCHANGED <<phase, calls, at, chain>>
    BY <1>2 DEF FinishRead, place
  <2>3. phase = "calls" /\ k \in Bucket /\ k \in Lines /\ k < at /\ chain.pc = "none"
    BY <2>1 DEF RoundInv, Bucket
  <2>4. plan' \in [mode : Modes, approved : BOOLEAN]
    BY <2>1 DEF LeavesPlan, ToolTypes
  <2>5. breaker' \in Nat /\ denied' \in [count : Nat, tripped : BOOLEAN] /\ BreakerInv'
    BY <2>1, <2>2, <2>3, RecordedKeeps
  <2>6. ToolTypes'
    BY <2>2, <2>4, <2>5 DEF ToolTypes
  <2>7. Lines' = Lines /\ Bucket' = Bucket \ {k}
    BY <2>1, <2>2 DEF Bucket, Lines
  <2>8. RoundInv'
    BY <2>1, <2>2, <2>3, <2>7 DEF RoundInv
  <2>9. DenyInv'
    BY <2>2, <2>3 DEF DenyInv
  <2> QED
    BY <2>5, <2>6, <2>8, <2>9
<1>3. CASE SwitchMode
  <2>1. UNCHANGED <<phase, calls, done, flying, at, chain, breaker, denied>>
    BY <1>3 DEF SwitchMode, place
  <2>2. plan' \in [mode : Modes, approved : BOOLEAN]
    BY <1>3 DEF SwitchMode, ToolTypes
  <2>3. RoundInv'
    BY <2>1 DEF RoundInv, Bucket, Lines
  <2>4. ToolTypes' /\ DenyInv' /\ BreakerInv'
    BY <2>1, <2>2 DEF ToolTypes, DenyInv, BreakerInv
  <2> QED
    BY <2>3, <2>4
<1> QED
  BY <1>1, <1>2, <1>3

(* The steps of the chain of one call. *)
LEMMA JudgeKeeps ==
    ASSUME ToolInv, StartCall
    PROVE  ToolInv'
<1> USE DEF ToolInv
<1>1. /\ phase = "calls" /\ at \in Lines /\ Bucket = {}
      /\ chain' = [NoChain EXCEPT !.pc = "hook", !.snap = plan, !.effective = calls[at],
                                  !.verdict = Check(calls[at], plan)]
      /\ UNCHANGED <<plan, phase, calls, done, flying, at, breaker, denied>>
  BY DEF StartCall, Judge, place
<1>2. calls[at] \in Inputs /\ SideEffects(calls[at]) /\ plan \in Snaps
  BY <1>1, ToolAssumption DEF ToolTypes, RoundInv, Lines, Snaps, ToolAssumption
<1>3. Check(calls[at], plan) \in Verdicts
  BY <1>2, CheckFacts
<1>4. /\ chain'.pc = "hook" /\ chain'.snap = plan /\ chain'.effective = calls[at]
      /\ chain'.verdict = Check(calls[at], plan)
  BY <1>1 DEF NoChain
<1>5. chain' \in Chains
  BY <1>1, <1>2, <1>3 DEF NoChain, Chains
<1>6. ToolTypes'
  BY <1>1, <1>5 DEF ToolTypes
<1>7. RoundInv'
  BY <1>1, <1>4 DEF RoundInv, Bucket, Lines
<1>8. DenyInv'
  <2>1. calls'[at'] = calls[at]
    BY <1>1
  <2>2. Check(calls'[at'], chain'.snap) = Check(calls[at], plan)
    BY <1>4, <2>1 DEF Check
  <2> QED
    BY <1>4, <2>1, <2>2 DEF DenyInv
<1>9. BreakerInv'
  BY <1>1 DEF BreakerInv
<1> QED
  BY <1>6, <1>7, <1>8, <1>9

(* A step of the chain either answers the call or takes the chain further: then *)
(* what is left to show is about the chain alone.                               *)
LEMMA StepKeeps ==
    ASSUME ToolInv, chain.pc # "none", UNCHANGED <<plan, phase, calls, flying>>,
           breaker' \in Nat, denied' \in [count : Nat, tripped : BOOLEAN], BreakerInv',
           \/ Answered
           \/ /\ UNCHANGED <<done, at>>
              /\ chain' \in Chains /\ DenyInv'
    PROVE  ToolInv'
<1> USE DEF ToolInv
<1>1. CASE Answered
  <2>1. RoundInv' /\ at' \in Nat /\ chain' \in Chains /\ chain'.pc = "none"
    BY <1>1, AnsweredKeeps
  <2>2. DenyInv'
    BY <2>1 DEF DenyInv
  <2>3. ToolTypes'
    BY <2>1 DEF ToolTypes
  <2> QED
    BY <2>1, <2>2, <2>3
<1>2. CASE UNCHANGED <<done, at>> /\ chain' \in Chains /\ DenyInv'
  <2>1. RoundInv'
    BY <1>2, ChainKeeps
  <2>2. ToolTypes'
    BY <1>2 DEF ToolTypes
  <2> QED
    BY <1>2, <2>1, <2>2
<1> QED
  BY <1>1, <1>2

(* What the PreToolUse hook leaves of a call: an answer, or a call on its way. *)
LEMMA PreToolUseCases ==
    ASSUME ToolInv, PreToolUse
    PROVE  \E effective \in Inputs :
            LET v == JudgedAgain(chain.verdict, effective)
            IN /\ chain.pc = "hook" /\ SideEffects(effective)
               /\ \/ Answered
                  \/ /\ v # "deny" /\ UNCHANGED <<done, at>>
                     /\ \/ chain' = [chain EXCEPT !.pc = "run", !.by = "hook", !.verdict = v,
                                                  !.effective = effective]
                        \/ /\ v = "allow"
                           /\ chain' = [chain EXCEPT !.pc = "run", !.by = "policy", !.verdict = v,
                                                     !.effective = effective]
                        \/ chain' = [chain EXCEPT !.pc = "request", !.verdict = v,
                                                  !.effective = effective]
               /\ UNCHANGED <<plan, place, flying, standing, breaker, denied>>
<1> USE DEF ToolInv
<1>1. PICK hook \in {"continue", "allow", "deny"}, effective \in Inputs :
        LET v == JudgedAgain(chain.verdict, effective)
        IN /\ chain.pc = "hook" /\ Tool(effective) = Tool(calls[at]) /\ SideEffects(effective)
           /\ CASE hook = "deny" \/ v = "deny"    -> Answered
                [] hook = "allow" /\ v # "deny"
                      -> /\ chain' = [chain EXCEPT !.pc = "run", !.by = "hook", !.verdict = v,
                                                   !.effective = effective]
                         /\ UNCHANGED <<done, at>>
                [] hook = "continue" /\ v = "allow"
                      -> /\ chain' = [chain EXCEPT !.pc = "run", !.by = "policy", !.verdict = v,
                                                   !.effective = effective]
                         /\ UNCHANGED <<done, at>>
                [] hook = "continue" /\ v \in {"ask", "restricted"}
                      -> /\ chain' = [chain EXCEPT !.pc = "request", !.verdict = v,
                                                   !.effective = effective]
                         /\ UNCHANGED <<done, at>>
           /\ UNCHANGED <<plan, place, flying, standing, breaker, denied>>
  BY DEF PreToolUse
<1> DEFINE v == JudgedAgain(chain.verdict, effective)
<1>2. v \in Verdicts
  BY <1>1, JudgedFacts
<1> HIDE DEF v
<1>3. hook = "deny" \/ v = "deny" \/ (hook = "allow" /\ v # "deny")
      \/ (hook = "continue" /\ v = "allow") \/ (hook = "continue" /\ v \in {"ask", "restricted"})
  BY <1>2 DEF Verdicts
<1> QED
  BY <1>1, <1>3 DEF v

LEMMA PreToolUseKeeps ==
    ASSUME ToolInv, PreToolUse
    PROVE  ToolInv'
<1> USE DEF ToolInv
<1>1. PICK effective \in Inputs :
        LET v == JudgedAgain(chain.verdict, effective)
        IN /\ chain.pc = "hook" /\ SideEffects(effective)
           /\ \/ Answered
              \/ /\ v # "deny" /\ UNCHANGED <<done, at>>
                 /\ \/ chain' = [chain EXCEPT !.pc = "run", !.by = "hook", !.verdict = v,
                                              !.effective = effective]
                    \/ /\ v = "allow"
                       /\ chain' = [chain EXCEPT !.pc = "run", !.by = "policy", !.verdict = v,
                                                 !.effective = effective]
                    \/ chain' = [chain EXCEPT !.pc = "request", !.verdict = v,
                                              !.effective = effective]
           /\ UNCHANGED <<plan, place, flying, standing, breaker, denied>>
  BY PreToolUseCases
<1> DEFINE v == JudgedAgain(chain.verdict, effective)
<1>3. UNCHANGED <<plan, phase, calls, flying, breaker, denied>>
  BY <1>1 DEF place
<1>4. v \in Verdicts
  BY <1>1, JudgedFacts
<1>5. breaker' \in Nat /\ denied' \in [count : Nat, tripped : BOOLEAN] /\ BreakerInv'
  BY <1>3 DEF ToolTypes, BreakerInv
<1>6. CASE Answered
  BY <1>1, <1>3, <1>5, <1>6, StepKeeps
<1>7. CASE ~Answered
  <2>1. /\ v # "deny" /\ UNCHANGED <<done, at>>
        /\ \E pc \in {"run", "request"}, by \in {"none", "hook", "policy", "always", "answer"} :
              /\ chain' = [chain EXCEPT !.pc = pc, !.by = by, !.verdict = v, !.effective = effective]
              /\ pc = "run" => by = "hook" \/ v = "allow"
    <3>1. chain \in Chains /\ chain = [chain EXCEPT !.by = chain.by]
      BY DEF ToolTypes, Chains
    <3>2. CASE chain' = [chain EXCEPT !.pc = "request", !.verdict = v, !.effective = effective]
      <4>1. chain' = [chain EXCEPT !.pc = "request", !.by = chain.by, !.verdict = v,
                                   !.effective = effective]
        BY <3>1, <3>2 DEF Chains
      <4>2. chain.by \in {"none", "hook", "policy", "always", "answer"}
        BY <3>1 DEF Chains
      <4> QED
        BY <1>1, <1>7, <4>1, <4>2
    <3> QED
      BY <1>1, <1>7, <3>2
  <2>2. PICK pc \in {"run", "request"} : \E by \in {"none", "hook", "policy", "always", "answer"} :
              /\ chain' = [chain EXCEPT !.pc = pc, !.by = by, !.verdict = v, !.effective = effective]
              /\ pc = "run" => by = "hook" \/ v = "allow"
    BY <2>1
  <2>3. PICK by \in {"none", "hook", "policy", "always", "answer"} :
              /\ chain' = [chain EXCEPT !.pc = pc, !.by = by, !.verdict = v, !.effective = effective]
              /\ pc = "run" => by = "hook" \/ v = "allow"
    BY <2>2
  <2>4. /\ Check(calls[at], chain.snap) # "deny"
        /\ Check(effective, chain.snap) # "deny"
        /\ calls[at] = "doc" => v = "restricted"
    BY <1>1, <2>1, JudgedFacts
  <2> HIDE DEF v
  <2>5. chain \in Chains
    BY DEF ToolTypes
  <2>6. /\ chain' \in Chains
        /\ chain'.pc = pc /\ chain'.by = by /\ chain'.verdict = v /\ chain'.effective = effective
        /\ chain'.snap = chain.snap
    BY <1>4, <2>3, <2>5 DEF Chains
  <2>7. DenyInv'
    <3>1. calls'[at'] = calls[at]
      BY <1>3, <2>1
    <3>2. Check(calls'[at'], chain'.snap) # "deny"
      BY <2>4, <2>6, <3>1 DEF Check
    <3>3. Check(chain'.effective, chain'.snap) # "deny"
      BY <2>4, <2>6 DEF Check
    <3> QED
      BY <2>3, <2>4, <2>6, <3>1, <3>2, <3>3 DEF DenyInv
  <2> QED
    BY <1>1, <1>3, <1>5, <2>1, <2>6, <2>7, StepKeeps
<1> QED
  BY <1>6, <1>7

(* Past the PreToolUse hook only the place and the reason of a chain change. *)
LEMMA OnwardKeeps ==
    ASSUME ToolInv, UNCHANGED <<calls, at>>,
           chain.pc \in {"request", "prompt", "run", "fallback", "retry"},
           NEW pc \in {"prompt", "run", "fallback", "retry"},
           NEW by \in {"none", "hook", "policy", "always", "answer"},
           chain' = [chain EXCEPT !.pc = pc, !.by = by],
           pc = "prompt" => chain.pc = "request",
           pc # "prompt" /\ calls[at] = "doc" => by \in {"hook", "answer"}
    PROVE  chain' \in Chains /\ DenyInv'
<1>1. chain \in Chains
  BY DEF ToolInv, ToolTypes
<1>2. /\ chain' \in Chains
      /\ chain'.pc = pc /\ chain'.by = by /\ chain'.verdict = chain.verdict
      /\ chain'.effective = chain.effective /\ chain'.snap = chain.snap
  BY <1>1 DEF Chains
<1>3. calls'[at'] = calls[at]
  OBVIOUS
<1>4. Check(calls[at], chain.snap) # "deny" /\ Check(chain.effective, chain.snap) # "deny"
  BY DEF ToolInv, DenyInv
<1>5. Check(calls'[at'], chain'.snap) # "deny" /\ Check(chain'.effective, chain'.snap) # "deny"
  BY <1>2, <1>3, <1>4 DEF Check
<1>6. pc = "prompt" /\ calls[at] = "doc" => chain.verdict = "restricted"
  BY DEF ToolInv, DenyInv
<1> QED
  BY <1>2, <1>3, <1>5, <1>6 DEF DenyInv

(* What policy.toml may say. *)
RulesInv == rules \in [Tools -> [Scopes -> {"none", "allow", "deny"}]]

LEMMA PersistedFacts ==
    ASSUME RulesInv, NEW input
    PROVE  Persisted(input) \in {"none", "allow", "deny"}
<1> DEFINE r == rules[Tool(input)]
<1>1. r \in [Scopes -> {"none", "allow", "deny"}]
  BY DEF RulesInv, Tool, Tools
<1>2. r["dir"] \in {"none", "allow", "deny"} /\ r["all"] \in {"none", "allow", "deny"}
  BY <1>1 DEF Scopes
<1> HIDE DEF r
<1>3. Persisted(input) \in {r["dir"], r["all"]}
  BY DEF Persisted, r
<1> QED
  BY <1>2, <1>3

LEMMA RulesStep == RulesInv /\ [ToolNext]_toolVars => RulesInv'
<1> SUFFICES ASSUME RulesInv, [ToolNext]_toolVars PROVE RulesInv'
  OBVIOUS
<1>1. CASE UserAnswers
  <2>1. CASE UNCHANGED rules
    BY <2>1 DEF RulesInv
  <2>2. ASSUME NEW tool \in Tools, NEW scope \in Scopes, NEW said \in {"allow", "deny"},
               rules' = [rules EXCEPT ![tool][scope] = said]
        PROVE  RulesInv'
    BY <2>2 DEF RulesInv
  <2>3. UNCHANGED rules \/ \E tool \in Tools, scope \in Scopes, said \in {"allow", "deny"} :
                              rules' = [rules EXCEPT ![tool][scope] = said]
    <3>1. PICK d \in {"allow", "allow always", "deny", "deny always"} : Remembers(d)
      BY <1>1 DEF UserAnswers
    <3> DEFINE tool == Tool(chain.effective)
               scope == IF InDirectory(chain.effective) THEN "dir" ELSE "all"
               said == IF d = "deny always" THEN "deny" ELSE "allow"
    <3>2. tool \in Tools /\ scope \in Scopes /\ said \in {"allow", "deny"}
      BY DEF Tool, Tools, Scopes
    <3>3. UNCHANGED rules \/ rules' = [rules EXCEPT ![tool][scope] = said]
      BY <3>1 DEF Remembers, standing
    <3> HIDE DEF tool, scope, said
    <3> QED
      BY <3>2, <3>3
  <2> QED
    BY <2>1, <2>2, <2>3
<1>2. CASE ~UserAnswers
  <2>1. UNCHANGED rules
    BY <1>2 DEF ToolNext, toolVars, standing, BeginTurn, ModelStops, BeginRound, EndRound,
       Interrupted, StartRead, FinishRead, SwitchMode, StartCall, Judge, PreToolUse,
       PermissionRequest, Dispatch, Fallback, Retry
  <2> QED
    BY <2>1 DEF RulesInv
<1> QED
  BY <1>1, <1>2

(* A restricted call goes from the PermissionRequest hook to a hook's Allow or to *)
(* the prompt, as nothing is looked up for it.                                    *)
(* And what the PermissionRequest hook and the answers given before leave of one. *)
LEMMA PermissionRequestCases ==
    ASSUME RulesInv, PermissionRequest
    PROVE  \/ Answered
       \/ /\ UNCHANGED <<done, at>>
          /\ \/ Runs("hook")
             \/ Runs("always") /\ chain.verdict = "ask"
             \/ chain' = [chain EXCEPT !.pc = "prompt"]
<1>1. PICK hook \in {"continue", "allow", "deny"} :
      LET input == chain.effective
          known == hook = "continue" /\ LooksUp(chain.verdict)
          session == known /\ Tool(input) \in session_allows
          rule == IF known /\ ~session THEN Persisted(input) ELSE "none"
      IN CASE hook = "deny" \/ rule = "deny"  -> Answered
           [] hook = "allow"                  -> Runs("hook") /\ UNCHANGED <<done, at>>
           [] session \/ rule = "allow"       -> Runs("always") /\ UNCHANGED <<done, at>>
           [] hook = "continue" /\ ~session /\ rule = "none"
                 -> chain' = [chain EXCEPT !.pc = "prompt"] /\ UNCHANGED <<done, at>>
  BY DEF PermissionRequest
<1> DEFINE known == hook = "continue" /\ LooksUp(chain.verdict)
           session == known /\ Tool(chain.effective) \in session_allows
           rule == IF known /\ ~session THEN Persisted(chain.effective) ELSE "none"
<1>2. session \/ rule = "allow" => chain.verdict = "ask"
  BY DEF LooksUp
<1>3. rule \in {"none", "allow", "deny"}
  <2>1. Persisted(chain.effective) \in {"none", "allow", "deny"}
    BY PersistedFacts
  <2> QED
    BY <2>1
<1> HIDE DEF session, rule
<1> QED
  BY <1>1, <1>2, <1>3 DEF session, rule

LEMMA PermissionRequestKeeps ==
    ASSUME ToolInv, RulesInv, PermissionRequest
    PROVE  ToolInv'
<1>1. /\ chain.pc = "request" /\ UNCHANGED <<plan, phase, calls, flying, breaker, denied>>
  BY DEF PermissionRequest, place
<1>2. breaker' \in Nat /\ denied' \in [count : Nat, tripped : BOOLEAN] /\ BreakerInv'
  BY <1>1 DEF ToolInv, ToolTypes, BreakerInv
<1>3. \/ Answered
      \/ /\ UNCHANGED <<done, at>>
         /\ \/ Runs("hook")
            \/ Runs("always") /\ chain.verdict = "ask"
            \/ chain' = [chain EXCEPT !.pc = "prompt"]
  BY PermissionRequestCases
<1>4. CASE Answered
  BY <1>1, <1>2, <1>4, StepKeeps
<1>5. ASSUME UNCHANGED <<done, at>>,
             NEW pc \in {"prompt", "run"},
             NEW by \in {"none", "hook", "policy", "always", "answer"},
             chain' = [chain EXCEPT !.pc = pc, !.by = by],
             pc = "run" /\ calls[at] = "doc" => by \in {"hook", "answer"}
      PROVE  ToolInv'
  <2>1. chain' \in Chains /\ DenyInv'
    BY <1>1, <1>5, OnwardKeeps
  <2> QED
    BY <1>1, <1>2, <1>5, <2>1, StepKeeps
<1>6. CASE UNCHANGED <<done, at>> /\ Runs("hook")
  BY <1>5, <1>6 DEF Runs
<1>7. CASE UNCHANGED <<done, at>> /\ Runs("always") /\ chain.verdict = "ask"
  <2>1. calls[at] # "doc"
    BY <1>1, <1>7 DEF ToolInv, DenyInv
  <2> QED
    BY <1>5, <1>7, <2>1 DEF Runs
<1>8. CASE UNCHANGED <<done, at>> /\ chain' = [chain EXCEPT !.pc = "prompt"]
  <2>1. /\ chain' = [chain EXCEPT !.pc = "prompt", !.by = chain.by]
        /\ chain.by \in {"none", "hook", "policy", "always", "answer"}
    BY <1>8 DEF ToolInv, ToolTypes, Chains
  <2> QED
    BY <1>5, <1>8, <2>1
<1> QED
  BY <1>3, <1>4, <1>6, <1>7, <1>8

LEMMA UserAnswersKeeps ==
    ASSUME ToolInv, UserAnswers
    PROVE  ToolInv'
<1>1. /\ chain.pc = "prompt" /\ UNCHANGED <<plan, phase, calls, flying, breaker, denied>>
      /\ Answered \/ (Runs("answer") /\ UNCHANGED <<done, at>>)
  BY DEF UserAnswers, place
<1>2. breaker' \in Nat /\ denied' \in [count : Nat, tripped : BOOLEAN] /\ BreakerInv'
  BY <1>1 DEF ToolInv, ToolTypes, BreakerInv
<1>3. CASE Answered
  BY <1>1, <1>2, <1>3, StepKeeps
<1>4. CASE Runs("answer") /\ UNCHANGED <<done, at>>
  <2>1. chain' \in Chains /\ DenyInv'
    BY <1>1, <1>4, OnwardKeeps DEF Runs
  <2> QED
    BY <1>1, <1>2, <1>4, <2>1, StepKeeps
<1> QED
  BY <1>1, <1>3, <1>4

(* A call that is run, and one that is run again outside the sandbox. *)
LEMMA DispatchKeeps ==
    ASSUME ToolInv, Dispatch \/ Fallback \/ Retry
    PROVE  ToolInv'
<1>1. /\ chain.pc \in {"run", "fallback", "retry"} /\ UNCHANGED <<plan, phase, calls, flying>>
      /\ \/ Answered
         \/ /\ UNCHANGED <<done, at>>
            /\ \E pc \in {"fallback", "retry"} : chain' = [chain EXCEPT !.pc = pc]
  BY DEF Dispatch, Fallback, Retry, place
<1>2. breaker' \in Nat /\ denied' \in [count : Nat, tripped : BOOLEAN] /\ BreakerInv'
  <2>1. CASE UNCHANGED <<breaker, denied>>
    BY <1>1, <2>1 DEF ToolInv, ToolTypes, BreakerInv
  <2>2. CASE \E refused \in BOOLEAN : Recorded(refused)
    <3>1. phase = "calls" /\ UNCHANGED phase
      BY <1>1 DEF ToolInv, RoundInv
    <3> QED
      BY <2>2, <3>1, RecordedKeeps DEF ToolInv
  <2> QED
    BY <2>1, <2>2 DEF Dispatch, Fallback, Retry
<1>3. CASE Answered
  BY <1>1, <1>2, <1>3, StepKeeps
<1>4. CASE /\ UNCHANGED <<done, at>>
           /\ \E pc \in {"fallback", "retry"} : chain' = [chain EXCEPT !.pc = pc]
  <2>1. PICK pc \in {"fallback", "retry"} : chain' = [chain EXCEPT !.pc = pc]
    BY <1>4
  <2>2. /\ chain' = [chain EXCEPT !.pc = pc, !.by = chain.by]
        /\ chain.by \in {"none", "hook", "policy", "always", "answer"}
    BY <2>1 DEF ToolInv, ToolTypes, Chains
  <2>3. calls[at] = "doc" => chain.by \in {"hook", "answer"}
    BY <1>1 DEF ToolInv, DenyInv
  <2>4. chain' \in Chains /\ DenyInv'
    BY <1>1, <1>4, <2>2, <2>3, OnwardKeeps
  <2> QED
    BY <1>1, <1>2, <1>4, <2>4, StepKeeps
<1> QED
  BY <1>1, <1>3, <1>4

--------------------------------------------------------------------------------
LEMMA ToolStep == ToolInv /\ RulesInv /\ [ToolNext]_toolVars => ToolInv'
<1> SUFFICES ASSUME ToolInv, RulesInv, [ToolNext]_toolVars PROVE ToolInv'
  OBVIOUS
<1>1. CASE UNCHANGED toolVars
  BY <1>1 DEF toolVars, ToolInv, ToolTypes, RoundInv, Bucket, Lines, DenyInv, BreakerInv, Check
<1>2. CASE ToolNext
  BY <1>2, TurnKeeps, ReadsKeep, JudgeKeeps, PreToolUseKeeps, PermissionRequestKeeps,
     UserAnswersKeeps, DispatchKeeps DEF ToolNext
<1> QED
  BY <1>1, <1>2

LEMMA ToolInvariant == ToolSpec => []ToolInv
<1>1. ToolInit => RulesInv
  BY DEF ToolInit, RulesInv
<1> QED
  BY <1>1, ToolInitInv, ToolStep, RulesStep, PTL DEF ToolSpec

(* HardDenyHolds: what the policy denies does not run, neither the input the model *)
(* asked for nor the one a hook has put in its place (permission.rs:214-260).      *)
THEOREM DeniedNeverRuns == ToolSpec => []HardDenyHolds
<1>1. ToolInv => HardDenyHolds
  BY DEF ToolInv, DenyInv, HardDenyHolds
<1> QED
  BY <1>1, ToolInvariant, PTL

(* RestrictedAsked: no Always given before lets a project document be written     *)
(* (permission.rs:566-620).                                                       *)
THEOREM DocumentsAreAsked == ToolSpec => []RestrictedAsked
<1>1. ToolInv => RestrictedAsked
  BY DEF ToolInv, DenyInv, RestrictedAsked
<1> QED
  BY <1>1, ToolInvariant, PTL

(* WavesKeepOrder: a call with a side effect runs alone, after everything before  *)
(* it and before everything after it (rt.rs, execute_tool_calls).                 *)
THEOREM CallsKeepOrder == ToolSpec => []WavesKeepOrder
<1>1. ToolInv => WavesKeepOrder
  <2> SUFFICES ASSUME ToolTypes, RoundInv, NEW i \in Running, NEW k \in Lines,
                      SideEffects(calls[i]) \/ SideEffects(calls[k])
               PROVE  (k < i => k \in done) /\ (k > i => k \notin done \union Running)
    BY DEF ToolInv, WavesKeepOrder
  <2>1. Lines \subseteq Nat /\ at \in Nat
    BY DEF ToolTypes, Lines
  <2>2. CASE i \in flying
    <3>1. i \in Bucket /\ chain.pc = "none" /\ Running = flying
      BY <2>2 DEF RoundInv, Running
    <3>2. i \in Lines /\ i < at /\ i \notin done
      BY <3>1 DEF Bucket
    <3>3. SideEffects(calls[k]) /\ k \notin Bucket
      BY <3>1 DEF RoundInv
    <3>4. k < i => k \in done
      BY <2>1, <3>2, <3>3 DEF Bucket
    <3>5. k > i => k \notin done
      BY <2>1, <3>1, <3>2, <3>3 DEF RoundInv
    <3> QED
      BY <3>1, <3>3, <3>4, <3>5 DEF RoundInv
  <2>3. CASE i \notin flying
    <3>1. i = at /\ Bucket = {} /\ flying = {} /\ Running = {at}
      BY <2>3 DEF RoundInv, Running
    <3> QED
      BY <2>1, <3>1 DEF RoundInv, Bucket
  <2> QED
    BY <2>2, <2>3
<1> QED
  BY <1>1, ToolInvariant, PTL

(* HardTripEnds: the breaker ends the turn when it has to, and only then (C-30). *)
THEOREM BreakerEndsTurns == ToolSpec => []HardTripEnds
<1>1. ToolInv => HardTripEnds
  <2> SUFFICES ASSUME ToolInv PROVE HardTripEnds
    OBVIOUS
  <2>1. denied.count = breaker /\ breaker \in Nat /\ HardTrip \in Nat
    BY ToolAssumption DEF ToolInv, ToolTypes, BreakerInv, ToolAssumption
  <2> QED
    BY <2>1 DEF ToolInv, BreakerInv, HardTripEnds
<1> QED
  BY <1>1, ToolInvariant, PTL

(***************************************************************************)
(* How much a round can be.  The breaker counts a call at most once, as it *)
(* is settled: with those still open it stays below the calls of all the   *)
(* rounds.                                                                 *)
(***************************************************************************)
OpenCalls == Lines \ done
Tally == breaker + Cardinality(OpenCalls) <= rounds * MaxCalls
RoundBounds ==
    /\ rounds \in 0..MaxRounds /\ Len(calls) <= MaxCalls
    /\ phase # "calls" => calls = <<>> /\ at = 0
    /\ Cardinality(flying) <= Width
    /\ session_allows \subseteq Tools
    /\ Tally

LEMMA ToolNumbers ==
    /\ MaxRounds \in Nat /\ MaxCalls \in Nat /\ ParallelReads \in Nat
    /\ Width \in Nat /\ Width >= 1
<1>1. MaxRounds \in Nat /\ MaxCalls \in Nat /\ ParallelReads \in Nat
  BY ToolAssumption
<1> QED
  BY <1>1 DEF Width

LEMMA LinesFinite ==
    ASSUME ToolTypes
    PROVE  /\ Lines = 1..Len(calls) /\ Len(calls) \in Nat /\ IsFiniteSet(Lines)
           /\ Cardinality(Lines) = Len(calls)
           /\ IsFiniteSet(OpenCalls) /\ Cardinality(OpenCalls) \in Nat
           /\ \A S : S \subseteq Lines => IsFiniteSet(S) /\ Cardinality(S) \in Nat
                                          /\ Cardinality(S) <= Len(calls)
<1>1. Lines = 1..Len(calls) /\ Len(calls) \in Nat
  BY DEF ToolTypes, Lines
<1>2. IsFiniteSet(Lines) /\ Cardinality(Lines) = Len(calls)
  <2>1. \A n \in Nat : IsFiniteSet(1..n) /\ Cardinality(1..n) = n
    BY FS_Interval
  <2> QED
    BY <1>1, <2>1
<1>3. \A S : S \subseteq Lines => IsFiniteSet(S) /\ Cardinality(S) \in Nat
                                 /\ Cardinality(S) <= Len(calls)
  <2> SUFFICES ASSUME NEW S, S \subseteq Lines
               PROVE  IsFiniteSet(S) /\ Cardinality(S) \in Nat /\ Cardinality(S) <= Len(calls)
    OBVIOUS
  <2>1. IsFiniteSet(S) /\ Cardinality(S) <= Cardinality(Lines)
    BY <1>2, FS_Subset
  <2> QED
    BY <1>2, <2>1, FS_CardinalityType
<1> QED
  BY <1>1, <1>2, <1>3 DEF OpenCalls

LEMMA TallyKept ==
    ASSUME Tally, UNCHANGED <<rounds, calls, done, breaker>> PROVE Tally'
BY DEF Tally, OpenCalls, Lines

LEMMA TallySettled ==
    ASSUME ToolTypes, Tally, rounds \in Nat, UNCHANGED <<rounds, calls>>, NEW k \in OpenCalls,
           done' = done \union {k}, breaker' \in {breaker, breaker + 1}
    PROVE  Tally'
<1>1. OpenCalls' = OpenCalls \ {k}
  BY DEF OpenCalls, Lines
<1>2. IsFiniteSet(OpenCalls) /\ Cardinality(OpenCalls) \in Nat
  BY LinesFinite
<1>3. Cardinality(OpenCalls \ {k}) = Cardinality(OpenCalls) - 1
  BY <1>2, FS_RemoveElement
<1>4. Cardinality(OpenCalls') = Cardinality(OpenCalls) - 1 /\ breaker \in Nat /\ MaxCalls \in Nat
  BY <1>1, <1>3, ToolNumbers DEF ToolTypes
<1> DEFINE n == Cardinality(OpenCalls)
           m == Cardinality(OpenCalls')
           most == rounds * MaxCalls
<1>5. n \in Nat /\ m = n - 1 /\ most \in Nat /\ breaker \in Nat /\ breaker + n <= most
  BY <1>2, <1>4 DEF Tally
<1> HIDE DEF n, m, most
<1>6. breaker' + m <= most
  <2>1. \A b, c, i, l \in Nat : c \in {b, b + 1} /\ b + i <= l => c + (i - 1) <= l
    OBVIOUS
  <2>2. breaker' \in Nat
    BY <1>5
  <2> QED
    BY <1>5, <2>1, <2>2
<1>7. rounds' * MaxCalls = most
  BY DEF most
<1> QED
  BY <1>6, <1>7 DEF Tally, m

LEMMA InitRoundBounds == ToolInit => RoundBounds
<1> SUFFICES ASSUME ToolInit PROVE RoundBounds
  OBVIOUS
<1>1. /\ rounds = 0 /\ calls = <<>> /\ at = 0 /\ flying = {} /\ done = {} /\ session_allows = {}
      /\ breaker = 0
  BY DEF ToolInit
<1>2. Lines = {} /\ OpenCalls = {}
  BY <1>1 DEF Lines, OpenCalls
<1>3. Cardinality({}) = 0
  BY FS_EmptySet
<1>4. Tally
  BY <1>1, <1>2, <1>3, ToolNumbers DEF Tally
<1> QED
  BY <1>1, <1>3, <1>4, ToolNumbers DEF RoundBounds

(* The round is over, or dropped: its calls are gone. *)
LEMMA RestBounds ==
    ASSUME ToolTypes, RoundBounds, Rest, rounds' = rounds, session_allows' = session_allows,
           breaker' \in Nat, breaker' <= breaker
    PROVE  RoundBounds'
<1>1. calls' = <<>> /\ done' = {} /\ flying' = {} /\ at' = 0
  BY DEF Rest
<1>2. Lines' = {} /\ OpenCalls' = {}
  BY <1>1 DEF Lines, OpenCalls
<1>3. Cardinality({}) = 0
  BY FS_EmptySet
<1>4. Tally'
  <2>1. \A b, c, n, m \in Nat : b <= c /\ c + n <= m => b + 0 <= m
    OBVIOUS
  <2>2. Cardinality(OpenCalls) \in Nat /\ breaker \in Nat /\ rounds \in Nat
    BY LinesFinite DEF ToolTypes, RoundBounds
  <2>3. rounds * MaxCalls \in Nat
    BY <2>2, ToolNumbers
  <2>4. breaker' + 0 <= rounds * MaxCalls
    BY <2>1, <2>2, <2>3 DEF RoundBounds, Tally
  <2>5. Cardinality(OpenCalls') = 0
    BY <1>2, <1>3
  <2> QED
    BY <2>4, <2>5 DEF Tally
<1> QED
  BY <1>1, <1>3, <1>4, ToolNumbers DEF RoundBounds

(* A round begins: its calls are open, and none of them is counted yet. *)
LEMMA BeginBounds ==
    ASSUME ToolTypes, RoundBounds, BeginRound PROVE RoundBounds'
<1>1. PICK n \in 1..MaxCalls : calls' \in [1..n -> Inputs]
  BY DEF BeginRound
<1>2. /\ phase' = "calls" /\ rounds' = rounds + 1 /\ rounds < MaxRounds /\ done' = {} /\ flying' = {}
      /\ UNCHANGED <<session_allows, breaker>>
  BY DEF BeginRound, standing
<1>3. n \in Nat /\ Len(calls') = n /\ Lines' = 1..n /\ OpenCalls' = 1..n /\ n <= MaxCalls
  BY <1>1, <1>2, ToolNumbers DEF Lines, OpenCalls
<1>4. Cardinality(OpenCalls') = n
  BY <1>3, FS_Interval
<1>5. Tally'
  <2>1. Cardinality(OpenCalls) \in Nat /\ breaker \in Nat /\ rounds \in Nat /\ MaxCalls \in Nat
    BY LinesFinite, ToolNumbers DEF ToolTypes, RoundBounds
  <2>2. \A r, c \in Nat : r * c \in Nat /\ (r + 1) * c = r * c + c
    OBVIOUS
  <2>3. \A b, k, m, c, l \in Nat : b + k <= m /\ l <= c => b + l <= m + c
    OBVIOUS
  <2>4. breaker + n <= rounds * MaxCalls + MaxCalls
    BY <1>3, <2>1, <2>2, <2>3 DEF RoundBounds, Tally
  <2>5. breaker + n <= (rounds + 1) * MaxCalls
    BY <2>1, <2>2, <2>4
  <2> QED
    BY <1>2, <1>4, <2>5 DEF Tally
<1>6. Cardinality(flying') = 0
  BY <1>2, FS_EmptySet
<1> QED
  BY <1>2, <1>3, <1>5, <1>6, ToolNumbers DEF RoundBounds

(* The call the loop has come to is settled, whether or not it was refused. *)
LEMMA AnsweredBounds ==
    ASSUME ToolInv, RoundBounds, chain.pc # "none", Answered,
           UNCHANGED <<phase, rounds, calls, flying, session_allows>>,
           breaker' \in {breaker, breaker + 1}
    PROVE  RoundBounds'
<1>1. /\ phase = "calls" /\ at \in Lines /\ done \subseteq {k \in Lines : k < at}
  BY DEF ToolInv, RoundInv
<1>2. at \in OpenCalls
  BY <1>1, LinesFinite DEF OpenCalls, ToolInv
<1>3. done' = done \union {at}
  BY DEF Answered
<1>4. Tally'
  BY <1>2, <1>3, TallySettled DEF ToolInv, RoundBounds
<1> QED
  BY <1>1, <1>4 DEF RoundBounds, Width

LEMMA ChainBounds ==
    ASSUME RoundBounds, UNCHANGED <<phase, rounds, calls, done, flying, at, breaker>>,
           session_allows' \subseteq Tools
    PROVE  RoundBounds'
<1>1. Tally'
  BY TallyKept DEF RoundBounds
<1> QED
  BY <1>1 DEF RoundBounds, Width

LEMMA RecordedCounts ==
    ASSUME NEW refused \in BOOLEAN, Recorded(refused) PROVE breaker' \in {breaker, breaker + 1}
BY DEF Recorded

LEMMA ReadBounds ==
    ASSUME ToolInv, RoundBounds, StartRead \/ FinishRead PROVE RoundBounds'
<1>1. /\ flying \subseteq Lines \ done /\ ToolTypes
  BY DEF ToolInv, RoundInv, Bucket
<1>2. IsFiniteSet(flying) /\ Cardinality(flying) \in Nat
  BY <1>1, LinesFinite
<1>3. CASE StartRead
  <2>1. PICK k : flying' = flying \union {k}
    BY <1>3 DEF StartRead
  <2>2. /\ Cardinality(flying) < Width
        /\ UNCHANGED <<phase, rounds, calls, done, at, breaker, session_allows>>
    BY <1>3 DEF StartRead, place, standing
  <2>3. IsFiniteSet(flying') /\ Cardinality(flying') <= Cardinality(flying) + 1
    <3>1. /\ IsFiniteSet(flying \union {k})
          /\ Cardinality(flying \union {k}) =
                IF k \in flying THEN Cardinality(flying) ELSE Cardinality(flying) + 1
      BY <1>2, FS_AddElement
    <3> QED
      BY <1>2, <2>1, <3>1
  <2>4. Cardinality(flying') <= Width
    <3>1. Cardinality(flying') \in Nat
      BY <2>3, FS_CardinalityType
    <3> QED
      BY <1>2, <2>2, <2>3, <3>1, ToolNumbers
  <2>5. Tally'
    BY <2>2, TallyKept DEF RoundBounds
  <2> QED
    BY <2>2, <2>4, <2>5 DEF RoundBounds, Width
<1>4. CASE FinishRead
  <2>1. PICK k \in flying, refused \in BOOLEAN :
             flying' = flying \ {k} /\ done' = done \union {k} /\ Recorded(refused)
    BY <1>4 DEF FinishRead
  <2>2. UNCHANGED <<phase, rounds, calls, at, session_allows>>
    BY <1>4 DEF FinishRead, place, standing
  <2>3. Cardinality(flying') <= Width
    <3>1. Cardinality(flying \ {k}) = Cardinality(flying) - 1
      BY <1>2, FS_RemoveElement
    <3>2. Cardinality(flying) <= Width
      BY DEF RoundBounds
    <3> QED
      BY <1>2, <2>1, <3>1, <3>2, ToolNumbers
  <2>4. k \in OpenCalls
    BY <1>1 DEF OpenCalls
  <2>5. Tally'
    BY <1>1, <2>1, <2>2, <2>4, TallySettled, RecordedCounts DEF RoundBounds
  <2> QED
    BY <2>2, <2>3, <2>5 DEF RoundBounds, Width
<1> QED
  BY <1>3, <1>4

LEMMA RoundStep ==
    ASSUME ToolInv, RulesInv, RoundBounds, [ToolNext]_toolVars PROVE RoundBounds'
<1>0. ToolTypes /\ breaker \in Nat /\ session_allows \subseteq Tools
  BY DEF ToolInv, ToolTypes, RoundBounds
<1>1. CASE BeginTurn
  <2>1. /\ phase = "idle" /\ breaker' = 0 /\ session_allows' = session_allows
        /\ UNCHANGED <<rounds, calls, done, flying, at>>
    BY <1>1 DEF BeginTurn, standing, BreakerReset
  <2>2. Tally'
    <3>1. \A b, n, m \in Nat : b + n <= m => 0 + n <= m
      OBVIOUS
    <3>2. Cardinality(OpenCalls) \in Nat /\ rounds \in Nat
      BY <1>0, LinesFinite DEF RoundBounds
    <3>3. rounds * MaxCalls \in Nat
      BY <3>2, ToolNumbers
    <3>4. 0 + Cardinality(OpenCalls) <= rounds * MaxCalls
      BY <1>0, <3>1, <3>2, <3>3 DEF RoundBounds, Tally
    <3>5. OpenCalls' = OpenCalls
      BY <2>1 DEF OpenCalls, Lines
    <3> QED
      BY <2>1, <3>4, <3>5 DEF Tally
  <2>3. calls = <<>> /\ at = 0
    BY <2>1 DEF RoundBounds
  <2> QED
    BY <2>1, <2>2, <2>3 DEF RoundBounds, Width
<1>2. CASE ModelStops \/ EndRound \/ Interrupted
  <2>1. Rest /\ UNCHANGED <<rounds, session_allows, breaker>>
    BY <1>2 DEF ModelStops, EndRound, Interrupted, standing
  <2> QED
    BY <1>0, <2>1, RestBounds
<1>3. CASE BeginRound
  BY <1>0, <1>3, BeginBounds
<1>4. CASE StartRead \/ FinishRead
  BY <1>4, ReadBounds
<1>5. CASE SwitchMode \/ StartCall
  <2>1. UNCHANGED <<phase, rounds, calls, done, flying, at, breaker, session_allows>>
    BY <1>5 DEF SwitchMode, StartCall, Judge, place, standing
  <2> QED
    BY <1>0, <2>1, ChainBounds
<1>6. CASE PreToolUse
  <2>1. /\ chain.pc # "none" /\ UNCHANGED <<phase, rounds, calls, flying, session_allows, breaker>>
        /\ Answered \/ UNCHANGED <<done, at>>
    BY <1>6, PreToolUseCases DEF place, standing
  <2> QED
    BY <1>0, <2>1, AnsweredBounds, ChainBounds
<1>7. CASE PermissionRequest
  <2>1. /\ chain.pc # "none" /\ UNCHANGED <<phase, rounds, calls, flying, session_allows, breaker>>
    BY <1>7 DEF PermissionRequest, place, standing
  <2>2. Answered \/ UNCHANGED <<done, at>>
    BY <1>7, PermissionRequestCases
  <2> QED
    BY <1>0, <2>1, <2>2, AnsweredBounds, ChainBounds
<1>8. CASE UserAnswers
  <2>1. /\ chain.pc # "none" /\ UNCHANGED <<phase, rounds, calls, flying, breaker>>
        /\ Answered \/ UNCHANGED <<done, at>>
        /\ \E d \in {"allow", "allow always", "deny", "deny always"} : Remembers(d)
    BY <1>8 DEF UserAnswers, place
  <2>2. session_allows' \subseteq Tools
    BY <1>0, <2>1 DEF Remembers, standing, Tool, Tools
  <2>3. CASE UNCHANGED <<done, at>>
    BY <2>1, <2>2, <2>3, ChainBounds
  <2>4. CASE Answered
    <3>1. /\ phase = "calls" /\ at \in Lines /\ done \subseteq {k \in Lines : k < at}
      BY <2>1 DEF ToolInv, RoundInv
    <3>2. at \in OpenCalls
      BY <1>0, <3>1, LinesFinite DEF OpenCalls
    <3>3. done' = done \union {at}
      BY <2>4 DEF Answered
    <3>4. Tally'
      <4>1. UNCHANGED <<rounds, calls, breaker>>
        BY <2>1
      <4>2. rounds \in Nat /\ Tally
        BY DEF RoundBounds
      <4>3. breaker' \in {breaker, breaker + 1}
        BY <4>1
      <4> QED
        BY <1>0, <3>2, <3>3, <4>1, <4>2, <4>3, TallySettled
    <3> QED
      BY <2>1, <2>2, <3>1, <3>4 DEF RoundBounds, Width
  <2> QED
    BY <2>1, <2>3, <2>4
<1>9. CASE Dispatch
  <2>1. chain.pc # "none" /\ UNCHANGED <<phase, rounds, calls, flying, session_allows>>
    BY <1>9 DEF Dispatch, place, standing
  <2>2. CASE \E refused \in BOOLEAN : Recorded(refused) /\ Answered
    BY <2>1, <2>2, AnsweredBounds, RecordedCounts
  <2>3. CASE UNCHANGED <<done, at, breaker>>
    BY <1>0, <2>1, <2>3, ChainBounds
  <2> QED
    BY <1>9, <2>2, <2>3 DEF Dispatch
<1>10. CASE Fallback \/ Retry
  <2>1. /\ chain.pc # "none" /\ UNCHANGED <<phase, rounds, calls, flying, session_allows, breaker>>
        /\ Answered \/ UNCHANGED <<done, at>>
    BY <1>10 DEF Fallback, Retry, place, standing
  <2> QED
    BY <1>0, <2>1, AnsweredBounds, ChainBounds
<1>11. CASE UNCHANGED toolVars
  <2>1. UNCHANGED <<phase, rounds, calls, done, flying, at, breaker, session_allows>>
    BY <1>11 DEF toolVars
  <2> QED
    BY <1>0, <2>1, ChainBounds
<1> QED
  BY <1>1, <1>2, <1>3, <1>4, <1>5, <1>6, <1>7, <1>8, <1>9, <1>10, <1>11 DEF ToolNext

(* A round is well formed wherever its calls stand: reads in flight are of the    *)
(* round and at most parallel_reads of them, a chain belongs to a call with a     *)
(* side effect, and the breaker has counted no call twice (rt.rs, denial.rs).     *)
THEOREM ToolsTyped == ToolSpec => []ToolTypeOK
<1>1. ToolInv /\ RulesInv /\ RoundBounds => ToolTypeOK
  <2> SUFFICES ASSUME ToolInv, RulesInv, RoundBounds PROVE ToolTypeOK
    OBVIOUS
  <2>0. ToolTypes /\ RoundInv
    BY DEF ToolInv
  <2>1. /\ Lines = 1..Len(calls) /\ Len(calls) \in Nat
        /\ Cardinality(OpenCalls) \in Nat
    BY <2>0, LinesFinite
  <2>2. \A k \in Lines : calls[k] \in Inputs
    BY <2>0 DEF ToolTypes, Lines
  <2>3. done \subseteq Lines /\ flying \subseteq Lines \ done
    BY <2>0 DEF RoundInv, Bucket
  <2>4. at \in 0..(Len(calls) + 1)
    <3>1. CASE phase = "calls"
      BY <2>0, <2>1, <3>1 DEF RoundInv
    <3>2. CASE phase # "calls"
      <4>1. at = 0
        BY <3>2 DEF RoundBounds
      <4> QED
        BY <2>1, <4>1
    <3> QED
      BY <3>1, <3>2
  <2>5. chain \in [pc : {"none", "hook", "request", "prompt", "run", "fallback", "retry"},
                   snap : [mode : PermissionMode, approved : BOOLEAN], verdict : DOMAIN Rank,
                   effective : Inputs \union {"none"},
                   by : {"none", "hook", "policy", "always", "answer"}]
    <3>1. DOMAIN Rank = Verdicts
      BY DEF Rank, Verdicts
    <3> QED
      BY <2>0, <3>1 DEF ToolTypes, Chains, Snaps
  <2>6. chain.pc # "none" => at \in Lines /\ SideEffects(calls[at])
    BY <2>0 DEF RoundInv
  <2>7. breaker \in 0..(MaxRounds * MaxCalls)
    <3>1. breaker \in Nat /\ rounds \in Nat /\ MaxRounds \in Nat /\ MaxCalls \in Nat
          /\ rounds <= MaxRounds
      BY <2>0, ToolNumbers DEF ToolTypes, RoundBounds
    <3>2. \A r, m, c \in Nat : r <= m => r * c <= m * c /\ r * c \in Nat /\ m * c \in Nat
      <4> SUFFICES ASSUME NEW r \in Nat, NEW m \in Nat, NEW c \in Nat, r <= m
                   PROVE  r * c <= m * c /\ r * c \in Nat /\ m * c \in Nat
        OBVIOUS
      <4>1. PICK d \in Nat : m = r + d
        <5>1. m - r \in Nat /\ m = r + (m - r)
          OBVIOUS
        <5> QED
          BY <5>1
      <4>2. (r + d) * c = r * c + d * c /\ r * c \in Nat /\ d * c \in Nat
        OBVIOUS
      <4> QED
        BY <4>1, <4>2
    <3>3. \A b, n, m, k \in Nat : b + n <= m /\ m <= k => b \in 0..k
      OBVIOUS
    <3>4. /\ rounds * MaxCalls <= MaxRounds * MaxCalls
          /\ rounds * MaxCalls \in Nat /\ MaxRounds * MaxCalls \in Nat
      BY <3>1, <3>2
    <3>5. breaker + Cardinality(OpenCalls) <= rounds * MaxCalls
      BY DEF RoundBounds, Tally
    <3> QED
      BY <2>1, <3>1, <3>3, <3>4, <3>5
  <2>8. denied.count \in Nat /\ denied.tripped \in BOOLEAN
    BY <2>0 DEF ToolTypes
  <2>9. rules \in [Tools -> [Scopes -> {"none", "allow", "deny"}]]
    BY DEF RulesInv
  <2>10. /\ plan \in [mode : Modes, approved : BOOLEAN] /\ phase \in {"idle", "model", "calls"}
         /\ rounds \in 0..MaxRounds /\ Len(calls) <= MaxCalls
         /\ Cardinality(flying) <= Width /\ session_allows \subseteq Tools
    BY <2>0 DEF ToolTypes, RoundBounds
  <2> QED
    BY <2>2, <2>3, <2>4, <2>5, <2>6, <2>7, <2>8, <2>9, <2>10 DEF ToolTypeOK
<1>2. ToolInit => RulesInv
  BY DEF ToolInit, RulesInv
<1> QED
  BY <1>1, <1>2, ToolInitInv, ToolStep, RulesStep, InitRoundBounds, RoundStep, PTL DEF ToolSpec

--------------------------------------------------------------------------------
(***************************************************************************)
(* Mcp, for any number of callers, servers, keys, deaths and restarts: a   *)
(* request keeps its connection, and equal calls share one request.        *)
(***************************************************************************)
Futures == DOMAIN dispatches
FutureCall == [key : RequestKey, at : {"made", "queued", "sent", "done"}, over : Nat]

McpCaller == [at : {"idle", "dispatching", "waiting", "returning"}, key : RequestKey, on : Nat,
           made : BOOLEAN]

McpTypes ==
    /\ connections \in [Servers -> [up : {"none", "live", "closed"}, number : Nat]]
    /\ dispatches \in Seq(FutureCall)
    /\ inflight \in [RequestKey -> Nat]
    /\ callers \in [Callers -> McpCaller]

(***************************************************************************)
(* The read guard.  A request that is under way holds it, and a connection *)
(* is replaced only when nobody does.                                      *)
(***************************************************************************)
GuardInv ==
    \A f \in Futures : dispatches[f].at = "sent" =>
        f \in readers /\ Conn(f).number = dispatches[f].over

(* Who is let in holds the guard, and nobody loses it. *)
LEMMA LetInKeeps ==
    ASSUME NEW holding, NEW queue, LetIn(holding, queue) PROVE holding \subseteq readers'
BY DEF LetIn

(***************************************************************************)
(* The list.  A request that is not done is the listed one of its key; a   *)
(* call that made one is the only one to have made it, and what it takes   *)
(* off the list is that request.                                           *)
(***************************************************************************)
Makes(c) == callers[c].at \in {"waiting", "returning"} /\ callers[c].made

ListInv ==
    /\ \A k \in RequestKey : inflight[k] # 0 => inflight[k] \in Futures
    /\ \A f \in Futures : dispatches[f].at # "done" => inflight[dispatches[f].key] = f
    /\ \A c \in Callers : callers[c].at \in {"waiting", "returning"} => callers[c].on \in Futures
    /\ \A c \in Callers : callers[c].at = "returning" =>
          callers[c].made /\ dispatches[callers[c].on].at = "done"
    /\ \A c \in Callers : Makes(c) =>
          /\ inflight[callers[c].key] = callers[c].on
          /\ dispatches[callers[c].on].key = callers[c].key
    /\ \A c, d \in Callers : c # d /\ Makes(c) /\ Makes(d) => callers[c].on # callers[d].on

--------------------------------------------------------------------------------
(* What the steps of a future change of the futures. *)
Moved(f, stands, over) ==
    /\ dispatches' \in Seq(FutureCall) /\ Futures' = Futures
    /\ \A g \in Futures :
          /\ dispatches'[g].key = dispatches[g].key
          /\ dispatches'[g].at = IF g = f THEN stands ELSE dispatches[g].at
          /\ dispatches'[g].over = IF g = f THEN over ELSE dispatches[g].over

LEMMA IsDispatch ==
    ASSUME dispatches \in Seq(FutureCall), NEW f \in Futures
    PROVE  /\ dispatches[f] \in FutureCall
           /\ dispatches[f].key \in RequestKey /\ dispatches[f].key[1] \in Servers
           /\ dispatches[f].over \in Nat
<1>1. dispatches[f] \in FutureCall
  BY DEF Futures
<1>2. dispatches[f].key \in Servers \X ToolInputs /\ dispatches[f].over \in Nat
  BY <1>1 DEF FutureCall, RequestKey
<1>3. \A k \in Servers \X ToolInputs : k[1] \in Servers
  OBVIOUS
<1> QED
  BY <1>1, <1>2, <1>3 DEF RequestKey

LEMMA PutFacts ==
    ASSUME dispatches \in Seq(FutureCall), NEW f \in Futures, NEW d \in FutureCall,
           dispatches' = [dispatches EXCEPT ![f] = d], d.key = dispatches[f].key
    PROVE  Moved(f, d.at, d.over)
BY DEF Moved, Futures

LEMMA DispatchMoves ==
    ASSUME dispatches \in Seq(FutureCall), NEW f \in Futures,
           NEW stands \in {"queued", "sent", "done"}, NEW over \in Nat
    PROVE  /\ dispatches' = [dispatches EXCEPT ![f].at = stands, ![f].over = over] => Moved(f, stands, over)
           /\ dispatches' = [dispatches EXCEPT ![f].at = stands] => Moved(f, stands, dispatches[f].over)
<1> DEFINE d == [dispatches[f] EXCEPT !.at = stands]
<1> DEFINE e == [dispatches[f] EXCEPT !.at = stands, !.over = over]
<1>1. dispatches[f] \in FutureCall
  BY IsDispatch
<1>2. /\ d \in FutureCall /\ d.at = stands /\ d.over = dispatches[f].over /\ d.key = dispatches[f].key
      /\ e \in FutureCall /\ e.at = stands /\ e.over = over /\ e.key = dispatches[f].key
  BY <1>1 DEF FutureCall
<1>3. ASSUME dispatches' = [dispatches EXCEPT ![f].at = stands] PROVE Moved(f, stands, dispatches[f].over)
  <2>1. dispatches' = [dispatches EXCEPT ![f] = d]
    BY <1>3
  <2> HIDE DEF d
  <2> QED
    BY <2>1, <1>2, PutFacts
<1>4. ASSUME dispatches' = [dispatches EXCEPT ![f].at = stands, ![f].over = over] PROVE Moved(f, stands, over)
  <2>1. dispatches' = [dispatches EXCEPT ![f] = e]
    BY <1>4, <1>1 DEF FutureCall, Futures
  <2> HIDE DEF e
  <2> QED
    BY <2>1, <1>2, PutFacts
<1> QED
  BY <1>3, <1>4

(* And what a call changes that makes a future. *)
Listed(key) ==
    /\ dispatches' \in Seq(FutureCall)
    /\ Len(dispatches') \in Nat \ {0} /\ Len(dispatches') \notin Futures
    /\ Futures' = Futures \union {Len(dispatches')}
    /\ \A g \in Futures : dispatches'[g] = dispatches[g]
    /\ dispatches'[Len(dispatches')] = NewDispatch(key)

LEMMA ListsFacts ==
    ASSUME dispatches \in Seq(FutureCall), NEW key \in RequestKey,
           dispatches' = Append(dispatches, NewDispatch(key))
    PROVE  Listed(key)
<1>1. NewDispatch(key) \in FutureCall
  BY DEF NewDispatch, FutureCall
<1> QED
  BY <1>1 DEF Futures, Listed

LEMMA CallIsCaller == Call \in McpCaller /\ Call.at = "idle"
<1>1. PICK t \in ToolInputs : TRUE
  BY McpAssumption
<1>2. <<1, t>> \in Servers \X ToolInputs
  BY <1>1, McpAssumption DEF Servers
<1>3. (CHOOSE k \in RequestKey : TRUE) \in RequestKey
  BY <1>2 DEF RequestKey
<1> QED
  BY <1>3 DEF Call, McpCaller

(* What the steps of a call change of the calls. *)
CallerGoes(c, stands, key, on, made) ==
    /\ callers' \in [Callers -> McpCaller]
    /\ callers'[c].at = stands /\ callers'[c].key = key
    /\ callers'[c].on = on /\ callers'[c].made = made
    /\ \A d \in Callers \ {c} : callers'[d] = callers[d]

LEMMA CallerFields ==
    ASSUME callers \in [Callers -> McpCaller], NEW c \in Callers
    PROVE  /\ callers[c].at \in {"idle", "dispatching", "waiting", "returning"}
           /\ callers[c].key \in RequestKey /\ callers[c].on \in Nat /\ callers[c].made \in BOOLEAN
BY DEF McpCaller

LEMMA CallsFacts ==
    ASSUME callers \in [Callers -> McpCaller], NEW c \in Callers, NEW r \in McpCaller,
           callers' = [callers EXCEPT ![c] = r]
    PROVE  CallerGoes(c, r.at, r.key, r.on, r.made)
BY DEF CallerGoes

LEMMA JoinsFacts ==
    ASSUME McpTypes, NEW c \in Callers, NEW key \in RequestKey, Joins(c, key)
    PROVE  CallerGoes(c, "waiting", key, inflight[key], FALSE)
<1> DEFINE r == [at |-> "waiting", key |-> key, on |-> inflight[key], made |-> FALSE]
<1>1. callers' = [callers EXCEPT ![c] = r]
  BY DEF Joins
<1>2. r \in McpCaller /\ r.at = "waiting" /\ r.key = key /\ r.on = inflight[key] /\ r.made = FALSE
  BY DEF McpCaller, McpTypes
<1>3. callers \in [Callers -> McpCaller]
  BY DEF McpTypes
<1> HIDE DEF r
<1>4. CallerGoes(c, r.at, r.key, r.on, r.made)
  BY <1>1, <1>2, <1>3, CallsFacts
<1> QED
  BY <1>2, <1>4

LEMMA LooksFacts ==
    ASSUME McpTypes, NEW c \in Callers, NEW key \in RequestKey, LooksInFlight(c, key),
           inflight[key] = 0
    PROVE  CallerGoes(c, "dispatching", key, callers[c].on, callers[c].made)
<1> DEFINE r == [callers[c] EXCEPT !.at = "dispatching", !.key = key]
<1>1. callers' = [callers EXCEPT ![c] = r]
  BY DEF LooksInFlight, McpTypes, McpCaller
<1>2. callers \in [Callers -> McpCaller] /\ callers[c] \in McpCaller
  BY DEF McpTypes
<1>3. /\ r \in McpCaller /\ r.at = "dispatching" /\ r.key = key
      /\ r.on = callers[c].on /\ r.made = callers[c].made
  BY <1>2 DEF McpCaller
<1> HIDE DEF r
<1>4. CallerGoes(c, r.at, r.key, r.on, r.made)
  BY <1>1, <1>2, <1>3, CallsFacts
<1> QED
  BY <1>3, <1>4

LEMMA MakesFacts ==
    ASSUME McpTypes, NEW c \in Callers, NEW f \in Nat,
           callers' = [callers EXCEPT ![c].at = "waiting", ![c].on = f, ![c].made = TRUE]
    PROVE  CallerGoes(c, "waiting", callers[c].key, f, TRUE)
<1> DEFINE r == [callers[c] EXCEPT !.at = "waiting", !.on = f, !.made = TRUE]
<1>1. callers' = [callers EXCEPT ![c] = r]
  BY DEF McpTypes, McpCaller
<1>2. callers \in [Callers -> McpCaller] /\ callers[c] \in McpCaller
  BY DEF McpTypes
<1>3. /\ r \in McpCaller /\ r.at = "waiting" /\ r.key = callers[c].key
      /\ r.on = f /\ r.made = TRUE
  BY <1>2 DEF McpCaller
<1> HIDE DEF r
<1>4. CallerGoes(c, r.at, r.key, r.on, r.made)
  BY <1>1, <1>2, <1>3, CallsFacts
<1> QED
  BY <1>3, <1>4

LEMMA InitToolTypes == McpInit => McpTypes
BY CallIsCaller DEF McpInit, McpTypes

LEMMA McpTypesKept ==
    ASSUME McpTypes, [McpNext]_mcpVars PROVE McpTypes'
<1> USE DEF McpTypes
<1>0. \A c \in Callers : callers[c].key \in RequestKey
  BY CallerFields
<1>1. ASSUME NEW c \in Callers, NEW key \in RequestKey, LooksInFlight(c, key) PROVE McpTypes'
  <2>1. callers' \in [Callers -> McpCaller]
    BY <1>1, LooksFacts, JoinsFacts DEF LooksInFlight, CallerGoes
  <2> QED
    BY <1>1, <2>1 DEF LooksInFlight
<1>2. ASSUME NEW c \in Callers, Lists(c) PROVE McpTypes'
  <2> DEFINE key == callers[c].key
  <2>1. CASE inflight[key] # 0
    <3>1. Joins(c, key) /\ UNCHANGED <<connections, inflight, dispatches>>
      BY <1>2, <2>1 DEF Lists
    <3> QED
      BY <1>0, <3>1, JoinsFacts DEF CallerGoes
  <2>2. CASE inflight[key] = 0
    <3>1. /\ UNCHANGED connections
          /\ dispatches' = Append(dispatches, NewDispatch(key))
          /\ inflight' = [inflight EXCEPT ![key] = Len(dispatches')]
          /\ callers' = [callers EXCEPT ![c].at = "waiting", ![c].on = Len(dispatches'),
                                        ![c].made = TRUE]
      BY <1>2, <2>2 DEF Lists
    <3>2. dispatches' \in Seq(FutureCall) /\ Len(dispatches') \in Nat
      BY <1>0, <3>1, ListsFacts DEF Listed
    <3>3. callers' \in [Callers -> McpCaller]
      BY <3>1, <3>2, MakesFacts DEF CallerGoes
    <3>4. inflight' \in [RequestKey -> Nat]
      BY <3>1, <3>2
    <3> QED
      BY <3>1, <3>2, <3>3, <3>4
  <2> QED
    BY <2>1, <2>2
<1>3. ASSUME NEW c \in Callers, Returns(c) PROVE McpTypes'
  BY <1>3, CallIsCaller DEF Returns, McpCaller
<1>4. ASSUME NEW c \in Callers, Removes(c) \/ CallCancelled(c) PROVE McpTypes'
  <2>1. callers' = [callers EXCEPT ![c] = Call] /\ UNCHANGED <<connections, dispatches>>
    BY <1>4 DEF Removes, CallCancelled
  <2>2. inflight' \in [RequestKey -> Nat]
    <3>1. \/ UNCHANGED inflight
          \/ inflight' = [inflight EXCEPT ![callers[c].key] = 0]
      BY <1>4 DEF Removes, CallCancelled
    <3> QED
      BY <3>1
  <2> QED
    BY <2>1, <2>2, CallIsCaller
<1>5. ASSUME NEW f \in Futures, AsksForConnections(f) PROVE McpTypes'
  <2>1. Moved(f, "queued", dispatches[f].over)
    BY <1>5, IsDispatch, DispatchMoves DEF AsksForConnections
  <2> QED
    BY <1>5, <2>1 DEF AsksForConnections, Moved
<1>6. ASSUME NEW f \in Futures, NotSent(f) \/ Resolves(f) PROVE McpTypes'
  <2>1. Moved(f, "done", 0)
    BY <1>6, DispatchMoves DEF NotSent, Resolves, Done
  <2> QED
    BY <1>6, <2>1 DEF NotSent, Resolves, Moved
<1>7. ASSUME NEW f \in Futures, Send(f) PROVE McpTypes'
  <2>1. Conn(f).number \in Nat
    BY IsDispatch DEF Conn
  <2>2. Moved(f, "sent", Conn(f).number)
    BY <1>7, <2>1, DispatchMoves DEF Send
  <2> QED
    BY <1>7, <2>2 DEF Send, Moved
<1>8. ASSUME NEW s \in Servers, ServerDies(s) PROVE McpTypes'
  BY <1>8 DEF ServerDies
<1>9. CASE ReplacesConnection
  <2>1. \A t \in Servers : connections[t].number \in Nat
    OBVIOUS
  <2> DEFINE n == supervisor.next
             r == [up |-> "live", number |-> connections[n].number + 1]
  <2>2. connections' = [connections EXCEPT ![n] = r]
    BY <1>9 DEF ReplacesConnection
  <2>3. n \in Servers => r \in [up : {"none", "live", "closed"}, number : Nat]
    BY <2>1
  <2> HIDE DEF n, r
  <2>4. connections' \in [Servers -> [up : {"none", "live", "closed"}, number : Nat]]
    BY <2>2, <2>3
  <2> QED
    BY <1>9, <2>4 DEF ReplacesConnection
<1>10. CASE Tick \/ HealthCheck \/ StartFails \/ Started \/ UNCHANGED mcpVars
  BY <1>10 DEF Tick, HealthCheck, StartFails, Started, mcpVars
<1> QED
  BY <1>1, <1>2, <1>3, <1>4, <1>5, <1>6, <1>7, <1>8, <1>9, <1>10 DEF McpNext, Futures

LEMMA InitGuard == McpInit => GuardInv
BY DEF McpInit, GuardInv, Futures

LEMMA NextGuard ==
    ASSUME McpTypes, GuardInv, [McpNext]_mcpVars PROVE GuardInv'
<1> USE DEF McpTypes, GuardInv, Conn
<1>0. \A f \in Futures : dispatches[f] \in FutureCall /\ dispatches[f].key[1] \in Servers
  BY IsDispatch
<1>1. ASSUME NEW c \in Callers,
             \/ \E key \in RequestKey : LooksInFlight(c, key)
             \/ Returns(c) \/ Removes(c) \/ CallCancelled(c)
      PROVE  GuardInv'
  BY <1>1 DEF LooksInFlight, Returns, Removes, CallCancelled, Futures
<1>2. ASSUME NEW c \in Callers, Lists(c) PROVE GuardInv'
  <2>0. callers[c].key \in RequestKey
    BY DEF McpCaller
  <2>1. CASE UNCHANGED dispatches
    BY <1>2, <2>1 DEF Lists, Futures
  <2>2. CASE dispatches' = Append(dispatches, NewDispatch(callers[c].key))
    <3>1. Listed(callers[c].key)
      BY <2>0, <2>2, ListsFacts
    <3> QED
      BY <1>0, <1>2, <3>1 DEF Lists, NewDispatch, Listed
  <2> QED
    BY <1>2, <2>1, <2>2 DEF Lists
<1>3. ASSUME NEW f \in Futures, AsksForConnections(f) PROVE GuardInv'
  <2>1. readers \subseteq readers'
    BY <1>3, LetInKeeps DEF AsksForConnections, AsksToRead
  <2>2. UNCHANGED connections /\ dispatches' = [dispatches EXCEPT ![f].at = "queued"]
    BY <1>3 DEF AsksForConnections
  <2>3. Moved(f, "queued", dispatches[f].over)
    BY <1>0, <2>2, DispatchMoves
  <2> QED
    BY <1>0, <2>1, <2>2, <2>3 DEF Moved
<1>4. ASSUME NEW f \in Futures, NotSent(f) \/ Resolves(f) PROVE GuardInv'
  <2>1. readers \ {f} \subseteq readers'
    BY <1>4, LetInKeeps DEF NotSent, Resolves, Release
  <2>2. UNCHANGED connections /\ Done(f)
    BY <1>4 DEF NotSent, Resolves
  <2>3. Moved(f, "done", 0)
    BY <2>2, DispatchMoves DEF Done
  <2> QED
    BY <1>0, <2>1, <2>2, <2>3 DEF Moved
<1>5. ASSUME NEW f \in Futures, Send(f) PROVE GuardInv'
  <2>1. /\ f \in readers /\ UNCHANGED <<connections, readers>> /\ Conn(f).number \in Nat
        /\ dispatches' = [dispatches EXCEPT ![f].at = "sent", ![f].over = Conn(f).number]
    BY <1>0, <1>5 DEF Send
  <2> DEFINE n == Conn(f).number
  <2>2. Moved(f, "sent", n)
    BY <2>1, DispatchMoves
  <2>3. Futures' = Futures /\ \A g \in Futures :
            /\ dispatches'[g].key = dispatches[g].key
            /\ g # f => dispatches'[g].at = dispatches[g].at /\ dispatches'[g].over = dispatches[g].over
    BY <2>2 DEF Moved
  <2>4. dispatches'[f].over = n
    BY <2>2 DEF Moved
  <2>5. \A g \in Futures : connections'[dispatches'[g].key[1]].number = connections[dispatches[g].key[1]].number
    BY <2>1, <2>3
  <2>6. ASSUME NEW g \in Futures, dispatches'[g].at = "sent"
        PROVE  g \in readers' /\ connections'[dispatches'[g].key[1]].number = dispatches'[g].over
    <3>1. CASE g = f
      BY <2>1, <2>3, <2>4, <2>5, <3>1
    <3>2. CASE g # f
      <4>1. g \in readers /\ connections[dispatches[g].key[1]].number = dispatches[g].over
        BY <2>3, <2>6, <3>2
      <4> QED
        BY <2>1, <2>3, <2>5, <3>2, <4>1
    <3> QED
      BY <3>1, <3>2
  <2> QED
    BY <2>3, <2>6
<1>6. ASSUME NEW s \in Servers, ServerDies(s) PROVE GuardInv'
  <2>1. connections' = [connections EXCEPT ![s].up = "closed"] /\ UNCHANGED <<readers, dispatches>>
    BY <1>6 DEF ServerDies
  <2>2. \A t \in Servers : connections'[t].number = connections[t].number
    BY <2>1
  <2> QED
    BY <1>0, <2>1, <2>2 DEF Futures
<1>7. CASE Tick \/ HealthCheck
  <2>1. readers \ {Health} \subseteq readers'
    BY <1>7, LetInKeeps DEF Tick, HealthCheck, AsksToRead, Release
  <2>2. UNCHANGED <<connections, dispatches>>
    BY <1>7 DEF Tick, HealthCheck
  <2>3. \A f \in Futures : f # Health
    BY DEF Futures, Health
  <2> QED
    BY <2>1, <2>2, <2>3 DEF Futures
<1>8. CASE StartFails
  BY <1>8 DEF StartFails, Futures
<1>9. CASE Started
  <2>1. readers \subseteq readers'
    BY <1>9, LetInKeeps DEF Started, AsksToRead
  <2> QED
    BY <1>9, <2>1 DEF Started, Futures
<1>10. CASE ReplacesConnection
  <2>1. \A f \in Futures : dispatches[f].at # "sent"
    BY <1>10 DEF ReplacesConnection
  <2>2. connections' \in [Servers -> [up : {"none", "live", "closed"}, number : Nat]]
    BY McpTypesKept
  <2> QED
    BY <1>10, <2>1, <2>2 DEF ReplacesConnection, Futures
<1>11. CASE UNCHANGED mcpVars
  BY <1>11 DEF mcpVars, Futures
<1> QED
  BY <1>1, <1>2, <1>3, <1>4, <1>5, <1>6, <1>7, <1>8, <1>9, <1>10, <1>11 DEF McpNext, Futures

(* A restart (rmcp.rs:480, 329-342) never takes the connection from under a request *)
(* that is under way, for any number of servers, callers and restarts.              *)
THEOREM ConnectionsKept == McpSpec => []RequestKeepsConnection
<1>1. GuardInv => RequestKeepsConnection
  BY DEF GuardInv, RequestKeepsConnection, Futures
<1> QED
  BY InitToolTypes, McpTypesKept, InitGuard, NextGuard, <1>1, PTL DEF McpSpec

--------------------------------------------------------------------------------
LEMMA InitList == McpInit => ListInv
BY DEF McpInit, ListInv, Futures, Makes, Call

(* The steps of a dispatch future change its place and nothing of the list. *)
LEMMA MovesList ==
    ASSUME McpTypes, ListInv, NEW f \in Futures, NEW stands \in {"queued", "sent", "done"}, NEW over,
           Moved(f, stands, over), dispatches[f].at # "done", UNCHANGED <<inflight, callers>>
    PROVE  ListInv'
<1>1. Futures' = Futures /\ \A g \in Futures :
         /\ dispatches'[g].key = dispatches[g].key
         /\ dispatches[g].at = "done" => dispatches'[g].at = "done"
         /\ dispatches'[g].at # "done" => dispatches[g].at # "done"
  BY DEF Moved
<1> QED
  BY <1>1 DEF ListInv, Makes

(* What a step of one call keeps: that call has made no request, or keeps what it has. *)
LEMMA CallsList ==
    ASSUME McpTypes, ListInv, NEW c \in Callers, NEW stands, NEW key, NEW on, NEW made,
           CallerGoes(c, stands, key, on, made), UNCHANGED <<inflight, dispatches>>,
           stands \in {"waiting", "returning"} => on \in Futures,
           stands = "returning" => made /\ dispatches[on].at = "done",
           stands \in {"waiting", "returning"} /\ made =>
               Makes(c) /\ key = callers[c].key /\ on = callers[c].on
    PROVE  ListInv'
BY DEF ListInv, Makes, CallerGoes, Futures

LEMMA NextList ==
    ASSUME McpTypes, ListInv, [McpNext]_mcpVars PROVE ListInv'
<1> USE DEF McpTypes, ListInv, Makes
<1>0. \A c \in Callers : callers[c].key \in RequestKey /\ callers[c].on \in Nat
  BY CallerFields
<1>1. ASSUME NEW c \in Callers, NEW key \in RequestKey, LooksInFlight(c, key) PROVE ListInv'
  <2>1. CASE inflight[key] # 0
    <3>1. CallerGoes(c, "waiting", key, inflight[key], FALSE)
      BY <1>1, <2>1, JoinsFacts DEF LooksInFlight
    <3> QED
      BY <1>1, <2>1, <3>1, CallsList DEF LooksInFlight
  <2>2. CASE inflight[key] = 0
    <3>1. CallerGoes(c, "dispatching", key, callers[c].on, callers[c].made)
      BY <1>1, <2>2, LooksFacts
    <3>2. UNCHANGED <<inflight, dispatches>>
      BY <1>1 DEF LooksInFlight
    <3> HIDE DEF ListInv, McpTypes, Makes
    <3> QED
      BY <3>1, <3>2, CallsList
  <2> QED
    BY <2>1, <2>2
<1>2. ASSUME NEW c \in Callers, Lists(c) PROVE ListInv'
  <2> DEFINE key == callers[c].key
  <2>1. CASE inflight[key] # 0
    <3>1. Joins(c, key) /\ UNCHANGED <<inflight, dispatches>>
      BY <1>2, <2>1 DEF Lists
    <3>2. CallerGoes(c, "waiting", key, inflight[key], FALSE)
      BY <1>0, <3>1, JoinsFacts
    <3> QED
      BY <1>0, <2>1, <3>1, <3>2, CallsList
  <2>2. CASE inflight[key] = 0
    <3> DEFINE f == Len(dispatches')
    <3>1. Listed(key)
      BY <1>0, <1>2, <2>2, ListsFacts DEF Lists
    <3>2. /\ f \in Nat \ {0} /\ f \notin Futures /\ Futures' = Futures \union {f}
          /\ \A g \in Futures : dispatches'[g] = dispatches[g]
          /\ dispatches'[f].key = key /\ dispatches'[f].at = "made"
      BY <3>1 DEF Listed, NewDispatch
    <3>3. /\ inflight' = [inflight EXCEPT ![key] = f]
          /\ callers' = [callers EXCEPT ![c].at = "waiting", ![c].on = f, ![c].made = TRUE]
      BY <1>2, <2>2 DEF Lists
    <3> HIDE DEF f
    <3>4. CallerGoes(c, "waiting", key, f, TRUE)
      BY <3>2, <3>3, MakesFacts
    <3>5. /\ inflight'[key] = f
          /\ \A k \in RequestKey \ {key} : inflight'[k] = inflight[k]
      BY <1>0, <3>3
    <3>6. \A g \in Futures : dispatches[g].at # "done" => dispatches[g].key # key
      BY <2>2, <3>2 DEF Futures
    <3>7. \A d \in Callers : Makes(d) => callers[d].key # key
      BY <1>0, <2>2, <3>2 DEF Futures
    <3> HIDE DEF key
    <3>8. /\ callers'[c].at = "waiting" /\ callers'[c].key = key
          /\ callers'[c].on = f /\ callers'[c].made = TRUE
          /\ \A d \in Callers \ {c} : callers'[d] = callers[d]
      BY <3>4 DEF CallerGoes
    <3>9. \A g \in Futures : dispatches[g].key \in RequestKey
      BY IsDispatch
    <3>10. (\A k \in RequestKey : inflight[k] # 0 => inflight[k] \in Futures)'
      BY <3>2, <3>5
    <3>11. (\A g \in Futures : dispatches[g].at # "done" => inflight[dispatches[g].key] = g)'
      BY <3>2, <3>5, <3>6, <3>9
    <3>12. (\A d \in Callers : callers[d].at \in {"waiting", "returning"} => callers[d].on \in Futures)'
      BY <3>2, <3>8
    <3>13. (\A d \in Callers : callers[d].at = "returning" =>
               callers[d].made /\ dispatches[callers[d].on].at = "done")'
      BY <3>2, <3>8
    <3>14. (\A d \in Callers : Makes(d) => /\ inflight[callers[d].key] = callers[d].on
                                         /\ dispatches[callers[d].on].key = callers[d].key)'
      BY <1>0, <3>2, <3>5, <3>7, <3>8
    <3>15. (\A d, e \in Callers : d # e /\ Makes(d) /\ Makes(e) => callers[d].on # callers[e].on)'
      BY <3>2, <3>8
    <3> QED
      BY <3>10, <3>11, <3>12, <3>13, <3>14, <3>15
  <2> QED
    BY <2>1, <2>2
<1>3. ASSUME NEW c \in Callers, Returns(c) PROVE ListInv'
  BY <1>0, <1>3 DEF Returns, Call, McpCaller, Futures
<1>4. ASSUME NEW c \in Callers, Removes(c) PROVE ListInv'
  BY <1>0, <1>4 DEF Removes, Call, McpCaller, Futures
<1>5. ASSUME NEW c \in Callers, CallCancelled(c) PROVE ListInv'
  BY <1>0, <1>5 DEF CallCancelled, Call, McpCaller, Futures
<1>6. ASSUME NEW f \in Futures, AsksForConnections(f) PROVE ListInv'
  <2>1. Moved(f, "queued", dispatches[f].over)
    BY <1>6, IsDispatch, DispatchMoves DEF AsksForConnections
  <2> QED
    BY <1>6, <2>1, MovesList DEF AsksForConnections
<1>7. ASSUME NEW f \in Futures, NotSent(f) \/ Resolves(f) PROVE ListInv'
  <2>1. Moved(f, "done", 0)
    BY <1>7, DispatchMoves DEF NotSent, Resolves, Done
  <2> QED
    BY <1>7, <2>1, MovesList DEF NotSent, Resolves
<1>8. ASSUME NEW f \in Futures, Send(f) PROVE ListInv'
  <2>1. Conn(f).number \in Nat
    BY IsDispatch DEF Conn
  <2>2. Moved(f, "sent", Conn(f).number)
    BY <1>8, <2>1, DispatchMoves DEF Send
  <2> QED
    BY <1>8, <2>2, MovesList DEF Send
<1>9. CASE \/ \E s \in Servers : ServerDies(s)
           \/ Tick \/ HealthCheck \/ StartFails \/ Started \/ ReplacesConnection
           \/ UNCHANGED mcpVars
  <2>1. UNCHANGED <<inflight, dispatches, callers>>
    BY <1>9 DEF ServerDies, Tick, HealthCheck, StartFails, Started, ReplacesConnection, mcpVars
  <2> QED
    BY <2>1 DEF Futures
<1> QED
  BY <1>1, <1>2, <1>3, <1>4, <1>5, <1>6, <1>7, <1>8, <1>9 DEF McpNext, Futures

(* Two equal calls (rmcp.rs:513-601) never have two requests under way, whatever *)
(* the number of callers and keys and whichever of the calls are cancelled.      *)
THEOREM EqualCallsShare == McpSpec => []OneRequestPerKey
<1>1. ListInv => OneRequestPerKey
  BY DEF ListInv, OneRequestPerKey, Futures
<1> QED
  BY InitToolTypes, McpTypesKept, InitList, NextList, <1>1, PTL DEF McpSpec

(***************************************************************************)
(* Who holds the pool, and who waits for it.  A restart is never let in    *)
(* among the readers, and one that waits for its turn is still in line.    *)
(***************************************************************************)
Asks == Futures \union {Health, Restart}
InLineAt(queue, who) == \E n \in DOMAIN queue : queue[n] = who
QueueInv ==
    /\ readers \subseteq Futures \union {Health}
    /\ waiters \in Seq(Asks)
    /\ supervisor \in [at : {"resting", "checking", "starting", "replacing"}, next : Int]
    /\ supervisor.at = "replacing" => InLineAt(waiters, Restart)
    /\ Len(dispatches) <= MaxDispatches

LEMMA LetInFair ==
    ASSUME NEW S, Restart \notin S, NEW holding, holding \subseteq S,
           NEW queue \in Seq(S \union {Restart}), LetIn(holding, queue)
    PROVE  /\ readers' \subseteq S /\ waiters' \in Seq(S \union {Restart})
           /\ InLineAt(queue, Restart) => InLineAt(waiters', Restart)
<1> DEFINE T == S \union {Restart}
           writers == {m \in DOMAIN queue : queue[m] = Restart}
           n == LeadingReaders(queue)
<1>1. queue \in Seq(T) /\ Len(queue) \in Nat /\ DOMAIN queue = 1..Len(queue)
      /\ \A i \in 1..Len(queue) : queue[i] \in T
  OBVIOUS
<1>2. n = IF writers = {} THEN Len(queue)
          ELSE (CHOOSE m \in writers : \A k \in writers : m <= k) - 1
  BY DEF LeadingReaders
<1>3. writers \subseteq Nat /\ writers \subseteq 1..Len(queue)
      /\ \A m \in 1..Len(queue) : m \in writers <=> queue[m] = Restart
  BY <1>1
<1>4. readers' = holding \union ToSet(SubSeq(queue, 1, n)) /\ waiters' = SubSeq(queue, n + 1, Len(queue))
  BY DEF LetIn
<1> HIDE DEF writers, n
<1>5. n \in 0..Len(queue) /\ \A m \in writers : n < m
  <2>1. CASE writers = {}
    BY <1>1, <1>2, <2>1
  <2>2. CASE writers # {}
    <3> DEFINE first == CHOOSE m \in writers : \A k \in writers : m <= k
    <3>1. \E m \in writers : \A k \in writers : m <= k
      <4>1. PICK m : m \in writers
        BY <2>2
      <4> QED
        BY <1>3, <4>1, LeastNatural
    <3>2. first \in writers /\ \A k \in writers : first <= k
      BY <3>1
    <3>3. n = first - 1
      BY <1>2, <2>2
    <3> HIDE DEF first
    <3>4. first \in 1..Len(queue)
      BY <1>3, <3>2
    <3>5. n \in 0..Len(queue)
      BY <1>1, <3>3, <3>4
    <3>6. ASSUME NEW m \in writers PROVE n < m
      <4>1. first <= m /\ m \in Nat /\ first \in Nat
        BY <1>3, <3>2
      <4> QED
        BY <3>3, <4>1
    <3> QED
      BY <3>5, <3>6
  <2> QED
    BY <2>1, <2>2
<1> DEFINE ahead == SubSeq(queue, 1, n)
           rest == SubSeq(queue, n + 1, Len(queue))
<1>6. /\ DOMAIN ahead = 1..n /\ \A i \in 1..n : ahead[i] = queue[i]
      /\ DOMAIN rest = 1..(Len(queue) - n) /\ rest \in Seq(T)
      /\ \A i \in 1..(Len(queue) - n) : rest[i] = queue[i + n]
  <2>1. n \in Nat /\ n <= Len(queue)
    BY <1>1, <1>5
  <2>2. /\ Len(ahead) = n /\ ahead \in Seq(T) /\ \A i \in 1..n : ahead[i] = queue[i]
    BY <1>1, <2>1, SubSeqProperties
  <2>3. /\ rest \in Seq(T) /\ Len(rest) = Len(queue) - n
        /\ \A i \in 1..(Len(queue) - n) : rest[i] = queue[i + n]
    <3> DEFINE l == Len(queue)
    <3>1. \A i \in (n + 1)..l : queue[i] \in T
      BY <1>1, <2>1
    <3>2. n + 1 \in Int /\ l \in Int /\ n \in Nat /\ l \in Nat /\ n <= l
      BY <1>1, <2>1
    <3>3. /\ rest \in Seq(T) /\ Len(rest) = (IF n + 1 <= l THEN l - (n + 1) + 1 ELSE 0)
          /\ \A i \in 1..(l - (n + 1) + 1) : rest[i] = queue[(n + 1) + i - 1]
      BY <3>1, <3>2, SubSeqProperties
    <3> HIDE DEF rest, l
    <3>4. Len(rest) = l - n /\ l - (n + 1) + 1 = l - n
      BY <3>2, <3>3
    <3>5. \A i \in 1..(l - n) : (n + 1) + i - 1 = i + n
      BY <3>2
    <3> QED
      BY <3>3, <3>4, <3>5 DEF l
  <2> QED
    BY <2>1, <2>2, <2>3
<1> HIDE DEF ahead, rest
<1>7. ASSUME NEW i \in 1..n PROVE ahead[i] \in S
  <2>1. i \in 1..Len(queue) /\ ~(n < i)
    BY <1>1, <1>5
  <2>2. i \notin writers
    BY <1>5, <2>1
  <2>3. queue[i] # Restart /\ queue[i] \in T
    BY <1>1, <1>3, <2>1, <2>2
  <2> QED
    BY <1>6, <2>3
<1>8. ToSet(ahead) \subseteq S
  BY <1>6, <1>7 DEF ToSet
<1>9. ASSUME InLineAt(queue, Restart) PROVE InLineAt(rest, Restart)
  <2>1. PICK m \in 1..Len(queue) : queue[m] = Restart
    BY <1>1, <1>9 DEF InLineAt
  <2>2. n < m /\ n \in Nat /\ m \in Nat /\ Len(queue) \in Nat /\ m <= Len(queue)
    BY <1>1, <1>3, <1>5, <2>1
  <2>3. m - n \in 1..(Len(queue) - n) /\ (m - n) + n = m
    BY <2>2
  <2>4. rest[m - n] = queue[(m - n) + n]
    BY <1>6, <2>3
  <2> QED
    BY <1>6, <2>1, <2>3, <2>4 DEF InLineAt
<1> QED
  BY <1>4, <1>6, <1>8, <1>9 DEF ahead, rest

LEMMA AppendsInLine ==
    ASSUME NEW T, NEW queue \in Seq(T), NEW who \in T
    PROVE  /\ Append(queue, who) \in Seq(T) /\ InLineAt(Append(queue, who), who)
           /\ \A x : InLineAt(queue, x) => InLineAt(Append(queue, who), x)
<1>1. /\ Append(queue, who) \in Seq(T) /\ DOMAIN Append(queue, who) = 1..(Len(queue) + 1)
      /\ DOMAIN queue = 1..Len(queue) /\ Len(queue) \in Nat
      /\ Append(queue, who)[Len(queue) + 1] = who
      /\ \A n \in 1..Len(queue) : Append(queue, who)[n] = queue[n]
  BY AppendProperties
<1>2. Len(queue) + 1 \in 1..(Len(queue) + 1) /\ \A n \in 1..Len(queue) : n \in 1..(Len(queue) + 1)
  BY <1>1
<1> QED
  BY <1>1, <1>2 DEF InLineAt

LEMMA LetInTyped ==
    ASSUME McpTypes, Futures' = Futures, NEW holding, holding \subseteq Futures \union {Health},
           NEW queue \in Seq(Asks), LetIn(holding, queue)
    PROVE  /\ readers' \subseteq Futures' \union {Health} /\ waiters' \in Seq(Asks')
           /\ InLineAt(queue, Restart) => InLineAt(waiters', Restart)
<1> DEFINE S == Futures \union {Health}
<1>1. Futures \subseteq Nat
  BY DEF McpTypes, Futures
<1>2. Restart \notin S /\ Asks = S \union {Restart} /\ Asks' = S \union {Restart}
  BY <1>1 DEF Restart, Health, Asks
<1> HIDE DEF S
<1>3. holding \subseteq S /\ queue \in Seq(S \union {Restart})
  BY <1>2 DEF S
<1>4. /\ readers' \subseteq S /\ waiters' \in Seq(S \union {Restart})
      /\ InLineAt(queue, Restart) => InLineAt(waiters', Restart)
  BY <1>2, <1>3, LetInFair
<1> QED
  BY <1>2, <1>4 DEF S

LEMMA InitQueue == McpInit => QueueInv
<1>1. \A T : <<>> \in Seq(T)
  OBVIOUS
<1> QED
  BY <1>1, McpAssumption DEF McpInit, QueueInv, Futures

(* The line changes as readers and writers come and go; the futures stay as many. *)
LEMMA LineMoves ==
    ASSUME McpTypes, QueueInv, Futures' = Futures, Len(dispatches') = Len(dispatches),
           NEW holding, holding \subseteq readers,
           NEW queue \in Seq(Asks), LetIn(holding, queue),
           supervisor' \in [at : {"resting", "checking", "starting", "replacing"}, next : Int],
           supervisor'.at = "replacing" => InLineAt(queue, Restart)
    PROVE  QueueInv'
<1>1. holding \subseteq Futures \union {Health}
  BY DEF QueueInv
<1>2. /\ readers' \subseteq Futures' \union {Health} /\ waiters' \in Seq(Asks')
      /\ InLineAt(queue, Restart) => InLineAt(waiters', Restart)
  BY <1>1, LetInTyped
<1> QED
  BY <1>2 DEF QueueInv

LEMMA LineStays ==
    ASSUME QueueInv, readers' = readers, waiters' = waiters, supervisor' = supervisor,
           Futures \subseteq Futures', Len(dispatches') <= MaxDispatches
    PROVE  QueueInv'
<1>1. waiters \in Seq(Asks')
  <2>1. Asks \subseteq Asks'
    BY DEF Asks
  <2>2. \A S, T : S \subseteq T => Seq(S) \subseteq Seq(T)
    OBVIOUS
  <2> QED
    BY <2>1, <2>2 DEF QueueInv
<1> QED
  BY <1>1 DEF QueueInv

LEMMA NextQueue ==
    ASSUME McpTypes, QueueInv, [McpNext]_mcpVars PROVE QueueInv'
<1>0. /\ dispatches \in Seq(FutureCall) /\ callers \in [Callers -> McpCaller] /\ Len(dispatches) \in Nat
      /\ Len(dispatches) <= MaxDispatches /\ waiters \in Seq(Asks)
      /\ supervisor \in [at : {"resting", "checking", "starting", "replacing"}, next : Int]
      /\ Restart \in Asks /\ Health \in Asks /\ Futures \subseteq Asks
  BY DEF McpTypes, QueueInv, Asks
<1>1. ASSUME dispatches' = dispatches, UNCHANGED <<readers, waiters, supervisor>> PROVE QueueInv'
  BY <1>1, <1>0, LineStays DEF Futures
<1>2. ASSUME NEW c \in Callers, NEW key \in RequestKey, LooksInFlight(c, key) PROVE QueueInv'
  BY <1>1, <1>2 DEF LooksInFlight
<1>3. ASSUME NEW c \in Callers, Lists(c) PROVE QueueInv'
  <2>1. callers[c].key \in RequestKey
    BY <1>0, CallerFields
  <2>2. UNCHANGED <<readers, waiters, supervisor>>
    BY <1>3 DEF Lists
  <2>3. CASE dispatches' = dispatches
    BY <1>1, <2>2, <2>3
  <2>4. CASE /\ Len(dispatches) < MaxDispatches
             /\ dispatches' = Append(dispatches, NewDispatch(callers[c].key))
    <3>1. Futures \subseteq Futures'
      BY <1>0, <2>1, <2>4, ListsFacts DEF Listed
    <3>2. Len(dispatches') = Len(dispatches) + 1
      BY <1>0, <2>4
    <3>3. Len(dispatches') <= MaxDispatches
      BY <1>0, <2>4, <3>2, McpAssumption
    <3> QED
      BY <2>2, <3>1, <3>3, LineStays
  <2> QED
    BY <1>3, <2>3, <2>4 DEF Lists
<1>4. ASSUME NEW c \in Callers, Returns(c) \/ Removes(c) \/ CallCancelled(c) PROVE QueueInv'
  BY <1>1, <1>4 DEF Returns, Removes, CallCancelled
<1>5. ASSUME NEW f \in Futures, NEW d, dispatches' = [dispatches EXCEPT ![f] = d]
      PROVE  Futures' = Futures /\ Len(dispatches') = Len(dispatches)
  BY <1>0, <1>5 DEF Futures
<1>6. ASSUME NEW f \in Futures, AsksForConnections(f) \/ NotSent(f) \/ Send(f) \/ Resolves(f)
      PROVE  Futures' = Futures /\ Len(dispatches') = Len(dispatches)
  <2>1. PICK d : dispatches' = [dispatches EXCEPT ![f] = d]
    BY <1>6 DEF AsksForConnections, NotSent, Send, Resolves, Done
  <2> QED
    BY <1>5, <2>1
<1>7. ASSUME NEW f \in Futures, AsksForConnections(f) PROVE QueueInv'
  <2>1. LetIn(readers, Append(waiters, f)) /\ supervisor' = supervisor
    BY <1>7 DEF AsksForConnections, AsksToRead
  <2>2. /\ Append(waiters, f) \in Seq(Asks)
        /\ InLineAt(waiters, Restart) => InLineAt(Append(waiters, f), Restart)
    BY <1>0, AppendsInLine
  <2>3. supervisor'.at = "replacing" => InLineAt(Append(waiters, f), Restart)
    BY <2>1, <2>2 DEF QueueInv
  <2> QED
    BY <1>0, <1>6, <1>7, <2>1, <2>2, <2>3, LineMoves
<1>8. ASSUME NEW f \in Futures, NotSent(f) \/ Resolves(f) PROVE QueueInv'
  <2>1. LetIn(readers \ {f}, waiters) /\ supervisor' = supervisor
    BY <1>8 DEF NotSent, Resolves, Release
  <2>2. supervisor'.at = "replacing" => InLineAt(waiters, Restart)
    BY <2>1 DEF QueueInv
  <2>3. readers \ {f} \subseteq readers
    OBVIOUS
  <2> QED
    BY <1>0, <1>6, <1>8, <2>1, <2>2, <2>3, LineMoves
<1>9. ASSUME NEW f \in Futures, Send(f) PROVE QueueInv'
  <2>1. UNCHANGED <<readers, waiters, supervisor>>
    BY <1>9 DEF Send
  <2> QED
    BY <1>0, <1>6, <1>9, <2>1, LineStays
<1>10. ASSUME NEW s \in Servers, ServerDies(s) PROVE QueueInv'
  BY <1>1, <1>10 DEF ServerDies
<1>11. ASSUME dispatches' = dispatches PROVE Futures' = Futures /\ Len(dispatches') = Len(dispatches)
  BY <1>11 DEF Futures
<1>12. CASE Tick
  <2>1. /\ LetIn(readers, Append(waiters, Health)) /\ dispatches' = dispatches
        /\ supervisor' = [supervisor EXCEPT !.at = "checking"]
    BY <1>12 DEF Tick, AsksToRead
  <2>2. Append(waiters, Health) \in Seq(Asks)
    BY <1>0, AppendsInLine
  <2>3. /\ supervisor'.at = "checking"
        /\ supervisor' \in [at : {"resting", "checking", "starting", "replacing"}, next : Int]
    BY <1>0, <2>1
  <2> QED
    BY <1>11, <2>1, <2>2, <2>3, LineMoves
<1>13. CASE HealthCheck
  <2>1. /\ LetIn(readers \ {Health}, waiters) /\ dispatches' = dispatches
        /\ supervisor'.at \in {"starting", "resting"}
        /\ supervisor' \in [at : {"resting", "checking", "starting", "replacing"}, next : Int]
    BY <1>13 DEF HealthCheck, Release
  <2>2. readers \ {Health} \subseteq readers
    OBVIOUS
  <2> QED
    BY <1>0, <1>11, <2>1, <2>2, LineMoves
<1>14. /\ StartsNext.at \in {"resting", "starting"}
       /\ StartsNext \in [at : {"resting", "checking", "starting", "replacing"}, next : Int]
  BY <1>0 DEF StartsNext
<1>15. CASE StartFails
  <2>1. UNCHANGED <<readers, waiters, dispatches>> /\ supervisor' = StartsNext
    BY <1>15 DEF StartFails
  <2>2. Asks' = Asks /\ Futures' = Futures
    BY <2>1 DEF Asks, Futures
  <2> QED
    BY <1>14, <2>1, <2>2 DEF QueueInv
<1>16. CASE Started
  <2>1. /\ LetIn(readers, Append(waiters, Restart)) /\ dispatches' = dispatches
        /\ supervisor' = [supervisor EXCEPT !.at = "replacing"]
    BY <1>16 DEF Started, AsksToRead
  <2>2. Append(waiters, Restart) \in Seq(Asks) /\ InLineAt(Append(waiters, Restart), Restart)
    BY <1>0, AppendsInLine
  <2>3. supervisor' \in [at : {"resting", "checking", "starting", "replacing"}, next : Int]
    BY <1>0, <2>1
  <2> QED
    BY <1>11, <2>1, <2>2, <2>3, LineMoves
<1>17. CASE ReplacesConnection
  <2>1. /\ LetIn({}, Tail(waiters)) /\ dispatches' = dispatches /\ supervisor' = StartsNext
        /\ supervisor.at = "replacing"
    BY <1>17 DEF ReplacesConnection
  <2>2. waiters # <<>>
    BY <1>0, <2>1 DEF QueueInv, InLineAt
  <2>3. Tail(waiters) \in Seq(Asks)
    BY <1>0, <2>2
  <2>4. {} \subseteq readers
    OBVIOUS
  <2> QED
    BY <1>11, <1>14, <2>1, <2>3, <2>4, LineMoves
<1>18. CASE UNCHANGED mcpVars
  BY <1>1, <1>18 DEF mcpVars
<1> QED
  BY <1>2, <1>3, <1>4, <1>7, <1>8, <1>9, <1>10, <1>12, <1>13, <1>15, <1>16, <1>17, <1>18
  DEF McpNext, Futures

(* The list names requests that exist, only requests and the health check hold  *)
(* the pool to read (a restart never does), and everybody who waits for it is    *)
(* a request, the health check or the restart.                                   *)
THEOREM McpTyped == McpSpec => []McpTypeOK
<1>1. McpTypes /\ ListInv /\ QueueInv => McpTypeOK
  <2> SUFFICES ASSUME McpTypes, ListInv, QueueInv PROVE McpTypeOK
    OBVIOUS
  <2>1. inflight \in [RequestKey -> 0..Len(dispatches)]
    <3>1. Len(dispatches) \in Nat /\ Futures = 1..Len(dispatches)
      BY DEF McpTypes, Futures
    <3>2. ASSUME NEW k \in RequestKey PROVE inflight[k] \in 0..Len(dispatches)
      BY <3>1 DEF ListInv
    <3> QED
      BY <3>2 DEF McpTypes
  <2>2. ToSet(waiters) \subseteq (DOMAIN dispatches \union {Health, Restart})
    BY DEF QueueInv, ToSet, Asks, Futures
  <2>3. \A c \in Callers : callers[c].at \in {"idle", "dispatching", "waiting", "returning"}
    BY CallerFields DEF McpTypes
  <2>4. /\ readers \subseteq (DOMAIN dispatches \union {Health})
        /\ supervisor.at \in {"resting", "checking", "starting", "replacing"}
        /\ Len(dispatches) <= MaxDispatches
    BY DEF QueueInv, Futures
  <2>5. connections \in [Servers -> [up : {"none", "live", "closed"}, number : Nat]]
    BY DEF McpTypes
  <2> QED
    BY <2>1, <2>2, <2>3, <2>4, <2>5 DEF McpTypeOK
<1> QED
  BY InitToolTypes, McpTypesKept, InitList, NextList, InitQueue, NextQueue, <1>1, PTL DEF McpSpec

--------------------------------------------------------------------------------
(***************************************************************************)
(* Shells, for any number of processes and any size of the table: what the *)
(* answer of shell.kill means.                                             *)
(***************************************************************************)
(* What the table, the exit codes and the tool that runs say of a process:  *)
(* it was spawned, and whose exit code is recorded, or about to be, it is   *)
(* reaped.                                                                  *)
ShellInv ==
    /\ process \in [Shells -> {"unborn", "running", "exited", "reaped"}]
    /\ waiting \in [Shells -> {"none", "sleeping", "trying", "recording", "over"}]
    /\ exit_code \subseteq Shells /\ tracked \subseteq Shells
    /\ killed \in Shells \union {0}
    /\ shellTool \in [at : {"idle", "tracking", "locking", "signalling"}, on : 0..MaxSpawned]
    /\ shellTool.at # "idle" => shellTool.on \in Shells /\ process[shellTool.on] # "unborn"
    /\ \A s \in tracked : process[s] # "unborn"
    /\ \A s \in exit_code : process[s] = "reaped"
    /\ \A s \in Shells : waiting[s] = "recording" => process[s] = "reaped"
    /\ KillReaches

LEMMA InitShells == ShellInit => ShellInv
BY ShellsAssumption DEF ShellInit, ShellInv, Shells, NoTool, KillReaches

LEMMA NextShells ==
    ASSUME ShellInv, [ShellNext]_shellVars PROVE ShellInv'
<1> USE ShellsAssumption DEF ShellInv, KillReaches
<1>0. 0 \notin Shells
  BY DEF Shells
<1>1. ASSUME NEW s \in Shells, ProcessExits(s) PROVE ShellInv'
  BY <1>1 DEF ProcessExits
<1>2. ASSUME NEW s \in Shells, LocksChild(s) PROVE ShellInv'
  BY <1>2 DEF LocksChild
<1>3. ASSUME NEW s \in Shells, TryWait(s) PROVE ShellInv'
  BY <1>3 DEF TryWait
<1>4. ASSUME NEW s \in Shells, Records(s) PROVE ShellInv'
  BY <1>4 DEF Records
<1>5. ASSUME NEW s \in Shells, Spawns(s) PROVE ShellInv'
  BY <1>0, <1>5 DEF Spawns, NextInTurn, Shells
<1>6. CASE Tracks
  <2>1. /\ tracked' \subseteq tracked \union {shellTool.on}
        /\ signalled \subseteq signalled'
        /\ shellTool' = NoTool
        /\ UNCHANGED <<process, waiting, exit_code, killed>>
    BY <1>6 DEF Tracks
  <2>2. shellTool.on \in Shells /\ process[shellTool.on] # "unborn"
    BY <1>6 DEF Tracks
  <2> QED
    BY <2>1, <2>2 DEF NoTool
<1>7. ASSUME NEW s \in Shells, Kill(s) PROVE ShellInv'
  BY <1>7 DEF Kill, Shells
<1>8. CASE KillLocks
  BY <1>8 DEF KillLocks, HasPid, NoTool
<1>9. ASSUME NEW s \in Shells, SignalLands(s) PROVE ShellInv'
  BY <1>9 DEF SignalLands
<1>10. CASE KillReturns
  BY <1>10 DEF KillReturns, NoTool
<1>11. CASE KillCancelled
  BY <1>11 DEF KillCancelled, NoTool
<1>12. CASE UNCHANGED shellVars
  BY <1>12 DEF shellVars
<1> QED
  BY <1>1, <1>2, <1>3, <1>4, <1>5, <1>6, <1>7, <1>8, <1>9, <1>10, <1>11, <1>12 DEF ShellNext

(* When kill has answered Ok (background.rs:307-331) the process has been sent   *)
(* SIGKILL or is dead, for any number of shells, evictions and cancelled kills.  *)
THEOREM KillAlwaysReaches == ShellSpec => []KillReaches
<1>1. ShellInv => KillReaches
  BY DEF ShellInv
<1> QED
  BY InitShells, NextShells, <1>1, PTL DEF ShellSpec

(* The table has room for MaxTrackedShells shells: a full one gives one up for the new one. *)
TableBounds ==
    /\ IsFiniteSet(tracked) /\ Cardinality(tracked) <= MaxTrackedShells
    /\ signalled \subseteq Shells /\ pool \subseteq Shells

LEMMA TracksFits ==
    ASSUME ShellInv, TableBounds, Tracks
    PROVE  IsFiniteSet(tracked') /\ Cardinality(tracked') <= MaxTrackedShells
           /\ signalled' \subseteq Shells
<1>1. /\ Cardinality(tracked) \in Nat /\ Cardinality(tracked) <= MaxTrackedShells
      /\ MaxTrackedShells \in Nat \ {0}
  BY FS_CardinalityType, ShellsAssumption DEF TableBounds
<1>2. CASE Cardinality(tracked) < MaxTrackedShells
  <2>1. tracked' = tracked \union {shellTool.on} /\ signalled' = signalled
    BY <1>2 DEF Tracks
  <2>2. /\ IsFiniteSet(tracked \union {shellTool.on})
        /\ Cardinality(tracked \union {shellTool.on}) <= Cardinality(tracked) + 1
    BY <1>1, FS_AddElement DEF TableBounds
  <2>3. Cardinality(tracked \union {shellTool.on}) \in Nat
    BY <2>2, FS_CardinalityType
  <2> QED
    BY <1>1, <1>2, <2>1, <2>2, <2>3 DEF TableBounds
<1>3. CASE ~(Cardinality(tracked) < MaxTrackedShells)
  <2>1. /\ tracked' = (tracked \ {Victim}) \union {shellTool.on}
        /\ signalled' \subseteq signalled \union {Victim}
    BY <1>3 DEF Tracks
  <2>2. tracked # {}
    BY <1>1, <1>3, FS_EmptySet
  <2>3. Victim \in tracked
    <3>1. tracked \subseteq Nat
      BY DEF ShellInv, Shells
    <3>2. Min(tracked) \in tracked
      BY <2>2, <3>1, MinOfNaturals
    <3>3. tracked \intersect exit_code # {} => Min(tracked \intersect exit_code) \in tracked
      BY <3>1, MinOfNaturals
    <3> QED
      BY <3>2, <3>3 DEF Victim
  <2>4. IsFiniteSet(tracked \ {Victim}) /\ Cardinality(tracked \ {Victim}) = Cardinality(tracked) - 1
    BY <2>3, FS_RemoveElement DEF TableBounds
  <2>5. /\ IsFiniteSet((tracked \ {Victim}) \union {shellTool.on})
        /\ Cardinality((tracked \ {Victim}) \union {shellTool.on}) <= Cardinality(tracked \ {Victim}) + 1
    <3>1. Cardinality(tracked \ {Victim}) \in Nat
      BY <2>4, FS_CardinalityType
    <3> QED
      BY <2>4, <3>1, FS_AddElement
  <2>6. Cardinality((tracked \ {Victim}) \union {shellTool.on}) \in Nat
    BY <2>5, FS_CardinalityType
  <2> QED
    BY <1>1, <2>1, <2>3, <2>4, <2>5, <2>6 DEF TableBounds, ShellInv
<1> QED
  BY <1>2, <1>3

LEMMA NextTable ==
    ASSUME ShellInv, TableBounds, [ShellNext]_shellVars PROVE TableBounds'
<1>1. CASE Tracks
  BY <1>1, TracksFits DEF Tracks, TableBounds
<1>2. CASE KillLocks \/ KillReturns \/ KillCancelled
  BY <1>2 DEF KillLocks, KillReturns, KillCancelled, TableBounds, ShellInv
<1>3. ASSUME NEW s \in Shells, \/ ProcessExits(s) \/ LocksChild(s) \/ TryWait(s) \/ Records(s)
                               \/ Spawns(s) \/ Kill(s) \/ SignalLands(s)
      PROVE  TableBounds'
  BY <1>3 DEF ProcessExits, LocksChild, TryWait, Records, Spawns, Kill, SignalLands, TableBounds
<1>4. CASE UNCHANGED shellVars
  BY <1>4 DEF shellVars, TableBounds
<1> QED
  BY <1>1, <1>2, <1>3, <1>4 DEF ShellNext

(* The variables of the background shells have their types (background.rs): the table never *)
(* holds more than MaxTrackedShells, and who has an exit code in it has been reaped.        *)
THEOREM ShellsTyped == ShellSpec => []ShellTypeOK
<1>1. ShellInit => TableBounds
  BY ShellsAssumption, FS_EmptySet DEF ShellInit, TableBounds
<1>2. ShellInv /\ TableBounds => ShellTypeOK
  BY ShellsAssumption DEF ShellInv, TableBounds, ShellTypeOK, Shells
<1> QED
  BY InitShells, NextShells, NextTable, <1>1, <1>2, PTL DEF ShellSpec

--------------------------------------------------------------------------------
(***************************************************************************)
(* Journal, for any files, contents, bounds and mishaps: undo is exact.    *)
(***************************************************************************)
Entry == [op_id : Nat, file : Files, before : Contents, after : Contents]
FileCall == [at : {"read", "changed"}, file : Files, before : Contents, after : Contents]
Undo == [at : {"idle", "looking", "restoring"}, todo : Seq(Entry), failed : Seq(Entry)]

JournalTypes ==
    /\ files \in [Files -> Contents] /\ op \in Nat /\ touched \subseteq Files
    /\ entries \in Seq(Entry)
    /\ fileTool \in {NoFileTool} \union FileCall
    /\ undoing \in Undo
    /\ late \subseteq [file : Files, content : Contents]

(* Entries in the order in which they were made.                            *)
InOpOrder(s) == \A i, j \in DOMAIN s : i < j => s[i].op_id < s[j].op_id
UpTo(s, n) == \A i \in DOMAIN s : s[i].op_id <= n
Before(s, t) == \A i \in DOMAIN s, j \in DOMAIN t : s[i].op_id < t[j].op_id
OrderInv ==
    LET todo == undoing.todo failed == undoing.failed
    IN /\ InOpOrder(entries) /\ InOpOrder(todo) /\ InOpOrder(failed)
       /\ Before(entries, todo) /\ Before(entries, failed) /\ Before(todo, failed)
       /\ UpTo(entries, op) /\ UpTo(todo, op) /\ UpTo(failed, op)

(* Who works on the journal, and what it knows of the file in hand.         *)
WorkInv ==
    /\ fileTool.at # "idle" => undoing.at = "idle"
    /\ undoing.at = "idle" => undoing.todo = <<>> /\ undoing.failed = <<>>
    /\ undoing.at = "restoring" =>
          undoing.todo # <<>> /\ (Newest.file \in touched \/ ~AlreadyGone(Newest))
    /\ fileTool.at # "idle" /\ fileTool.file \notin touched =>
          files[fileTool.file] = IF fileTool.at = "read" THEN fileTool.before ELSE fileTool.after

ChainInv ==
    /\ \A f \in Files \ touched : Chained(entries \o undoing.todo, f, Expected(f))
    /\ \A i \in DOMAIN undoing.failed : undoing.failed[i].file \in touched

JournalInv == JournalTypes /\ OrderInv /\ WorkInv /\ ChainInv

--------------------------------------------------------------------------------
(* Sequences of entries.                                                    *)
LEMMA LastAndFront ==
    ASSUME NEW s \in Seq(Entry), s # <<>>
    PROVE  /\ Last(s) \in Entry /\ Last(s) = s[Len(s)] /\ Len(s) \in DOMAIN s
           /\ Front(s) \in Seq(Entry) /\ DOMAIN Front(s) = 1..(Len(s) - 1) /\ Len(s) \in Nat
           /\ Len(Front(s)) = Len(s) - 1
           /\ DOMAIN s = 1..Len(s)
           /\ \A i \in 1..(Len(s) - 1) : i \in DOMAIN s /\ Front(s)[i] = s[i]
<1>1. Len(s) \in Nat \ {0} /\ DOMAIN s = 1..Len(s)
  OBVIOUS
<1>2. Len(s) \in DOMAIN s /\ s[Len(s)] \in Entry
  BY <1>1
<1>3. Front(s) = SubSeq(s, 1, Len(s) - 1)
  BY DEF Front
<1>4. /\ SubSeq(s, 1, Len(s) - 1) \in Seq(Entry)
      /\ DOMAIN SubSeq(s, 1, Len(s) - 1) = 1..(Len(s) - 1)
      /\ Len(SubSeq(s, 1, Len(s) - 1)) = Len(s) - 1
      /\ \A i \in 1..(Len(s) - 1) : SubSeq(s, 1, Len(s) - 1)[i] = s[i]
  BY <1>1
<1> QED
  BY <1>1, <1>2, <1>3, <1>4 DEF Last

LEMMA SuffixOfSeq ==
    ASSUME NEW s \in Seq(Entry), NEW m \in 0..Len(s)
    PROVE  LET t == SubSeq(s, m + 1, Len(s)) n == Len(s)
           IN /\ DOMAIN s = 1..n /\ n \in Nat /\ m \in Nat
              /\ t \in Seq(Entry) /\ Len(t) = n - m /\ DOMAIN t = 1..(n - m)
              /\ \A i \in 1..(n - m) : i + m \in 1..n /\ t[i] = s[i + m]
              /\ \A k \in 1..n : k <= m \/ (k - m \in 1..(n - m) /\ (k - m) + m = k)
<1> DEFINE n == Len(s)
           t == SubSeq(s, m + 1, n)
<1>1. DOMAIN s = 1..n /\ n \in Nat /\ m \in Nat /\ m <= n
  OBVIOUS
<1>2. \A i \in (m + 1)..n : s[i] \in Entry
  BY <1>1
<1>3. /\ t \in Seq(Entry) /\ Len(t) = (IF m + 1 <= n THEN n - (m + 1) + 1 ELSE 0)
      /\ \A i \in 1..(n - (m + 1) + 1) : t[i] = s[(m + 1) + i - 1]
  BY <1>1, <1>2, SubSeqProperties
<1> HIDE DEF t, n
<1>4. Len(t) = n - m /\ n - (m + 1) + 1 = n - m
  BY <1>1, <1>3
<1>5. DOMAIN t = 1..(n - m)
  BY <1>3, <1>4
<1>6. \A i \in 1..(n - m) : i + m \in 1..n /\ (m + 1) + i - 1 = i + m
  BY <1>1
<1>7. \A i \in 1..(n - m) : t[i] = s[i + m]
  BY <1>3, <1>4, <1>6
<1>8. \A k \in 1..n : k <= m \/ (k - m \in 1..(n - m) /\ (k - m) + m = k)
  BY <1>1
<1> QED
  BY <1>1, <1>3, <1>4, <1>5, <1>6, <1>7, <1>8 DEF t, n

LEMMA FrontOfConcat ==
    ASSUME NEW s \in Seq(Entry), NEW t \in Seq(Entry), t # <<>>
    PROVE  /\ s \o t \in Seq(Entry) /\ s \o t # <<>> /\ Last(s \o t) = Last(t)
           /\ Front(s \o t) = s \o Front(t)
<1> DEFINE u == s \o t
           w == Front(t)
           v == s \o w
           n == Len(s)
           m == Len(t)
<1>1. n \in Nat /\ m \in Nat \ {0}
  BY EmptySeq
<1>2. /\ u \in Seq(Entry) /\ Len(u) = n + m
      /\ \A i \in 1..(n + m) : u[i] = IF i <= n THEN s[i] ELSE t[i - n]
  BY ConcatProperties
<1>3. u # <<>>
  BY <1>1, <1>2
<1>4. /\ w \in Seq(Entry) /\ Len(w) = m - 1 /\ Last(t) = t[m]
      /\ \A i \in 1..(m - 1) : w[i] = t[i]
  BY LastAndFront
<1>5. /\ Front(u) \in Seq(Entry) /\ Len(Front(u)) = (n + m) - 1 /\ Last(u) = u[n + m]
      /\ \A i \in 1..((n + m) - 1) : Front(u)[i] = u[i]
  BY <1>2, <1>3, LastAndFront
<1> HIDE DEF u, m, w
<1>6. /\ v \in Seq(Entry) /\ Len(v) = n + (m - 1)
      /\ \A i \in 1..(n + (m - 1)) : v[i] = IF i <= n THEN s[i] ELSE w[i - n]
  <2>1. /\ s \o w \in Seq(Entry) /\ Len(s \o w) = Len(s) + Len(w)
        /\ \A i \in 1..(Len(s) + Len(w)) :
              (s \o w)[i] = IF i <= Len(s) THEN s[i] ELSE w[i - Len(s)]
    BY <1>4, ConcatProperties
  <2>2. Len(w) = m - 1
    BY <1>4
  <2> QED
    BY <2>1, <2>2
<1> HIDE DEF v, n
<1>7. Last(u) = Last(t)
  <2>1. n + m \in 1..(n + m) /\ (n + m) - n = m /\ ~(n + m <= n)
    BY <1>1
  <2> QED
    BY <1>2, <1>4, <1>5, <2>1
<1>8. \A i \in 1..((n + m) - 1) : Front(u)[i] = v[i]
  <2> SUFFICES ASSUME NEW i \in 1..((n + m) - 1) PROVE Front(u)[i] = v[i]
    OBVIOUS
  <2>1. i \in 1..(n + (m - 1)) /\ i \in 1..(n + m)
    BY <1>1
  <2>2. CASE i <= n
    BY <1>2, <1>5, <1>6, <2>1, <2>2
  <2>3. CASE ~(i <= n)
    <3>1. i - n \in 1..(m - 1)
      BY <1>1, <2>1, <2>3
    <3> QED
      BY <1>2, <1>4, <1>5, <1>6, <2>1, <2>3, <3>1
  <2> QED
    BY <2>2, <2>3
<1>9. (n + m) - 1 = n + (m - 1)
  BY <1>1
<1>10. Front(u) = v
  BY <1>5, <1>6, <1>8, <1>9, SeqEqual
<1> QED
  BY <1>2, <1>3, <1>7, <1>10 DEF u, v, w

LEMMA ChainedAppend ==
    ASSUME NEW s \in Seq(Entry), NEW e \in Entry, NEW f, NEW x, Chained(s, f, x),
           e.file = f => e.before = x
    PROVE  Chained(Append(s, e), f, IF e.file = f THEN e.after ELSE x)
<1> DEFINE t == Append(s, e)
           n == Len(s) + 1
<1>1. /\ DOMAIN t = 1..n /\ n \in Nat /\ DOMAIN s = 1..(n - 1) /\ t[n] = e
      /\ \A i \in 1..(n - 1) : t[i] = s[i]
      /\ \A i \in 1..n : i = n \/ (i \in 1..(n - 1) /\ i < n)
      /\ \A i \in 1..(n - 1) : i \in 1..n /\ i < n
  OBVIOUS
<1> HIDE DEF t, n
<1>2. ASSUME NEW i \in DOMAIN t, t[i].file = f, \A k \in DOMAIN t : t[k].file = f => k <= i
      PROVE  t[i].after = IF e.file = f THEN e.after ELSE x
  <2>1. CASE i = n
    BY <1>1, <1>2, <2>1
  <2>2. CASE i # n
    <3>1. i \in 1..(n - 1) /\ i \in DOMAIN s /\ t[i] = s[i]
      BY <1>1, <2>2
    <3>2. e.file # f
      BY <1>1, <1>2, <2>2, <3>1
    <3>3. \A k \in DOMAIN s : s[k].file = f => k <= i
      BY <1>1, <1>2
    <3>4. s[i].after = x
      BY <1>2, <3>1, <3>3 DEF Chained
    <3> QED
      BY <3>1, <3>2, <3>4
  <2> QED
    BY <2>1, <2>2
<1>3. ASSUME NEW i \in DOMAIN t, NEW j \in DOMAIN t, t[i].file = f, t[j].file = f, i < j,
             \A k \in DOMAIN t : t[k].file = f => k <= i \/ j <= k
      PROVE  t[i].after = t[j].before
  <2>1. i \in 1..(n - 1) /\ i \in DOMAIN s /\ t[i] = s[i]
    BY <1>1, <1>3
  <2>2. CASE j = n
    <3>1. \A k \in DOMAIN s : s[k].file = f => k <= i
      BY <1>1, <1>3, <2>2
    <3>2. s[i].after = x
      BY <1>3, <2>1, <3>1 DEF Chained
    <3> QED
      BY <1>1, <1>3, <2>1, <2>2, <3>2
  <2>3. CASE j # n
    <3>1. j \in DOMAIN s /\ t[j] = s[j]
      BY <1>1, <2>3
    <3>2. \A k \in DOMAIN s : s[k].file = f => k <= i \/ j <= k
      BY <1>1, <1>3
    <3> QED
      BY <1>3, <2>1, <3>1, <3>2 DEF Chained
  <2> QED
    BY <2>2, <2>3
<1>4. Chained(t, f, IF e.file = f THEN e.after ELSE x)
  BY <1>2, <1>3 DEF Chained
<1> QED
  BY <1>4 DEF t

LEMMA ChainedFront ==
    ASSUME NEW s \in Seq(Entry), s # <<>>, NEW f, NEW x, Chained(s, f, x)
    PROVE  /\ Last(s).file = f => Last(s).after = x /\ Chained(Front(s), f, Last(s).before)
           /\ Last(s).file # f => Chained(Front(s), f, x)
<1> DEFINE t == Front(s)
           n == Len(s)
           y == IF Last(s).file = f THEN Last(s).before ELSE x
<1>1. /\ DOMAIN s = 1..n /\ n \in Nat /\ n \in DOMAIN s /\ s[n] = Last(s)
      /\ DOMAIN t = 1..(n - 1) /\ \A i \in 1..(n - 1) : i \in 1..n /\ i < n /\ t[i] = s[i]
      /\ \A i \in 1..n : i <= n /\ (i = n \/ i \in 1..(n - 1))
  <2>1. /\ DOMAIN s = 1..n /\ n \in Nat /\ n \in DOMAIN s /\ s[n] = Last(s)
        /\ DOMAIN t = 1..(n - 1) /\ \A i \in 1..(n - 1) : t[i] = s[i]
    BY LastAndFront
  <2> HIDE DEF n, t
  <2> QED
    BY <2>1
<1> HIDE DEF t, n
<1>2. Last(s).file = f => Last(s).after = x
  BY <1>1 DEF Chained
<1>3. ASSUME NEW i \in DOMAIN t, t[i].file = f, \A k \in DOMAIN t : t[k].file = f => k <= i
      PROVE  t[i].after = y
  <2>1. i \in 1..(n - 1) /\ i \in DOMAIN s /\ t[i] = s[i] /\ i < n
    BY <1>1
  <2>2. CASE Last(s).file = f
    <3>1. \A k \in DOMAIN s : s[k].file = f => k <= i \/ n <= k
      BY <1>1, <1>3
    <3> QED
      BY <1>1, <1>3, <2>1, <2>2, <3>1 DEF Chained
  <2>3. CASE Last(s).file # f
    <3>1. \A k \in DOMAIN s : s[k].file = f => k <= i
      BY <1>1, <1>3, <2>3
    <3> QED
      BY <1>3, <2>1, <2>3, <3>1 DEF Chained
  <2> QED
    BY <2>2, <2>3
<1>4. ASSUME NEW i \in DOMAIN t, NEW j \in DOMAIN t, t[i].file = f, t[j].file = f, i < j,
             \A k \in DOMAIN t : t[k].file = f => k <= i \/ j <= k
      PROVE  t[i].after = t[j].before
  <2>1. i \in DOMAIN s /\ t[i] = s[i] /\ j \in DOMAIN s /\ t[j] = s[j] /\ j <= n
    BY <1>1
  <2>2. \A k \in DOMAIN s : s[k].file = f => k <= i \/ j <= k
    BY <1>1, <1>4, <2>1
  <2> QED
    BY <1>4, <2>1, <2>2 DEF Chained
<1>5. Chained(t, f, y)
  BY <1>3, <1>4 DEF Chained
<1> QED
  BY <1>2, <1>5 DEF t

LEMMA ChainedSuffix ==
    ASSUME NEW s \in Seq(Entry), NEW f, NEW x, Chained(s, f, x), NEW m \in 0..Len(s)
    PROVE  Chained(SubSeq(s, m + 1, Len(s)), f, x)
<1> DEFINE t == SubSeq(s, m + 1, Len(s))
           n == Len(s)
<1>1. /\ DOMAIN s = 1..n /\ n \in Nat /\ m \in Nat /\ DOMAIN t = 1..(n - m)
      /\ \A i \in 1..(n - m) : i + m \in 1..n /\ t[i] = s[i + m]
      /\ \A k \in 1..n : k <= m \/ (k - m \in 1..(n - m) /\ (k - m) + m = k)
  BY SuffixOfSeq
<1> HIDE DEF t, n
<1>2. ASSUME NEW i \in DOMAIN t, t[i].file = f, \A k \in DOMAIN t : t[k].file = f => k <= i
      PROVE  t[i].after = x
  <2>1. i + m \in DOMAIN s /\ t[i] = s[i + m]
    BY <1>1
  <2>2. ASSUME NEW k \in DOMAIN s, s[k].file = f PROVE k <= i + m
    <3>1. CASE k <= m
      BY <1>1, <3>1
    <3>2. CASE k - m \in 1..(n - m) /\ (k - m) + m = k
      <4>1. t[k - m] = s[k] /\ k - m \in DOMAIN t
        BY <1>1, <3>2
      <4>2. k - m <= i
        BY <1>2, <2>2, <4>1
      <4> QED
        BY <1>1, <4>2
    <3> QED
      BY <1>1, <3>1, <3>2
  <2> QED
    BY <1>2, <2>1, <2>2 DEF Chained
<1>3. ASSUME NEW i \in DOMAIN t, NEW j \in DOMAIN t, t[i].file = f, t[j].file = f, i < j,
             \A k \in DOMAIN t : t[k].file = f => k <= i \/ j <= k
      PROVE  t[i].after = t[j].before
  <2>1. i + m \in DOMAIN s /\ t[i] = s[i + m] /\ j + m \in DOMAIN s /\ t[j] = s[j + m]
        /\ i + m < j + m
    BY <1>1, <1>3
  <2>2. ASSUME NEW k \in DOMAIN s, s[k].file = f PROVE k <= i + m \/ j + m <= k
    <3>1. CASE k <= m
      BY <1>1, <3>1
    <3>2. CASE k - m \in 1..(n - m) /\ (k - m) + m = k
      <4>1. t[k - m] = s[k] /\ k - m \in DOMAIN t
        BY <1>1, <3>2
      <4>2. k - m <= i \/ j <= k - m
        BY <1>3, <2>2, <4>1
      <4> QED
        BY <1>1, <4>2
    <3> QED
      BY <1>1, <3>1, <3>2
  <2> QED
    BY <1>3, <2>1, <2>2 DEF Chained
<1>4. Chained(t, f, x)
  BY <1>2, <1>3 DEF Chained
<1> QED
  BY <1>4 DEF t, n

(* Entries of other files at the end make no difference.                    *)
LEMMA ChainedOthers ==
    ASSUME NEW s \in Seq(Entry), NEW t \in Seq(Entry), NEW f, NEW x,
           \A i \in DOMAIN t : t[i].file # f
    PROVE  Chained(s \o t, f, x) <=> Chained(s, f, x)
<1> DEFINE u == s \o t
           n == Len(s)
<1>1. /\ DOMAIN s = 1..n /\ n \in Nat /\ DOMAIN u = 1..(n + Len(t)) /\ Len(t) \in Nat
      /\ DOMAIN t = 1..Len(t)
      /\ \A i \in 1..n : i \in DOMAIN u /\ u[i] = s[i]
      /\ \A i \in 1..(n + Len(t)) : i \in 1..n \/ (i - n \in DOMAIN t /\ u[i] = t[i - n])
  <2>1. /\ DOMAIN s = 1..n /\ n \in Nat /\ DOMAIN u = 1..(n + Len(t)) /\ Len(t) \in Nat
        /\ DOMAIN t = 1..Len(t)
    OBVIOUS
  <2>2. \A i \in 1..n : i \in DOMAIN u /\ u[i] = s[i]
    OBVIOUS
  <2>3. \A i \in 1..(n + Len(t)) : i \in 1..n \/ (i - n \in DOMAIN t /\ u[i] = t[i - n])
    OBVIOUS
  <2> QED
    BY <2>1, <2>2, <2>3
<1> HIDE DEF u, n
<1>2. \A i : i \in DOMAIN u /\ u[i].file = f <=> i \in DOMAIN s /\ s[i].file = f
  BY <1>1
<1>3. {i \in DOMAIN u : u[i].file = f} = {i \in DOMAIN s : s[i].file = f}
  BY <1>2
<1>4. \A i \in {i \in DOMAIN s : s[i].file = f} : u[i] = s[i]
  BY <1>1
<1>5. Chained(u, f, x) <=> Chained(s, f, x)
  BY <1>3, <1>4 DEF Chained
<1> QED
  BY <1>5 DEF u

--------------------------------------------------------------------------------
LEMMA JournalStart == JournalInit => JournalInv
<1> SUFFICES ASSUME JournalInit PROVE JournalInv
  OBVIOUS
<1>1. <<>> \in Seq(Entry) /\ DOMAIN <<>> = {} /\ <<>> \o <<>> = <<>>
  OBVIOUS
<1>2. JournalTypes
  <2>1. NoUndo \in Undo
    BY <1>1 DEF NoUndo, Undo
  <2> QED
    BY <1>1, <2>1 DEF JournalInit, JournalTypes, Contents
<1>3. entries = <<>> /\ undoing.todo = <<>> /\ undoing.failed = <<>> /\ undoing.at = "idle"
      /\ fileTool.at = "idle"
  BY DEF JournalInit, NoUndo, NoFileTool
<1>4. OrderInv
  BY <1>1, <1>3 DEF OrderInv, InOpOrder, Before, UpTo
<1>5. WorkInv
  BY <1>3 DEF WorkInv
<1>6. ChainInv
  BY <1>1, <1>3 DEF ChainInv, Chained
<1> QED
  BY <1>2, <1>4, <1>5, <1>6 DEF JournalInv

(* The file of the entry that undo has in hand, and what it finds there.    *)
LEMMA NewestEntry ==
    ASSUME JournalTypes, undoing.todo # <<>>
    PROVE  /\ Newest \in Entry /\ Newest = undoing.todo[Len(undoing.todo)]
           /\ entries \o undoing.todo \in Seq(Entry) /\ entries \o undoing.todo # <<>>
           /\ Last(entries \o undoing.todo) = Newest
           /\ Front(entries \o undoing.todo) = entries \o Front(undoing.todo)
<1>1. undoing.todo \in Seq(Entry) /\ entries \in Seq(Entry)
  BY DEF JournalTypes, Undo
<1>2. Newest \in Entry /\ Newest = undoing.todo[Len(undoing.todo)]
  BY <1>1, LastAndFront DEF Newest
<1> QED
  BY <1>1, <1>2, FrontOfConcat DEF Newest

(* A step that leaves journal and undo alone and changes no file but those   *)
(* that somebody else has touched, or the one in the tool's hand.            *)
LEMMA ChainKept ==
    ASSUME ChainInv, undoing' = undoing, entries' = entries, touched \subseteq touched',
           \A f \in Files \ touched' : Expected(f)' = Expected(f)
    PROVE  ChainInv'
BY DEF ChainInv

LEMMA OrderKept ==
    ASSUME OrderInv, undoing' = undoing, entries' = entries, op' = op PROVE OrderInv'
BY DEF OrderInv

LEMMA ReadStep ==
    ASSUME JournalInv, NEW f \in Files, NEW c \in Contents, ReadsFile(f, c) PROVE JournalInv'
<1> DEFINE tool == [at |-> "read", file |-> f, before |-> files[f], after |-> c]
<1>1. /\ fileTool' = tool /\ undoing.at = "idle" /\ fileTool.at = "idle"
      /\ UNCHANGED <<files, entries, total_bytes, op, undoing, late, mishaps, touched>>
  BY DEF ReadsFile, Quiet
<1>2. tool \in FileCall
  BY DEF FileCall, JournalInv, JournalTypes
<1>3. JournalTypes'
  BY <1>1, <1>2 DEF JournalInv, JournalTypes
<1>4. WorkInv'
  BY <1>1 DEF JournalInv, WorkInv, AlreadyGone, Newest
<1>5. ChainInv'
  BY <1>1, ChainKept DEF JournalInv, Expected
<1> QED
  BY <1>1, <1>3, <1>4, <1>5, OrderKept DEF JournalInv

LEMMA ChangesStep == ASSUME JournalInv, Changes PROVE JournalInv'
<1>1. /\ fileTool.at = "read" /\ fileTool \in FileCall /\ undoing.at = "idle"
      /\ UNCHANGED <<entries, total_bytes, op, undoing, late, mishaps, touched>>
      /\ undoing.todo = <<>>
  BY DEF Changes, JournalInv, JournalTypes, WorkInv, NoFileTool
<1>2. OrderInv'
  BY <1>1, OrderKept DEF JournalInv
<1>3. CASE fileTool' = NoFileTool /\ UNCHANGED files
  <2>1. JournalTypes'
    BY <1>1, <1>3 DEF JournalInv, JournalTypes
  <2>2. WorkInv'
    BY <1>1, <1>3 DEF JournalInv, WorkInv, NoFileTool, AlreadyGone, Newest
  <2>3. ChainInv'
    BY <1>1, <1>3, ChainKept DEF JournalInv, Expected, NoFileTool
  <2> QED
    BY <1>2, <2>1, <2>2, <2>3 DEF JournalInv
<1>4. CASE /\ files' = [files EXCEPT ![fileTool.file] = fileTool.after]
           /\ fileTool' = [fileTool EXCEPT !.at = "changed"]
  <2>1. /\ fileTool' = [at |-> "changed", file |-> fileTool.file, before |-> fileTool.before,
                        after |-> fileTool.after]
        /\ fileTool.file \in Files /\ fileTool.before \in Contents /\ fileTool.after \in Contents
    BY <1>1, <1>4 DEF FileCall
  <2>2. fileTool' \in FileCall
    BY <2>1 DEF FileCall
  <2>3. /\ files' \in [Files -> Contents] /\ files'[fileTool.file] = fileTool.after
        /\ \A f \in Files \ {fileTool.file} : files'[f] = files[f]
    BY <1>4, <2>1 DEF JournalInv, JournalTypes
  <2>4. JournalTypes'
    BY <1>1, <2>2, <2>3 DEF JournalInv, JournalTypes
  <2>5. WorkInv'
    BY <1>1, <2>1, <2>3 DEF JournalInv, WorkInv, AlreadyGone, Newest
  <2>6. ASSUME NEW f \in Files \ touched' PROVE Expected(f)' = Expected(f)
    <3>1. CASE f = fileTool.file
      <4>1. files[f] = fileTool.before
        BY <1>1, <3>1, <2>6 DEF JournalInv, WorkInv
      <4> QED
        BY <1>1, <2>1, <3>1, <4>1 DEF Expected
    <3>2. CASE f # fileTool.file
      BY <1>1, <2>1, <2>3, <3>2 DEF Expected
    <3> QED
      BY <3>1, <3>2
  <2>7. ChainInv'
    BY <1>1, <2>6, ChainKept DEF JournalInv
  <2> QED
    BY <1>2, <2>4, <2>5, <2>7 DEF JournalInv
<1> QED
  BY <1>3, <1>4 DEF Changes

(* What Added leaves is a tail of what it was given.                        *)
LEMMA AddedKeepsTail ==
    ASSUME NEW es \in Seq(Entry), Added(es)
    PROVE  \E m \in 0..Len(es) : entries' = SubSeq(es, m + 1, Len(es))
<1>1. ASSUME NEW bytes PROVE Fitting(es, bytes) \in 0..Len(es)
  <2> DEFINE Fits(n) == Len(es) - n <= MaxEntries /\ bytes - Bytes(SubSeq(es, 1, n)) <= MaxBytes
             enough == {n \in 0..Len(es) : Fits(n) \/ n = Len(es)}
  <2>1. enough \subseteq Nat /\ Len(es) \in enough /\ enough \subseteq 0..Len(es)
    OBVIOUS
  <2> HIDE DEF enough
  <2>2. \E n \in enough : \A m \in enough : n <= m
    BY <2>1, LeastNatural
  <2>3. (CHOOSE n \in enough : \A m \in enough : n <= m) \in enough
    BY <2>2
  <2> QED
    BY <2>1, <2>3 DEF Fitting, enough
<1> QED
  BY <1>1 DEF Added

LEMMA RecordsStep == ASSUME JournalInv, RecordsChange PROVE JournalInv'
<1> DEFINE e == [op_id |-> op', file |-> fileTool.file, before |-> fileTool.before,
                 after |-> fileTool.after]
           es == Append(entries, e)
<1>1. /\ fileTool.at = "changed" /\ fileTool \in FileCall /\ undoing.at = "idle"
      /\ undoing.todo = <<>> /\ undoing.failed = <<>> /\ fileTool' = NoFileTool /\ op' = op + 1
      /\ UNCHANGED <<files, undoing, late, mishaps, touched>> /\ Added(es)
      /\ entries \in Seq(Entry) /\ op \in Nat
  BY DEF RecordsChange, JournalInv, JournalTypes, WorkInv, NoFileTool
<1>2. /\ e \in Entry /\ e.file = fileTool.file /\ e.before = fileTool.before
      /\ e.after = fileTool.after /\ e.op_id = op + 1
  BY <1>1 DEF Entry, FileCall
<1> HIDE DEF e
<1>3. es \in Seq(Entry)
  BY <1>1, <1>2
<1>4. PICK m \in 0..Len(es) : entries' = SubSeq(es, m + 1, Len(es))
  BY <1>1, <1>3, AddedKeepsTail
<1>5. /\ entries' \in Seq(Entry) /\ DOMAIN es = 1..Len(es) /\ Len(es) \in Nat
      /\ DOMAIN entries' = 1..(Len(es) - m)
      /\ \A i \in 1..(Len(es) - m) : i + m \in DOMAIN es /\ entries'[i] = es[i + m]
  <2> HIDE DEF es
  <2> QED
    BY <1>3, <1>4, SuffixOfSeq
<1>6. JournalTypes'
  BY <1>1, <1>5 DEF JournalInv, JournalTypes
<1>7. WorkInv'
  BY <1>1 DEF JournalInv, WorkInv, NoFileTool
<1>8. OrderInv'
  <2>1. InOpOrder(es) /\ \A i \in DOMAIN es : es[i].op_id <= op + 1
    <3>0. \A i \in DOMAIN entries : entries[i] \in Entry
      BY <1>1
    <3>1. /\ InOpOrder(entries) /\ \A i \in DOMAIN entries : entries[i].op_id <= op
          /\ \A i \in DOMAIN entries : entries[i].op_id \in Nat
      BY <3>0 DEF JournalInv, OrderInv, Entry, UpTo
    <3>2. /\ DOMAIN es = 1..(Len(entries) + 1) /\ es[Len(entries) + 1] = e
          /\ DOMAIN entries = 1..Len(entries) /\ Len(entries) \in Nat
          /\ \A i \in DOMAIN entries : es[i] = entries[i]
      BY <1>1
    <3> HIDE DEF es
    <3>3. \A i \in DOMAIN es : i = Len(entries) + 1 \/ i \in DOMAIN entries
      BY <3>2
    <3>4. \A i \in DOMAIN es : es[i].op_id <= op + 1
      BY <1>1, <1>2, <3>1, <3>2, <3>3
    <3>5. ASSUME NEW i \in DOMAIN es, NEW j \in DOMAIN es, i < j
          PROVE  es[i].op_id < es[j].op_id
      <4>1. i \in DOMAIN entries
        BY <3>2, <3>5
      <4>2. CASE j = Len(entries) + 1
        BY <1>1, <1>2, <3>1, <3>2, <4>1, <4>2
      <4>3. CASE j \in DOMAIN entries
        BY <3>1, <3>2, <3>5, <4>1, <4>3 DEF InOpOrder
      <4> QED
        BY <3>3, <4>2, <4>3
    <3> QED
      BY <3>4, <3>5 DEF InOpOrder
  <2> HIDE DEF es
  <2>2. InOpOrder(entries')
    <3> SUFFICES ASSUME NEW i \in 1..(Len(es) - m), NEW j \in 1..(Len(es) - m), i < j
                 PROVE  entries'[i].op_id < entries'[j].op_id
      BY <1>5 DEF InOpOrder
    <3>1. i + m \in DOMAIN es /\ j + m \in DOMAIN es /\ i + m < j + m
      BY <1>5
    <3> QED
      BY <1>5, <2>1, <3>1 DEF InOpOrder
  <2>3. \A i \in DOMAIN entries' : entries'[i].op_id <= op'
    BY <1>1, <1>5, <2>1
  <2>4. undoing'.todo = <<>> /\ undoing'.failed = <<>> /\ DOMAIN <<>> = {}
    BY <1>1
  <2> QED
    BY <2>2, <2>3, <2>4 DEF OrderInv, InOpOrder, Before, UpTo
<1>9. ChainInv'
  <2> SUFFICES ASSUME NEW f \in Files \ touched PROVE Chained(entries', f, files[f])
    <3>1. undoing'.todo = <<>> /\ undoing'.failed = <<>> /\ DOMAIN <<>> = {}
      BY <1>1
    <3>2. entries' \o <<>> = entries'
      BY <1>5
    <3>3. \A f \in Files : Expected(f)' = files[f]
      BY <1>1 DEF Expected, NoFileTool
    <3> QED
      BY <1>1, <3>1, <3>2, <3>3 DEF ChainInv
  <2>1. Chained(entries, f, Expected(f))
    <3>1. entries \o <<>> = entries
      BY <1>1
    <3> QED
      BY <1>1, <3>1 DEF JournalInv, ChainInv
  <2>2. e.file = f => e.before = Expected(f) /\ e.after = files[f]
    BY <1>1, <1>2 DEF Expected, JournalInv, WorkInv
  <2>3. e.file # f => Expected(f) = files[f]
    BY <1>2 DEF Expected
  <2>4. Chained(es, f, files[f])
    <3>1. Chained(es, f, IF e.file = f THEN e.after ELSE Expected(f))
      BY <1>1, <1>2, <2>1, <2>2, ChainedAppend
    <3> QED
      BY <2>2, <2>3, <3>1
  <2> QED
    BY <1>3, <1>4, <2>4, ChainedSuffix
<1> QED
  BY <1>6, <1>7, <1>8, <1>9 DEF JournalInv

LEMMA DroppedStep == ASSUME JournalInv, CallDropped PROVE JournalInv'
<1>1. /\ fileTool \in FileCall /\ undoing.at = "idle" /\ fileTool' = NoFileTool
      /\ UNCHANGED <<files, entries, total_bytes, op, undoing>>
      /\ fileTool.file \in Files /\ fileTool.after \in Contents
  BY DEF CallDropped, JournalInv, JournalTypes, WorkInv, NoFileTool, FileCall
<1>2. touched \subseteq touched' /\ touched' \subseteq Files
  BY <1>1 DEF CallDropped, JournalInv, JournalTypes
<1>3. late' \subseteq [file : Files, content : Contents]
  BY <1>1 DEF CallDropped, JournalInv, JournalTypes
<1>4. JournalTypes'
  BY <1>1, <1>2, <1>3 DEF JournalInv, JournalTypes
<1>5. WorkInv'
  BY <1>1, <1>2 DEF JournalInv, WorkInv, NoFileTool, AlreadyGone, Newest
<1>6. ASSUME NEW f \in Files \ touched' PROVE Expected(f)' = Expected(f)
  <2>1. Expected(f)' = files[f]
    BY <1>1 DEF Expected, NoFileTool
  <2>2. ~(fileTool.at = "changed" /\ fileTool.file = f)
    BY <1>6 DEF CallDropped
  <2> QED
    BY <2>1, <2>2 DEF Expected
<1>7. ChainInv'
  BY <1>1, <1>2, <1>6, ChainKept DEF JournalInv
<1> QED
  BY <1>1, <1>4, <1>5, <1>7, OrderKept DEF JournalInv

(* The editor of the user, or a write that nobody waits for any more.       *)
LEMMA OthersChange ==
    ASSUME JournalInv, NEW f \in Files, NEW c \in Contents, late' \subseteq late,
           files' = [files EXCEPT ![f] = c], touched' = touched \union {f},
           UNCHANGED <<entries, op, fileTool, undoing>>
    PROVE  JournalInv'
<1>1. /\ files' \in [Files -> Contents] /\ touched' \subseteq Files /\ touched \subseteq touched'
      /\ \A g \in Files \ touched' : g # f /\ files'[g] = files[g]
  BY DEF JournalInv, JournalTypes
<1>2. JournalTypes'
  BY <1>1 DEF JournalInv, JournalTypes
<1>3. WorkInv'
  <2>1. ASSUME undoing.at = "restoring"
        PROVE  undoing.todo # <<>> /\ (Newest.file \in touched' \/ ~AlreadyGone(Newest)')
    <3>1. undoing.todo # <<>> /\ (Newest.file \in touched \/ ~AlreadyGone(Newest))
      BY <2>1 DEF JournalInv, WorkInv
    <3>2. Newest.file \in Files
      BY <3>1, NewestEntry DEF JournalInv, Entry
    <3>3. Newest' = Newest
      BY DEF Newest
    <3> QED
      BY <1>1, <3>1, <3>2, <3>3 DEF AlreadyGone
  <2>2. ASSUME fileTool.at # "idle", fileTool.file \notin touched'
        PROVE  files'[fileTool.file] = IF fileTool.at = "read" THEN fileTool.before
                                       ELSE fileTool.after
    <3>1. fileTool.file \in Files \ touched'
      BY <2>2 DEF JournalInv, JournalTypes, NoFileTool, FileCall
    <3> QED
      BY <1>1, <2>2, <3>1 DEF JournalInv, WorkInv
  <2>3. /\ fileTool.at # "idle" => undoing.at = "idle"
        /\ undoing.at = "idle" => undoing.todo = <<>> /\ undoing.failed = <<>>
    BY DEF JournalInv, WorkInv
  <2>4. Newest' = Newest
    BY DEF Newest
  <2> QED
    BY <2>1, <2>2, <2>3, <2>4 DEF WorkInv
<1>4. \A g \in Files \ touched' : Expected(g)' = Expected(g)
  BY <1>1 DEF Expected
<1>5. ChainInv'
  BY <1>1, <1>4, ChainKept DEF JournalInv
<1> QED
  BY <1>2, <1>3, <1>5, OrderKept DEF JournalInv

LEMMA SplitSeq ==
    ASSUME NEW s \in Seq(Entry), NEW k \in 0..Len(s)
    PROVE  /\ SubSeq(s, 1, k) \in Seq(Entry) /\ DOMAIN SubSeq(s, 1, k) = 1..k
           /\ \A i \in 1..k : SubSeq(s, 1, k)[i] = s[i]
           /\ SubSeq(s, 1, k) \o SubSeq(s, k + 1, Len(s)) = s
<1> DEFINE n == Len(s)
           a == SubSeq(s, 1, k)
           b == SubSeq(s, k + 1, n)
<1>1. n \in Nat /\ k \in Nat /\ k <= n
  OBVIOUS
<1>2. \A i \in 1..k : s[i] \in Entry
  BY <1>1
<1>3. /\ a \in Seq(Entry) /\ Len(a) = (IF 1 <= k THEN k - 1 + 1 ELSE 0)
      /\ \A i \in 1..(k - 1 + 1) : a[i] = s[1 + i - 1]
  BY <1>1, <1>2, SubSeqProperties
<1>4. b \in Seq(Entry) /\ Len(b) = n - k /\ \A i \in 1..(n - k) : b[i] = s[i + k]
  BY SuffixOfSeq
<1> HIDE DEF a, b, n
<1>5. Len(a) = k /\ DOMAIN a = 1..k /\ \A i \in 1..k : a[i] = s[i]
  <2>1. k - 1 + 1 = k /\ \A i \in 1..k : 1 + i - 1 = i
    BY <1>1
  <2>2. Len(a) = k
    BY <1>1, <1>3
  <2> QED
    BY <1>3, <2>1, <2>2
<1>6. /\ a \o b \in Seq(Entry) /\ Len(a \o b) = Len(a) + Len(b)
      /\ \A i \in 1..(Len(a) + Len(b)) : (a \o b)[i] = IF i <= Len(a) THEN a[i] ELSE b[i - Len(a)]
  BY <1>3, <1>4, ConcatProperties
<1>7. \A i \in 1..n : (a \o b)[i] = s[i]
  <2> SUFFICES ASSUME NEW i \in 1..n PROVE (a \o b)[i] = s[i]
    OBVIOUS
  <2>1. (a \o b)[i] = IF i <= k THEN a[i] ELSE b[i - k]
    <3>1. Len(a) + Len(b) = n
      BY <1>1, <1>4, <1>5
    <3> QED
      BY <1>5, <1>6, <3>1
  <2>2. CASE i <= k
    BY <1>1, <1>5, <2>1, <2>2
  <2>3. CASE ~(i <= k)
    <3>1. i - k \in 1..(n - k) /\ (i - k) + k = i
      BY <1>1, <2>3
    <3> QED
      BY <1>4, <2>1, <2>3, <3>1
  <2> QED
    BY <2>2, <2>3
<1>8. Len(a \o b) = Len(s)
  BY <1>1, <1>4, <1>5, <1>6 DEF n
<1>9. a \o b = s
  BY <1>6, <1>7, <1>8, SeqEqual DEF n
<1> QED
  BY <1>3, <1>5, <1>9 DEF a, b, n

LEMMA UndoTakesStep == ASSUME JournalInv, NEW steps, UndoTakes(steps) PROVE JournalInv'
<1> DEFINE k == Len(entries) - steps
           kept == SubSeq(entries, 1, k)
           taken == SubSeq(entries, k + 1, Len(entries))
<1>1. /\ fileTool.at = "idle" /\ undoing.at = "idle" /\ undoing.todo = <<>>
      /\ undoing.failed = <<>> /\ entries \in Seq(Entry)
      /\ UNCHANGED <<files, total_bytes, op, fileTool, late, mishaps, touched>>
      /\ entries' = kept
      /\ undoing' = [at |-> "looking", failed |-> <<>>, todo |-> taken]
  BY DEF UndoTakes, Quiet, JournalInv, JournalTypes, WorkInv
<1>2. k \in 0..Len(entries)
  BY <1>1 DEF UndoTakes
<1> HIDE DEF k
<1>3. /\ kept \in Seq(Entry) /\ DOMAIN kept = 1..k /\ \A i \in 1..k : kept[i] = entries[i]
      /\ kept \o taken = entries
  BY <1>1, <1>2, SplitSeq
<1>4. /\ taken \in Seq(Entry) /\ DOMAIN taken = 1..(Len(entries) - k)
      /\ \A i \in 1..(Len(entries) - k) : taken[i] = entries[i + k]
      /\ \A i \in 1..(Len(entries) - k) : i + k \in 1..Len(entries)
      /\ DOMAIN entries = 1..Len(entries) /\ Len(entries) \in Nat
  BY <1>1, <1>2, SuffixOfSeq
<1> HIDE DEF kept, taken
<1>5. undoing'.todo = taken /\ undoing'.failed = <<>> /\ undoing'.at = "looking"
  BY <1>1
<1>6. JournalTypes'
  <2>1. undoing' \in Undo
    BY <1>1, <1>4 DEF Undo
  <2> QED
    BY <1>1, <1>3, <2>1 DEF JournalInv, JournalTypes
<1>7. OrderInv'
  <2>1. InOpOrder(entries) /\ UpTo(entries, op)
    BY DEF JournalInv, OrderInv
  <2>2. InOpOrder(kept) /\ UpTo(kept, op)
    <3>1. \A i \in 1..k : i \in DOMAIN entries
      BY <1>2, <1>4
    <3> QED
      BY <1>3, <2>1, <3>1 DEF InOpOrder, UpTo
  <2>3. UpTo(taken, op)
    BY <1>4, <2>1 DEF UpTo
  <2>4. InOpOrder(taken)
    <3> SUFFICES ASSUME NEW i \in DOMAIN taken, NEW j \in DOMAIN taken, i < j
                 PROVE  taken[i].op_id < taken[j].op_id
      BY DEF InOpOrder
    <3>1. i + k < j + k /\ i + k \in DOMAIN entries /\ j + k \in DOMAIN entries
      BY <1>2, <1>4
    <3> QED
      BY <1>4, <2>1, <3>1 DEF InOpOrder
  <2>5. Before(kept, taken)
    <3> SUFFICES ASSUME NEW i \in DOMAIN kept, NEW j \in DOMAIN taken
                 PROVE  kept[i].op_id < taken[j].op_id
      BY DEF Before
    <3>1. i \in DOMAIN entries /\ j + k \in DOMAIN entries /\ i < j + k
      BY <1>2, <1>3, <1>4
    <3> QED
      BY <1>3, <1>4, <2>1, <3>1 DEF InOpOrder
  <2>6. DOMAIN <<>> = {}
    OBVIOUS
  <2>7. InOpOrder(<<>>) /\ UpTo(<<>>, op) /\ Before(kept, <<>>) /\ Before(taken, <<>>)
    BY <2>6 DEF InOpOrder, UpTo, Before
  <2> QED
    BY <1>1, <1>5, <2>2, <2>3, <2>4, <2>5, <2>7 DEF OrderInv
<1>8. WorkInv'
  BY <1>1, <1>5 DEF JournalInv, WorkInv
<1>9. ChainInv'
  <2>1. entries \o <<>> = entries
    BY <1>1
  <2>2. \A f \in Files : Expected(f)' = Expected(f)
    BY <1>1 DEF Expected
  <2> QED
    BY <1>1, <1>3, <1>5, <2>1, <2>2 DEF JournalInv, ChainInv
<1> QED
  BY <1>6, <1>7, <1>8, <1>9 DEF JournalInv

(* Undo is through with its newest entry: put back, or refused.             *)
LEMMA UndoMoves ==
    ASSUME JournalInv, undoing.todo # <<>>, undoing.at # "idle", entries' = entries, op' = op,
           undoing' \in {Restored, Failed}
    PROVE  /\ OrderInv' /\ undoing' \in Undo /\ undoing'.todo = Front(undoing.todo)
           /\ undoing'.at = "looking"
           /\ undoing' = Restored => undoing'.failed = undoing.failed
           /\ undoing' = Failed => undoing'.failed = <<Newest>> \o undoing.failed
<1> DEFINE todo == undoing.todo
           failed == undoing.failed
           front == Front(todo)
           more == <<Newest>> \o failed
           n == Len(todo)
<1>1. todo \in Seq(Entry) /\ failed \in Seq(Entry) /\ undoing \in Undo
  BY DEF JournalInv, JournalTypes, Undo
<1>2. /\ front \in Seq(Entry) /\ DOMAIN front = 1..(n - 1) /\ n \in Nat /\ DOMAIN todo = 1..n
      /\ Newest \in Entry /\ Newest = todo[n] /\ n \in DOMAIN todo
      /\ \A i \in 1..(n - 1) : i \in DOMAIN todo /\ front[i] = todo[i]
  BY <1>1, LastAndFront DEF Newest
<1>3. /\ Restored.todo = front /\ Restored.failed = failed /\ Restored.at = "looking"
      /\ Restored = [at |-> "looking", todo |-> front, failed |-> failed]
  BY DEF Restored
<1>4. /\ Failed.todo = front /\ Failed.failed = more /\ Failed.at = "looking"
      /\ Failed = [at |-> "looking", todo |-> front, failed |-> more]
  <2>1. Failed = [Restored EXCEPT !.failed = <<Newest>> \o Restored.failed]
    BY DEF Failed
  <2>2. Failed = [Restored EXCEPT !.failed = more]
    BY <1>3, <2>1
  <2> HIDE DEF front, more, failed
  <2>3. \A r, z, a, b, c : r = [at |-> a, todo |-> b, failed |-> c] =>
           [r EXCEPT !.failed = z] = [at |-> a, todo |-> b, failed |-> z]
    OBVIOUS
  <2>4. Failed = [at |-> "looking", todo |-> front, failed |-> more]
    BY <1>3, <2>2, <2>3
  <2> QED
    BY <2>4
<1>5. /\ more \in Seq(Entry) /\ DOMAIN more = 1..(Len(failed) + 1) /\ Len(failed) \in Nat
      /\ DOMAIN failed = 1..Len(failed)
      /\ \A i \in DOMAIN more : IF i = 1 THEN more[i] = Newest
                                ELSE i - 1 \in DOMAIN failed /\ more[i] = failed[i - 1]
  <2>1. <<Newest>> \in Seq(Entry) /\ Len(<<Newest>>) = 1 /\ <<Newest>>[1] = Newest
    BY <1>2
  <2>2. /\ more \in Seq(Entry) /\ Len(more) = 1 + Len(failed)
        /\ \A i \in 1..(1 + Len(failed)) :
              more[i] = IF i <= 1 THEN <<Newest>>[i] ELSE failed[i - 1]
    BY <1>1, <2>1, ConcatProperties
  <2>3. Len(failed) \in Nat /\ DOMAIN failed = 1..Len(failed)
    BY <1>1
  <2> HIDE DEF more, failed
  <2>4. DOMAIN more = 1..(Len(failed) + 1)
    BY <2>2, <2>3
  <2> QED
    BY <2>1, <2>2, <2>3, <2>4
<1> HIDE DEF front, more, todo, failed, n
<1>6. /\ InOpOrder(entries) /\ InOpOrder(todo) /\ InOpOrder(failed)
      /\ Before(entries, todo) /\ Before(entries, failed) /\ Before(todo, failed)
      /\ UpTo(entries, op) /\ UpTo(todo, op) /\ UpTo(failed, op)
  BY DEF JournalInv, OrderInv, todo, failed
<1>7. /\ InOpOrder(front) /\ Before(entries, front) /\ Before(front, failed) /\ UpTo(front, op)
  BY <1>2, <1>6 DEF InOpOrder, Before, UpTo
<1>8. InOpOrder(more)
  <2> SUFFICES ASSUME NEW i \in DOMAIN more, NEW j \in DOMAIN more, i < j
               PROVE  more[i].op_id < more[j].op_id
    BY DEF InOpOrder
  <2>1. j # 1 /\ j - 1 \in DOMAIN failed /\ more[j] = failed[j - 1]
    BY <1>5
  <2>2. CASE i = 1
    BY <1>2, <1>5, <1>6, <2>1, <2>2 DEF Before
  <2>3. CASE i # 1
    <3>1. i - 1 \in DOMAIN failed /\ more[i] = failed[i - 1] /\ i - 1 < j - 1
      BY <1>5, <2>3
    <3> QED
      BY <1>6, <2>1, <3>1 DEF InOpOrder
  <2> QED
    BY <2>2, <2>3
<1>9. Before(entries, more) /\ UpTo(more, op)
  BY <1>2, <1>5, <1>6 DEF Before, UpTo
<1>10. Before(front, more)
  <2> SUFFICES ASSUME NEW i \in DOMAIN front, NEW j \in DOMAIN more
               PROVE  front[i].op_id < more[j].op_id
    BY DEF Before
  <2>1. i \in DOMAIN todo /\ front[i] = todo[i] /\ i < n
    BY <1>2
  <2>2. CASE j = 1
    BY <1>2, <1>5, <1>6, <2>1, <2>2 DEF InOpOrder
  <2>3. CASE j # 1
    BY <1>5, <1>6, <2>1, <2>3 DEF Before
  <2> QED
    BY <2>2, <2>3
<1>11. CASE undoing' = Restored
  <2>1. OrderInv'
    BY <1>3, <1>6, <1>7, <1>11 DEF OrderInv
  <2>2. undoing' \in Undo
    BY <1>1, <1>2, <1>3, <1>11 DEF Undo, failed
  <2>3. Failed = Restored => more = failed
    BY <1>3, <1>4
  <2> QED
    BY <1>3, <1>4, <1>11, <2>1, <2>2 DEF front, todo, failed, more
<1>12. CASE undoing' = Failed
  <2>1. OrderInv'
    BY <1>4, <1>6, <1>7, <1>8, <1>9, <1>10, <1>12 DEF OrderInv
  <2>2. undoing' \in Undo
    BY <1>2, <1>4, <1>5, <1>12 DEF Undo
  <2> QED
    BY <1>3, <1>4, <1>12, <2>1, <2>2 DEF front, todo, failed, more
<1> QED
  BY <1>11, <1>12

LEMMA FailedTouched ==
    ASSUME JournalTypes, ChainInv, Newest \in Entry, Newest.file \in touched, touched' = touched,
           undoing'.failed = <<Newest>> \o undoing.failed,
           \A f \in Files \ touched : Chained(entries' \o undoing'.todo, f, Expected(f)')
    PROVE  ChainInv'
<1> DEFINE failed == undoing.failed
           more == <<Newest>> \o failed
<1>1. failed \in Seq(Entry) /\ Len(failed) \in Nat /\ DOMAIN failed = 1..Len(failed)
  BY DEF JournalTypes, Undo
<1>2. <<Newest>> \in Seq(Entry) /\ Len(<<Newest>>) = 1 /\ <<Newest>>[1] = Newest
  OBVIOUS
<1> HIDE DEF failed
<1>3. /\ more \in Seq(Entry) /\ Len(more) = 1 + Len(failed)
      /\ \A i \in 1..(1 + Len(failed)) :
            more[i] = IF i <= 1 THEN <<Newest>>[i] ELSE failed[i - 1]
  BY <1>1, <1>2, ConcatProperties
<1> HIDE DEF more
<1>4. DOMAIN more = 1..(1 + Len(failed))
  BY <1>3
<1>5. \A i \in DOMAIN failed : failed[i].file \in touched
  BY DEF ChainInv, failed
<1>6. \A i \in DOMAIN more : more[i].file \in touched
  <2> SUFFICES ASSUME NEW i \in 1..(1 + Len(failed)) PROVE more[i].file \in touched
    BY <1>4
  <2>1. CASE i = 1
    BY <1>2, <1>3, <2>1
  <2>2. CASE i # 1
    <3>1. ~(i <= 1) /\ i - 1 \in DOMAIN failed
      BY <1>1, <2>2
    <3> QED
      BY <1>3, <1>5, <3>1
  <2> QED
    BY <2>1, <2>2
<1> QED
  BY <1>6 DEF ChainInv, more, failed

LEMMA LooksStep == ASSUME JournalInv, UndoLooks PROVE JournalInv'
<1>1. /\ undoing.at = "looking" /\ undoing.todo # <<>> /\ fileTool.at = "idle"
      /\ UNCHANGED <<files, entries, total_bytes, op, fileTool, late, mishaps, touched>>
  BY DEF UndoLooks, JournalInv, WorkInv
<1> DEFINE u == entries \o undoing.todo
<1>2. /\ u \in Seq(Entry) /\ u # <<>> /\ Last(u) = Newest /\ Newest \in Entry
      /\ Front(u) = entries \o Front(undoing.todo)
  BY <1>1, NewestEntry DEF JournalInv
<1>3. \A f \in Files \ touched : Chained(u, f, files[f])
  BY <1>1 DEF JournalInv, ChainInv, Expected
<1> HIDE DEF u
<1>4. \A f \in Files \ touched :
          /\ Newest.file = f => Newest.after = files[f] /\ Chained(Front(u), f, Newest.before)
          /\ Newest.file # f => Chained(Front(u), f, files[f])
  BY <1>2, <1>3, ChainedFront
<1>5. Newest.file \in Files
  BY <1>2 DEF Entry
<1>6. \A f \in Files : Expected(f)' = files[f]
  BY <1>1 DEF Expected
<1>7. CASE undoing' = [undoing EXCEPT !.at = "restoring"] /\ ~AlreadyGone(Newest)
  <2>1. /\ undoing'.at = "restoring" /\ undoing'.todo = undoing.todo
        /\ undoing'.failed = undoing.failed /\ undoing' \in Undo
    BY <1>7 DEF JournalInv, JournalTypes, Undo
  <2>2. JournalTypes'
    BY <1>1, <2>1 DEF JournalInv, JournalTypes
  <2>3. OrderInv'
    BY <1>1, <2>1 DEF JournalInv, OrderInv
  <2>4. Newest' = Newest /\ ~AlreadyGone(Newest)'
    BY <1>1, <1>7, <2>1 DEF Newest, AlreadyGone
  <2>5. WorkInv'
    BY <1>1, <2>1, <2>4 DEF WorkInv
  <2>6. ChainInv'
    BY <1>1, <1>3, <1>6, <2>1 DEF JournalInv, ChainInv, u
  <2> QED
    BY <2>2, <2>3, <2>5, <2>6 DEF JournalInv
<1>8. CASE undoing' = Restored /\ AlreadyGone(Newest)
  <2>1. /\ OrderInv' /\ undoing' \in Undo /\ undoing'.todo = Front(undoing.todo)
        /\ undoing'.at = "looking" /\ undoing'.failed = undoing.failed
    BY <1>1, <1>8, UndoMoves
  <2>2. JournalTypes'
    BY <1>1, <2>1 DEF JournalInv, JournalTypes
  <2>3. WorkInv'
    BY <1>1, <2>1 DEF WorkInv
  <2>4. \A f \in Files \ touched : Chained(Front(u), f, files[f])
    BY <1>4, <1>8 DEF AlreadyGone
  <2>5. ChainInv'
    BY <1>1, <1>2, <1>6, <2>1, <2>4 DEF JournalInv, ChainInv
  <2> QED
    BY <2>1, <2>2, <2>3, <2>5 DEF JournalInv
<1>9. CASE undoing' = Failed /\ ~AsRecorded(Newest)
  <2>1. /\ OrderInv' /\ undoing' \in Undo /\ undoing'.todo = Front(undoing.todo)
        /\ undoing'.at = "looking" /\ undoing'.failed = <<Newest>> \o undoing.failed
    BY <1>1, <1>9, UndoMoves
  <2>2. JournalTypes'
    BY <1>1, <2>1 DEF JournalInv, JournalTypes
  <2>3. WorkInv'
    BY <1>1, <2>1 DEF WorkInv
  <2>4. Newest.file \in touched
    BY <1>4, <1>5, <1>9 DEF AsRecorded
  <2>5. ChainInv'
    BY <1>1, <1>2, <1>4, <1>6, <2>1, <2>4, FailedTouched DEF JournalInv
  <2> QED
    BY <2>1, <2>2, <2>3, <2>5 DEF JournalInv
<1> QED
  BY <1>7, <1>8, <1>9 DEF UndoLooks

LEMMA RestoresStep == ASSUME JournalInv, UndoRestores PROVE JournalInv'
<1>1. /\ undoing.at = "restoring" /\ undoing.todo # <<>> /\ fileTool.at = "idle"
      /\ Newest.file \in touched \/ ~AlreadyGone(Newest)
      /\ UNCHANGED <<entries, total_bytes, op, fileTool, late, mishaps, touched>>
  BY DEF UndoRestores, JournalInv, WorkInv
<1> DEFINE u == entries \o undoing.todo
<1>2. /\ u \in Seq(Entry) /\ u # <<>> /\ Last(u) = Newest /\ Newest \in Entry
      /\ Front(u) = entries \o Front(undoing.todo)
  BY <1>1, NewestEntry DEF JournalInv
<1>3. \A f \in Files \ touched : Chained(u, f, files[f])
  BY <1>1 DEF JournalInv, ChainInv, Expected
<1> HIDE DEF u
<1>4. \A f \in Files \ touched :
          /\ Newest.file = f => Newest.after = files[f] /\ Chained(Front(u), f, Newest.before)
          /\ Newest.file # f => Chained(Front(u), f, files[f])
  BY <1>2, <1>3, ChainedFront
<1>5. Newest.file \in Files /\ Newest.before \in Contents
  BY <1>2 DEF Entry
<1>6. \A f \in Files : Expected(f)' = files'[f]
  BY <1>1 DEF Expected
<1>7. CASE undoing' = Failed /\ UNCHANGED files /\ AlreadyGone(Newest)
  <2>1. /\ OrderInv' /\ undoing' \in Undo /\ undoing'.todo = Front(undoing.todo)
        /\ undoing'.at = "looking" /\ undoing'.failed = <<Newest>> \o undoing.failed
    BY <1>1, <1>7, UndoMoves
  <2>2. JournalTypes'
    BY <1>1, <1>7, <2>1 DEF JournalInv, JournalTypes
  <2>3. WorkInv'
    BY <1>1, <2>1 DEF WorkInv
  <2>4. Newest.file \in touched
    BY <1>1, <1>7
  <2>5. ChainInv'
    BY <1>1, <1>2, <1>4, <1>6, <1>7, <2>1, <2>4, FailedTouched DEF JournalInv
  <2> QED
    BY <2>1, <2>2, <2>3, <2>5 DEF JournalInv
<1>8. CASE files' = [files EXCEPT ![Newest.file] = Newest.before] /\ undoing' = Restored
  <2>1. /\ OrderInv' /\ undoing' \in Undo /\ undoing'.todo = Front(undoing.todo)
        /\ undoing'.at = "looking" /\ undoing'.failed = undoing.failed
    BY <1>1, <1>8, UndoMoves
  <2>2. /\ files' \in [Files -> Contents] /\ files'[Newest.file] = Newest.before
        /\ \A f \in Files : f # Newest.file => files'[f] = files[f]
    BY <1>5, <1>8 DEF JournalInv, JournalTypes
  <2>3. JournalTypes'
    BY <1>1, <2>1, <2>2 DEF JournalInv, JournalTypes
  <2>4. WorkInv'
    BY <1>1, <2>1 DEF WorkInv
  <2>5. \A f \in Files \ touched : Chained(Front(u), f, files'[f])
    BY <1>4, <2>2
  <2>6. ChainInv'
    BY <1>1, <1>2, <1>6, <2>1, <2>5 DEF JournalInv, ChainInv
  <2> QED
    BY <2>1, <2>3, <2>4, <2>6 DEF JournalInv
<1> QED
  BY <1>7, <1>8 DEF UndoRestores

(* One after the other.                                                     *)
LEMMA OrderedConcat ==
    ASSUME NEW s \in Seq(Entry), NEW t \in Seq(Entry), NEW n, InOpOrder(s), InOpOrder(t), Before(s, t),
           UpTo(s, n), UpTo(t, n)
    PROVE  s \o t \in Seq(Entry) /\ InOpOrder(s \o t) /\ UpTo(s \o t, n)
<1> DEFINE u == s \o t
           k == Len(s)
<1>1. /\ k \in Nat /\ DOMAIN s = 1..k /\ Len(t) \in Nat /\ DOMAIN t = 1..Len(t)
      /\ u \in Seq(Entry) /\ Len(u) = k + Len(t)
      /\ \A i \in 1..(k + Len(t)) : u[i] = IF i <= k THEN s[i] ELSE t[i - k]
  BY ConcatProperties
<1> HIDE DEF u, k
<1>2. DOMAIN u = 1..(k + Len(t))
  BY <1>1
<1>3. \A i \in DOMAIN u : (i \in DOMAIN s /\ u[i] = s[i])
                         \/ (i > k /\ i - k \in DOMAIN t /\ u[i] = t[i - k])
  BY <1>1, <1>2
<1>4. UpTo(u, n)
  BY <1>3 DEF UpTo
<1>5. ASSUME NEW i \in DOMAIN u, NEW j \in DOMAIN u, i < j PROVE u[i].op_id < u[j].op_id
  <2>1. i \in Nat /\ j \in Nat
    BY <1>1, <1>2
  <2>2. CASE i \in DOMAIN s /\ u[i] = s[i] /\ j \in DOMAIN s /\ u[j] = s[j]
    BY <1>5, <2>2 DEF InOpOrder
  <2>3. CASE i \in DOMAIN s /\ u[i] = s[i] /\ j - k \in DOMAIN t /\ u[j] = t[j - k]
    BY <2>3 DEF Before
  <2>4. CASE /\ i - k \in DOMAIN t /\ u[i] = t[i - k]
             /\ j - k \in DOMAIN t /\ u[j] = t[j - k]
    <3>1. i - k < j - k
      BY <1>1, <1>5, <2>1
    <3> QED
      BY <2>4, <3>1 DEF InOpOrder
  <2>5. ~(i > k /\ j \in DOMAIN s)
    BY <1>1, <1>5, <2>1
  <2> QED
    BY <1>3, <2>2, <2>3, <2>4, <2>5
<1> QED
  BY <1>1, <1>4, <1>5 DEF InOpOrder, u

LEMMA EndsStep == ASSUME JournalInv, UndoEnds PROVE JournalInv'
<1> DEFINE failed == undoing.failed
           all == entries \o failed
<1>1. /\ undoing.todo = <<>> /\ fileTool.at = "idle" /\ entries' = all /\ undoing' = NoUndo
      /\ UNCHANGED <<files, total_bytes, op, fileTool, late, mishaps, touched>>
      /\ entries \in Seq(Entry) /\ failed \in Seq(Entry)
  BY DEF UndoEnds, JournalInv, JournalTypes, WorkInv, Undo
<1>2. undoing'.todo = <<>> /\ undoing'.failed = <<>> /\ undoing'.at = "idle" /\ DOMAIN <<>> = {}
  BY <1>1 DEF NoUndo
<1>3. /\ InOpOrder(entries) /\ InOpOrder(failed) /\ Before(entries, failed)
      /\ UpTo(entries, op) /\ UpTo(failed, op)
  BY DEF JournalInv, OrderInv
<1>4. \A i \in DOMAIN failed : failed[i].file \in touched
  BY DEF JournalInv, ChainInv
<1>5. \A f \in Files \ touched : Chained(entries, f, files[f])
  <2>1. entries \o <<>> = entries
    BY <1>1
  <2> QED
    BY <1>1, <2>1 DEF JournalInv, ChainInv, Expected
<1> HIDE DEF failed
<1>6. all \in Seq(Entry) /\ InOpOrder(all) /\ UpTo(all, op)
  BY <1>1, <1>3, OrderedConcat
<1>7. \A f \in Files \ touched : Chained(all, f, files[f])
  <2> SUFFICES ASSUME NEW f \in Files \ touched PROVE Chained(all, f, files[f])
    OBVIOUS
  <2>1. \A i \in DOMAIN failed : failed[i].file # f
    BY <1>4
  <2> QED
    BY <1>1, <1>5, <2>1, ChainedOthers
<1> HIDE DEF all
<1>8. undoing' \in Undo
  BY <1>1 DEF NoUndo, Undo
<1>9. JournalTypes'
  BY <1>1, <1>6, <1>8 DEF JournalInv, JournalTypes
<1>10. OrderInv'
  <2>1. UNCHANGED op
    BY <1>1
  <2> QED
    BY <1>1, <1>2, <1>6, <2>1 DEF OrderInv, InOpOrder, Before, UpTo
<1>11. WorkInv'
  BY <1>1, <1>2 DEF WorkInv
<1>12. ChainInv'
  <2>1. all \o <<>> = all
    BY <1>6
  <2>2. \A f \in Files : Expected(f)' = files[f]
    BY <1>1 DEF Expected
  <2> QED
    BY <1>1, <1>2, <1>7, <2>1, <2>2 DEF ChainInv
<1> QED
  BY <1>9, <1>10, <1>11, <1>12 DEF JournalInv

LEMMA UndoDroppedStep == ASSUME JournalInv, UndoDropped PROVE JournalInv'
<1> DEFINE todo == undoing.todo
<1>1. /\ fileTool.at = "idle" /\ undoing' = NoUndo
      /\ touched' = touched \union {e.file : e \in ToSet(todo)}
      /\ UNCHANGED <<files, entries, total_bytes, op, fileTool>>
      /\ entries \in Seq(Entry) /\ todo \in Seq(Entry)
  BY DEF UndoDropped, JournalInv, JournalTypes, WorkInv, Undo
<1>2. undoing'.todo = <<>> /\ undoing'.failed = <<>> /\ undoing'.at = "idle" /\ DOMAIN <<>> = {}
  BY <1>1 DEF NoUndo
<1>3. late' \subseteq [file : Files, content : Contents]
  <2>1. ASSUME undoing.at = "restoring"
        PROVE  Newest.file \in Files /\ Newest.before \in Contents
    <3>1. undoing.todo # <<>>
      BY <2>1 DEF JournalInv, WorkInv
    <3> QED
      BY <3>1, NewestEntry DEF JournalInv, Entry
  <2>2. late \subseteq [file : Files, content : Contents]
    BY DEF JournalInv, JournalTypes
  <2>3. \/ late' = late
        \/ /\ undoing.at = "restoring"
           /\ late' = late \union {[file |-> Newest.file, content |-> Newest.before]}
    BY DEF UndoDropped
  <2> QED
    BY <2>1, <2>2, <2>3
<1>4. \A f \in Files \ touched : Chained(entries \o todo, f, files[f])
  BY <1>1 DEF JournalInv, ChainInv, Expected
<1> HIDE DEF todo
<1>5. \A i \in DOMAIN todo : todo[i] \in Entry /\ todo[i].file \in touched'
  BY <1>1 DEF ToSet
<1>6. touched' \subseteq Files /\ touched \subseteq touched'
  <2>1. \A e \in ToSet(todo) : e.file \in Files
    BY <1>5 DEF ToSet, Entry
  <2> QED
    BY <1>1, <2>1 DEF JournalInv, JournalTypes
<1>7. \A f \in Files \ touched' : Chained(entries, f, files[f])
  <2> SUFFICES ASSUME NEW f \in Files \ touched' PROVE Chained(entries, f, files[f])
    OBVIOUS
  <2>1. Chained(entries \o todo, f, files[f])
    BY <1>4, <1>6
  <2>2. \A i \in DOMAIN todo : todo[i].file # f
    BY <1>5
  <2> QED
    BY <1>1, <2>1, <2>2, ChainedOthers
<1>8. undoing' \in Undo
  BY <1>1 DEF NoUndo, Undo
<1>9. JournalTypes'
  BY <1>1, <1>3, <1>6, <1>8 DEF JournalInv, JournalTypes
<1>10. OrderInv'
  <2>1. InOpOrder(entries) /\ UpTo(entries, op) /\ UNCHANGED op
    BY <1>1 DEF JournalInv, OrderInv
  <2> QED
    BY <1>1, <1>2, <2>1 DEF OrderInv, InOpOrder, Before, UpTo
<1>11. WorkInv'
  BY <1>1, <1>2 DEF WorkInv
<1>12. ChainInv'
  <2>1. entries \o <<>> = entries
    BY <1>1
  <2>2. \A f \in Files : Expected(f)' = files[f]
    BY <1>1 DEF Expected
  <2> QED
    BY <1>1, <1>2, <1>7, <2>1, <2>2 DEF ChainInv
<1> QED
  BY <1>9, <1>10, <1>11, <1>12 DEF JournalInv

LEMMA JournalUnchanged == ASSUME JournalInv, UNCHANGED journalVars PROVE JournalInv'
<1>1. UNCHANGED <<files, entries, total_bytes, op, fileTool, undoing, late, mishaps, touched>>
  BY DEF journalVars
<1>2. Newest' = Newest /\ AlreadyGone(Newest)' = AlreadyGone(Newest)
  BY <1>1 DEF Newest, AlreadyGone
<1>3. JournalTypes' /\ OrderInv' /\ WorkInv'
  BY <1>1, <1>2 DEF JournalInv, JournalTypes, OrderInv, WorkInv
<1>4. \A f \in Files : Expected(f)' = Expected(f)
  BY <1>1 DEF Expected
<1>5. ChainInv'
  BY <1>1, <1>4, ChainKept DEF JournalInv
<1> QED
  BY <1>3, <1>5 DEF JournalInv

LEMMA JournalStep == JournalInv /\ [JournalNext]_journalVars => JournalInv'
<1> SUFFICES ASSUME JournalInv, [JournalNext]_journalVars PROVE JournalInv'
  OBVIOUS
<1>1. Texts \union {Empty} \subseteq Contents /\ Absent \in Contents
  BY DEF Contents
<1>2. ASSUME NEW f \in Files, Write(f) \/ Edit(f) \/ DeletesFile(f) PROVE JournalInv'
  <2>1. \E c \in Contents : ReadsFile(f, c)
    BY <1>1, <1>2 DEF Write, Edit, DeletesFile
  <2> QED
    BY <2>1, ReadStep
<1>3. ASSUME NEW f \in Files, OutsideChanges(f) PROVE JournalInv'
  <2>1. PICK c \in Contents : files' = [files EXCEPT ![f] = c]
    BY <1>3 DEF OutsideChanges
  <2> QED
    BY <1>3, <2>1, OthersChange DEF OutsideChanges
<1>4. CASE Changes
  BY <1>4, ChangesStep
<1>5. CASE RecordsChange
  BY <1>5, RecordsStep
<1>6. CASE CallDropped
  BY <1>6, DroppedStep
<1>7. ASSUME NEW steps \in 1..MaxEntries, UndoTakes(steps) PROVE JournalInv'
  BY <1>7, UndoTakesStep
<1>8. CASE UndoLooks
  BY <1>8, LooksStep
<1>9. CASE UndoRestores
  BY <1>9, RestoresStep
<1>10. CASE UndoEnds
  BY <1>10, EndsStep
<1>11. CASE UndoDropped
  BY <1>11, UndoDroppedStep
<1>12. CASE LateChanges
  <2>1. PICK w \in late : /\ files' = [files EXCEPT ![w.file] = w.content]
                         /\ late' = late \ {w} /\ touched' = touched \union {w.file}
    BY <1>12 DEF LateChanges
  <2>2. w.file \in Files /\ w.content \in Contents
    BY DEF JournalInv, JournalTypes
  <2> QED
    BY <1>12, <2>1, <2>2, OthersChange DEF LateChanges
<1>13. CASE UNCHANGED journalVars
  BY <1>13, JournalUnchanged
<1> QED
  BY <1>2, <1>3, <1>4, <1>5, <1>6, <1>7, <1>8, <1>9, <1>10, <1>11, <1>12, <1>13 DEF JournalNext

LEMMA JournalAlways == JournalSpec => []JournalInv
  BY JournalStart, JournalStep, PTL DEF JournalSpec

(* The journal keeps the order of the changes, and for a file that nothing   *)
(* else has changed it leads from the file as it is back through every       *)
(* content it had; undo has refused none of its entries (record, undo of     *)
(* minicoding-journal): for any files, contents, bounds and mishaps.         *)
THEOREM UndoExact == JournalSpec => []UndoIsExact
<1>1. JournalInv => UndoIsExact
  <2> SUFFICES ASSUME JournalInv PROVE UndoIsExact
    OBVIOUS
  <2> DEFINE u == entries \o undoing.todo
  <2>1. entries \in Seq(Entry) /\ undoing.todo \in Seq(Entry)
    BY DEF JournalInv, JournalTypes, Undo
  <2>2. u \in Seq(Entry) /\ InOpOrder(u)
    BY <2>1, OrderedConcat DEF JournalInv, OrderInv
  <2> HIDE DEF u
  <2>3. \A i, j \in 1..Len(u) : i < j => u[i].op_id < u[j].op_id
    <3>1. DOMAIN u = 1..Len(u)
      BY <2>2
    <3> QED
      BY <2>2, <3>1 DEF InOpOrder
  <2>4. \A e \in ToSet(undoing.failed) : e.file \in touched
    BY DEF JournalInv, ChainInv, ToSet
  <2> QED
    BY <2>3, <2>4 DEF UndoIsExact, JournalInv, ChainInv, u
<1> QED
  BY <1>1, JournalAlways, PTL

--------------------------------------------------------------------------------
(***************************************************************************)
(* The bytes of a journal: those of its parts added up.                    *)
(***************************************************************************)
Sums(es, f) ==
    /\ f \in [0..Len(es) -> Nat] /\ f[0] = 0
    /\ \A n \in 1..Len(es) : f[n] = f[n - 1] + EntryBytes(es[n])

LEMMA EntryBytesTyped == \A e \in Entry : EntryBytes(e) \in Nat
BY DEF EntryBytes, Size, Entry

LEMMA SumsExist == ASSUME NEW es \in Seq(Entry) PROVE \E f : Sums(es, f)
<1> DEFINE step == [n \in 1..Len(es) |-> [x \in Nat |-> x + EntryBytes(es[n])]]
<1>1. Len(es) \in Nat /\ \A n \in 1..Len(es) : EntryBytes(es[n]) \in Nat
  BY EntryBytesTyped
<1>2. Steps(step, Len(es), 0, Nat)
  <2>1. ASSUME NEW n \in 1..Len(es) PROVE [x \in Nat |-> x + EntryBytes(es[n])] \in [Nat -> Nat]
    BY <1>1
  <2>2. step \in [1..Len(es) -> [Nat -> Nat]]
    BY <2>1
  <2> QED
    BY <1>1, <2>2 DEF Steps
<1>3. PICK f : Path(f, step, Len(es), 0, Nat)
  <2> HIDE DEF step
  <2> QED
    BY <1>2, PathExists
<1>4. \A n \in 1..Len(es) : f[n - 1] \in Nat /\ f[n] = f[n - 1] + EntryBytes(es[n])
  <2> TAKE n \in 1..Len(es)
  <2>1. n - 1 \in 0..Len(es)
    BY <1>1
  <2>2. f[n - 1] \in Nat /\ f[n] = step[n][f[n - 1]]
    BY <1>3, <2>1 DEF Path
  <2> QED
    BY <2>2
<1> QED
  BY <1>3, <1>4 DEF Sums, Path

LEMMA BytesAre == ASSUME NEW es \in Seq(Entry), NEW f, Sums(es, f) PROVE Bytes(es) = f[Len(es)]
<1> DEFINE Def(g) == [n \in 0..Len(es) |-> IF n = 0 THEN 0 ELSE g[n - 1] + EntryBytes(es[n])]
           sum == CHOOSE g : g = Def(g)
<1>1. f = Def(f)
  BY DEF Sums
<1>2. sum = Def(sum)
  <2>1. \E g : g = Def(g)
    BY <1>1
  <2> HIDE DEF Def
  <2> QED
    BY <2>1
<1> HIDE DEF sum
<1>3. /\ DOMAIN sum = 0..Len(es) /\ sum[0] = 0 /\ Len(es) \in Nat
      /\ \A n \in 1..Len(es) : sum[n] = sum[n - 1] + EntryBytes(es[n])
  <2>1. Len(es) \in Nat
    OBVIOUS
  <2>2. \A n \in 0..Len(es) : sum[n] = IF n = 0 THEN 0 ELSE sum[n - 1] + EntryBytes(es[n])
    BY <1>2
  <2>3. DOMAIN sum = 0..Len(es)
    BY <1>2
  <2> HIDE DEF Def
  <2>4. 0 \in 0..Len(es) /\ \A n \in 1..Len(es) : n \in 0..Len(es) /\ n # 0
    BY <2>1
  <2> QED
    BY <2>1, <2>2, <2>3, <2>4
<1> HIDE DEF Def
<1> DEFINE Differ == {n \in 0..Len(es) : sum[n] # f[n]}
<1>4. 0 \notin Differ
  BY <1>3 DEF Sums
<1>5. Differ = {}
  <2> SUFFICES ASSUME Differ # {} PROVE FALSE
    OBVIOUS
  <2>1. Differ \subseteq 0..Len(es)
    OBVIOUS
  <2>2. PICK k \in Differ : k \in 1..Len(es) /\ k - 1 \in 0..Len(es) /\ k - 1 \notin Differ
    <3> HIDE DEF Differ
    <3> QED
      BY <1>3, <1>4, <2>1, FirstFailure
  <2>3. sum[k - 1] = f[k - 1] /\ sum[k] # f[k]
    BY <2>2
  <2> QED
    BY <1>3, <2>2, <2>3 DEF Sums
<1>6. sum[Len(es)] = f[Len(es)]
  BY <1>3, <1>5
<1> QED
  BY <1>6 DEF Bytes, sum, Def

LEMMA BytesTyped == ASSUME NEW es \in Seq(Entry) PROVE Bytes(es) \in Nat
<1>1. PICK f : Sums(es, f)
  BY SumsExist
<1>2. Len(es) \in 0..Len(es)
  OBVIOUS
<1> QED
  BY <1>1, <1>2, BytesAre DEF Sums

LEMMA BytesEmpty == Bytes(<<>>) = 0
<1>1. <<>> \in Seq(Entry) /\ Len(<<>>) = 0
  OBVIOUS
<1>2. Sums(<<>>, [n \in 0..0 |-> 0])
  BY <1>1 DEF Sums
<1> QED
  BY <1>1, <1>2, BytesAre

LEMMA BytesConcat ==
    ASSUME NEW s \in Seq(Entry), NEW t \in Seq(Entry)
    PROVE  Bytes(s \o t) = Bytes(s) + Bytes(t)
<1>1. PICK f, g : Sums(s, f) /\ Sums(t, g)
  BY SumsExist
<1>2. /\ Len(s) \in Nat /\ Len(t) \in Nat /\ s \o t \in Seq(Entry) /\ Len(s \o t) = Len(s) + Len(t)
      /\ \A i \in 1..(Len(s) + Len(t)) : (s \o t)[i] = IF i <= Len(s) THEN s[i] ELSE t[i - Len(s)]
  BY ConcatProperties
<1> DEFINE h == [n \in 0..(Len(s) + Len(t)) |-> IF n <= Len(s) THEN f[n] ELSE f[Len(s)] + g[n - Len(s)]]
<1>3. \A n \in 0..(Len(s) + Len(t)) : h[n] = IF n <= Len(s) THEN f[n] ELSE f[Len(s)] + g[n - Len(s)]
  OBVIOUS
<1>4. h \in [0..(Len(s) + Len(t)) -> Nat]
  <2>1. ASSUME NEW n \in 0..(Len(s) + Len(t))
        PROVE  (IF n <= Len(s) THEN f[n] ELSE f[Len(s)] + g[n - Len(s)]) \in Nat
    <3>1. CASE n <= Len(s)
      <4>1. n \in 0..Len(s)
        BY <1>2, <3>1
      <4>2. f[n] \in Nat
        BY <1>1, <4>1 DEF Sums
      <4> QED
        BY <3>1, <4>2
    <3>2. CASE ~(n <= Len(s))
      <4>1. n - Len(s) \in 0..Len(t) /\ Len(s) \in 0..Len(s)
        BY <1>2, <3>2
      <4>2. f[Len(s)] \in Nat /\ g[n - Len(s)] \in Nat
        BY <1>1, <4>1 DEF Sums
      <4> QED
        BY <3>2, <4>2
    <3> QED
      BY <3>1, <3>2
  <2> QED
    BY <2>1
<1> HIDE DEF h
<1>5. h[0] = 0
  BY <1>1, <1>2, <1>3 DEF Sums
<1>6. ASSUME NEW n \in 1..(Len(s) + Len(t))
      PROVE  h[n] = h[n - 1] + EntryBytes((s \o t)[n])
  <2>0. n \in 0..(Len(s) + Len(t)) /\ n - 1 \in 0..(Len(s) + Len(t))
    BY <1>2
  <2>1. CASE n <= Len(s)
    <3>1. n \in 1..Len(s) /\ n - 1 <= Len(s)
      BY <1>2, <2>1
    <3>2. h[n] = f[n] /\ h[n - 1] = f[n - 1] /\ (s \o t)[n] = s[n]
      BY <1>2, <1>3, <2>0, <2>1, <3>1
    <3> QED
      BY <1>1, <3>1, <3>2 DEF Sums
  <2>2. CASE n = Len(s) + 1
    <3>1. ~(n <= Len(s)) /\ n - 1 = Len(s) /\ n - Len(s) = 1 /\ 1 \in 1..Len(t)
      BY <1>2, <2>2
    <3>2. h[n] = f[Len(s)] + g[1] /\ h[n - 1] = f[Len(s)] /\ (s \o t)[n] = t[1]
      <4>1. h[n] = f[Len(s)] + g[n - Len(s)]
        BY <1>3, <2>0, <3>1
      <4>2. n - 1 <= Len(s)
        BY <1>2, <3>1
      <4>3. h[n - 1] = f[n - 1]
        BY <1>3, <2>0, <4>2
      <4>4. (s \o t)[n] = t[n - Len(s)]
        BY <1>2, <3>1
      <4> QED
        BY <3>1, <4>1, <4>3, <4>4
    <3>3. g[1] = g[0] + EntryBytes(t[1]) /\ g[0] = 0
      BY <1>1, <3>1 DEF Sums
    <3>4. EntryBytes(t[1]) \in Nat
      BY <3>1, EntryBytesTyped
    <3> QED
      BY <3>2, <3>3, <3>4
  <2>3. CASE n > Len(s) + 1
    <3>1. /\ ~(n <= Len(s)) /\ ~(n - 1 <= Len(s)) /\ n - Len(s) \in 1..Len(t)
          /\ (n - 1) - Len(s) = (n - Len(s)) - 1 /\ (n - Len(s)) - 1 \in 0..Len(t)
          /\ Len(s) \in 0..Len(s)
      BY <1>2, <2>3
    <3>2. /\ h[n] = f[Len(s)] + g[n - Len(s)] /\ h[n - 1] = f[Len(s)] + g[(n - Len(s)) - 1]
          /\ (s \o t)[n] = t[n - Len(s)]
      BY <1>2, <1>3, <2>0, <3>1
    <3>3. g[n - Len(s)] = g[(n - Len(s)) - 1] + EntryBytes(t[n - Len(s)])
      BY <1>1, <3>1 DEF Sums
    <3>4. /\ EntryBytes(t[n - Len(s)]) \in Nat /\ f[Len(s)] \in Nat /\ g[(n - Len(s)) - 1] \in Nat
      <4>1. t[n - Len(s)] \in Entry
        BY <3>1, InSeq
      <4>2. f[Len(s)] \in Nat /\ g[(n - Len(s)) - 1] \in Nat
        BY <1>1, <3>1 DEF Sums
      <4> QED
        BY <4>1, <4>2, EntryBytesTyped
    <3> QED
      BY <3>2, <3>3, <3>4
  <2> QED
    BY <1>2, <2>1, <2>2, <2>3
<1>7. Sums(s \o t, h)
  BY <1>2, <1>4, <1>5, <1>6 DEF Sums
<1>8. h[Len(s) + Len(t)] = f[Len(s)] + g[Len(t)]
  <2>0. Len(s) + Len(t) \in 0..(Len(s) + Len(t)) /\ Len(s) \in 0..Len(s)
    BY <1>2
  <2>1. CASE Len(t) = 0
    <3>1. f[Len(s)] \in Nat /\ g[0] = 0
      BY <1>1, <2>0 DEF Sums
    <3>2. Len(s) + Len(t) = Len(s) /\ Len(s) <= Len(s)
      BY <1>2, <2>1
    <3>3. h[Len(s) + Len(t)] = f[Len(s)]
      BY <1>3, <2>0, <3>2
    <3> QED
      BY <2>1, <3>1, <3>3
  <2>2. CASE Len(t) # 0
    <3>1. ~(Len(s) + Len(t) <= Len(s)) /\ (Len(s) + Len(t)) - Len(s) = Len(t)
      BY <1>2, <2>2
    <3> QED
      BY <1>3, <2>0, <3>1
  <2> QED
    BY <2>1, <2>2
<1> QED
  BY <1>1, <1>2, <1>7, <1>8, BytesAre

LEMMA BytesOne == ASSUME NEW e \in Entry PROVE Bytes(<<e>>) = EntryBytes(e)
<1>1. <<e>> \in Seq(Entry) /\ Len(<<e>>) = 1 /\ EntryBytes(e) \in Nat
  BY EntryBytesTyped
<1> DEFINE f == [n \in 0..1 |-> IF n = 0 THEN 0 ELSE EntryBytes(e)]
<1>2. f \in [0..1 -> Nat] /\ f[0] = 0 /\ f[1] = EntryBytes(e)
  BY <1>1
<1> HIDE DEF f
<1>3. \A n \in 1..1 : n = 1
  OBVIOUS
<1>4. Sums(<<e>>, f)
  BY <1>1, <1>2, <1>3 DEF Sums
<1> QED
  BY <1>1, <1>2, <1>4, BytesAre

LEMMA FrontThenLast ==
    ASSUME NEW s \in Seq(Entry), s # <<>>
    PROVE  s = Front(s) \o <<Last(s)>>
<1>1. /\ Last(s) = s[Len(s)] /\ Front(s) \in Seq(Entry) /\ Len(Front(s)) = Len(s) - 1
      /\ Last(s) \in Entry /\ Len(s) \in Nat \ {0}
      /\ \A i \in 1..(Len(s) - 1) : Front(s)[i] = s[i]
  BY LastAndFront
<1>2. <<Last(s)>> \in Seq(Entry) /\ Len(<<Last(s)>>) = 1 /\ <<Last(s)>>[1] = Last(s)
  BY <1>1
<1> DEFINE u == Front(s) \o <<Last(s)>>
<1>3. /\ u \in Seq(Entry) /\ Len(u) = Len(Front(s)) + 1
      /\ \A i \in 1..(Len(Front(s)) + 1) :
             u[i] = IF i <= Len(Front(s)) THEN Front(s)[i] ELSE <<Last(s)>>[i - Len(Front(s))]
  BY <1>1, <1>2, ConcatProperties
<1> HIDE DEF u
<1>4. Len(u) = Len(s)
  BY <1>1, <1>3
<1>5. \A i \in 1..Len(s) : u[i] = s[i]
  <2> SUFFICES ASSUME NEW i \in 1..Len(s) PROVE u[i] = s[i]
    OBVIOUS
  <2>1. u[i] = IF i <= Len(Front(s)) THEN Front(s)[i] ELSE <<Last(s)>>[i - Len(Front(s))]
    BY <1>1, <1>3
  <2>2. CASE i <= Len(s) - 1
    BY <1>1, <2>1, <2>2
  <2>3. CASE i = Len(s)
    <3>1. ~(i <= Len(Front(s))) /\ i - Len(Front(s)) = 1
      BY <1>1, <2>3
    <3> QED
      BY <1>1, <1>2, <2>1, <2>3, <3>1
  <2> QED
    BY <1>1, <2>2, <2>3
<1> QED
  BY <1>3, <1>4, <1>5, SeqEqual DEF u

LEMMA BytesFront ==
    ASSUME NEW s \in Seq(Entry), s # <<>>
    PROVE  /\ Bytes(s) = Bytes(Front(s)) + EntryBytes(Last(s)) /\ Front(s) \in Seq(Entry)
           /\ Last(s) \in Entry /\ EntryBytes(Last(s)) \in Nat /\ Bytes(Front(s)) \in Nat
<1>1. Front(s) \in Seq(Entry) /\ Last(s) \in Entry
  BY LastAndFront
<1>2. <<Last(s)>> \in Seq(Entry)
  BY <1>1
<1>3. Bytes(Front(s) \o <<Last(s)>>) = Bytes(Front(s)) + Bytes(<<Last(s)>>)
  BY <1>1, <1>2, BytesConcat
<1> QED
  BY <1>1, <1>3, FrontThenLast, BytesOne, BytesTyped, EntryBytesTyped

LEMMA BytesSplit ==
    ASSUME NEW s \in Seq(Entry), NEW k \in 0..Len(s)
    PROVE  /\ Bytes(s) = Bytes(SubSeq(s, 1, k)) + Bytes(SubSeq(s, k + 1, Len(s)))
           /\ SubSeq(s, 1, k) \in Seq(Entry) /\ SubSeq(s, k + 1, Len(s)) \in Seq(Entry)
           /\ Bytes(SubSeq(s, 1, k)) \in Nat /\ Bytes(SubSeq(s, k + 1, Len(s))) \in Nat
<1> DEFINE a == SubSeq(s, 1, k)
           b == SubSeq(s, k + 1, Len(s))
<1>1. a \in Seq(Entry) /\ a \o b = s
  BY SplitSeq
<1>2. b \in Seq(Entry)
  BY SuffixOfSeq
<1> HIDE DEF a, b
<1>3. Bytes(s) = Bytes(a) + Bytes(b) /\ Bytes(a) \in Nat /\ Bytes(b) \in Nat
  BY <1>1, <1>2, BytesConcat, BytesTyped
<1> QED
  BY <1>1, <1>2, <1>3 DEF a, b

--------------------------------------------------------------------------------
(***************************************************************************)
(* The bounds of the journal: what it holds and what undo has in hand are  *)
(* together within MAX_JOURNAL_ENTRIES, and the running sum, which an undo *)
(* leaves as it is, never says less than they weigh.                       *)
(***************************************************************************)
Made(s) == \A i \in DOMAIN s : s[i].op_id >= 1
JournalBounds ==
    LET todo == undoing.todo failed == undoing.failed
    IN /\ Made(entries) /\ Made(todo) /\ Made(failed)
       /\ Len(entries) + Len(todo) + Len(failed) <= MaxEntries
       /\ total_bytes \in Nat /\ total_bytes <= MaxBytes
       /\ Bytes(entries) + Bytes(todo) + Bytes(failed) <= total_bytes
ChangeBounds ==
    /\ op <= MaxChanges /\ (fileTool.at # "idle" => op < MaxChanges)
    /\ mishaps \in 0..MaxMishaps

LEMMA AddedFits ==
    ASSUME entries \in Seq(Entry), NEW e \in Entry, Added(Append(entries, e)),
           total_bytes \in Nat, total_bytes <= MaxBytes, Bytes(entries) <= total_bytes
    PROVE  /\ Len(entries') <= MaxEntries /\ total_bytes' \in Nat /\ total_bytes' <= MaxBytes
           /\ Bytes(entries') <= total_bytes'
<1> DEFINE es == Append(entries, e)
           bytes == total_bytes + EntryBytes(Last(es))
           n == Fitting(es, bytes)
<1>1. /\ es \in Seq(Entry) /\ Len(es) \in Nat /\ es # <<>> /\ Last(es) = e /\ es = entries \o <<e>>
      /\ <<e>> \in Seq(Entry)
  <2>1. es \in Seq(Entry) /\ Len(es) = Len(entries) + 1 /\ es[Len(es)] = e
    OBVIOUS
  <2>2. es = entries \o <<e>>
    BY AppendIsConcat
  <2> QED
    BY <2>1, <2>2 DEF Last
<1>2. /\ entries' = SubSeq(es, n + 1, Len(es))
      /\ total_bytes' = bytes - Bytes(SubSeq(es, 1, n))
  BY DEF Added
<1> HIDE DEF es
<1>3. /\ EntryBytes(e) \in Nat /\ Bytes(entries) \in Nat /\ Bytes(es) = Bytes(entries) + EntryBytes(e)
  BY <1>1, BytesConcat, BytesOne, BytesTyped, EntryBytesTyped
<1>4. bytes = total_bytes + EntryBytes(e) /\ bytes \in Nat
  BY <1>1, <1>3
<1> HIDE DEF bytes
<1>5. /\ n \in 0..Len(es)
      /\ \/ Len(es) - n <= MaxEntries /\ bytes - Bytes(SubSeq(es, 1, n)) <= MaxBytes
         \/ n = Len(es)
  <2> DEFINE Fits(k) == Len(es) - k <= MaxEntries /\ bytes - Bytes(SubSeq(es, 1, k)) <= MaxBytes
             enough == {k \in 0..Len(es) : Fits(k) \/ k = Len(es)}
  <2>1. enough \subseteq Nat /\ Len(es) \in enough /\ enough \subseteq 0..Len(es)
        /\ \A k \in enough : Fits(k) \/ k = Len(es)
    BY <1>1
  <2>2. n = CHOOSE k \in enough : \A m \in enough : k <= m
    BY DEF Fitting
  <2> HIDE DEF enough, n
  <2>3. \E k \in enough : \A m \in enough : k <= m
    BY <2>1, LeastNatural
  <2>4. n \in enough
    BY <2>2, <2>3
  <2> QED
    BY <2>1, <2>4
<1> HIDE DEF n
<1> DEFINE a == SubSeq(es, 1, n)
           b == SubSeq(es, n + 1, Len(es))
<1>6. Bytes(es) = Bytes(a) + Bytes(b) /\ Bytes(a) \in Nat /\ Bytes(b) \in Nat
  BY <1>1, <1>5, BytesSplit
<1>7. Len(b) = Len(es) - n
  BY <1>1, <1>5, SuffixOfSeq
<1>8. entries' = b /\ total_bytes' = bytes - Bytes(a)
  BY <1>2
<1>9. n = Len(es) => a = es
  BY <1>1
<1> HIDE DEF a, b
<1>10. Len(entries') <= MaxEntries
  BY <1>1, <1>5, <1>7, <1>8, JournalAssumption
<1>11. total_bytes' \in Nat /\ Bytes(entries') <= total_bytes'
  BY <1>3, <1>4, <1>6, <1>8
<1>12. total_bytes' <= MaxBytes
  <2>1. CASE bytes - Bytes(a) <= MaxBytes
    BY <1>8, <2>1
  <2>2. CASE n = Len(es)
    <3>1. total_bytes' = total_bytes - Bytes(entries)
      BY <1>3, <1>4, <1>8, <1>9, <2>2
    <3> QED
      BY <1>3, <3>1, JournalAssumption
  <2> QED
    BY <1>5, <2>1, <2>2 DEF a
<1> QED
  BY <1>10, <1>11, <1>12

LEMMA MadeConcat ==
    ASSUME NEW s \in Seq(Entry), NEW t \in Seq(Entry), Made(s), Made(t)
    PROVE  Made(s \o t) /\ Len(s \o t) = Len(s) + Len(t) /\ Len(s) \in Nat /\ Len(t) \in Nat
<1>1. /\ Len(s) \in Nat /\ Len(t) \in Nat /\ s \o t \in Seq(Entry) /\ Len(s \o t) = Len(s) + Len(t)
      /\ \A i \in 1..(Len(s) + Len(t)) : (s \o t)[i] = IF i <= Len(s) THEN s[i] ELSE t[i - Len(s)]
  BY ConcatProperties
<1>2. ASSUME NEW i \in 1..(Len(s) + Len(t)) PROVE (s \o t)[i].op_id >= 1
  <2>1. CASE i <= Len(s)
    <3>1. i \in DOMAIN s
      BY <1>1, <2>1
    <3>2. s[i].op_id >= 1
      BY <3>1 DEF Made
    <3> QED
      BY <1>1, <2>1, <3>2
  <2>2. CASE ~(i <= Len(s))
    <3>1. i - Len(s) \in DOMAIN t
      BY <1>1, <2>2
    <3>2. t[i - Len(s)].op_id >= 1
      BY <3>1 DEF Made
    <3> QED
      BY <1>1, <2>2, <3>2
  <2> QED
    BY <2>1, <2>2
<1>3. DOMAIN (s \o t) = 1..(Len(s) + Len(t))
  BY <1>1
<1> QED
  BY <1>1, <1>2, <1>3 DEF Made

LEMMA MadeEmpty == Made(<<>>) /\ Len(<<>>) = 0 /\ Bytes(<<>>) = 0 /\ <<>> \in Seq(Entry)
BY BytesEmpty DEF Made

(* What undo has in hand as it has moved one entry on.                      *)
LEMMA EntryRoom == MaxEntries \in Nat /\ MaxEntries >= 1 /\ MaxBytes \in Nat
BY JournalAssumption

LEMMA MovedOn ==
    ASSUME JournalTypes, JournalBounds, undoing.todo # <<>>, entries' = entries,
           total_bytes' = total_bytes, undoing'.todo = Front(undoing.todo),
           undoing'.failed \in {undoing.failed, <<Newest>> \o undoing.failed}
    PROVE  JournalBounds'
<1> DEFINE todo == undoing.todo
           failed == undoing.failed
<1>1. entries \in Seq(Entry) /\ todo \in Seq(Entry) /\ failed \in Seq(Entry) /\ todo # <<>>
  BY DEF JournalTypes, Undo
<1>2. /\ Newest \in Entry /\ Newest = todo[Len(todo)] /\ Len(todo) \in DOMAIN todo
      /\ DOMAIN Front(todo) = 1..(Len(todo) - 1) /\ Len(todo) \in Nat \ {0}
      /\ Len(Front(todo)) = Len(todo) - 1
      /\ \A i \in 1..(Len(todo) - 1) : Front(todo)[i] = todo[i] /\ i \in DOMAIN todo
  BY <1>1, LastAndFront DEF Newest
<1>3. /\ Bytes(todo) = Bytes(Front(todo)) + EntryBytes(Newest) /\ EntryBytes(Newest) \in Nat
      /\ Bytes(Front(todo)) \in Nat /\ Bytes(entries) \in Nat /\ Bytes(failed) \in Nat
  BY <1>1, BytesFront, BytesTyped DEF Newest
<1>4. Made(Front(todo)) /\ Newest.op_id >= 1
  BY <1>2 DEF JournalBounds, Made
<1>5. <<Newest>> \in Seq(Entry) /\ Made(<<Newest>>) /\ Len(<<Newest>>) = 1
  <2>1. \A i \in DOMAIN <<Newest>> : <<Newest>>[i] = Newest
    OBVIOUS
  <2> QED
    BY <1>2, <1>4, <2>1 DEF Made
<1> DEFINE more == <<Newest>> \o failed
<1>6. /\ Made(more) /\ Len(more) = 1 + Len(failed) /\ Len(failed) \in Nat
      /\ Bytes(more) = EntryBytes(Newest) + Bytes(failed)
  <2>1. Made(failed)
    BY DEF JournalBounds
  <2>2. Made(more) /\ Len(more) = Len(<<Newest>>) + Len(failed) /\ Len(failed) \in Nat
    BY <1>1, <1>5, <2>1, MadeConcat
  <2>3. Bytes(more) = Bytes(<<Newest>>) + Bytes(failed)
    BY <1>1, <1>5, BytesConcat
  <2>4. Bytes(<<Newest>>) = EntryBytes(Newest)
    BY <1>2, BytesOne
  <2> HIDE DEF more
  <2> QED
    BY <1>5, <2>2, <2>3, <2>4
<1>7. /\ Made(entries) /\ Made(failed)
      /\ Len(entries) + Len(todo) + Len(failed) <= MaxEntries
      /\ total_bytes \in Nat /\ total_bytes <= MaxBytes
      /\ Bytes(entries) + Bytes(todo) + Bytes(failed) <= total_bytes
      /\ Len(entries) \in Nat /\ MaxEntries \in Nat
  <2>1. /\ Made(entries) /\ Made(failed)
        /\ Len(entries) + Len(todo) + Len(failed) <= MaxEntries
        /\ total_bytes \in Nat /\ total_bytes <= MaxBytes
        /\ Bytes(entries) + Bytes(todo) + Bytes(failed) <= total_bytes
    BY DEF JournalBounds
  <2>2. Len(entries) \in Nat
    BY <1>1
  <2> QED
    BY <2>1, <2>2, EntryRoom
<1> DEFINE rest == Front(todo)
<1>8. undoing'.todo = rest /\ (undoing'.failed = failed \/ undoing'.failed = more)
  OBVIOUS
<1> HIDE DEF rest, more, todo, failed
<1>9. CASE undoing'.failed = failed
  <2>1. Len(entries) + Len(rest) + Len(failed) <= MaxEntries
    BY <1>2, <1>6, <1>7 DEF rest
  <2>2. Bytes(entries) + Bytes(rest) + Bytes(failed) <= total_bytes
    BY <1>3, <1>7 DEF rest
  <2> QED
    BY <1>4, <1>7, <1>8, <1>9, <2>1, <2>2 DEF JournalBounds, rest
<1>10. CASE undoing'.failed = more
  <2>1. Len(entries) + Len(rest) + Len(more) <= MaxEntries
    BY <1>2, <1>6, <1>7 DEF rest
  <2>2. Bytes(entries) + Bytes(rest) + Bytes(more) <= total_bytes
    BY <1>3, <1>6, <1>7 DEF rest
  <2> QED
    BY <1>4, <1>6, <1>7, <1>8, <1>10, <2>1, <2>2 DEF JournalBounds, rest
<1> QED
  BY <1>8, <1>9, <1>10

LEMMA RecordsFits ==
    ASSUME JournalInv, JournalBounds, ChangeBounds, RecordsChange
    PROVE  JournalBounds' /\ ChangeBounds'
<1> DEFINE e == [op_id |-> op', file |-> fileTool.file, before |-> fileTool.before,
                 after |-> fileTool.after]
           es == Append(entries, e)
<1>1. /\ fileTool.at = "changed" /\ fileTool \in FileCall /\ fileTool' = NoFileTool /\ op' = op + 1
      /\ undoing.todo = <<>> /\ undoing.failed = <<>> /\ undoing' = undoing /\ mishaps' = mishaps
      /\ Added(es) /\ entries \in Seq(Entry) /\ op \in Nat
  BY DEF RecordsChange, JournalInv, JournalTypes, WorkInv, NoFileTool
<1>2. e \in Entry /\ e.op_id = op + 1
  BY <1>1 DEF Entry, FileCall
<1> HIDE DEF e
<1>3. /\ total_bytes \in Nat /\ total_bytes <= MaxBytes /\ Bytes(entries) <= total_bytes
      /\ Made(entries)
  <2>1. Bytes(entries) \in Nat
    BY <1>1, BytesTyped
  <2> QED
    BY <1>1, <2>1, BytesEmpty DEF JournalBounds
<1>4. /\ Len(entries') <= MaxEntries /\ total_bytes' \in Nat /\ total_bytes' <= MaxBytes
      /\ Bytes(entries') <= total_bytes'
  BY <1>1, <1>2, <1>3, AddedFits
<1>5. es \in Seq(Entry) /\ Made(es)
  <2>1. /\ es \in Seq(Entry) /\ Len(entries) \in Nat /\ DOMAIN es = 1..(Len(entries) + 1)
        /\ \A i \in 1..(Len(entries) + 1) : es[i] = IF i <= Len(entries) THEN entries[i] ELSE e
    BY <1>1, <1>2, AppendProperties
  <2>2. \A i \in 1..(Len(entries) + 1) : i <= Len(entries) => i \in DOMAIN entries
    BY <1>1
  <2> QED
    BY <1>1, <1>2, <1>3, <2>1, <2>2 DEF Made
<1>6. PICK m \in 0..Len(es) : entries' = SubSeq(es, m + 1, Len(es))
  BY <1>1, <1>5, AddedKeepsTail
<1> HIDE DEF es
<1>7. /\ entries' \in Seq(Entry) /\ DOMAIN entries' = 1..(Len(es) - m)
      /\ \A i \in 1..(Len(es) - m) : entries'[i] = es[i + m] /\ i + m \in DOMAIN es
  BY <1>5, <1>6, SuffixOfSeq
<1>8. Made(entries')
  BY <1>5, <1>7 DEF Made
<1>9. JournalBounds'
  <2>1. undoing'.todo = <<>> /\ undoing'.failed = <<>> /\ Len(entries') \in Nat /\ Bytes(entries') \in Nat
    BY <1>1, <1>7, BytesTyped
  <2>2. /\ Len(entries') + Len(undoing'.todo) + Len(undoing'.failed) <= MaxEntries
        /\ Bytes(entries') + Bytes(undoing'.todo) + Bytes(undoing'.failed) <= total_bytes'
    BY <1>4, <2>1, MadeEmpty
  <2> QED
    BY <1>4, <1>8, <2>1, <2>2, MadeEmpty DEF JournalBounds
<1>10. ChangeBounds'
  BY <1>1, JournalAssumption DEF ChangeBounds, NoFileTool
<1> QED
  BY <1>9, <1>10

LEMMA TakesFits ==
    ASSUME JournalInv, JournalBounds, ChangeBounds, NEW steps, UndoTakes(steps)
    PROVE  JournalBounds' /\ ChangeBounds'
<1> DEFINE k == Len(entries) - steps
           kept == SubSeq(entries, 1, k)
           taken == SubSeq(entries, k + 1, Len(entries))
<1>1. /\ undoing.todo = <<>> /\ undoing.failed = <<>> /\ entries \in Seq(Entry)
      /\ UNCHANGED <<total_bytes, op, fileTool, mishaps>>
      /\ entries' = kept /\ undoing'.failed = <<>> /\ undoing'.todo = taken
  BY DEF UndoTakes, Quiet, JournalInv, JournalTypes, WorkInv
<1>2. k \in 0..Len(entries) /\ Len(entries) \in Nat
  BY <1>1 DEF UndoTakes
<1> HIDE DEF k
<1>3. /\ kept \in Seq(Entry) /\ DOMAIN kept = 1..k /\ \A i \in 1..k : kept[i] = entries[i]
  BY <1>1, <1>2, SplitSeq
<1>4. /\ taken \in Seq(Entry) /\ DOMAIN taken = 1..(Len(entries) - k)
      /\ \A i \in 1..(Len(entries) - k) :
             taken[i] = entries[i + k] /\ i + k \in 1..Len(entries)
      /\ DOMAIN entries = 1..Len(entries)
  BY <1>1, <1>2, SuffixOfSeq
<1>5. Bytes(entries) = Bytes(kept) + Bytes(taken) /\ Bytes(kept) \in Nat /\ Bytes(taken) \in Nat
  BY <1>1, <1>2, BytesSplit
<1> HIDE DEF kept, taken
<1>6. Len(kept) = k /\ Len(taken) = Len(entries) - k
  <2>1. k \in Nat /\ Len(entries) - k \in Nat /\ Len(kept) \in Nat /\ Len(taken) \in Nat
    BY <1>2, <1>3, <1>4
  <2>2. DOMAIN kept = 1..Len(kept) /\ DOMAIN taken = 1..Len(taken)
    BY <1>3, <1>4
  <2>3. \A a, b \in Nat : 1..a = 1..b => a = b
    OBVIOUS
  <2> DEFINE m == Len(entries) - k
  <2> HIDE DEF m
  <2>4. Len(taken) = m
    BY <1>4, <2>1, <2>2, <2>3 DEF m
  <2> QED
    BY <1>3, <2>1, <2>2, <2>3, <2>4 DEF m
<1>7. /\ Made(entries) /\ Len(entries) <= MaxEntries /\ total_bytes \in Nat
      /\ total_bytes <= MaxBytes /\ Bytes(entries) <= total_bytes
  <2>1. Bytes(entries) \in Nat
    BY <1>1, BytesTyped
  <2>2. /\ Made(entries) /\ Len(entries) + 0 + 0 <= MaxEntries /\ total_bytes \in Nat
        /\ total_bytes <= MaxBytes /\ Bytes(entries) + 0 + 0 <= total_bytes
    BY <1>1, MadeEmpty DEF JournalBounds
  <2> QED
    BY <1>2, <2>1, <2>2
<1>8. Made(kept)
  <2>1. \A i \in 1..k : i \in DOMAIN entries
    BY <1>2, <1>4
  <2> QED
    BY <1>3, <1>7, <2>1 DEF Made
<1>9. Made(taken)
  BY <1>4, <1>7 DEF Made
<1>10. /\ Len(kept) + Len(taken) + Len(<<>>) <= MaxEntries
       /\ Bytes(kept) + Bytes(taken) + Bytes(<<>>) <= total_bytes
  <2>1. Len(kept) + Len(taken) + 0 <= MaxEntries
    BY <1>2, <1>6, <1>7
  <2>2. Bytes(kept) + Bytes(taken) + 0 <= total_bytes
    BY <1>5, <1>7
  <2> QED
    BY <2>1, <2>2, MadeEmpty
<1>11. JournalBounds'
  BY <1>1, <1>7, <1>8, <1>9, <1>10, MadeEmpty DEF JournalBounds
<1> QED
  BY <1>1, <1>11 DEF ChangeBounds

LEMMA EndsFits ==
    ASSUME JournalInv, JournalBounds, ChangeBounds, UndoEnds
    PROVE  JournalBounds' /\ ChangeBounds'
<1>1. /\ undoing.todo = <<>> /\ entries \in Seq(Entry) /\ undoing.failed \in Seq(Entry)
      /\ UNCHANGED <<total_bytes, op, fileTool, mishaps>>
      /\ entries' = entries \o undoing.failed /\ undoing'.failed = <<>> /\ undoing'.todo = <<>>
  BY DEF UndoEnds, JournalInv, JournalTypes, Undo, NoUndo
<1>2. /\ Made(entries') /\ Len(entries') = Len(entries) + Len(undoing.failed)
      /\ Len(entries) \in Nat /\ Len(undoing.failed) \in Nat
      /\ Bytes(entries') = Bytes(entries) + Bytes(undoing.failed)
      /\ Bytes(entries) \in Nat /\ Bytes(undoing.failed) \in Nat
  BY <1>1, MadeConcat, BytesConcat, BytesTyped DEF JournalBounds
<1>3. /\ Len(entries) + 0 + Len(undoing.failed) <= MaxEntries
      /\ total_bytes \in Nat /\ total_bytes <= MaxBytes
      /\ Bytes(entries) + 0 + Bytes(undoing.failed) <= total_bytes
  BY <1>1, MadeEmpty DEF JournalBounds
<1>4. /\ Len(entries') + 0 + 0 <= MaxEntries
      /\ Bytes(entries') + 0 + 0 <= total_bytes
  BY <1>2, <1>3
<1> QED
  BY <1>1, <1>2, <1>3, <1>4, MadeEmpty DEF JournalBounds, ChangeBounds

LEMMA BoundsUntouched ==
    ASSUME JournalBounds, entries' = entries, total_bytes' = total_bytes,
           undoing'.todo = undoing.todo, undoing'.failed = undoing.failed
    PROVE  JournalBounds'
BY DEF JournalBounds

LEMMA BoundsDropped ==
    ASSUME JournalTypes, JournalBounds, entries' = entries, total_bytes' = total_bytes,
           undoing'.todo = <<>>, undoing'.failed = <<>>
    PROVE  JournalBounds'
<1>1. /\ entries \in Seq(Entry) /\ undoing.todo \in Seq(Entry) /\ undoing.failed \in Seq(Entry)
      /\ MaxEntries \in Nat
  BY EntryRoom DEF JournalTypes, Undo
<1>2. /\ Len(entries) \in Nat /\ Len(undoing.todo) \in Nat /\ Len(undoing.failed) \in Nat
      /\ Bytes(entries) \in Nat /\ Bytes(undoing.todo) \in Nat /\ Bytes(undoing.failed) \in Nat
  BY <1>1, BytesTyped
<1>3. /\ Len(entries) + Len(undoing.todo) + Len(undoing.failed) <= MaxEntries
      /\ Bytes(entries) + Bytes(undoing.todo) + Bytes(undoing.failed) <= total_bytes
      /\ total_bytes \in Nat /\ total_bytes <= MaxBytes /\ Made(entries)
  BY DEF JournalBounds
<1>4. \A a, b, c, n \in Nat : a + b + c <= n => a + 0 + 0 <= n
  OBVIOUS
<1>5. Len(entries) + 0 + 0 <= MaxEntries
  BY <1>1, <1>2, <1>3, <1>4
<1>6. Bytes(entries) + 0 + 0 <= total_bytes
  BY <1>2, <1>3, <1>4
<1> QED
  BY <1>3, <1>5, <1>6, MadeEmpty DEF JournalBounds

LEMMA BoundsStep ==
    ASSUME JournalInv, JournalBounds, ChangeBounds, [JournalNext]_journalVars
    PROVE  JournalBounds' /\ ChangeBounds'
<1> USE JournalAssumption
<1>1. ASSUME NEW f \in Files, NEW c \in Contents, ReadsFile(f, c)
      PROVE  JournalBounds' /\ ChangeBounds'
  BY <1>1, BoundsUntouched DEF ReadsFile, ChangeBounds
<1>2. ASSUME NEW f \in Files, Write(f) \/ Edit(f) \/ DeletesFile(f) PROVE JournalBounds' /\ ChangeBounds'
  BY <1>1, <1>2 DEF Write, Edit, DeletesFile, Contents
<1>3. CASE Changes
  <2>1. JournalBounds'
    BY <1>3, BoundsUntouched DEF Changes
  <2>2. op' = op /\ mishaps' = mishaps /\ fileTool.at # "idle"
    BY <1>3 DEF Changes
  <2> QED
    BY <2>1, <2>2 DEF ChangeBounds
<1>4. CASE CallDropped
  <2>1. JournalBounds'
    BY <1>4, BoundsUntouched DEF CallDropped
  <2>2. /\ op' = op /\ mishaps' = mishaps + 1 /\ mishaps < MaxMishaps /\ fileTool'.at = "idle"
    BY <1>4 DEF CallDropped, NoFileTool
  <2> QED
    BY <2>1, <2>2 DEF ChangeBounds
<1>5. CASE UndoLooks
  <2>1. /\ undoing.todo # <<>> /\ UNCHANGED <<entries, total_bytes, op, fileTool, mishaps>>
        /\ undoing' \in {Restored, [undoing EXCEPT !.at = "restoring"], Failed}
    BY <1>5 DEF UndoLooks
  <2>2. ChangeBounds'
    BY <2>1 DEF ChangeBounds
  <2>3. CASE undoing' = [undoing EXCEPT !.at = "restoring"]
    <3>1. undoing'.todo = undoing.todo /\ undoing'.failed = undoing.failed
      BY <2>3 DEF JournalInv, JournalTypes, Undo
    <3> QED
      BY <2>1, <2>2, <3>1, BoundsUntouched
  <2>4. CASE undoing' \in {Restored, Failed}
    <3>1. /\ undoing'.todo = Front(undoing.todo)
          /\ undoing'.failed \in {undoing.failed, <<Newest>> \o undoing.failed}
      BY <2>4 DEF Restored, Failed
    <3> QED
      BY <2>1, <2>2, <3>1, MovedOn DEF JournalInv
  <2> QED
    BY <2>1, <2>3, <2>4
<1>6. CASE UndoRestores
  <2>1. /\ undoing.todo # <<>> /\ UNCHANGED <<entries, total_bytes, op, fileTool, mishaps>>
        /\ undoing' \in {Restored, Failed}
    BY <1>6 DEF UndoRestores, JournalInv, WorkInv
  <2>2. /\ undoing'.todo = Front(undoing.todo)
        /\ undoing'.failed \in {undoing.failed, <<Newest>> \o undoing.failed}
    BY <2>1 DEF Restored, Failed
  <2> QED
    BY <2>1, <2>2, MovedOn DEF JournalInv, ChangeBounds
<1>7. CASE UndoDropped
  <2>1. /\ UNCHANGED <<entries, total_bytes, op, fileTool>> /\ mishaps' = mishaps + 1
        /\ mishaps < MaxMishaps /\ undoing'.todo = <<>> /\ undoing'.failed = <<>>
    BY <1>7 DEF UndoDropped, NoUndo
  <2>2. JournalBounds'
    BY <2>1, BoundsDropped DEF JournalInv
  <2> QED
    BY <2>1, <2>2 DEF ChangeBounds
<1>8. ASSUME NEW f \in Files, OutsideChanges(f) PROVE JournalBounds' /\ ChangeBounds'
  <2>1. /\ UNCHANGED <<entries, total_bytes, op, fileTool, undoing>> /\ mishaps' = mishaps + 1
        /\ mishaps < MaxMishaps
    BY <1>8 DEF OutsideChanges
  <2> QED
    BY <2>1, BoundsUntouched DEF ChangeBounds
<1>9. CASE LateChanges
  <2>1. UNCHANGED <<entries, total_bytes, op, fileTool, undoing, mishaps>>
    BY <1>9 DEF LateChanges
  <2> QED
    BY <2>1, BoundsUntouched DEF ChangeBounds
<1>10. CASE UNCHANGED journalVars
  BY <1>10, BoundsUntouched DEF journalVars, ChangeBounds
<1> QED
  BY <1>2, <1>3, <1>4, <1>5, <1>6, <1>7, <1>8, <1>9, <1>10, RecordsFits, TakesFits, EndsFits
  DEF JournalNext

LEMMA BoundsStart == JournalInit => JournalBounds /\ ChangeBounds
<1> SUFFICES ASSUME JournalInit PROVE JournalBounds /\ ChangeBounds
  OBVIOUS
<1>1. /\ entries = <<>> /\ undoing.todo = <<>> /\ undoing.failed = <<>> /\ total_bytes = 0 /\ op = 0
      /\ fileTool.at = "idle" /\ mishaps = 0
  BY DEF JournalInit, NoUndo, NoFileTool
<1>2. MaxEntries \in Nat /\ MaxBytes \in Nat /\ MaxChanges \in Nat /\ MaxMishaps \in Nat
  BY JournalAssumption
<1>3. Len(<<>>) + Len(<<>>) + Len(<<>>) <= MaxEntries /\ Bytes(<<>>) + Bytes(<<>>) + Bytes(<<>>) <= 0
  BY <1>2, MadeEmpty
<1> QED
  BY <1>1, <1>2, <1>3, MadeEmpty DEF JournalBounds, ChangeBounds

LEMMA JournalFits ==
    ASSUME JournalInv, JournalBounds, ChangeBounds PROVE JournalTypeOK
<1> DEFINE all == entries \o undoing.todo \o undoing.failed
<1>1. /\ entries \in Seq(Entry) /\ undoing.todo \in Seq(Entry) /\ undoing.failed \in Seq(Entry)
      /\ op \in Nat /\ MaxChanges \in Nat /\ op <= MaxChanges
  BY JournalAssumption DEF JournalInv, JournalTypes, Undo, ChangeBounds
<1>2. ASSUME NEW s \in Seq(Entry), UpTo(s, op), Made(s), NEW i \in DOMAIN s PROVE IsEntry(s[i])
  <2>1. s[i] \in Entry /\ s[i].op_id <= op /\ s[i].op_id >= 1
    BY <1>2 DEF UpTo, Made
  <2>2. s[i].op_id \in 1..MaxChanges
    BY <1>1, <2>1 DEF Entry
  <2> QED
    BY <2>1, <2>2 DEF IsEntry, Entry
<1>3. /\ \A i \in DOMAIN entries : IsEntry(entries[i])
      /\ \A i \in DOMAIN undoing.todo : IsEntry(undoing.todo[i])
      /\ \A i \in DOMAIN undoing.failed : IsEntry(undoing.failed[i])
  BY <1>1, <1>2 DEF JournalInv, OrderInv, JournalBounds
<1>4. ASSUME NEW s \in Seq(Entry), NEW t \in Seq(Entry), \A i \in DOMAIN s : IsEntry(s[i]),
             \A i \in DOMAIN t : IsEntry(t[i])
      PROVE  s \o t \in Seq(Entry) /\ \A i \in DOMAIN (s \o t) : IsEntry((s \o t)[i])
  <2>1. /\ Len(s) \in Nat /\ Len(t) \in Nat /\ s \o t \in Seq(Entry)
        /\ DOMAIN (s \o t) = 1..(Len(s) + Len(t))
        /\ \A i \in 1..(Len(s) + Len(t)) : (s \o t)[i] = IF i <= Len(s) THEN s[i] ELSE t[i - Len(s)]
    BY ConcatProperties
  <2>2. ASSUME NEW i \in 1..(Len(s) + Len(t)) PROVE IsEntry((s \o t)[i])
    <3>1. CASE i <= Len(s)
      BY <1>4, <2>1, <3>1
    <3>2. CASE ~(i <= Len(s))
      <4>1. i - Len(s) \in DOMAIN t
        BY <2>1, <3>2
      <4> QED
        BY <1>4, <2>1, <3>2, <4>1
    <3> QED
      BY <3>1, <3>2
  <2> QED
    BY <2>1, <2>2
<1>5. entries \o undoing.todo \in Seq(Entry)
      /\ \A i \in DOMAIN (entries \o undoing.todo) : IsEntry((entries \o undoing.todo)[i])
  BY <1>1, <1>3, <1>4
<1>6. all \in Seq(Entry) /\ \A i \in DOMAIN all : IsEntry(all[i])
  BY <1>1, <1>3, <1>4, <1>5
<1>7. \A e \in ToSet(all) : IsEntry(e)
  BY <1>6 DEF ToSet
<1>8. Len(entries) <= MaxEntries
  <2>1. Len(entries) \in Nat /\ Len(undoing.todo) \in Nat /\ Len(undoing.failed) \in Nat
    BY <1>1
  <2>2. Len(entries) + Len(undoing.todo) + Len(undoing.failed) <= MaxEntries /\ MaxEntries \in Nat
    BY EntryRoom DEF JournalBounds
  <2>3. \A a, b, c, n \in Nat : a + b + c <= n => a <= n
    OBVIOUS
  <2> QED
    BY <2>1, <2>2, <2>3
<1>9. total_bytes \in 0..MaxBytes
  BY JournalAssumption DEF JournalBounds
<1>10. /\ files \in [Files -> Contents] /\ touched \subseteq Files
       /\ fileTool.at \in {"idle", "read", "changed"}
       /\ undoing.at \in {"idle", "looking", "restoring"}
  BY DEF JournalInv, JournalTypes, Undo, FileCall, NoFileTool
<1>11. op \in 0..MaxChanges /\ mishaps <= MaxMishaps
  BY <1>1, JournalAssumption DEF ChangeBounds
<1> QED
  BY <1>7, <1>8, <1>9, <1>10, <1>11 DEF JournalTypeOK

(* The journal holds whole entries, at most MAX_JOURNAL_ENTRIES of them, and *)
(* its running sum never exceeds MAX_JOURNAL_BYTES, whatever undo gives back. *)
THEOREM JournalTyped == JournalSpec => []JournalTypeOK
<1>1. JournalInit => JournalInv /\ JournalBounds /\ ChangeBounds
  BY JournalStart, BoundsStart
<1>2. JournalInv /\ JournalBounds /\ ChangeBounds /\ [JournalNext]_journalVars
      => (JournalInv /\ JournalBounds /\ ChangeBounds)'
  BY JournalStep, BoundsStep
<1>3. JournalInv /\ JournalBounds /\ ChangeBounds => JournalTypeOK
  BY JournalFits
<1> QED
  BY <1>1, <1>2, <1>3, PTL DEF JournalSpec
================================================================================
