-------------------------------- MODULE ToolCalls --------------------------------
(***************************************************************************)
(* One round of tool calls of a turn (rt.rs, execute_tool_calls), the      *)
(* chain that permits or denies a call with a side effect (permission.rs), *)
(* and the breaker that counts the sandbox's denials (denial.rs).          *)
(*                                                                         *)
(* Neighbouring reads run beside one another; a call with a side effect    *)
(* runs alone.  It is judged by the policy, by the PreToolUse hook, which  *)
(* may rewrite its input and has it judged again, by the PermissionRequest *)
(* hook, by what the user has said before, and at last by the user.  The   *)
(* permission mode may change at any time.                                 *)
(*                                                                         *)
(* An input is one of the classes the policy tells apart:                  *)
(*    look  a read              leave  plan.exit, a read for the scheduler *)
(*    edit  a write to a file in a directory      top  to one in none      *)
(*    doc   a write to a project document in that directory                *)
(*    vcs   a write to .git     run    a command  wipe a forbidden command *)
(***************************************************************************)
EXTENDS Integers, FiniteSets, Sequences, FiniteSetsExt

CONSTANTS
    Inputs,         \* the classes the model's calls are of
    Modes,          \* the permission modes the session is put into
    ParallelReads,  \* tools.parallel_reads; 0 is one at a time
    HardTrip,       \* denials that trip the breaker
    FailClosed,     \* sandbox_fail_closed
    MaxCalls,       \* bound: calls of a round
    MaxRounds       \* bound: rounds, over all turns

Reads == {"look", "leave"}
Writes == {"edit", "top", "doc", "vcs"}
Commands == {"run", "wipe"}
PermissionMode == {"default", "plan", "acceptEdits", "bypass"}

ASSUME ToolAssumption ==
    /\ Inputs \subseteq Reads \union Writes \union Commands /\ Inputs # {}
    /\ Modes \subseteq PermissionMode
    /\ {ParallelReads, MaxCalls, MaxRounds} \subseteq Nat
    /\ HardTrip \in Nat \ {0} /\ FailClosed \in BOOLEAN

VARIABLES
    plan,            \* plan_state: the mode, and whether run is in allowed_prompts
    phase,           \* where the turn is
    rounds,          \* number of rounds so far
    calls,           \* the calls of the round
    done,            \* positions whose result is there
    flying,          \* positions of the reads in flight
    at,              \* position of the call the loop has come to
    chain,           \* the chain of that call
    session_allows,  \* tools allowed for the session
    rules,           \* policy.toml: what is said of each tool, and of it in the directory
    breaker,         \* denials counted by the breaker
    denied           \* history: denials of the turn, and whether they ended it

toolVars == <<plan, phase, rounds, calls, done, flying, at, chain,
              session_allows, rules, breaker, denied>>

Tool(input) == IF input \in Writes THEN "fs.write" ELSE "shell.run"
Tools == {"fs.write", "shell.run"}
InDirectory(input) == input \in {"edit", "doc"}
SideEffects(input) == input \notin Reads
Scopes == {"all", "dir"}

NoChain == [pc |-> "none", snap |-> [mode |-> "default", approved |-> FALSE],
            verdict |-> "allow", effective |-> "none", by |-> "none"]
Untried == [count |-> 0, tripped |-> FALSE]

ToolInit ==
    /\ plan \in [mode : Modes, approved : {FALSE}]
    /\ phase = "model" /\ rounds = 0
    /\ calls = <<>> /\ done = {} /\ flying = {} /\ at = 0 /\ chain = NoChain
    /\ session_allows = {} /\ rules = [t \in Tools |-> [s \in Scopes |-> "none"]]
    /\ breaker = 0 /\ denied = Untried

standing == <<session_allows, rules>>
place == <<phase, rounds, calls>>

--------------------------------------------------------------------------------
(***************************************************************************)
(* The policy (builtin.rs).  Both kinds of question are Ask; to a          *)
(* restricted one Always is not offered.                                   *)
(***************************************************************************)
Check(input, snap) ==
    CASE input \in {"vcs", "wipe"}                                  -> "deny"
      [] input \notin {"vcs", "wipe"} /\ snap.mode = "plan"          -> "deny"
      [] input = "run" /\ snap.mode # "plan"
            -> IF snap.approved \/ snap.mode = "bypass" THEN "allow" ELSE "ask"
      [] input = "doc" /\ snap.mode # "plan"                         -> "restricted"
      [] input \in {"edit", "top"} /\ snap.mode # "plan"
            -> IF snap.mode \in {"acceptEdits", "bypass"} THEN "allow" ELSE "ask"

Rank == [allow |-> 0, ask |-> 1, restricted |-> 1, deny |-> 2]
Stricter(a, b) == IF Rank[a] >= Rank[b] THEN a ELSE b

(* policy.toml: the directory's rule, else the tool's. *)
Persisted(input) ==
    LET r == rules[Tool(input)]
    IN IF InDirectory(input) /\ r["dir"] # "none" THEN r["dir"] ELSE r["all"]

--------------------------------------------------------------------------------
(***************************************************************************)
(* The turn.  The breaker is reset when a turn begins and looked at when a *)
(* round's results are in.                                                 *)
(***************************************************************************)
BreakerReset == 0

BeginTurn ==
    /\ phase = "idle" /\ rounds < MaxRounds
    /\ phase' = "model"
    /\ breaker' = BreakerReset /\ denied' = Untried
    /\ UNCHANGED <<plan, rounds, calls, done, flying, at, chain, standing>>

Rest ==
    /\ calls' = <<>> /\ done' = {} /\ flying' = {} /\ at' = 0 /\ chain' = NoChain

ModelStops ==
    /\ phase = "model"
    /\ phase' = "idle"
    /\ Rest
    /\ UNCHANGED <<plan, rounds, standing, breaker, denied>>

(* The first call with a side effect from position i on, or the end. *)
Lines == DOMAIN calls
NextEffect(cs, i) == Min({k \in i..Len(cs) : SideEffects(cs[k])} \union {Len(cs) + 1})

BeginRound ==
    /\ phase = "model" /\ rounds < MaxRounds
    /\ \E n \in 1..MaxCalls : \E cs \in [1..n -> Inputs] :
          /\ calls' = cs
          /\ at' = NextEffect(cs, 1)
    /\ phase' = "calls" /\ rounds' = rounds + 1
    /\ done' = {} /\ flying' = {} /\ chain' = NoChain
    /\ UNCHANGED <<plan, standing, breaker, denied>>

TrippedNever(n) == FALSE                      \* defect: nobody looks at the breaker
Tripped(n) == n >= HardTrip

EndRound ==
    /\ phase = "calls" /\ at = Len(calls) + 1 /\ done = Lines
    /\ phase' = IF Tripped(breaker) THEN "idle" ELSE "model"
    /\ denied' = [denied EXCEPT !.tripped = Tripped(breaker)]
    /\ Rest
    /\ UNCHANGED <<plan, rounds, standing, breaker>>

(* A cancel or the turn's deadline drops the whole future, wherever it waits;  *)
(* a hook that fails the call ends the turn as well.                           *)
Interrupted ==
    /\ phase = "calls"
    /\ phase' = "idle"
    /\ Rest
    /\ UNCHANGED <<plan, rounds, standing, breaker, denied>>

--------------------------------------------------------------------------------
(***************************************************************************)
(* The bucket of the reads before the call the loop has come to.           *)
(***************************************************************************)
Bucket == {k \in Lines : k < at} \ done
Width == IF ParallelReads = 0 THEN 1 ELSE ParallelReads

StartRead ==
    /\ phase = "calls" /\ Bucket \ flying # {} /\ Cardinality(flying) < Width
    /\ flying' = flying \union {Min(Bucket \ flying)}
    /\ UNCHANGED <<plan, place, done, at, chain, standing, breaker, denied>>

(* build_denial_result counts what the kernel has refused, not what only     *)
(* reads like a refusal.                                                     *)
Recorded(refused) ==
    IF refused THEN breaker' = breaker + 1 /\ denied' = [denied EXCEPT !.count = @ + 1]
    ELSE UNCHANGED <<breaker, denied>>

(* plan.exit leaves the mode plan for another, with the prompts it brings. *)
LeavesPlan(to, approved) ==
    plan' = IF plan.mode = "plan" THEN [mode |-> to, approved |-> approved] ELSE plan

FinishRead ==
    \E k \in flying, refused \in BOOLEAN, to \in Modes \ {"plan"}, approved \in BOOLEAN :
        /\ flying' = flying \ {k} /\ done' = done \union {k}
        /\ Recorded(refused)
        /\ IF calls[k] = "leave" /\ ~refused THEN LeavesPlan(to, approved) ELSE UNCHANGED plan
        /\ UNCHANGED <<place, at, chain, standing>>

(* set_mode keeps allowed_prompts. *)
SwitchMode ==
    \E mode \in Modes :
        /\ mode # plan.mode
        /\ plan' = [plan EXCEPT !.mode = mode]
        /\ UNCHANGED <<place, done, flying, at, chain, standing, breaker, denied>>

--------------------------------------------------------------------------------
(***************************************************************************)
(* A call with a side effect.                                              *)
(***************************************************************************)
Judge ==
    /\ chain' = [NoChain EXCEPT !.pc = "hook", !.snap = plan, !.effective = calls[at],
                                !.verdict = Check(calls[at], plan)]
    /\ UNCHANGED <<plan, place, done, flying, at, standing, breaker, denied>>

JudgeAtOnce ==                                \* defect: the reads before are not awaited
    /\ phase = "calls" /\ at \in Lines /\ chain = NoChain
    /\ Judge
StartCall ==
    /\ phase = "calls" /\ at \in Lines /\ chain = NoChain /\ Bucket = {}
    /\ Judge

Runs(by) == chain' = [chain EXCEPT !.pc = "run", !.by = by]

(* The loop goes on: the call has its result, the reads after it are next. *)
Answered ==
    /\ done' = done \union {at} /\ at' = NextEffect(calls, at + 1)
    /\ chain' = NoChain

(* After a rewrite the stricter of the two verdicts holds.  A hook's Allow is    *)
(* ignored when the policy has denied the call, and when that verdict is Deny.   *)
JudgedOnce(v, effective) == v                 \* defect: the new input is not judged
JudgedAgain(v, effective) ==
    IF effective = calls[at] THEN v ELSE Stricter(v, Check(effective, chain.snap))

PreToolUse ==
    \E hook \in {"continue", "allow", "deny"}, effective \in Inputs :
        LET v == JudgedAgain(chain.verdict, effective)
        IN /\ chain.pc = "hook" /\ Tool(effective) = Tool(calls[at]) /\ SideEffects(effective)
           /\ CASE hook = "deny" \/ v = "deny"    -> Answered
                [] hook = "allow" /\ v # "deny"
                      -> /\ chain' = [chain EXCEPT !.pc = "run", !.by = "hook", !.verdict = v,
                                                   !.effective = effective]
                         /\ UNCHANGED <<done, at>>
                [] hook = "continue" /\ v = "allow"
                      -> /\ chain' = [chain EXCEPT !.pc = "run", !.by = "policy", !.verdict = v,
                                                   !.effective = effective]
                         /\ UNCHANGED <<done, at>>
                [] hook = "continue" /\ v \in {"ask", "restricted"}
                      -> /\ chain' = [chain EXCEPT !.pc = "request", !.verdict = v,
                                                   !.effective = effective]
                         /\ UNCHANGED <<done, at>>
           /\ UNCHANGED <<plan, place, flying, standing, breaker, denied>>

(* resolve_decision for Ask: the PermissionRequest hook, then, when Always is     *)
(* offered, what was said before; else the user is asked.                        *)
LooksUpAlways(v) == TRUE                      \* defect: also when it is not offered
LooksUp(v) == v = "ask"

PermissionRequest ==
    \E hook \in {"continue", "allow", "deny"} :
        LET input == chain.effective
            known == hook = "continue" /\ LooksUp(chain.verdict)
            session == known /\ Tool(input) \in session_allows
            rule == IF known /\ ~session THEN Persisted(input) ELSE "none"
        IN /\ chain.pc = "request"
           /\ CASE hook = "deny" \/ rule = "deny"  -> Answered
                [] hook = "allow"                  -> Runs("hook") /\ UNCHANGED <<done, at>>
                [] session \/ rule = "allow"       -> Runs("always") /\ UNCHANGED <<done, at>>
                [] hook = "continue" /\ ~session /\ rule = "none"
                      -> /\ chain' = [chain EXCEPT !.pc = "prompt"]
                         /\ UNCHANGED <<done, at>>
           /\ UNCHANGED <<plan, place, flying, standing, breaker, denied>>

(* An Always that was not offered counts once.  Allow is kept for the directory,    *)
(* or for the session when there is none; deny for the directory or for the tool.   *)
Remembers(d) ==
    LET tool == Tool(chain.effective)
        scope == IF InDirectory(chain.effective) THEN "dir" ELSE "all"
    IN CASE d = "allow always" /\ chain.verdict = "ask" /\ scope = "all"
              -> session_allows' = session_allows \union {tool} /\ UNCHANGED rules
         [] \/ d = "allow always" /\ chain.verdict = "ask" /\ scope = "dir"
            \/ d = "deny always"
              -> /\ rules' = [rules EXCEPT ![tool][scope] =
                        IF d = "deny always" THEN "deny" ELSE "allow"]
                 /\ UNCHANGED session_allows
         [] OTHER -> UNCHANGED standing

UserAnswers ==
    \E d \in {"allow", "allow always", "deny", "deny always"} :
        /\ chain.pc = "prompt"
        /\ Remembers(d)
        /\ IF d \in {"allow", "allow always"}
           THEN Runs("answer") /\ UNCHANGED <<done, at>>
           ELSE Answered
        /\ UNCHANGED <<plan, place, flying, breaker, denied>>

(***************************************************************************)
(* execute_allowed_call.  A sandbox that cannot be set up is reported to   *)
(* the user, who may have the call run again without one; what the kernel  *)
(* refuses then is an error like any other.                                *)
(***************************************************************************)
Dispatch ==
    /\ chain.pc = "run"
    /\ \/ \E refused \in BOOLEAN : Recorded(refused) /\ Answered
       \/ /\ ~FailClosed /\ Tool(chain.effective) = "shell.run"
          /\ chain' = [chain EXCEPT !.pc = "fallback"]
          /\ UNCHANGED <<done, at, breaker, denied>>
    /\ UNCHANGED <<plan, place, flying, standing>>

Fallback ==
    /\ chain.pc = "fallback"
    /\ \/ chain' = [chain EXCEPT !.pc = "retry"] /\ UNCHANGED <<done, at>>
       \/ Answered
    /\ UNCHANGED <<plan, place, flying, standing, breaker, denied>>

Retry ==
    /\ chain.pc = "retry"
    /\ Answered
    /\ UNCHANGED <<plan, place, flying, standing, breaker, denied>>

ToolNext ==
    \/ BeginTurn \/ ModelStops \/ BeginRound \/ EndRound \/ Interrupted
    \/ StartRead \/ FinishRead \/ SwitchMode
    \/ StartCall \/ PreToolUse \/ PermissionRequest \/ UserAnswers
    \/ Dispatch \/ Fallback \/ Retry

ToolSpec == ToolInit /\ [][ToolNext]_toolVars

--------------------------------------------------------------------------------
Running == IF chain.pc \in {"run", "retry"} THEN flying \union {at} ELSE flying

ToolTypeOK ==
    /\ plan \in [mode : Modes, approved : BOOLEAN]
    /\ phase \in {"idle", "model", "calls"} /\ rounds \in 0..MaxRounds
    /\ Len(calls) <= MaxCalls /\ \A k \in Lines : calls[k] \in Inputs
    /\ done \subseteq Lines /\ flying \subseteq Lines \ done
    /\ Cardinality(flying) <= Width
    /\ at \in 0..(Len(calls) + 1)
    /\ chain \in [pc : {"none", "hook", "request", "prompt", "run", "fallback", "retry"},
                  snap : [mode : PermissionMode, approved : BOOLEAN], verdict : DOMAIN Rank,
                  effective : Inputs \union {"none"},
                  by : {"none", "hook", "policy", "always", "answer"}]
    /\ chain.pc # "none" => at \in Lines /\ SideEffects(calls[at])
    /\ session_allows \subseteq Tools
    /\ rules \in [Tools -> [Scopes -> {"none", "allow", "deny"}]]
    /\ breaker \in 0..(MaxRounds * MaxCalls) /\ denied.count \in Nat
    /\ denied.tripped \in BOOLEAN

(* What the policy denies does not run, neither the input the model asked for nor *)
(* the one a hook has put in its place, whatever the hooks, the rules, the user   *)
(* and the mode do meanwhile (permission.rs:214-260).                             *)
HardDenyHolds ==
    chain.pc \in {"run", "fallback", "retry"} =>
        "deny" \notin {Check(calls[at], chain.snap), Check(chain.effective, chain.snap)}

(* A project document is written because a hook or the user has said so of this    *)
(* very call: no Always given before, for the session or for its directory, lets   *)
(* it pass (permission.rs:566-620).  For the input the model asked for; see        *)
(* Stricter for one that a hook has put there.                                     *)
RestrictedAsked ==
    chain.pc \in {"run", "retry"} /\ calls[at] = "doc" => chain.by \in {"hook", "answer"}

(* While a call with a side effect runs, everything before it has finished and     *)
(* nothing after it has begun, and so on both sides of a read; in particular the   *)
(* calls after a plan.exit are judged by the mode it has set.                      *)
WavesKeepOrder ==
    \A i \in Running : \A k \in Lines :
        SideEffects(calls[i]) \/ SideEffects(calls[k]) =>
            /\ k < i => k \in done
            /\ k > i => k \notin done \union Running

(* The model is not asked again once the kernel has refused HardTrip calls of the  *)
(* turn, and a turn is ended for that only by refusals of its own (C-30).          *)
HardTripEnds ==
    /\ phase = "model" => denied.count < HardTrip
    /\ denied.tripped => denied.count >= HardTrip
================================================================================
