----------------------------- MODULE SessionsProofs -----------------------------
(***************************************************************************)
(* Theorems about the sessions of a server and the log they are kept in.   *)
(*                                                                         *)
(* About Sessions, for any number of messages, permits and loads: one load *)
(* is open, a prompt that is waited for is listed and takes one answer,    *)
(* and the handlers are the queue of MessageQueue to those who send: what  *)
(* is accepted has one turn at a time, and is lost to a delete or an       *)
(* eviction only.                                                          *)
(*                                                                         *)
(* About Store, for any processes, sessions, deletes and crashes: the lock *)
(* of a session is held once, acknowledged messages stay, and the index    *)
(* counts them.  The variables of both keep their types.                   *)
(***************************************************************************)
EXTENDS Sessions, Store, FiniteSetTheorems, TLAPS

--------------------------------------------------------------------------------
(* Sessions: who is where, and what each step does to it. *)

ActorRec == [pc : Places, goal : Goals, on : LoadIds \union {0}, permit : LoadIds \union {0},
             pid : Messages \union {"none"}]
FateRec == [accepted : BOOLEAN, dropped : BOOLEAN, told : BOOLEAN, expired : BOOLEAN,
            acks : SUBSET Decisions, twice : BOOLEAN, verdict : Decisions \union {"none"}]

ActorTypes ==
    /\ actor \in [Actors -> ActorRec]
    /\ \A a \in Actors : actor[a].pc \in InSession => actor[a].on # 0
    /\ \A a \in Actors : actor[a].pc \in {"lookup", "restoring"} => actor[a].goal # "idle"

(* A load can be made whenever there is none: the bound is in the guards of the drops. *)
SessTypes ==
    /\ made \in LoadIds /\ table \in 0..made /\ closed \subseteq 1..made
    /\ table = 0 => made < MaxMade
    /\ pending \in [LoadIds -> SUBSET Messages]
    /\ ActorTypes
    /\ inbox \in [Messages -> Decisions \union {"none"}]
    /\ fate \in [Messages -> FateRec]

(***************************************************************************)
(* Prompts.  A prompt is in the table of one load, from its registration   *)
(* until it is answered, and nothing has happened to it before it.         *)
(***************************************************************************)
NotYetAsked(m) ==
    /\ fate[m].acks = {} /\ inbox[m] = "none" /\ fate[m].verdict = "none"
    /\ \A i \in LoadIds : m \notin pending[i]

PromptInv ==
    /\ \A m \in Messages : ~fate[m].told => actor[m].pc \notin {"announced", "ask", "expired"}
    /\ \A m \in Messages : ~fate[m].told \/ At(m, "announced") => NotYetAsked(m)
    /\ \A m \in Messages : \A i \in LoadIds : m \in pending[i] => fate[m].acks = {}
    /\ \A m \in Messages : \A i, j \in LoadIds : m \in pending[i] /\ m \in pending[j] => i = j
    /\ \A m \in Messages : inbox[m] # "none" => inbox[m] \in fate[m].acks
    /\ AnswerHolds
    /\ WaitingIsListed

(***************************************************************************)
(* Accepted messages.  Until it ends, a message's permit and place are of  *)
(* the load in the table, or a drop has come after the request.            *)
(***************************************************************************)
Owned(m) ==
    /\ actor[m].goal \in {"idle", "permit", "preempt", "lock"}
    /\ actor[m].permit # 0 => fate[m].dropped \/ actor[m].permit = table
    /\ actor[m].permit # 0 => ~Settled(m) /\ ~At(m, "idle")
    /\ actor[m].pc \in InSession => fate[m].dropped \/ actor[m].on = table
    /\ actor[m].pc \in {"idle", "permit", "refused"} \/ actor[m].goal = "permit" =>
          ~fate[m].accepted
    /\ actor[m].pc \in {"preempt", "spawn"} \/ actor[m].goal \in {"preempt", "lock"} =>
          actor[m].permit # 0

FateInv ==
    /\ table \notin closed
    /\ \A m \in Messages : Owned(m)
    /\ AcceptedFate

--------------------------------------------------------------------------------
(***************************************************************************)
(* What the steps of a handler or a task change of the places.             *)
(***************************************************************************)
Acts(a, pc, goal, on, permit, pid) ==
    /\ actor' \in [Actors -> ActorRec]
    /\ actor'[a].pc = pc /\ actor'[a].goal = goal /\ actor'[a].on = on
    /\ actor'[a].permit = permit /\ actor'[a].pid = pid
    /\ \A b \in Actors \ {a} : actor'[b] = actor[b]

LEMMA ActorFields ==
    ASSUME actor \in [Actors -> ActorRec], NEW a \in Actors
    PROVE  /\ actor[a] \in ActorRec
           /\ actor[a].pc \in Places /\ actor[a].goal \in Goals
           /\ actor[a].on \in LoadIds \union {0} /\ actor[a].permit \in LoadIds \union {0}
           /\ actor[a].pid \in Messages \union {"none"}
BY DEF ActorRec

LEMMA ActsFacts ==
    ASSUME actor \in [Actors -> ActorRec], NEW a \in Actors, NEW r \in ActorRec,
           actor' = [actor EXCEPT ![a] = r]
    PROVE  Acts(a, r.pc, r.goal, r.on, r.permit, r.pid)
BY DEF Acts

LEMMA LeavesFacts ==
    ASSUME actor \in [Actors -> ActorRec], NEW a \in Actors, NEW pc \in Places, Leaves(a, pc)
    PROVE  Acts(a, pc, "idle", 0, 0, "none")
<1> DEFINE r == [Idling EXCEPT !.pc = pc]
<1>1. r \in ActorRec /\ r.pc = pc /\ r.goal = "idle" /\ r.on = 0 /\ r.permit = 0 /\ r.pid = "none"
  BY DEF Idling, ActorRec, Goals
<1>2. actor' = [actor EXCEPT ![a] = r]
  BY DEF Leaves
<1> HIDE DEF r
<1>3. Acts(a, r.pc, r.goal, r.on, r.permit, r.pid)
  BY <1>1, <1>2, ActsFacts
<1> QED
  BY <1>1, <1>3

LEMMA GoesFacts ==
    ASSUME actor \in [Actors -> ActorRec], NEW a \in Actors, NEW pc \in Places, Goes(a, pc)
    PROVE  Acts(a, pc, actor[a].goal, actor[a].on, actor[a].permit, actor[a].pid)
<1> DEFINE r == [actor[a] EXCEPT !.pc = pc]
<1>1. actor[a] \in ActorRec
  OBVIOUS
<1>2. /\ r \in ActorRec /\ r.pc = pc /\ r.goal = actor[a].goal /\ r.on = actor[a].on
      /\ r.permit = actor[a].permit /\ r.pid = actor[a].pid
  BY <1>1 DEF ActorRec
<1>3. actor' = [actor EXCEPT ![a] = r]
  BY DEF Goes
<1> HIDE DEF r
<1>4. Acts(a, r.pc, r.goal, r.on, r.permit, r.pid)
  BY <1>2, <1>3, ActsFacts
<1> QED
  BY <1>2, <1>4

LEMMA SeeksFacts ==
    ASSUME actor \in [Actors -> ActorRec], NEW a \in Actors, NEW goal \in Goals, Seeks(a, goal)
    PROVE  Acts(a, "lookup", goal, actor[a].on, actor[a].permit, actor[a].pid)
<1> DEFINE r == [actor[a] EXCEPT !.pc = "lookup", !.goal = goal]
<1>1. actor[a] \in ActorRec
  OBVIOUS
<1>2. /\ r \in ActorRec /\ r.pc = "lookup" /\ r.goal = goal /\ r.on = actor[a].on
      /\ r.permit = actor[a].permit /\ r.pid = actor[a].pid
  BY <1>1 DEF ActorRec, Places
<1>3. actor' = [actor EXCEPT ![a] = r]
  BY <1>1 DEF Seeks, ActorRec
<1> HIDE DEF r
<1>4. Acts(a, r.pc, r.goal, r.on, r.permit, r.pid)
  BY <1>2, <1>3, ActsFacts
<1> QED
  BY <1>2, <1>4

LEMMA GoesOnFacts ==
    ASSUME actor \in [Actors -> ActorRec], NEW a \in Actors, NEW i \in LoadIds,
           actor[a].goal # "idle", GoesOnWith(a, i)
    PROVE  Acts(a, actor[a].goal, "idle", i, actor[a].permit, actor[a].pid)
<1> DEFINE r == [actor[a] EXCEPT !.pc = actor[a].goal, !.goal = "idle", !.on = i]
<1>1. actor[a] \in ActorRec
  OBVIOUS
<1>2. /\ r \in ActorRec /\ r.pc = actor[a].goal /\ r.goal = "idle" /\ r.on = i
      /\ r.permit = actor[a].permit /\ r.pid = actor[a].pid
  BY <1>1 DEF ActorRec, Places, Goals
<1>3. actor' = [actor EXCEPT ![a] = r]
  BY <1>1 DEF GoesOnWith, ActorRec
<1> HIDE DEF r
<1>4. Acts(a, r.pc, r.goal, r.on, r.permit, r.pid)
  BY <1>2, <1>3, ActsFacts
<1> QED
  BY <1>2, <1>4

(* TakePermit, of which two branches keep what was taken. *)
LEMMA PermitFacts ==
    ASSUME actor \in [Actors -> ActorRec], NEW m \in Actors, NEW pc \in Places,
           actor' = [actor EXCEPT ![m].permit = actor[m].on, ![m].pc = pc, ![m].goal = "preempt"]
    PROVE  Acts(m, pc, "preempt", actor[m].on, actor[m].on, actor[m].pid)
<1> DEFINE r == [actor[m] EXCEPT !.permit = actor[m].on, !.pc = pc, !.goal = "preempt"]
<1>1. actor[m] \in ActorRec
  OBVIOUS
<1>2. /\ r \in ActorRec /\ r.pc = pc /\ r.goal = "preempt" /\ r.on = actor[m].on
      /\ r.permit = actor[m].on /\ r.pid = actor[m].pid
  BY <1>1 DEF ActorRec, Goals
<1>3. actor' = [actor EXCEPT ![m] = r]
  BY <1>1 DEF ActorRec
<1> HIDE DEF r
<1>4. Acts(m, r.pc, r.goal, r.on, r.permit, r.pid)
  BY <1>2, <1>3, ActsFacts
<1> QED
  BY <1>2, <1>4

(***************************************************************************)
(* The same for the handlers' calls of get_or_load and of turn_queue.      *)
(***************************************************************************)
LEMMA LookupActs ==
    ASSUME SessTypes, NEW a \in Actors, Lookup(a)
    PROVE  LET at == actor[a] IN
           /\ UNCHANGED <<table, made, closed, pending, inbox, fate>>
           /\ at.pc = "lookup" /\ at.goal # "idle"
           /\ \/ table # 0 /\ Acts(a, at.goal, "idle", table, at.permit, at.pid)
              \/ table = 0 /\ Acts(a, "restoring", at.goal, at.on, at.permit, at.pid)
              \/ /\ table = 0 /\ at.goal \notin {"preempt", "cancel"}
                 /\ \E pc \in {"idle", "failed"} :
                       /\ pc = "idle" => at.goal = "resolve"
                       /\ Acts(a, pc, "idle", 0, 0, "none")
              \/ /\ table = 0 /\ at.goal \in {"preempt", "cancel"}
                 /\ \E pc \in {"spawn", "drop"} :
                       /\ pc = "spawn" <=> at.goal = "preempt"
                       /\ Acts(a, pc, at.goal, at.on, at.permit, at.pid)
<1> USE DEF SessTypes, ActorTypes, At
<1>1. /\ UNCHANGED <<table, made, closed, pending, inbox, fate>>
      /\ actor[a].pc = "lookup" /\ actor[a].goal # "idle"
  BY DEF Lookup
<1>2. CASE table # 0 /\ GoesOnWith(a, table)
  <2>1. table \in LoadIds
    BY <1>2, SessAssumption DEF LoadIds
  <2> QED
    BY <1>1, <1>2, <2>1, GoesOnFacts
<1>3. CASE table = 0 /\ on_disk /\ Goes(a, "restoring")
  <2>1. "restoring" \in Places
    BY DEF Places
  <2> QED
    BY <1>1, <1>3, <2>1, GoesFacts
<1>4. CASE table = 0 /\ WithoutIt(a) \in {"idle", "failed"} /\ Leaves(a, WithoutIt(a))
  <2>1. {"idle", "failed"} \subseteq Places
    BY DEF Places
  <2>2. Acts(a, WithoutIt(a), "idle", 0, 0, "none")
    BY <1>4, <2>1, LeavesFacts
  <2>3. /\ actor[a].goal \notin {"preempt", "cancel"}
        /\ WithoutIt(a) = "idle" => actor[a].goal = "resolve"
    BY <1>4 DEF WithoutIt
  <2> QED
    BY <1>1, <1>4, <2>2, <2>3
<1>5. CASE table = 0 /\ WithoutIt(a) \notin {"idle", "failed"} /\ Goes(a, WithoutIt(a))
  <2>1. WithoutIt(a) \in {"spawn", "drop"} /\ {"spawn", "drop"} \subseteq Places
    BY <1>5 DEF Places, WithoutIt
  <2>2. Acts(a, WithoutIt(a), actor[a].goal, actor[a].on, actor[a].permit, actor[a].pid)
    BY <1>5, <2>1, GoesFacts
  <2>3. /\ actor[a].goal \in {"preempt", "cancel"}
        /\ WithoutIt(a) = "spawn" <=> actor[a].goal = "preempt"
    BY <1>5 DEF WithoutIt
  <2> QED
    BY <1>1, <1>5, <2>1, <2>2, <2>3
<1> QED
  BY <1>2, <1>3, <1>4, <1>5 DEF Lookup

LEMMA InsertActs ==
    ASSUME SessTypes, NEW a \in Actors, Insert(a)
    PROVE  LET at == actor[a] IN
           /\ UNCHANGED <<closed, pending, inbox, fate>>
           /\ at.pc = "restoring" /\ at.goal # "idle"
           /\ \/ table # 0 /\ table' = table /\ made' = made
              \/ table = 0 /\ table' = made + 1 /\ made' = made + 1
           /\ table' \in LoadIds /\ made' \in LoadIds
           /\ Acts(a, at.goal, "idle", table', at.permit, at.pid)
<1> USE DEF SessTypes, ActorTypes, At
<1>1. /\ UNCHANGED <<closed, pending, inbox, fate>>
      /\ actor[a].pc = "restoring" /\ actor[a].goal # "idle"
      /\ \/ table # 0 /\ table' = table /\ made' = made
         \/ table = 0 /\ table' = made + 1 /\ made' = made + 1
      /\ GoesOnWith(a, table')
  BY DEF Insert
<1>2. table' \in LoadIds /\ made' \in LoadIds
  BY <1>1, SessAssumption DEF LoadIds
<1> QED
  BY <1>1, <1>2, GoesOnFacts

LEMMA TakePermitActs ==
    ASSUME SessTypes, NEW m \in Messages, TakePermit(m)
    PROVE  LET at == actor[m] IN
           /\ UNCHANGED <<table, made, closed, pending, inbox, fate>>
           /\ at.pc = "permit" /\ at.on # 0
           /\ \/ Acts(m, "refused", "idle", 0, 0, "none")
              \/ \E pc \in {"lookup", "spawn"} : Acts(m, pc, "preempt", at.on, at.on, at.pid)
<1> USE DEF SessTypes, ActorTypes, At
<1>1. /\ UNCHANGED <<table, made, closed, pending, inbox, fate>>
      /\ actor[m].pc = "permit" /\ actor[m].on # 0 /\ m \in Actors
  BY DEF TakePermit, InSession, Actors
<1>2. {"lookup", "spawn", "refused"} \subseteq Places
  BY DEF Places
<1>3. CASE Leaves(m, "refused")
  BY <1>1, <1>2, <1>3, LeavesFacts
<1>4. ASSUME NEW pc \in {"lookup", "spawn"},
             actor' = [actor EXCEPT ![m].permit = actor[m].on, ![m].pc = pc, ![m].goal = "preempt"]
      PROVE  Acts(m, pc, "preempt", actor[m].on, actor[m].on, actor[m].pid)
  BY <1>1, <1>2, <1>4, PermitFacts
<1>5. \/ Leaves(m, "refused")
      \/ actor' = [actor EXCEPT ![m].permit = actor[m].on,
                       ![m].pc = IF TurnRunning(actor[m].on) THEN "lookup" ELSE "spawn",
                       ![m].goal = "preempt"]
  BY DEF TakePermit
<1> QED
  BY <1>1, <1>3, <1>4, <1>5

(***************************************************************************)
(* Types.                                                                  *)
(***************************************************************************)
LEMMA ActorKept ==
    ASSUME ActorTypes, NEW a \in Actors, NEW pc, NEW goal, NEW on, NEW permit, NEW pid,
           Acts(a, pc, goal, on, permit, pid),
           pc \in InSession => on # 0, pc \in {"lookup", "restoring"} => goal # "idle"
    PROVE  ActorTypes'
BY DEF ActorTypes, Acts

LEMMA InitSess == SessInit => SessTypes /\ PromptInv /\ FateInv /\ OneOpenLoad
<1>1. Idling \in ActorRec /\ Unborn \in FateRec
  BY DEF Idling, ActorRec, Unborn, FateRec, Places, Goals
<1>2. SessInit => SessTypes
  BY <1>1, SessAssumption DEF SessInit, SessTypes, ActorTypes, LoadIds, Idling, InSession
<1>3. SessInit => OneOpenLoad
  BY DEF SessInit, OneOpenLoad
<1>4. SessInit => PromptInv
  BY DEF SessInit, PromptInv, NotYetAsked, AnswerHolds, WaitingIsListed, At, Unborn, Idling, Actors
<1>5. SessInit => FateInv
  BY DEF SessInit, FateInv, Owned, AcceptedFate, At, Settled, Unborn, Idling, Actors, InSession
<1> QED
  BY <1>2, <1>3, <1>4, <1>5

LEMMA SessTypesKept ==
    ASSUME SessTypes, [SessNext]_sessVars PROVE SessTypes'
<1> USE DEF SessTypes
<1>0. Messages \subseteq Actors /\ {"delete", "evict", "answer"} \subseteq Actors
  BY DEF Actors, Handlers
<1>1. ASSUME NEW a \in Actors, Lookup(a) PROVE SessTypes'
  <2>1. /\ UNCHANGED <<table, made, closed, pending, inbox, fate>>
        /\ table # 0 => table \in LoadIds
    BY <1>1, LookupActs, SessAssumption DEF LoadIds
  <2>2. ActorTypes'
    <3> DEFINE at == actor[a]
    <3>1. actor \in [Actors -> ActorRec] /\ at.goal # "idle" /\ at.goal \in Goals
      BY <1>1, LookupActs, ActorFields DEF ActorTypes
    <3>2. CASE table # 0 /\ Acts(a, at.goal, "idle", table, at.permit, at.pid)
      BY <3>1, <3>2, ActorKept DEF Goals
    <3>3. CASE Acts(a, "restoring", at.goal, at.on, at.permit, at.pid)
      BY <3>1, <3>3, ActorKept DEF InSession
    <3>4. ASSUME NEW pc \in {"idle", "failed"}, Acts(a, pc, "idle", 0, 0, "none")
          PROVE  ActorTypes'
      BY <3>4, ActorKept DEF InSession
    <3>5. ASSUME NEW pc \in {"spawn", "drop"}, Acts(a, pc, at.goal, at.on, at.permit, at.pid)
          PROVE  ActorTypes'
      BY <3>5, ActorKept DEF InSession
    <3> QED
      BY <1>1, LookupActs, <3>2, <3>3, <3>4, <3>5
  <2> QED
    BY <2>1, <2>2
<1>2. ASSUME NEW a \in Actors, Insert(a) PROVE SessTypes'
  <2>1. ActorTypes'
    <3>1. actor[a].goal \in Goals /\ table' # 0
      BY <1>2, InsertActs, ActorFields DEF ActorTypes, LoadIds
    <3>2. Acts(a, actor[a].goal, "idle", table', actor[a].permit, actor[a].pid) /\ actor[a].goal # "idle"
      BY <1>2, InsertActs
    <3> QED
      BY <3>1, <3>2, ActorKept DEF Goals
  <2>2. /\ made' \in LoadIds /\ table' \in 1..made' /\ closed' \subseteq 1..made'
        /\ UNCHANGED <<pending, inbox, fate>>
    <3>1. /\ made \in Nat /\ made' \in LoadIds /\ table' \in LoadIds
          /\ UNCHANGED <<closed, pending, inbox, fate>>
      BY <1>2, InsertActs, SessAssumption DEF LoadIds
    <3>2. CASE table # 0 /\ table' = table /\ made' = made
      BY <3>1, <3>2
    <3>3. CASE table' = made + 1 /\ made' = made + 1
      BY <3>1, <3>3 DEF LoadIds
    <3> QED
      BY <1>2, InsertActs, <3>2, <3>3
  <2> QED
    BY <2>1, <2>2
<1>3. ASSUME NEW m \in Messages, TakePermit(m) PROVE SessTypes'
  <2>1. ActorTypes'
    BY <1>0, <1>3, TakePermitActs, ActorKept DEF InSession
  <2> QED
    BY <1>3, <2>1, TakePermitActs
<1>4. ASSUME NEW m \in Messages, Post(m) \/ Preempt(m) \/ Enqueue(m) PROVE SessTypes'
  <2>0. actor \in [Actors -> ActorRec] /\ m \in Actors
    BY <1>0 DEF ActorTypes
  <2>1. ASSUME Post(m) PROVE ActorTypes'
    <3>1. Acts(m, "lookup", "permit", actor[m].on, actor[m].permit, actor[m].pid)
      BY <2>0, <2>1, SeeksFacts DEF Post, Goals
    <3> QED
      BY <1>0, <3>1, ActorKept DEF InSession
  <2>2. ASSUME Preempt(m) PROVE ActorTypes'
    <3>1. Acts(m, "spawn", actor[m].goal, actor[m].on, actor[m].permit, actor[m].pid)
      BY <2>0, <2>2, GoesFacts DEF Preempt, Places
    <3> QED
      BY <1>0, <3>1, ActorKept DEF InSession
  <2>3. ASSUME Enqueue(m) PROVE ActorTypes'
    <3>1. Acts(m, "queued", actor[m].goal, actor[m].on, actor[m].permit, actor[m].pid)
      BY <2>0, <2>3, GoesFacts DEF Enqueue, Places
    <3>2. actor[m].on # 0
      BY <2>0, <2>3 DEF Enqueue, At, ActorTypes, InSession
    <3> QED
      BY <1>0, <3>1, <3>2, ActorKept
  <2>4. ActorTypes'
    BY <1>4, <2>1, <2>2, <2>3
  <2> QED
    BY <1>4, <2>4 DEF Post, Preempt, Enqueue
<1>5. ASSUME NEW m \in Messages, Spawn(m) PROVE SessTypes'
  <2>1. Acts(m, "lookup", "lock", actor[m].on, actor[m].permit, actor[m].pid)
    BY <1>0, <1>5, SeeksFacts DEF Spawn, ActorTypes, Goals
  <2>2. ActorTypes'
    BY <1>0, <2>1, ActorKept DEF InSession
  <2>3. fate' \in [Messages -> FateRec]
    BY <1>5 DEF Spawn, FateRec
  <2> QED
    BY <1>5, <2>2, <2>3 DEF Spawn
<1>6. ASSUME NEW m \in Messages, CheckClosed(m) \/ Finish(m) \/ Interrupt(m) PROVE SessTypes'
  <2>0. /\ actor \in [Actors -> ActorRec] /\ m \in Actors
        /\ {"failed", "done", "start"} \subseteq Places
    BY <1>0 DEF ActorTypes, Places
  <2>1. \/ \E pc \in {"failed", "done"} : Ends(m, pc)
        \/ At(m, "queued") /\ Goes(m, "start") /\ UNCHANGED inbox
    BY <1>6 DEF CheckClosed, Finish, Interrupt
  <2>2. ASSUME NEW pc \in {"failed", "done"}, Ends(m, pc) PROVE ActorTypes'
    <3>1. Acts(m, pc, "idle", 0, 0, "none")
      BY <2>0, <2>2, LeavesFacts DEF Ends
    <3> QED
      BY <1>0, <3>1, ActorKept DEF InSession
  <2>3. ASSUME At(m, "queued") /\ Goes(m, "start") PROVE ActorTypes'
    <3>1. Acts(m, "start", actor[m].goal, actor[m].on, actor[m].permit, actor[m].pid)
      BY <2>0, <2>3, GoesFacts
    <3>2. actor[m].on # 0
      BY <2>0, <2>3 DEF At, ActorTypes, InSession
    <3> QED
      BY <1>0, <3>1, <3>2, ActorKept
  <2>4. ActorTypes'
    BY <2>1, <2>2, <2>3
  <2>5. inbox' \in [Messages -> Decisions \union {"none"}]
    BY <2>1 DEF Ends
  <2> QED
    BY <1>6, <2>4, <2>5 DEF CheckClosed, Finish, Interrupt
<1>7. ASSUME NEW m \in Messages,
             Start(m) \/ Announce(m) \/ Register(m) \/ Receive(m) \/ Expire(m) \/ RemoveExpired(m)
      PROVE  SessTypes'
  <2>1. /\ actor[m].pc \in InSession
        /\ \E pc \in {"run", "announced", "ask", "expired"} : Goes(m, pc)
    BY <1>7 DEF Start, Announce, Register, Receive, Expire, RemoveExpired, At, InSession
  <2>2. PICK pc \in {"run", "announced", "ask", "expired"} : Goes(m, pc)
    BY <2>1
  <2>3. Acts(m, pc, actor[m].goal, actor[m].on, actor[m].permit, actor[m].pid)
    BY <1>0, <2>2, GoesFacts DEF ActorTypes, Places
  <2>4. ActorTypes'
    BY <1>0, <2>1, <2>3, ActorKept DEF ActorTypes
  <2>5. pending' \in [LoadIds -> SUBSET Messages]
    BY <1>7 DEF Start, Announce, Register, Receive, Expire, RemoveExpired
  <2>6. inbox' \in [Messages -> Decisions \union {"none"}]
    BY <1>7 DEF Start, Announce, Register, Receive, Expire, RemoveExpired
  <2>7. fate' \in [Messages -> FateRec]
    <3>1. fate[m] \in FateRec
      OBVIOUS
    <3>2. /\ [fate[m] EXCEPT !.told = TRUE] \in FateRec
          /\ [fate[m] EXCEPT !.verdict = inbox[m]] \in FateRec
          /\ [fate[m] EXCEPT !.expired = TRUE, !.verdict = "deny"] \in FateRec
      BY <3>1 DEF FateRec, Decisions
    <3>3. \/ UNCHANGED fate
          \/ fate' = [fate EXCEPT ![m] = [fate[m] EXCEPT !.told = TRUE]]
          \/ fate' = [fate EXCEPT ![m] = [fate[m] EXCEPT !.verdict = inbox[m]]]
          \/ fate' = [fate EXCEPT ![m] = [fate[m] EXCEPT !.expired = TRUE, !.verdict = "deny"]]
      BY <1>7, <3>1 DEF Start, Announce, Register, Receive, Expire, RemoveExpired, FateRec
    <3> QED
      BY <3>2, <3>3
  <2> QED
    BY <1>7, <2>4, <2>5, <2>6, <2>7 DEF Start, Announce, Register, Receive, Expire, RemoveExpired
<1>8. CASE Answer
  <2>1. PICK m \in Messages :
            /\ actor' = [actor EXCEPT !["answer"] = [@ EXCEPT !.pc = "lookup", !.goal = "resolve",
                                                              !.pid = m]]
            /\ UNCHANGED <<table, made, closed, pending, inbox, fate>>
    BY <1>8 DEF Answer
  <2> DEFINE r == [actor["answer"] EXCEPT !.pc = "lookup", !.goal = "resolve", !.pid = m]
  <2>2. r \in ActorRec /\ r.pc = "lookup" /\ r.goal = "resolve"
    <3>1. actor["answer"] \in ActorRec
      BY <1>0 DEF ActorTypes
    <3> QED
      BY <3>1 DEF ActorRec, Places, Goals
  <2>3. actor' = [actor EXCEPT !["answer"] = r]
    BY <2>1
  <2> HIDE DEF r
  <2>4. Acts("answer", r.pc, r.goal, r.on, r.permit, r.pid)
    BY <1>0, <2>2, <2>3, ActsFacts DEF ActorTypes
  <2>5. ActorTypes'
    BY <1>0, <2>2, <2>4, ActorKept DEF InSession
  <2> QED
    BY <2>1, <2>5
<1>9. CASE Resolve
  <2>1. ActorTypes'
    BY <1>0, <1>9, LeavesFacts, ActorKept DEF Resolve, ActorTypes, InSession, Places
  <2>2. pending' \in [LoadIds -> SUBSET Messages]
    BY <1>9 DEF Resolve
  <2> DEFINE m == actor["answer"].pid
  <2>3. \/ UNCHANGED <<inbox, fate>>
        \/ \E d \in Decisions : Acknowledge(m, d) /\ Sends(m, d)
    BY <1>9 DEF Resolve
  <2> HIDE DEF m
  <2>4. inbox' \in [Messages -> Decisions \union {"none"}]
    BY <2>3 DEF Sends
  <2>5. fate' \in [Messages -> FateRec]
    <3>1. CASE m \in Messages
      <4>1. \A d \in Decisions : [fate[m] EXCEPT !.acks = @ \union {d}, !.twice = fate[m].acks # {}]
                                  \in FateRec
        BY <3>1 DEF FateRec
      <4>2. ASSUME NEW d \in Decisions, Acknowledge(m, d) PROVE fate' \in [Messages -> FateRec]
        <5>1. fate' = [fate EXCEPT ![m] = [fate[m] EXCEPT !.acks = @ \union {d},
                                                           !.twice = fate[m].acks # {}]]
          BY <3>1, <4>2 DEF Acknowledge, FateRec
        <5> QED
          BY <4>1, <5>1
      <4> QED
        BY <2>3, <4>2
    <3>2. CASE m \notin Messages
      BY <2>3, <3>2 DEF Acknowledge
    <3> QED
      BY <3>1, <3>2
  <2> QED
    BY <1>9, <2>1, <2>2, <2>4, <2>5 DEF Resolve
<1>10. CASE ListPending
  BY <1>10 DEF ListPending, Sweep, ActorTypes
<1>11. CASE Delete \/ DeleteCancels \/ EvictTests
  <2>1. Seeks("delete", "cancel") \/ Goes("delete", "drop") \/ Goes("evict", "drop")
    BY <1>11 DEF Delete, DeleteCancels, EvictTests
  <2>2. ActorTypes'
    BY <1>0, <2>1, SeeksFacts, GoesFacts, ActorKept DEF ActorTypes, InSession, Places, Goals
  <2> QED
    BY <1>11, <2>2 DEF Delete, DeleteCancels, EvictTests
<1>12. CASE DeleteDrops \/ EvictDrops
  <2>1. Leaves("delete", "idle") \/ Goes("evict", "idle")
    BY <1>12 DEF DeleteDrops, EvictDrops
  <2>2. ActorTypes'
    BY <1>0, <2>1, LeavesFacts, GoesFacts, ActorKept DEF ActorTypes, InSession, Places
  <2>3. fate' \in [Messages -> FateRec]
    <3>1. Forgotten
      BY <1>12 DEF DeleteDrops, EvictDrops
    <3>2. \A m \in Messages : \A b \in BOOLEAN : [fate[m] EXCEPT !.dropped = b] \in FateRec
      BY DEF FateRec
    <3>3. \A m \in Messages :
              (fate[m].dropped \/ (table # 0 /\ ~At(m, "idle") /\ ~Settled(m))) \in BOOLEAN
      BY ZenonT(20)
    <3> QED
      BY <3>1, <3>2, <3>3 DEF Forgotten
  <2>4. /\ table' = 0 /\ closed' \subseteq 1..made /\ made < MaxMade
        /\ UNCHANGED <<made, pending, inbox>>
    <3>1. DropsLoad /\ made < MaxMade /\ UNCHANGED <<made, pending, inbox>>
      BY <1>12 DEF DeleteDrops, EvictDrops
    <3> QED
      BY <3>1 DEF DropsLoad, LoadIds
  <2> QED
    BY <2>2, <2>3, <2>4 DEF LoadIds
<1>13. CASE UNCHANGED sessVars
  BY <1>13 DEF sessVars, ActorTypes
<1> QED
  BY <1>0, <1>1, <1>2, <1>3, <1>4, <1>5, <1>6, <1>7, <1>8, <1>9, <1>10, <1>11, <1>12, <1>13
     DEF SessNext, Proceed

--------------------------------------------------------------------------------
(***************************************************************************)
(* Prompts.                                                                *)
(***************************************************************************)
Asking == {"announced", "ask", "expired"}
SameFate(m) ==
    /\ fate'[m].told = fate[m].told /\ fate'[m].acks = fate[m].acks
    /\ fate'[m].twice = fate[m].twice /\ fate'[m].verdict = fate[m].verdict
    /\ fate'[m].expired = fate[m].expired

(* Steps outside of the prompter. *)
LEMMA PromptKept ==
    ASSUME PromptInv, UNCHANGED <<pending, inbox>>, \A m \in Messages : SameFate(m),
           \A m \in Messages : actor'[m].pc \in Asking =>
               actor'[m].pc = actor[m].pc /\ actor'[m].on = actor[m].on
    PROVE  PromptInv'
BY DEF PromptInv, NotYetAsked, AnswerHolds, WaitingIsListed, At, SameFate, Asking

LEMMA PromptActs ==
    ASSUME PromptInv, UNCHANGED <<pending, inbox, fate>>, NEW a \in Actors,
           NEW pc, NEW goal, NEW on, NEW permit, NEW pid, Acts(a, pc, goal, on, permit, pid),
           pc \notin Asking
    PROVE  PromptInv'
<1>1. \A m \in Messages : SameFate(m)
  BY DEF SameFate
<1>2. \A m \in Messages : m \in Actors
  BY DEF Actors
<1>3. \A m \in Messages : actor'[m].pc \in Asking =>
          actor'[m].pc = actor[m].pc /\ actor'[m].on = actor[m].on
  BY <1>2 DEF Acts
<1> QED
  BY <1>1, <1>3, PromptKept

(* A turn's end takes its channel away. *)
LEMMA PromptEnds ==
    ASSUME SessTypes, PromptInv, UNCHANGED <<pending, fate>>, NEW m \in Messages,
           inbox' = [inbox EXCEPT ![m] = "none"], NEW pc, NEW goal, NEW on, NEW permit, NEW pid,
           Acts(m, pc, goal, on, permit, pid), pc \notin Asking
    PROVE  PromptInv'
<1>1. /\ inbox'[m] = "none" /\ \A n \in Messages \ {m} : inbox'[n] = inbox[n]
      /\ actor'[m].pc \notin Asking /\ \A n \in Messages \ {m} : actor'[n] = actor[n]
  BY DEF SessTypes, Acts, Actors
<1> QED
  BY <1>1 DEF PromptInv, NotYetAsked, AnswerHolds, WaitingIsListed, At, Asking

LEMMA NextPrompt ==
    ASSUME SessTypes, PromptInv, [SessNext]_sessVars PROVE PromptInv'
<1> USE DEF SessTypes
<1>0. /\ Messages \subseteq Actors /\ {"delete", "evict", "answer"} \subseteq Actors
      /\ actor \in [Actors -> ActorRec] /\ \A m \in Messages : m \notin {"delete", "evict", "answer"}
  BY SessAssumption DEF Actors, Handlers, ActorTypes
<1>1. ASSUME NEW a \in Actors, Lookup(a) PROVE PromptInv'
  <2> DEFINE at == actor[a]
  <2>1. UNCHANGED <<pending, inbox, fate>>
    BY <1>1, LookupActs
  <2>2. at.goal \in Goals
    BY <1>0, ActorFields
  <2>3. CASE Acts(a, at.goal, "idle", table, at.permit, at.pid)
    BY <2>1, <2>2, <2>3, PromptActs DEF Goals, Asking
  <2>4. CASE Acts(a, "restoring", at.goal, at.on, at.permit, at.pid)
    BY <2>1, <2>4, PromptActs DEF Asking
  <2>5. ASSUME NEW pc \in {"idle", "failed"}, Acts(a, pc, "idle", 0, 0, "none") PROVE PromptInv'
    BY <2>1, <2>5, PromptActs DEF Asking
  <2>6. ASSUME NEW pc \in {"spawn", "drop"}, Acts(a, pc, at.goal, at.on, at.permit, at.pid)
        PROVE  PromptInv'
    BY <2>1, <2>6, PromptActs DEF Asking
  <2> QED
    BY <1>1, LookupActs, <2>3, <2>4, <2>5, <2>6
<1>2. ASSUME NEW a \in Actors, Insert(a) PROVE PromptInv'
  <2>1. UNCHANGED <<pending, inbox, fate>>
    BY <1>2, InsertActs
  <2>2. actor[a].goal \in Goals
    BY <1>0, ActorFields
  <2>3. Acts(a, actor[a].goal, "idle", table', actor[a].permit, actor[a].pid)
    BY <1>2, InsertActs
  <2> QED
    BY <2>1, <2>2, <2>3, PromptActs DEF Goals, Asking
<1>3. ASSUME NEW m \in Messages, TakePermit(m) PROVE PromptInv'
  <2>1. UNCHANGED <<pending, inbox, fate>>
    BY <1>3, TakePermitActs
  <2> QED
    BY <1>0, <1>3, <2>1, TakePermitActs, PromptActs DEF Asking
<1>4. ASSUME NEW m \in Messages, Post(m) PROVE PromptInv'
  <2>1. Acts(m, "lookup", "permit", actor[m].on, actor[m].permit, actor[m].pid)
    BY <1>0, <1>4, SeeksFacts DEF Post, Goals
  <2> QED
    BY <1>0, <1>4, <2>1, PromptActs DEF Post, Asking
<1>5. ASSUME NEW m \in Messages, NEW pc \in {"spawn", "queued", "start", "run"},
             Goes(m, pc), UNCHANGED <<pending, inbox, fate>>
      PROVE  PromptInv'
  <2>1. Acts(m, pc, actor[m].goal, actor[m].on, actor[m].permit, actor[m].pid)
    BY <1>0, <1>5, GoesFacts DEF Places
  <2> QED
    BY <1>0, <1>5, <2>1, PromptActs DEF Asking
<1>6. ASSUME NEW m \in Messages, Spawn(m) PROVE PromptInv'
  <2>1. Acts(m, "lookup", "lock", actor[m].on, actor[m].permit, actor[m].pid)
    BY <1>0, <1>6, SeeksFacts DEF Spawn, Goals
  <2>2. \A n \in Messages : actor'[n].pc \in Asking =>
            actor'[n].pc = actor[n].pc /\ actor'[n].on = actor[n].on
    BY <1>0, <2>1 DEF Acts, Asking
  <2>3. \A n \in Messages : SameFate(n)
    BY <1>6 DEF Spawn, SameFate, FateRec
  <2> QED
    BY <1>6, <2>2, <2>3, PromptKept DEF Spawn
<1>7. ASSUME NEW m \in Messages, NEW pc \in {"done", "failed"}, Ends(m, pc),
             UNCHANGED <<pending, fate>>
      PROVE  PromptInv'
  <2>1. Acts(m, pc, "idle", 0, 0, "none")
    BY <1>0, <1>7, LeavesFacts DEF Ends, Places
  <2> QED
    BY <1>7, <2>1, PromptEnds DEF Ends, Asking
<1>8. ASSUME NEW m \in Messages, Announce(m) PROVE PromptInv'
  <2>1. Acts(m, "announced", actor[m].goal, actor[m].on, actor[m].permit, actor[m].pid)
    BY <1>0, <1>8, GoesFacts DEF Announce, Places
  <2>2. /\ actor'[m].pc = "announced" /\ \A n \in Messages \ {m} : actor'[n] = actor[n]
        /\ ~fate[m].told /\ UNCHANGED <<pending, inbox>>
    BY <1>0, <1>8, <2>1 DEF Acts, Announce
  <2>3. /\ fate'[m].told = TRUE
        /\ \A n \in Messages : /\ n # m => fate'[n].told = fate[n].told
                               /\ fate'[n].acks = fate[n].acks /\ fate'[n].twice = fate[n].twice
                               /\ fate'[n].verdict = fate[n].verdict
                               /\ fate'[n].expired = fate[n].expired
    BY <1>8 DEF Announce, FateRec
  <2> QED
    BY <2>2, <2>3 DEF PromptInv, NotYetAsked, AnswerHolds, WaitingIsListed, At
<1>9. ASSUME NEW m \in Messages, Register(m) PROVE PromptInv'
  <2>1. Acts(m, "ask", actor[m].goal, actor[m].on, actor[m].permit, actor[m].pid)
    BY <1>0, <1>9, GoesFacts DEF Register, Places
  <2>2. /\ actor[m].pc = "announced" /\ actor'[m].pc = "ask" /\ actor'[m].on = actor[m].on
        /\ actor[m].on \in LoadIds
        /\ \A n \in Messages \ {m} : actor'[n] = actor[n]
        /\ UNCHANGED <<inbox, fate>>
    BY <1>0, <1>9, <2>1 DEF Acts, Register, At, ActorTypes, ActorRec, InSession
  <2>3. /\ m \in pending'[actor[m].on]
        /\ \A i \in LoadIds : \A n \in Messages :
              n \in pending'[i] <=> n \in pending[i] \/ (n = m /\ i = actor[m].on)
    BY <1>9, <2>2 DEF Register
  <2> HIDE DEF SessTypes
  <2> DEFINE on == actor[m].on
  <2>4. /\ fate[m].told /\ fate[m].acks = {} /\ inbox[m] = "none"
        /\ \A i \in LoadIds : m \notin pending[i]
    BY <2>2 DEF PromptInv, NotYetAsked, At
  <2>5. \A n \in Messages : ~fate'[n].told => actor'[n].pc \notin {"announced", "ask", "expired"}
    BY <2>2, <2>4 DEF PromptInv
  <2>6. \A n \in Messages : ~fate'[n].told \/ At(n, "announced")' => NotYetAsked(n)'
    BY <2>2, <2>3, <2>4 DEF PromptInv, NotYetAsked, At
  <2>7. \A n \in Messages : \A i \in LoadIds : n \in pending'[i] => fate'[n].acks = {}
    BY <2>2, <2>3, <2>4 DEF PromptInv
  <2>8. \A n \in Messages : \A i, j \in LoadIds : n \in pending'[i] /\ n \in pending'[j] => i = j
    BY <2>3, <2>4 DEF PromptInv
  <2>9. AnswerHolds' /\ \A n \in Messages : inbox'[n] # "none" => inbox'[n] \in fate'[n].acks
    BY <2>2 DEF PromptInv, AnswerHolds
  <2>10. ASSUME NEW n \in Messages, At(n, "ask")', inbox'[n] = "none"
         PROVE  n \in pending'[actor'[n].on]
    <3>1. CASE n = m
      BY <2>2, <2>3, <3>1
    <3>2. CASE n # m
      <4>1. actor'[n] = actor[n] /\ n \in pending[actor[n].on]
        BY <2>2, <2>10, <3>2 DEF PromptInv, WaitingIsListed, At
      <4>2. actor[n].on \in LoadIds
        BY <1>0, <2>10, <4>1 DEF At, ActorTypes, ActorRec, InSession, SessTypes
      <4> QED
        BY <2>3, <4>1, <4>2
    <3> QED
      BY <3>1, <3>2
  <2> QED
    BY <2>5, <2>6, <2>7, <2>8, <2>9, <2>10 DEF PromptInv, WaitingIsListed
<1>10. ASSUME NEW m \in Messages, Receive(m) PROVE PromptInv'
  <2>1. Acts(m, "run", actor[m].goal, actor[m].on, actor[m].permit, actor[m].pid)
    BY <1>0, <1>10, GoesFacts DEF Receive, Places
  <2>2. /\ actor[m].pc = "ask" /\ inbox[m] # "none" /\ actor'[m].pc = "run"
        /\ \A n \in Messages \ {m} : actor'[n] = actor[n] /\ inbox'[n] = inbox[n]
        /\ inbox'[m] = "none" /\ UNCHANGED pending
    BY <1>0, <1>10, <2>1 DEF Acts, Receive, At
  <2>3. /\ fate'[m].verdict = inbox[m]
        /\ \A n \in Messages : /\ n # m => fate'[n].verdict = fate[n].verdict
                               /\ fate'[n].acks = fate[n].acks /\ fate'[n].twice = fate[n].twice
                               /\ fate'[n].told = fate[n].told
                               /\ fate'[n].expired = fate[n].expired
    BY <1>10 DEF Receive, FateRec
  <2> QED
    BY <2>2, <2>3, SMTT(20) DEF PromptInv, NotYetAsked, AnswerHolds, WaitingIsListed, At
<1>11. ASSUME NEW m \in Messages, Expire(m) PROVE PromptInv'
  <2>1. Acts(m, "expired", actor[m].goal, actor[m].on, actor[m].permit, actor[m].pid)
    BY <1>0, <1>11, GoesFacts DEF Expire, Places
  <2>2. /\ actor[m].pc = "ask" /\ actor'[m].pc = "expired"
        /\ \A n \in Messages \ {m} : actor'[n] = actor[n]
        /\ UNCHANGED <<inbox, pending>>
    BY <1>0, <1>11, <2>1 DEF Acts, Expire, At
  <2>3. /\ fate'[m].verdict = "deny" /\ fate'[m].expired = TRUE
        /\ \A n \in Messages : /\ n # m => fate'[n].verdict = fate[n].verdict
                               /\ n # m => fate'[n].expired = fate[n].expired
                               /\ fate'[n].acks = fate[n].acks /\ fate'[n].twice = fate[n].twice
                               /\ fate'[n].told = fate[n].told
    BY <1>11 DEF Expire, FateRec
  <2> QED
    BY <2>2, <2>3 DEF PromptInv, NotYetAsked, AnswerHolds, WaitingIsListed, At
<1>12. ASSUME NEW m \in Messages, RemoveExpired(m) PROVE PromptInv'
  <2>1. Acts(m, "run", actor[m].goal, actor[m].on, actor[m].permit, actor[m].pid)
    BY <1>0, <1>12, GoesFacts DEF RemoveExpired, Places
  <2>2. /\ actor'[m].pc = "run" /\ \A n \in Messages \ {m} : actor'[n] = actor[n]
        /\ UNCHANGED <<inbox, fate>>
    BY <1>0, <1>12, <2>1 DEF Acts, RemoveExpired
  <2>3. \A i \in LoadIds : \A n \in Messages :
            n \in pending'[i] <=> n \in pending[i] /\ ~(n = m /\ i = actor[m].on)
    BY <1>12 DEF RemoveExpired
  <2>4. \A n \in Messages : At(n, "ask")' /\ n # m => actor[n].on \in LoadIds
    BY <1>0, <2>2 DEF At, ActorTypes, ActorRec, InSession
  <2> QED
    BY <2>2, <2>3, <2>4 DEF PromptInv, NotYetAsked, AnswerHolds, WaitingIsListed, At
<1>13. CASE Answer
  <2>1. /\ \A m \in Messages : actor'[m] = actor[m]
        /\ UNCHANGED <<pending, inbox, fate>>
    BY <1>0, <1>13 DEF Answer
  <2> QED
    BY <2>1, PromptKept DEF SameFate
<1>14. CASE ListPending
  <2>1. UNCHANGED <<actor, inbox, fate>> /\ table \in LoadIds
    BY <1>14, SessAssumption DEF ListPending, LoadIds
  <2>2. \A i \in LoadIds : \A n \in Messages :
            n \in pending'[i] <=> n \in pending[i] /\ (i = table => actor[n].pc = "ask")
    BY <1>14, <2>1 DEF ListPending, Sweep, Heard, At
  <2>3. \A n \in Messages : At(n, "ask") => actor[n].on \in LoadIds
    BY <1>0 DEF At, ActorTypes, ActorRec, InSession
  <2> QED
    BY <2>1, <2>2, <2>3 DEF PromptInv, NotYetAsked, AnswerHolds, WaitingIsListed, At
<1>15. CASE Resolve
  <2> DEFINE m == actor["answer"].pid
             i == actor["answer"].on
  <2>1. \A n \in Messages : actor'[n] = actor[n]
    BY <1>0, <1>15 DEF Resolve, Leaves
  <2>2. i \in LoadIds
    BY <1>0, <1>15 DEF Resolve, At, ActorTypes, ActorRec, InSession
  <2>3. CASE m \in pending[i]
    <3>1. PICK d \in Decisions : Acknowledge(m, d) /\ Sends(m, d)
      BY <1>15, <2>3 DEF Resolve
    <3>2. pending' = [pending EXCEPT ![i] = @ \ {m}]
      BY <1>15, <2>3 DEF Resolve
    <3>3. m \in Messages /\ fate[m].acks = {} /\ \A j \in LoadIds : m \in pending[j] => j = i
      BY <2>2, <2>3 DEF PromptInv
    <3>4. /\ fate'[m].acks = {d} /\ ~fate'[m].twice
          /\ \A n \in Messages : /\ n # m => fate'[n].acks = fate[n].acks
                                 /\ n # m => fate'[n].twice = fate[n].twice
                                 /\ fate'[n].verdict = fate[n].verdict
                                 /\ fate'[n].told = fate[n].told
                                 /\ fate'[n].expired = fate[n].expired
      BY <3>1, <3>3 DEF Acknowledge, FateRec
    <3>5. /\ inbox'[m] = IF actor[m].pc = "ask" THEN d ELSE inbox[m]
          /\ \A n \in Messages \ {m} : inbox'[n] = inbox[n]
      BY <3>1, <3>3 DEF Sends, At
    <3>6. \A j \in LoadIds : \A n \in Messages : n \in pending'[j] <=> n \in pending[j] /\ n # m
      BY <2>2, <3>2, <3>3
    <3>7. \A n \in Messages : At(n, "ask") => actor[n].on \in LoadIds
      BY <1>0 DEF At, ActorTypes, ActorRec, InSession
    <3>8. /\ fate[m].told /\ actor[m].pc # "announced" /\ inbox[m] = "none" /\ d # "none"
          /\ fate[m].verdict # "allow"
          /\ fate[m].verdict = "deny" => fate[m].expired
      BY <2>2, <2>3, <3>3 DEF PromptInv, NotYetAsked, At, Decisions, AnswerHolds
    <3> HIDE DEF m, i, SessTypes
    <3>9. \A n \in Messages : ~fate'[n].told => actor'[n].pc \notin {"announced", "ask", "expired"}
      BY <2>1, <3>4 DEF PromptInv
    <3>10. \A n \in Messages : ~fate'[n].told \/ At(n, "announced")' => NotYetAsked(n)'
      BY <2>1, <3>4, <3>5, <3>6, <3>8 DEF PromptInv, NotYetAsked, At
    <3>11. /\ \A n \in Messages : \A j \in LoadIds : n \in pending'[j] => fate'[n].acks = {}
           /\ \A n \in Messages : \A j, k \in LoadIds : n \in pending'[j] /\ n \in pending'[k] => j = k
      BY <3>4, <3>6 DEF PromptInv
    <3>12. \A n \in Messages : inbox'[n] # "none" => inbox'[n] \in fate'[n].acks
      BY <3>4, <3>5, <3>8 DEF PromptInv
    <3>13. AnswerHolds'
      BY <3>4, <3>8 DEF PromptInv, AnswerHolds
    <3>14. WaitingIsListed'
      BY <2>1, <3>5, <3>6, <3>7, <3>8 DEF PromptInv, WaitingIsListed, At
    <3> QED
      BY <3>9, <3>10, <3>11, <3>12, <3>13, <3>14 DEF PromptInv
  <2>4. CASE m \notin pending[i]
    <3>1. UNCHANGED <<pending, inbox, fate>>
      BY <1>15, <2>4 DEF Resolve
    <3> QED
      BY <2>1, <3>1, PromptKept DEF SameFate
  <2> QED
    BY <2>3, <2>4
<1>19. CASE Delete \/ DeleteCancels \/ EvictTests \/ DeleteDrops \/ EvictDrops
  <2>1. \A m \in Messages : actor'[m] = actor[m]
    BY <1>0, <1>19 DEF Delete, DeleteCancels, EvictTests, DeleteDrops, EvictDrops,
                       Seeks, Goes, Leaves
  <2>2. \A m \in Messages : SameFate(m)
    <3>1. CASE UNCHANGED fate
      BY <3>1 DEF SameFate
    <3>2. CASE Forgotten
      BY <3>2 DEF Forgotten, SameFate, FateRec
    <3> QED
      BY <1>19, <3>1, <3>2 DEF Delete, DeleteCancels, EvictTests, DeleteDrops, EvictDrops
  <2>3. UNCHANGED <<pending, inbox>>
    BY <1>19 DEF Delete, DeleteCancels, EvictTests, DeleteDrops, EvictDrops
  <2> QED
    BY <2>1, <2>2, <2>3, PromptKept
<1>16. CASE UNCHANGED sessVars
  BY <1>16, PromptKept DEF sessVars, SameFate
<1>17. ASSUME NEW m \in Messages, Proceed(m) PROVE PromptInv'
  <2>1. CASE Preempt(m) \/ Enqueue(m) \/ Start(m)
    <3>1. UNCHANGED <<pending, inbox, fate>>
      BY <2>1 DEF Preempt, Enqueue, Start
    <3>2. Goes(m, "spawn") \/ Goes(m, "queued") \/ Goes(m, "run")
      BY <2>1 DEF Preempt, Enqueue, Start
    <3> QED
      BY <3>1, <3>2, <1>5
  <2>2. CASE CheckClosed(m) \/ Finish(m)
    <3>1. UNCHANGED <<pending, fate>>
      BY <2>2 DEF CheckClosed, Finish
    <3>2. Ends(m, "failed") \/ Ends(m, "done") \/ (Goes(m, "start") /\ UNCHANGED inbox)
      BY <2>2 DEF CheckClosed, Finish
    <3> QED
      BY <3>1, <3>2, <1>5, <1>7
  <2> QED
    BY <1>0, <1>1, <1>2, <1>3, <1>6, <1>9, <1>10, <1>11, <1>12, <1>17, <2>1, <2>2 DEF Proceed
<1>18. ASSUME NEW m \in Messages, Interrupt(m) PROVE PromptInv'
  BY <1>7, <1>18 DEF Interrupt
<1> QED
  BY <1>0, <1>1, <1>2, <1>4, <1>8, <1>13, <1>14, <1>15, <1>16, <1>17, <1>18, <1>19
     DEF SessNext

--------------------------------------------------------------------------------
(***************************************************************************)
(* Loads and accepted messages.                                            *)
(***************************************************************************)
LEMMA NextOpen ==
    ASSUME SessTypes, OneOpenLoad, [SessNext]_sessVars PROVE OneOpenLoad'
<1> USE DEF SessTypes, OneOpenLoad
<1>0. Messages \subseteq Actors /\ {"delete", "evict", "answer"} \subseteq Actors
  BY DEF Actors, Handlers
<1>1. ASSUME UNCHANGED <<table, made, closed>> PROVE OneOpenLoad'
  BY <1>1
<1>2. ASSUME NEW a \in Actors, Lookup(a) \/ Insert(a) PROVE OneOpenLoad'
  <2>1. CASE Lookup(a)
    BY <1>1, <2>1, LookupActs
  <2>2. CASE Insert(a)
    BY <2>2, InsertActs DEF LoadIds
  <2> QED
    BY <1>2, <2>1, <2>2
<1>3. CASE DeleteDrops \/ EvictDrops
  BY <1>3 DEF DeleteDrops, EvictDrops, DropsLoad
<1>4. ASSUME NEW m \in Messages, Post(m) \/ Interrupt(m) \/ Announce(m) PROVE OneOpenLoad'
  BY <1>1, <1>4 DEF Post, Interrupt, Announce
<1>5. ASSUME NEW m \in Messages, Proceed(m) PROVE OneOpenLoad'
  <2>1. CASE TakePermit(m) \/ Preempt(m) \/ Spawn(m) \/ Enqueue(m) \/ CheckClosed(m) \/ Start(m)
    BY <1>1, <2>1 DEF TakePermit, Preempt, Spawn, Enqueue, CheckClosed, Start
  <2>2. CASE Finish(m) \/ Register(m) \/ Receive(m) \/ Expire(m) \/ RemoveExpired(m)
    BY <1>1, <2>2 DEF Finish, Register, Receive, Expire, RemoveExpired
  <2> QED
    BY <1>0, <1>2, <1>5, <2>1, <2>2 DEF Proceed
<1>6. CASE Answer \/ Resolve \/ ListPending \/ Delete \/ DeleteCancels \/ EvictTests
  BY <1>1, <1>6 DEF Answer, Resolve, ListPending, Delete, DeleteCancels, EvictTests
<1>7. CASE UNCHANGED sessVars
  BY <1>1, <1>7 DEF sessVars
<1> QED
  BY <1>0, <1>2, <1>3, <1>4, <1>5, <1>6, <1>7 DEF SessNext

(* A step of one actor that leaves the table alone and, when it is a message, that *)
(* message in order; the other messages stay as they are.                          *)
LEMMA FateActs ==
    ASSUME FateInv, UNCHANGED <<table, closed>>, NEW a \in Actors,
           NEW pc, NEW goal, NEW on, NEW permit, NEW pid, Acts(a, pc, goal, on, permit, pid),
           \A m \in Messages : /\ fate'[m].dropped = fate[m].dropped
                               /\ m # a => fate'[m].accepted = fate[m].accepted,
           a \in Messages => Owned(a)' /\ (At(a, "failed")' /\ fate'[a].accepted => fate'[a].dropped)
    PROVE  FateInv'
<1>1. \A m \in Messages \ {a} : actor'[m] = actor[m]
  BY DEF Acts, Actors
<1>2. ASSUME NEW m \in Messages \ {a}
      PROVE  Owned(m)' /\ (At(m, "failed")' /\ fate'[m].accepted => fate'[m].dropped)
  BY <1>1, <1>2 DEF FateInv, Owned, AcceptedFate, At, Settled
<1> QED
  BY <1>2 DEF FateInv, AcceptedFate

LEMMA FateSame ==
    ASSUME FateInv, UNCHANGED <<table, closed>>,
           \A m \in Messages : /\ actor'[m] = actor[m]
                               /\ fate'[m].dropped = fate[m].dropped
                               /\ fate'[m].accepted = fate[m].accepted
    PROVE  FateInv'
BY DEF FateInv, Owned, AcceptedFate, At, Settled

(* What a message in order may do next without its fate changing. *)
LEMMA OwnedMoves ==
    ASSUME SessTypes, FateInv, UNCHANGED <<table, closed>>, NEW m \in Messages,
           \A n \in Messages : /\ fate'[n].dropped = fate[n].dropped
                               /\ fate'[n].accepted = fate[n].accepted,
           NEW pc, NEW goal, NEW on, NEW permit, NEW pid, Acts(m, pc, goal, on, permit, pid),
           goal \in {"idle", "permit", "preempt", "lock"},
           permit # 0 => permit = actor[m].permit \/ (permit = actor[m].on /\ actor[m].pc \in InSession),
           permit # 0 => pc \notin {"idle", "refused", "done", "failed"},
           pc \in InSession => on = table \/ (on = actor[m].on /\ actor[m].pc \in InSession),
           pc \in {"idle", "permit", "refused"} \/ goal = "permit" => ~fate[m].accepted,
           pc \in {"preempt", "spawn"} \/ goal \in {"preempt", "lock"} => permit # 0,
           pc = "failed" /\ fate[m].accepted => fate[m].dropped
    PROVE  FateInv'
<1>1. m \in Actors
  BY DEF Actors
<1>2. /\ actor'[m].pc = pc /\ actor'[m].goal = goal /\ actor'[m].on = on /\ actor'[m].permit = permit
  BY DEF Acts
<1>3. Owned(m)
  BY DEF FateInv
<1>4. Owned(m)'
  BY <1>2, <1>3 DEF Owned, Settled, At
<1>5. At(m, "failed")' /\ fate'[m].accepted => fate'[m].dropped
  BY <1>2 DEF At
<1> QED
  BY <1>1, <1>4, <1>5, FateActs

LEMMA NextFate ==
    ASSUME SessTypes, FateInv, [SessNext]_sessVars PROVE FateInv'
<1> USE DEF SessTypes
<1>0. /\ Messages \subseteq Actors /\ {"delete", "evict", "answer"} \subseteq Actors
      /\ actor \in [Actors -> ActorRec] /\ \A m \in Messages : m \notin {"delete", "evict", "answer"}
  BY SessAssumption DEF Actors, Handlers, ActorTypes
<1> DEFINE Unchanging == /\ UNCHANGED <<table, closed>>
                         /\ \A m \in Messages : /\ fate'[m].dropped = fate[m].dropped
                                                 /\ fate'[m].accepted = fate[m].accepted
<1>1. ASSUME NEW m \in Messages, Lookup(m) PROVE FateInv'
  <2> DEFINE at == actor[m]
  <2>1. Unchanging /\ m \in Actors
    BY <1>0, <1>1, LookupActs
  <2>2. at.pc = "lookup" /\ at.goal # "idle" /\ Owned(m)
    BY <1>0, <1>1, LookupActs DEF FateInv
  <2>3. CASE table # 0 /\ Acts(m, at.goal, "idle", table, at.permit, at.pid)
    BY <2>1, <2>2, <2>3, OwnedMoves DEF Owned, Goals
  <2>4. CASE Acts(m, "restoring", at.goal, at.on, at.permit, at.pid)
    BY <2>1, <2>2, <2>4, OwnedMoves DEF Owned, InSession
  <2>5. ASSUME NEW pc \in {"idle", "failed"}, pc = "idle" => at.goal = "resolve", table = 0,
               at.goal \notin {"preempt", "cancel"}, Acts(m, pc, "idle", 0, 0, "none")
        PROVE  FateInv'
    <3>1. pc = "failed" /\ fate[m].accepted => fate[m].dropped
      BY <2>2, <2>5 DEF Owned
    <3>2. pc # "idle"
      BY <2>2, <2>5 DEF Owned
    <3> QED
      BY <2>1, <2>5, <3>1, <3>2, OwnedMoves DEF InSession
  <2>6. ASSUME NEW pc \in {"spawn", "drop"}, pc = "spawn" <=> at.goal = "preempt",
               Acts(m, pc, at.goal, at.on, at.permit, at.pid)
        PROVE  FateInv'
    BY <2>1, <2>2, <2>6, OwnedMoves DEF Owned, InSession
  <2> QED
    BY <1>0, <1>1, LookupActs, <2>3, <2>4, <2>5, <2>6
<1>2. ASSUME NEW a \in {"delete", "answer"}, Lookup(a) PROVE FateInv'
  <2>1. Unchanging /\ a \in Actors
    BY <1>0, <1>2, LookupActs
  <2>2. \A m \in Messages : actor'[m] = actor[m]
    BY <1>0, <1>2, LookupActs DEF Acts
  <2> QED
    BY <2>1, <2>2, FateSame
<1>3. ASSUME NEW a \in Actors, Insert(a) PROVE FateInv'
  <2>1. /\ UNCHANGED <<closed, fate>> /\ actor[a].pc = "restoring" /\ actor[a].goal # "idle"
        /\ \A m \in Messages \ {a} : actor'[m] = actor[m]
        /\ actor'[a].pc = actor[a].goal /\ actor'[a].goal = "idle"
        /\ actor'[a].on = table' /\ actor'[a].permit = actor[a].permit
    BY <1>0, <1>3, InsertActs DEF Acts
  <2>2. /\ table' \notin closed /\ table' # 0
        /\ table # 0 => table' = table
    BY <1>3, InsertActs DEF FateInv, LoadIds
  <2>3. ASSUME NEW m \in Messages
        PROVE  Owned(m)' /\ (At(m, "failed")' /\ fate'[m].accepted => fate'[m].dropped)
    <3>1. Owned(m) /\ (At(m, "failed") /\ fate[m].accepted => fate[m].dropped)
      BY DEF FateInv, AcceptedFate
    <3>2. CASE m = a
      BY <2>1, <2>2, <3>1, <3>2 DEF Owned, At, Settled
    <3>3. CASE m # a
      <4>1. actor'[m] = actor[m]
        BY <2>1, <3>3
      <4>2. actor[m].pc \in InSession => actor[m].on # 0
        BY <1>0 DEF ActorTypes
      <4> QED
        BY <2>1, <2>2, <3>1, <4>1, <4>2 DEF Owned, At, Settled
    <3> QED
      BY <3>2, <3>3
  <2> QED
    BY <2>1, <2>2, <2>3 DEF FateInv, AcceptedFate
<1>4. ASSUME NEW m \in Messages, TakePermit(m) PROVE FateInv'
  <2> DEFINE at == actor[m]
  <2>1. Unchanging
    BY <1>4, TakePermitActs
  <2>2. at.pc = "permit" /\ at.on # 0 /\ Owned(m)
    BY <1>4, TakePermitActs DEF FateInv
  <2>3. CASE Acts(m, "refused", "idle", 0, 0, "none")
    BY <2>1, <2>2, <2>3, OwnedMoves DEF Owned, InSession
  <2>4. ASSUME NEW pc \in {"lookup", "spawn"}, Acts(m, pc, "preempt", at.on, at.on, at.pid)
        PROVE  FateInv'
    BY <2>1, <2>2, <2>4, OwnedMoves DEF Owned, InSession
  <2> QED
    BY <1>4, TakePermitActs, <2>3, <2>4
<1>5. ASSUME NEW m \in Messages, Post(m) PROVE FateInv'
  <2>1. Acts(m, "lookup", "permit", actor[m].on, actor[m].permit, actor[m].pid)
    BY <1>0, <1>5, SeeksFacts DEF Post, Goals
  <2>2. Unchanging /\ actor[m].pc = "idle" /\ Owned(m)
    BY <1>5 DEF Post, At, FateInv
  <2>3. actor[m].permit = 0 /\ ~fate[m].accepted
    BY <2>2 DEF Owned, At
  <2> QED
    BY <2>1, <2>2, <2>3, OwnedMoves DEF InSession
<1>6. ASSUME NEW m \in Messages, NEW pc \in {"spawn", "queued", "start", "run", "announced", "ask", "expired"},
             Goes(m, pc), actor[m].pc \in InSession, pc = "spawn" => actor[m].pc = "preempt", Unchanging
      PROVE  FateInv'
  <2>1. Acts(m, pc, actor[m].goal, actor[m].on, actor[m].permit, actor[m].pid)
    BY <1>0, <1>6, GoesFacts DEF Places
  <2>2. Owned(m)
    BY DEF FateInv
  <2>3. pc \notin {"idle", "refused", "done", "failed", "permit", "preempt"}
    OBVIOUS
  <2> QED
    BY <1>6, <2>1, <2>2, <2>3, OwnedMoves DEF Owned
<1>7. ASSUME NEW m \in Messages, Spawn(m) PROVE FateInv'
  <2>1. Acts(m, "lookup", "lock", actor[m].on, actor[m].permit, actor[m].pid)
    BY <1>0, <1>7, SeeksFacts DEF Spawn, Goals
  <2>2. /\ actor[m].pc = "spawn" /\ UNCHANGED <<table, closed>> /\ m \in Actors
        /\ \A n \in Messages : /\ fate'[n].dropped = fate[n].dropped
                               /\ n # m => fate'[n].accepted = fate[n].accepted
    BY <1>0, <1>7 DEF Spawn, At, FateRec
  <2>3. actor[m].permit # 0 /\ Owned(m)
    BY <2>2 DEF FateInv, Owned
  <2>4. /\ actor'[m].pc = "lookup" /\ actor'[m].goal = "lock" /\ actor'[m].permit = actor[m].permit
    BY <2>1 DEF Acts
  <2>5. Owned(m)' /\ ~At(m, "failed")'
    BY <2>2, <2>3, <2>4 DEF Owned, Settled, At, InSession
  <2> QED
    BY <2>1, <2>2, <2>5, FateActs
<1>8. ASSUME NEW m \in Messages, NEW pc \in {"done", "failed"}, Leaves(m, pc), Unchanging,
             pc = "failed" /\ fate[m].accepted => fate[m].dropped
      PROVE  FateInv'
  <2>1. Acts(m, pc, "idle", 0, 0, "none")
    BY <1>0, <1>8, LeavesFacts DEF Places
  <2> QED
    BY <1>8, <2>1, OwnedMoves DEF InSession
<1>9. ASSUME NEW m \in Messages, CheckClosed(m) PROVE FateInv'
  <2>1. Unchanging /\ actor[m].pc = "queued"
    BY <1>9 DEF CheckClosed, At
  <2>2. CASE actor[m].on \in closed /\ Leaves(m, "failed")
    <3>1. fate[m].dropped
      BY <2>1, <2>2 DEF FateInv, Owned, InSession
    <3> QED
      BY <2>1, <2>2, <3>1, <1>8
  <2>3. CASE Goes(m, "start")
    BY <2>1, <2>3, <1>6 DEF InSession
  <2> QED
    BY <1>9, <2>2, <2>3 DEF CheckClosed, Ends
<1>10. ASSUME NEW m \in Messages, Finish(m) \/ Interrupt(m) PROVE FateInv'
  <2>1. Unchanging /\ Leaves(m, "done")
    BY <1>10 DEF Finish, Interrupt, Ends
  <2> QED
    BY <2>1, <1>8
<1>11. ASSUME NEW m \in Messages, Preempt(m) \/ Enqueue(m) \/ Start(m) PROVE FateInv'
  <2>1. Unchanging
    BY <1>11 DEF Preempt, Enqueue, Start
  <2>2. CASE Preempt(m)
    BY <2>1, <2>2, <1>6 DEF Preempt, At, InSession
  <2>3. CASE Enqueue(m)
    BY <2>1, <2>3, <1>6 DEF Enqueue, At, InSession
  <2>4. CASE Start(m)
    BY <2>1, <2>4, <1>6 DEF Start, At, InSession
  <2> QED
    BY <1>11, <2>2, <2>3, <2>4
<1>12. ASSUME NEW m \in Messages,
              Announce(m) \/ Register(m) \/ Receive(m) \/ Expire(m) \/ RemoveExpired(m)
       PROVE  FateInv'
  <2>1. Unchanging
    BY <1>12 DEF Announce, Register, Receive, Expire, RemoveExpired, FateRec
  <2>2. actor[m].pc \in InSession
    BY <1>12 DEF Announce, Register, Receive, Expire, RemoveExpired, At, InSession
  <2>3. \E pc \in {"announced", "ask", "run", "expired"} : Goes(m, pc)
    BY <1>12 DEF Announce, Register, Receive, Expire, RemoveExpired
  <2> HIDE DEF Unchanging
  <2> QED
    BY <2>1, <2>2, <2>3, <1>6
<1>13. CASE Answer \/ Resolve \/ ListPending \/ Delete \/ DeleteCancels \/ EvictTests
  <2>1. \A m \in Messages : actor'[m] = actor[m]
    BY <1>0, <1>13 DEF Answer, Resolve, ListPending, Delete, DeleteCancels, EvictTests,
                       Seeks, Goes, Leaves
  <2>2. UNCHANGED <<table, closed>>
    BY <1>13 DEF Answer, Resolve, ListPending, Delete, DeleteCancels, EvictTests
  <2>3. \A m \in Messages : fate'[m].dropped = fate[m].dropped /\ fate'[m].accepted = fate[m].accepted
    <3>1. CASE UNCHANGED fate
      BY <3>1
    <3>2. ASSUME NEW n, NEW d, Acknowledge(n, d)
          PROVE  \A m \in Messages : /\ fate'[m].dropped = fate[m].dropped
                                     /\ fate'[m].accepted = fate[m].accepted
      BY <3>2 DEF Acknowledge, FateRec
    <3> QED
      BY <1>13, <3>1, <3>2 DEF Answer, Resolve, ListPending, Delete, DeleteCancels, EvictTests
  <2> QED
    BY <2>1, <2>2, <2>3, FateSame
<1>14. CASE DeleteDrops \/ EvictDrops
  <2>1. \A m \in Messages : actor'[m] = actor[m]
    BY <1>0, <1>14 DEF DeleteDrops, EvictDrops, Goes, Leaves
  <2>2. DropsLoad /\ Forgotten
    BY <1>14 DEF DeleteDrops, EvictDrops
  <2>3. table' = 0 /\ table' \notin closed'
    BY <2>2 DEF DropsLoad
  <2>4. ASSUME NEW m \in Messages
        PROVE  Owned(m)' /\ (At(m, "failed")' /\ fate'[m].accepted => fate'[m].dropped)
    <3>1. Owned(m) /\ (At(m, "failed") /\ fate[m].accepted => fate[m].dropped)
      BY DEF FateInv, AcceptedFate
    <3>2. /\ fate'[m].accepted = fate[m].accepted
          /\ fate'[m].dropped <=> fate[m].dropped \/ (table # 0 /\ ~At(m, "idle") /\ ~Settled(m))
      BY <2>2 DEF Forgotten, FateRec
    <3>3. actor'[m] = actor[m]
      BY <2>1
    <3>4. actor[m].pc \in InSession => actor[m].on # 0 /\ ~At(m, "idle") /\ ~Settled(m)
      BY <1>0 DEF ActorTypes, InSession, At, Settled
    <3> HIDE DEF SessTypes
    <3> QED
      BY <2>3, <3>1, <3>2, <3>3, <3>4 DEF Owned, At, Settled
  <2> QED
    BY <2>3, <2>4 DEF FateInv, AcceptedFate
<1>15. CASE UNCHANGED sessVars
  BY <1>15, FateSame DEF sessVars
<1>16. ASSUME NEW m \in Messages, Proceed(m) PROVE FateInv'
  BY <1>0, <1>1, <1>3, <1>4, <1>7, <1>9, <1>10, <1>11, <1>12, <1>16 DEF Proceed
<1> QED
  BY <1>0, <1>2, <1>3, <1>5, <1>10, <1>12, <1>13, <1>14, <1>15, <1>16 DEF SessNext

--------------------------------------------------------------------------------
(***************************************************************************)
(* The line at a load's turn_lock: the messages that are queued at it or   *)
(* in their turn, once each, and who has left the queue is the holder.     *)
(***************************************************************************)
InLine(m) == actor[m].pc \in {"queued", "start", "run", "announced", "ask", "expired"}
Among(q, m) == \E n \in 1..Len(q) : q[n] = m
Distinct(q) == \A j, k \in 1..Len(q) : q[j] = q[k] => j = k

LineInv ==
    /\ turn_lock \in [LoadIds -> Seq(Messages)]
    /\ \A i \in LoadIds : Distinct(turn_lock[i])
    /\ \A i \in LoadIds : \A m \in Messages :
          Among(turn_lock[i], m) <=> InLine(m) /\ actor[m].on = i
    /\ \A m \in Messages : InLine(m) /\ ~At(m, "queued") => Holds(m)
    /\ \A m \in Messages : InLine(m) \/ At(m, "lock") \/ actor[m].goal = "lock" =>
          fate[m].accepted

LEMMA LastInLine ==
    ASSUME NEW S, NEW q \in Seq(S), NEW x \in S, Distinct(q), ~Among(q, x)
    PROVE  /\ Append(q, x) \in Seq(S) /\ Distinct(Append(q, x))
           /\ \A y \in S : Among(Append(q, x), y) <=> Among(q, y) \/ y = x
           /\ q # <<>> => Append(q, x) # <<>> /\ Head(Append(q, x)) = Head(q)
<1>1. /\ Len(q) \in Nat /\ Len(Append(q, x)) = Len(q) + 1 /\ Append(q, x)[Len(q) + 1] = x
      /\ \A i \in 1..Len(q) : Append(q, x)[i] = q[i]
      /\ Append(q, x) \in Seq(S)
  OBVIOUS
<1>2. 1..(Len(q) + 1) = (1..Len(q)) \union {Len(q) + 1}
  BY <1>1
<1> DEFINE l == Append(q, x)
<1>3. /\ DOMAIN q = 1..Len(q) /\ q # <<>> => 1 \in 1..Len(q)
      /\ q # <<>> => l # <<>> /\ Head(l) = Head(q)
  BY <1>1
<1>4. \A y \in S : Among(l, y) <=> Among(q, y) \/ y = x
  BY <1>1, <1>2 DEF Among
<1>5. Distinct(l)
  BY <1>1, <1>2 DEF Distinct, Among
<1> QED
  BY <1>1, <1>3, <1>4, <1>5

LEMMA FirstLeaves ==
    ASSUME NEW S, NEW q \in Seq(S), q # <<>>, Distinct(q)
    PROVE  /\ Tail(q) \in Seq(S) /\ Distinct(Tail(q))
           /\ \A y \in S : Among(Tail(q), y) <=> Among(q, y) /\ y # Head(q)
<1>1. /\ Len(q) \in Nat \ {0} /\ Len(Tail(q)) = Len(q) - 1 /\ Head(q) = q[1]
      /\ \A i \in 1..(Len(q) - 1) : Tail(q)[i] = q[i + 1]
      /\ Tail(q) \in Seq(S)
  OBVIOUS
<1>2. ASSUME NEW j \in 1..(Len(q) - 1), NEW k \in 1..(Len(q) - 1), Tail(q)[j] = Tail(q)[k]
      PROVE  j = k
  <2>1. q[j + 1] = q[k + 1] /\ j + 1 \in 1..Len(q) /\ k + 1 \in 1..Len(q)
    BY <1>1, <1>2
  <2>2. j + 1 = k + 1
    BY <2>1 DEF Distinct
  <2> QED
    BY <2>2
<1>3. Distinct(Tail(q))
  BY <1>1, <1>2 DEF Distinct
<1>4. ASSUME NEW y, Among(Tail(q), y) PROVE Among(q, y) /\ y # Head(q)
  <2>1. PICK n \in 1..(Len(q) - 1) : Tail(q)[n] = y
    BY <1>1, <1>4 DEF Among
  <2>2. q[n + 1] = y /\ n + 1 \in 1..Len(q) /\ 1 \in 1..Len(q) /\ n + 1 # 1
    BY <1>1, <2>1
  <2> QED
    BY <1>1, <2>2 DEF Among, Distinct
<1>5. ASSUME NEW y, Among(q, y), y # Head(q) PROVE Among(Tail(q), y)
  <2>1. PICK n \in 1..Len(q) : q[n] = y
    BY <1>5 DEF Among
  <2>2. n - 1 \in 1..(Len(q) - 1) /\ Tail(q)[n - 1] = y
    <3>1. n # 1
      BY <1>1, <1>5, <2>1
    <3>2. n - 1 \in 1..(Len(q) - 1) /\ (n - 1) + 1 = n
      BY <1>1, <3>1
    <3> QED
      BY <1>1, <2>1, <3>2
  <2> QED
    BY <1>1, <2>2 DEF Among
<1> QED
  BY <1>1, <1>3, <1>4, <1>5

(* What a message keeps of its place in line, and what it must have to take one. *)
InOrder(m) ==
    /\ InLine(m)' <=> InLine(m)
    /\ InLine(m)' => actor'[m].on = actor[m].on /\ (~At(m, "queued")' => Holds(m))
    /\ InLine(m)' \/ At(m, "lock")' \/ actor'[m].goal = "lock" => fate'[m].accepted

LEMMA InLineKept ==
    ASSUME LineInv, UNCHANGED turn_lock, \A m \in Messages : InOrder(m) PROVE LineInv'
BY DEF LineInv, InOrder, Holds

LEMMA LineActs ==
    ASSUME LineInv, UNCHANGED turn_lock, NEW m \in Messages,
           NEW pc, NEW goal, NEW on, NEW permit, NEW pid, Acts(m, pc, goal, on, permit, pid),
           \A n \in Messages : n # m => fate'[n].accepted = fate[n].accepted,
           InOrder(m)
    PROVE  LineInv'
<1>1. \A n \in Messages \ {m} : actor'[n] = actor[n]
  BY DEF Acts, Actors
<1>2. \A n \in Messages \ {m} : InOrder(n)
  BY <1>1 DEF LineInv, InOrder, InLine, At
<1> QED
  BY <1>2, InLineKept

(* Steps of the handlers and those that only look. *)
LEMMA InLineSame ==
    ASSUME LineInv, UNCHANGED turn_lock, \A m \in Messages : actor'[m] = actor[m],
           \A m \in Messages : fate'[m].accepted = fate[m].accepted
    PROVE  LineInv'
<1>1. \A m \in Messages : InOrder(m)
  BY DEF LineInv, InOrder, InLine, At
<1> QED
  BY <1>1, InLineKept

LEMMA LineEnds ==
    ASSUME SessTypes, LineInv, UNCHANGED fate, NEW m \in Messages, InLine(m), Holds(m),
           NEW pc \in {"done", "failed"}, Ends(m, pc)
    PROVE  LineInv'
<1> DEFINE i == actor[m].on
           q == turn_lock[i]
<1>0. /\ actor \in [Actors -> ActorRec] /\ Messages \subseteq Actors
      /\ i \in LoadIds
  BY DEF SessTypes, ActorTypes, ActorRec, InLine, InSession, Actors
<1>1. Acts(m, pc, "idle", 0, 0, "none")
  BY <1>0, LeavesFacts DEF Ends, Places
<1>2. /\ actor'[m].pc = pc /\ actor'[m].goal = "idle"
      /\ \A n \in Messages \ {m} : actor'[n] = actor[n]
  BY <1>0, <1>1 DEF Acts
<1>3. q \in Seq(Messages) /\ q # <<>> /\ Head(q) = m /\ Distinct(q)
  BY <1>0 DEF LineInv, Holds
<1>4. /\ turn_lock' = [turn_lock EXCEPT ![i] = Tail(q)]
      /\ turn_lock \in [LoadIds -> Seq(Messages)]
  BY DEF Ends, LineInv
<1> HIDE DEF i, q
<1>5. /\ Tail(q) \in Seq(Messages) /\ Distinct(Tail(q))
      /\ \A y \in Messages : Among(Tail(q), y) <=> Among(q, y) /\ y # m
  BY <1>3, FirstLeaves
<1>6. /\ turn_lock' \in [LoadIds -> Seq(Messages)] /\ turn_lock'[i] = Tail(q)
      /\ \A j \in LoadIds \ {i} : turn_lock'[j] = turn_lock[j]
  BY <1>0, <1>4, <1>5
<1>7. \A j \in LoadIds : Distinct(turn_lock'[j])
  BY <1>5, <1>6 DEF LineInv
<1>8. ~InLine(m)' /\ ~At(m, "lock")'
  BY <1>2 DEF InLine, At
<1>9. ASSUME NEW j \in LoadIds, NEW n \in Messages
      PROVE  Among(turn_lock'[j], n) <=> InLine(n)' /\ actor'[n].on = j
  <2>1. CASE n = m
    <3>1. j # i => ~Among(turn_lock[j], m)
      BY DEF LineInv, i
    <3> QED
      BY <1>5, <1>6, <1>8, <2>1, <3>1
  <2>2. CASE n # m
    <3>1. actor'[n] = actor[n] /\ (InLine(n)' <=> InLine(n))
      BY <1>2, <2>2 DEF InLine
    <3>2. Among(turn_lock'[j], n) <=> Among(turn_lock[j], n)
      BY <1>5, <1>6, <2>2 DEF q
    <3> QED
      BY <3>1, <3>2 DEF LineInv
  <2> QED
    BY <2>1, <2>2
<1>10. ASSUME NEW n \in Messages, InLine(n)', ~At(n, "queued")' PROVE Holds(n)'
  <2>1. n # m /\ actor'[n] = actor[n] /\ InLine(n) /\ ~At(n, "queued")
    BY <1>2, <1>8, <1>10 DEF InLine, At
  <2>2. Holds(n) /\ actor[n].on \in LoadIds
    BY <1>0, <2>1 DEF LineInv, InLine, InSession, SessTypes, ActorTypes, ActorRec
  <2>3. actor[n].on # i
    BY <1>3, <2>1, <2>2 DEF Holds, q
  <2> QED
    BY <1>6, <2>1, <2>2, <2>3 DEF Holds
<1>11. \A n \in Messages : InLine(n)' \/ At(n, "lock")' \/ actor'[n].goal = "lock" =>
           fate'[n].accepted
  <2>1. \A n \in Messages \ {m} : /\ InLine(n)' <=> InLine(n)
                                  /\ At(n, "lock")' <=> At(n, "lock")
                                  /\ actor'[n].goal = actor[n].goal
    BY <1>2 DEF InLine, At
  <2> QED
    BY <1>2, <1>8, <2>1 DEF LineInv
<1> QED
  BY <1>6, <1>7, <1>9, <1>10, <1>11 DEF LineInv

LEMMA LineJoins ==
    ASSUME SessTypes, LineInv, NEW m \in Messages, Enqueue(m) PROVE LineInv'
<1> DEFINE i == actor[m].on
           q == turn_lock[i]
<1>0. /\ actor \in [Actors -> ActorRec] /\ Messages \subseteq Actors
      /\ i \in LoadIds /\ ~InLine(m) /\ fate[m].accepted /\ UNCHANGED fate
  BY DEF SessTypes, ActorTypes, ActorRec, InLine, InSession, Actors, Enqueue, At, LineInv
<1>1. Acts(m, "queued", actor[m].goal, i, actor[m].permit, actor[m].pid)
  BY <1>0, GoesFacts DEF Enqueue, Places
<1>2. /\ actor'[m].pc = "queued" /\ actor'[m].on = i
      /\ \A n \in Messages \ {m} : actor'[n] = actor[n]
  BY <1>0, <1>1 DEF Acts
<1>3. q \in Seq(Messages) /\ Distinct(q) /\ ~Among(q, m)
  BY <1>0 DEF LineInv
<1>4. /\ turn_lock' = [turn_lock EXCEPT ![i] = Append(q, m)]
      /\ turn_lock \in [LoadIds -> Seq(Messages)]
  BY DEF Enqueue, LineInv
<1> HIDE DEF i, q
<1>5. /\ Append(q, m) \in Seq(Messages) /\ Distinct(Append(q, m))
      /\ \A y \in Messages : Among(Append(q, m), y) <=> Among(q, y) \/ y = m
      /\ q # <<>> => Append(q, m) # <<>> /\ Head(Append(q, m)) = Head(q)
  BY <1>3, LastInLine
<1>6. /\ turn_lock' \in [LoadIds -> Seq(Messages)] /\ turn_lock'[i] = Append(q, m)
      /\ \A j \in LoadIds \ {i} : turn_lock'[j] = turn_lock[j]
  BY <1>0, <1>4, <1>5
<1>7. \A j \in LoadIds : Distinct(turn_lock'[j])
  BY <1>5, <1>6 DEF LineInv
<1>8. InLine(m)' /\ At(m, "queued")'
  BY <1>2 DEF InLine, At
<1>9. ASSUME NEW j \in LoadIds, NEW n \in Messages
      PROVE  Among(turn_lock'[j], n) <=> InLine(n)' /\ actor'[n].on = j
  <2>1. CASE n = m
    <3>1. ~Among(turn_lock[j], m)
      BY <1>0 DEF LineInv
    <3> QED
      BY <1>2, <1>5, <1>6, <1>8, <2>1, <3>1
  <2>2. CASE n # m
    <3>1. actor'[n] = actor[n] /\ (InLine(n)' <=> InLine(n))
      BY <1>2, <2>2 DEF InLine
    <3>2. Among(turn_lock'[j], n) <=> Among(turn_lock[j], n)
      BY <1>5, <1>6, <2>2 DEF q
    <3> QED
      BY <3>1, <3>2 DEF LineInv
  <2> QED
    BY <2>1, <2>2
<1>10. ASSUME NEW n \in Messages, InLine(n)', ~At(n, "queued")' PROVE Holds(n)'
  <2>1. actor'[n] = actor[n] /\ InLine(n) /\ ~At(n, "queued")
    BY <1>2, <1>8, <1>10 DEF InLine, At
  <2>2. Holds(n) /\ actor[n].on \in LoadIds
    BY <1>0, <2>1 DEF LineInv, InLine, InSession, SessTypes, ActorTypes, ActorRec
  <2> QED
    BY <1>5, <1>6, <2>1, <2>2 DEF Holds, q
<1>11. \A n \in Messages : InLine(n)' \/ At(n, "lock")' \/ actor'[n].goal = "lock" =>
           fate'[n].accepted
  <2>1. \A n \in Messages \ {m} : /\ InLine(n)' <=> InLine(n)
                                  /\ At(n, "lock")' <=> At(n, "lock")
                                  /\ actor'[n].goal = actor[n].goal
    BY <1>2 DEF InLine, At
  <2> QED
    BY <1>0, <2>1 DEF LineInv
<1> QED
  BY <1>6, <1>7, <1>9, <1>10, <1>11 DEF LineInv

(* Steps of the handlers, and the one nobody takes: no message moves. *)
SessIdles ==
    \/ \E a \in {"delete", "answer"} : Lookup(a) \/ Insert(a)
    \/ Answer \/ Resolve \/ ListPending
    \/ Delete \/ DeleteCancels \/ DeleteDrops \/ EvictTests \/ EvictDrops
    \/ UNCHANGED sessVars

LEMMA IdlesFacts ==
    ASSUME SessTypes, SessIdles
    PROVE  /\ UNCHANGED turn_lock
           /\ \A m \in Messages : /\ actor'[m] = actor[m]
                                  /\ fate'[m].accepted = fate[m].accepted
                                  /\ fate[m].dropped => fate'[m].dropped
                                  /\ fate'[m].dropped /\ ~fate[m].dropped =>
                                        ~Settled(m) /\ ~At(m, "idle")
<1>0. /\ Messages \subseteq Actors /\ {"delete", "evict", "answer"} \subseteq Actors
      /\ actor \in [Actors -> ActorRec] /\ \A m \in Messages : m \notin {"delete", "evict", "answer"}
      /\ fate \in [Messages -> FateRec]
  BY SessAssumption DEF Actors, Handlers, SessTypes, ActorTypes
<1>1. UNCHANGED turn_lock
  BY DEF SessIdles, Lookup, Insert, Answer, Resolve, ListPending, Delete, DeleteCancels,
         DeleteDrops, EvictTests, EvictDrops, sessVars
<1>2. \A m \in Messages : actor'[m] = actor[m]
  <2>1. ASSUME NEW a \in {"delete", "answer"}, Lookup(a) \/ Insert(a)
        PROVE  \A m \in Messages : actor'[m] = actor[m]
    <3>1. \A b \in Actors \ {a} : actor'[b] = actor[b]
      BY <1>0, <2>1, LookupActs, InsertActs DEF Acts
    <3> QED
      BY <1>0, <2>1, <3>1
  <2>2. CASE Answer \/ Resolve \/ ListPending \/ Delete \/ DeleteCancels
    BY <1>0, <2>2 DEF Answer, Resolve, ListPending, Delete, DeleteCancels, Seeks, Goes, Leaves
  <2>3. CASE EvictTests \/ DeleteDrops \/ EvictDrops
    BY <1>0, <2>3 DEF DeleteDrops, EvictTests, EvictDrops, Goes, Leaves
  <2>4. CASE UNCHANGED sessVars
    BY <2>4 DEF sessVars
  <2> QED
    BY <2>1, <2>2, <2>3, <2>4 DEF SessIdles
<1>3. CASE UNCHANGED fate
  BY <1>1, <1>2, <1>3
<1>4. CASE Resolve
  <2>1. ASSUME NEW n, NEW d, Acknowledge(n, d)
        PROVE  \A m \in Messages : /\ fate'[m].dropped = fate[m].dropped
                                   /\ fate'[m].accepted = fate[m].accepted
    BY <1>0, <2>1 DEF Acknowledge, FateRec
  <2>2. \/ UNCHANGED fate
        \/ \E d \in Decisions : Acknowledge(actor["answer"].pid, d)
    BY <1>4 DEF Resolve
  <2> QED
    BY <1>1, <1>2, <1>3, <2>1, <2>2
<1>5. CASE DeleteDrops \/ EvictDrops
  <2>1. Forgotten
    BY <1>5 DEF DeleteDrops, EvictDrops
  <2>2. \A m \in Messages :
            /\ fate'[m].accepted = fate[m].accepted
            /\ fate'[m].dropped <=> fate[m].dropped \/ (table # 0 /\ ~At(m, "idle") /\ ~Settled(m))
    BY <1>0, <2>1 DEF Forgotten, FateRec
  <2> QED
    BY <1>1, <1>2, <2>2
<1>6. UNCHANGED fate \/ Resolve \/ DeleteDrops \/ EvictDrops
  BY DEF SessIdles, Lookup, Insert, Answer, ListPending, Delete, DeleteCancels, EvictTests, sessVars
<1> QED
  BY <1>3, <1>4, <1>5, <1>6

LEMMA InitInLine == SessInit => LineInv
<1> SUFFICES ASSUME SessInit PROVE LineInv
  OBVIOUS
<1>1. \A m \in Messages : actor[m] = Idling
  BY DEF SessInit, Actors
<1>2. turn_lock = [i \in LoadIds |-> <<>>]
  BY DEF SessInit
<1>3. \A i \in LoadIds : turn_lock[i] = <<>> /\ Distinct(<<>>) /\ \A m : ~Among(<<>>, m)
  BY <1>2 DEF Distinct, Among
<1> QED
  BY <1>1, <1>2, <1>3 DEF LineInv, InLine, Idling, At

LEMMA NextLine ==
    ASSUME SessTypes, FateInv, LineInv, [SessNext]_sessVars PROVE LineInv'
<1>0. /\ Messages \subseteq Actors /\ {"delete", "evict", "answer"} \subseteq Actors
      /\ actor \in [Actors -> ActorRec] /\ \A m \in Messages : m \notin {"delete", "evict", "answer"}
      /\ fate \in [Messages -> FateRec]
  BY SessAssumption DEF Actors, Handlers, SessTypes, ActorTypes
<1> DEFINE Unchanging == /\ UNCHANGED turn_lock
                         /\ \A m \in Messages : fate'[m].accepted = fate[m].accepted
<1>1. ASSUME NEW m \in Messages, NEW pc, NEW goal, NEW on, NEW permit, NEW pid,
             Acts(m, pc, goal, on, permit, pid), Unchanging, ~InLine(m),
             pc \notin {"queued", "start", "run", "announced", "ask", "expired"},
             pc = "lock" \/ goal = "lock" => fate[m].accepted
      PROVE  LineInv'
  <2>1. InOrder(m)
    BY <1>0, <1>1 DEF InOrder, InLine, At, Acts
  <2> QED
    BY <1>1, <2>1, LineActs
<1>2. ASSUME NEW m \in Messages, Lookup(m) PROVE LineInv'
  <2> DEFINE at == actor[m]
  <2>1. Unchanging /\ m \in Actors /\ at.pc = "lookup" /\ ~InLine(m)
    BY <1>0, <1>2, LookupActs DEF Lookup, At, InLine
  <2>2. at.goal \in Goals /\ (at.goal = "lock" => fate[m].accepted)
    BY <1>0, ActorFields DEF LineInv
  <2> HIDE DEF Unchanging
  <2>3. CASE Acts(m, at.goal, "idle", table, at.permit, at.pid)
    BY <1>1, <2>1, <2>2, <2>3 DEF Goals
  <2>4. CASE Acts(m, "restoring", at.goal, at.on, at.permit, at.pid)
    BY <1>1, <2>1, <2>2, <2>4
  <2>5. ASSUME NEW pc \in {"idle", "failed"}, Acts(m, pc, "idle", 0, 0, "none") PROVE LineInv'
    BY <1>1, <2>1, <2>5
  <2>6. ASSUME NEW pc \in {"spawn", "drop"}, Acts(m, pc, at.goal, at.on, at.permit, at.pid)
        PROVE  LineInv'
    BY <1>1, <2>1, <2>2, <2>6
  <2> QED
    BY <1>0, <1>2, LookupActs, <2>3, <2>4, <2>5, <2>6
<1>3. ASSUME NEW m \in Messages, Insert(m) PROVE LineInv'
  <2>1. Unchanging /\ ~InLine(m)
    BY <1>3 DEF Insert, At, InLine
  <2>2. actor[m].goal \in Goals /\ (actor[m].goal = "lock" => fate[m].accepted)
    BY <1>0, ActorFields DEF LineInv
  <2>3. Acts(m, actor[m].goal, "idle", table', actor[m].permit, actor[m].pid)
    BY <1>0, <1>3, InsertActs
  <2> HIDE DEF Unchanging
  <2> QED
    BY <1>1, <2>1, <2>2, <2>3 DEF Goals
<1>4. ASSUME NEW m \in Messages, TakePermit(m) PROVE LineInv'
  <2>1. Unchanging /\ ~InLine(m)
    BY <1>4 DEF TakePermit, At, InLine
  <2> HIDE DEF Unchanging
  <2>2. CASE Acts(m, "refused", "idle", 0, 0, "none")
    BY <1>1, <2>1, <2>2
  <2>3. ASSUME NEW pc \in {"lookup", "spawn"},
               Acts(m, pc, "preempt", actor[m].on, actor[m].on, actor[m].pid)
        PROVE  LineInv'
    BY <1>1, <2>1, <2>3
  <2> QED
    BY <1>4, TakePermitActs, <2>2, <2>3
<1>5. ASSUME NEW m \in Messages, Post(m) \/ Preempt(m) PROVE LineInv'
  <2>1. Unchanging /\ ~InLine(m)
    BY <1>5 DEF Post, Preempt, At, InLine
  <2>2. actor[m].goal = "lock" => fate[m].accepted
    BY DEF LineInv
  <2> HIDE DEF Unchanging
  <2>3. CASE Post(m)
    <3>1. Acts(m, "lookup", "permit", actor[m].on, actor[m].permit, actor[m].pid)
      BY <1>0, <2>3, SeeksFacts DEF Post, Goals
    <3> QED
      BY <1>1, <2>1, <3>1
  <2>4. CASE Preempt(m)
    <3>1. Acts(m, "spawn", actor[m].goal, actor[m].on, actor[m].permit, actor[m].pid)
      BY <1>0, <2>4, GoesFacts DEF Preempt, Places
    <3> QED
      BY <1>1, <2>1, <2>2, <3>1
  <2> QED
    BY <1>5, <2>3, <2>4
<1>6. ASSUME NEW m \in Messages, Spawn(m) PROVE LineInv'
  <2>1. Acts(m, "lookup", "lock", actor[m].on, actor[m].permit, actor[m].pid)
    BY <1>0, <1>6, SeeksFacts DEF Spawn, Goals
  <2>2. /\ UNCHANGED turn_lock /\ fate'[m].accepted /\ ~InLine(m)
        /\ \A n \in Messages : n # m => fate'[n].accepted = fate[n].accepted
    BY <1>0, <1>6 DEF Spawn, FateRec, InLine, At
  <2>3. InOrder(m)
    BY <1>0, <2>1, <2>2 DEF InOrder, InLine, At, Acts
  <2> QED
    BY <2>1, <2>2, <2>3, LineActs
<1>7. ASSUME NEW m \in Messages, NEW pc \in {"start", "run", "announced", "ask", "expired"},
             Goes(m, pc), InLine(m), Holds(m), Unchanging
      PROVE  LineInv'
  <2>1. Acts(m, pc, actor[m].goal, actor[m].on, actor[m].permit, actor[m].pid)
    BY <1>0, <1>7, GoesFacts DEF Places
  <2>2. actor'[m].pc = pc /\ actor'[m].on = actor[m].on /\ fate'[m].accepted
    BY <1>0, <1>7, <2>1 DEF Acts, LineInv
  <2>3. InOrder(m)
    BY <1>7, <2>2 DEF InOrder, InLine, At
  <2> QED
    BY <1>7, <2>1, <2>3, LineActs
<1>8. ASSUME NEW m \in Messages, CheckClosed(m) PROVE LineInv'
  <2>1. InLine(m) /\ Holds(m) /\ UNCHANGED fate
    BY <1>8 DEF CheckClosed, At, InLine
  <2>2. CASE Ends(m, "failed")
    BY <2>1, <2>2, LineEnds
  <2>3. CASE Goes(m, "start") /\ UNCHANGED turn_lock
    BY <1>7, <2>1, <2>3
  <2> QED
    BY <1>8, <2>2, <2>3 DEF CheckClosed
<1>9. ASSUME NEW m \in Messages, Finish(m) \/ Interrupt(m) PROVE LineInv'
  <2>1. InLine(m) /\ Holds(m) /\ UNCHANGED fate /\ Ends(m, "done")
    BY <1>9 DEF Finish, Interrupt, At, InTurn, InLine, LineInv
  <2> QED
    BY <2>1, LineEnds
<1>10. ASSUME NEW m \in Messages,
              Start(m) \/ Announce(m) \/ Register(m) \/ Receive(m) \/ Expire(m) \/ RemoveExpired(m)
       PROVE  LineInv'
  <2>1. Unchanging
    BY <1>0, <1>10 DEF Start, Announce, Register, Receive, Expire, RemoveExpired, FateRec
  <2>2. InLine(m) /\ Holds(m)
    BY <1>10 DEF Start, Announce, Register, Receive, Expire, RemoveExpired, At, InLine, LineInv
  <2>3. \E pc \in {"announced", "ask", "run", "expired"} : Goes(m, pc)
    BY <1>10 DEF Start, Announce, Register, Receive, Expire, RemoveExpired
  <2> HIDE DEF Unchanging
  <2> QED
    BY <2>1, <2>2, <2>3, <1>7
<1>11. ASSUME NEW m \in Messages, Proceed(m) PROVE LineInv'
  BY <1>2, <1>3, <1>4, <1>5, <1>6, <1>8, <1>9, <1>10, <1>11, LineJoins DEF Proceed
<1>12. ASSUME SessIdles PROVE LineInv'
  BY <1>12, IdlesFacts, InLineSame
<1> QED
  BY <1>5, <1>9, <1>10, <1>11, <1>12 DEF SessNext, SessIdles

--------------------------------------------------------------------------------
(***************************************************************************)
(* The queue of messages that the session is to its clients.               *)
(***************************************************************************)
TurnsInv == SessTypes /\ FateInv /\ LineInv

Unmoved(m) == QueueStatus(m)' = QueueStatus(m)
SameDropped == \A m \in Messages : fate'[m].dropped = fate[m].dropped

LEMMA Dropped ==
    ASSUME SameDropped
    PROVE  {m \in Messages : fate'[m].dropped} = {m \in Messages : fate[m].dropped}
BY DEF SameDropped

(* One message changes its status. *)
LEMMA StatusMoves ==
    ASSUME NEW m \in Messages, NEW from, NEW to, QueueStatus(m) = from, QueueStatus(m)' = to,
           \A n \in Messages \ {m} : Unmoved(n)
    PROVE  Queue!Becomes(m, from, to)
BY DEF Queue!Becomes, Unmoved

LEMMA OthersUnmoved ==
    ASSUME NEW m \in Messages, \A n \in Messages \ {m} : actor'[n] = actor[n],
           \A n \in Messages \ {m} : fate'[n].accepted = fate[n].accepted
    PROVE  \A n \in Messages \ {m} : Unmoved(n)
BY DEF Unmoved, QueueStatus, At, InTurn

(* A message that is on its way, in its turn or ended stays so. *)
Early == {"idle", "lookup", "restoring", "permit", "preempt", "spawn", "lock", "cancel",
          "drop", "resolve"}
RunsTurn == {"start", "run", "announced", "ask", "expired"}

LEMMA StatusFacts ==
    ASSUME SessTypes, NEW m \in Messages
    PROVE  /\ actor[m].pc \in Early =>
                 QueueStatus(m) = IF fate[m].accepted THEN "accepted" ELSE "new"
           /\ actor[m].pc \in RunsTurn <=> QueueStatus(m) = "running"
           /\ actor[m].pc = "queued" <=> QueueStatus(m) = "waiting"
           /\ actor[m].pc = "done" => QueueStatus(m) = "done"
           /\ actor[m].pc = "refused" => QueueStatus(m) = "refused"
           /\ actor[m].pc = "failed" =>
                 QueueStatus(m) = IF fate[m].accepted THEN "lost" ELSE "refused"
           /\ QueueStatus(m) \in {"refused", "done", "lost"} => Settled(m)
<1>1. actor[m].pc \in Places
  BY DEF SessTypes, ActorTypes, ActorRec, Actors
<1> QED
  BY <1>1 DEF QueueStatus, At, InTurn, Early, RunsTurn, Settled, Places

LEMMA StatusNext ==
    ASSUME SessTypes', NEW m \in Messages
    PROVE  /\ actor'[m].pc \in Early =>
                 QueueStatus(m)' = IF fate'[m].accepted THEN "accepted" ELSE "new"
           /\ actor'[m].pc \in RunsTurn => QueueStatus(m)' = "running"
           /\ actor'[m].pc = "queued" => QueueStatus(m)' = "waiting"
           /\ actor'[m].pc = "done" => QueueStatus(m)' = "done"
           /\ actor'[m].pc = "refused" => QueueStatus(m)' = "refused"
           /\ actor'[m].pc = "failed" =>
                 QueueStatus(m)' = IF fate'[m].accepted THEN "lost" ELSE "refused"
<1>1. actor'[m].pc \in Places
  BY DEF SessTypes, ActorTypes, ActorRec, Actors
<1> QED
  BY <1>1 DEF QueueStatus, At, InTurn, Early, RunsTurn, Places

LEMMA QueueInit == SessInit => Queue!Init
<1> SUFFICES ASSUME SessInit PROVE Queue!Init
  OBVIOUS
<1>1. \A m \in Messages : actor[m] = Idling /\ fate[m] = Unborn
  BY DEF SessInit, Actors
<1>2. \A m \in Messages : QueueStatus(m) = "new" /\ ~fate[m].dropped
  BY <1>1 DEF QueueStatus, At, InTurn, Idling, Unborn
<1>3. {m \in Messages : fate[m].dropped} = {}
  BY <1>2
<1> QED
  BY <1>2, <1>3 DEF Queue!Init, SessInit

(* A step of a message that the clients do not see. *)
LEMMA QueueStutters ==
    ASSUME UNCHANGED turn_lock, SameDropped, \A m \in Messages : Unmoved(m)
    PROVE  UNCHANGED Queue!vars
BY Dropped DEF Queue!vars, Unmoved

LEMMA QueueEarly ==
    ASSUME TurnsInv, SessTypes', FateInv', NEW m \in Messages, UNCHANGED <<turn_lock, fate>>,
           NEW pc, NEW goal, NEW on, NEW permit, NEW pid, Acts(m, pc, goal, on, permit, pid),
           actor[m].pc \in Early, pc \in Early \union {"refused", "failed"},
           pc = "refused" => ~fate[m].accepted
    PROVE  Queue!Next \/ UNCHANGED Queue!vars
<1>0. /\ actor'[m].pc = pc /\ \A n \in Messages \ {m} : actor'[n] = actor[n]
      /\ SameDropped
  BY DEF Acts, Actors, SameDropped
<1>1. \A n \in Messages \ {m} : Unmoved(n)
  BY <1>0, OthersUnmoved
<1>2. QueueStatus(m) = IF fate[m].accepted THEN "accepted" ELSE "new"
  BY StatusFacts DEF TurnsInv
<1>3. {n \in Messages : fate'[n].dropped} = {n \in Messages : fate[n].dropped}
  BY <1>0, Dropped
<1>4. CASE pc \in Early
  <2>1. Unmoved(m)
    BY <1>0, <1>2, <1>4, StatusNext DEF Unmoved
  <2> QED
    BY <1>0, <1>1, <2>1, QueueStutters
<1>5. CASE pc \in {"refused", "failed"} /\ ~fate[m].accepted
  <2>1. QueueStatus(m)' = "refused" /\ QueueStatus(m) = "new"
    BY <1>0, <1>2, <1>5, StatusNext
  <2>2. Queue!Becomes(m, "new", "refused")
    BY <1>1, <2>1, StatusMoves
  <2>3. Queue!Refuse(m)
    BY <1>3, <2>2 DEF Queue!Refuse
  <2> QED
    BY <2>3 DEF Queue!Next
<1>6. CASE pc = "failed" /\ fate[m].accepted
  <2>1. QueueStatus(m)' = "lost" /\ QueueStatus(m) = "accepted"
    BY <1>0, <1>2, <1>6, StatusNext
  <2>2. Queue!Becomes(m, "accepted", "lost")
    BY <1>1, <2>1, StatusMoves
  <2>3. fate[m].dropped
    BY <1>0, <1>6 DEF FateInv, AcceptedFate, At
  <2>4. Queue!LoseEarly(m)
    BY <1>3, <2>2, <2>3 DEF Queue!LoseEarly
  <2> QED
    BY <2>4 DEF Queue!Next
<1> QED
  BY <1>4, <1>5, <1>6

LEMMA QueueJoins ==
    ASSUME TurnsInv, SessTypes', NEW m \in Messages, Enqueue(m) PROVE Queue!Next
<1> DEFINE i == actor[m].on
<1>0. /\ actor \in [Actors -> ActorRec] /\ m \in Actors /\ UNCHANGED fate
      /\ actor[m].pc = "lock" /\ i \in LoadIds /\ fate[m].accepted
  BY DEF TurnsInv, SessTypes, ActorTypes, ActorRec, InSession, Actors, Enqueue, At, LineInv
<1>1. Acts(m, "queued", actor[m].goal, i, actor[m].permit, actor[m].pid)
  BY <1>0, GoesFacts DEF Enqueue, Places
<1>2. actor'[m].pc = "queued" /\ \A n \in Messages \ {m} : actor'[n] = actor[n]
  BY <1>1 DEF Acts, Actors
<1>3. QueueStatus(m) = "accepted" /\ QueueStatus(m)' = "waiting"
  BY <1>0, <1>2, StatusFacts, StatusNext DEF TurnsInv, Early
<1>4. Queue!Becomes(m, "accepted", "waiting")
  BY <1>0, <1>2, <1>3, OthersUnmoved, StatusMoves
<1>5. Queue!Join(m, i)
  BY <1>0, <1>4 DEF Queue!Join, Enqueue
<1> QED
  BY <1>0, <1>5 DEF Queue!Next

LEMMA QueueEnds ==
    ASSUME TurnsInv, SessTypes', FateInv', NEW m \in Messages, UNCHANGED fate, InLine(m), Holds(m),
           NEW pc \in {"done", "failed"}, Ends(m, pc),
           pc = "done" <=> actor[m].pc # "queued"
    PROVE  Queue!Next
<1> DEFINE i == actor[m].on
<1>0. /\ actor \in [Actors -> ActorRec] /\ m \in Actors
      /\ i \in LoadIds /\ fate[m].accepted
  BY DEF TurnsInv, SessTypes, ActorTypes, ActorRec, InSession, Actors, LineInv, InLine
<1>1. Acts(m, pc, "idle", 0, 0, "none")
  BY <1>0, LeavesFacts DEF Ends, Places
<1>2. actor'[m].pc = pc /\ \A n \in Messages \ {m} : actor'[n] = actor[n]
  BY <1>1 DEF Acts, Actors
<1>3. Queue!Heads(m, i) /\ Queue!Steps(i)
  BY DEF Holds, Ends, Queue!Heads, Queue!Steps
<1>4. \A n \in Messages \ {m} : Unmoved(n)
  BY <1>2, OthersUnmoved
<1>5. CASE pc = "done"
  <2>1. QueueStatus(m) = "running" /\ QueueStatus(m)' = "done"
    BY <1>2, <1>5, StatusFacts, StatusNext DEF TurnsInv, InLine, RunsTurn
  <2>2. Queue!Becomes(m, "running", "done")
    BY <1>4, <2>1, StatusMoves
  <2>3. Queue!End(m, i)
    BY <1>3, <2>2 DEF Queue!End
  <2> QED
    BY <1>0, <2>3 DEF Queue!Next
<1>6. CASE pc = "failed"
  <2>1. QueueStatus(m) = "waiting" /\ QueueStatus(m)' = "lost"
    BY <1>0, <1>2, <1>6, StatusFacts, StatusNext DEF TurnsInv
  <2>2. Queue!Becomes(m, "waiting", "lost")
    BY <1>4, <2>1, StatusMoves
  <2>3. fate[m].dropped
    BY <1>0, <1>2, <1>6 DEF FateInv, AcceptedFate, At
  <2>4. Queue!LoseLate(m, i)
    BY <1>3, <2>2, <2>3 DEF Queue!LoseLate
  <2> QED
    BY <1>0, <2>4 DEF Queue!Next
<1> QED
  BY <1>5, <1>6

(* In its turn a message is seen to begin and to end. *)
LEMMA QueueRuns ==
    ASSUME TurnsInv, SessTypes', NEW m \in Messages, UNCHANGED turn_lock, SameDropped,
           \A n \in Messages : fate'[n].accepted = fate[n].accepted,
           InLine(m), Holds(m), NEW pc \in RunsTurn, Goes(m, pc)
    PROVE  Queue!Next \/ UNCHANGED Queue!vars
<1> DEFINE i == actor[m].on
<1>0. actor \in [Actors -> ActorRec] /\ m \in Actors /\ i \in LoadIds
  BY DEF TurnsInv, SessTypes, ActorTypes, ActorRec, InSession, Actors, InLine
<1>1. Acts(m, pc, actor[m].goal, i, actor[m].permit, actor[m].pid)
  BY <1>0, GoesFacts DEF RunsTurn, Places
<1>2. actor'[m].pc = pc /\ \A n \in Messages \ {m} : actor'[n] = actor[n]
  BY <1>1 DEF Acts, Actors
<1>3. QueueStatus(m)' = "running" /\ \A n \in Messages \ {m} : Unmoved(n)
  BY <1>2, StatusNext, OthersUnmoved
<1>4. CASE actor[m].pc = "queued"
  <2>1. QueueStatus(m) = "waiting"
    BY <1>4, StatusFacts DEF TurnsInv
  <2>2. Queue!Becomes(m, "waiting", "running")
    BY <1>3, <2>1, StatusMoves
  <2>3. Queue!Run(m, i)
    BY <2>2, Dropped DEF Queue!Run, Queue!Heads, Holds
  <2> QED
    BY <1>0, <2>3 DEF Queue!Next
<1>5. CASE actor[m].pc # "queued"
  <2>1. QueueStatus(m) = "running"
    BY <1>5, StatusFacts DEF TurnsInv, InLine, RunsTurn
  <2>2. Unmoved(m)
    BY <1>3, <2>1 DEF Unmoved
  <2> QED
    BY <1>3, <2>2, QueueStutters
<1> QED
  BY <1>4, <1>5

LEMMA QueueAccepts ==
    ASSUME TurnsInv, SessTypes', NEW m \in Messages, Spawn(m)
    PROVE  Queue!Next \/ UNCHANGED Queue!vars
<1>0. /\ actor \in [Actors -> ActorRec] /\ m \in Actors /\ actor[m].pc = "spawn"
      /\ fate \in [Messages -> FateRec]
  BY DEF TurnsInv, SessTypes, ActorTypes, Actors, Spawn, At
<1>1. Acts(m, "lookup", "lock", actor[m].on, actor[m].permit, actor[m].pid)
  BY <1>0, SeeksFacts DEF Spawn, Goals
<1>2. actor'[m].pc = "lookup" /\ \A n \in Messages \ {m} : actor'[n] = actor[n]
  BY <1>1 DEF Acts, Actors
<1>3. /\ fate'[m].accepted /\ SameDropped
      /\ \A n \in Messages \ {m} : fate'[n].accepted = fate[n].accepted
  BY <1>0 DEF Spawn, FateRec, SameDropped
<1>4. \A n \in Messages \ {m} : Unmoved(n)
  BY <1>2, <1>3, OthersUnmoved
<1>5. QueueStatus(m)' = "accepted"
  BY <1>2, <1>3, StatusNext DEF Early
<1>6. CASE fate[m].accepted
  <2>1. Unmoved(m)
    BY <1>0, <1>5, <1>6, StatusFacts DEF TurnsInv, Early, Unmoved
  <2> QED
    BY <1>3, <1>4, <2>1, QueueStutters DEF Spawn
<1>7. CASE ~fate[m].accepted
  <2>1. QueueStatus(m) = "new"
    BY <1>0, <1>7, StatusFacts DEF TurnsInv, Early
  <2>2. Queue!Becomes(m, "new", "accepted")
    BY <1>4, <1>5, <2>1, StatusMoves
  <2>3. Queue!Accept(m)
    BY <1>3, <2>2, Dropped DEF Queue!Accept, Spawn
  <2> QED
    BY <2>3 DEF Queue!Next
<1> QED
  BY <1>6, <1>7

LEMMA QueueDrops ==
    ASSUME TurnsInv, SessIdles PROVE Queue!Next
<1>1. UNCHANGED turn_lock /\ \A m \in Messages : Unmoved(m)
  BY IdlesFacts DEF TurnsInv, Unmoved, QueueStatus, At, InTurn
<1>2. \A m \in Messages : fate[m].dropped => fate'[m].dropped
  BY IdlesFacts DEF TurnsInv
<1>3. \A m \in Messages : fate'[m].dropped /\ ~fate[m].dropped => QueueStatus(m) \notin Queue!Ended
  BY IdlesFacts, StatusFacts DEF TurnsInv, Queue!Ended
<1>4. Queue!Drop
  BY <1>1, <1>2, <1>3 DEF Queue!Drop, Unmoved
<1> QED
  BY <1>4 DEF Queue!Next

LEMMA QueueRefines ==
    TurnsInv /\ SessTypes' /\ FateInv' /\ [SessNext]_sessVars => [Queue!Next]_Queue!vars
<1> SUFFICES ASSUME TurnsInv, SessTypes', FateInv', [SessNext]_sessVars
             PROVE  Queue!Next \/ UNCHANGED Queue!vars
  OBVIOUS
<1>0. SessTypes /\ FateInv /\ LineInv /\ Messages \subseteq Actors /\ actor \in [Actors -> ActorRec]
      /\ fate \in [Messages -> FateRec]
  BY DEF TurnsInv, Actors, SessTypes, ActorTypes
<1> DEFINE Seen == Queue!Next \/ UNCHANGED Queue!vars
<1>1. ASSUME NEW m \in Messages, Lookup(m) PROVE Seen
  <2> DEFINE at == actor[m]
  <2>1. UNCHANGED <<turn_lock, fate>> /\ at.pc \in Early /\ at.goal \in Early
    <3>1. at.goal \in Goals
      BY <1>0, ActorFields
    <3> QED
      BY <1>1, <3>1 DEF Lookup, At, Early, Goals
  <2>2. CASE Acts(m, at.goal, "idle", table, at.permit, at.pid)
    BY <2>1, <2>2, QueueEarly DEF Early
  <2>3. CASE Acts(m, "restoring", at.goal, at.on, at.permit, at.pid)
    BY <2>1, <2>3, QueueEarly DEF Early
  <2>4. ASSUME NEW pc \in {"idle", "failed"}, Acts(m, pc, "idle", 0, 0, "none") PROVE Seen
    BY <2>1, <2>4, QueueEarly DEF Early
  <2>5. ASSUME NEW pc \in {"spawn", "drop"}, Acts(m, pc, at.goal, at.on, at.permit, at.pid)
        PROVE  Seen
    BY <2>1, <2>5, QueueEarly DEF Early
  <2> QED
    BY <1>0, <1>1, LookupActs, <2>2, <2>3, <2>4, <2>5
<1>2. ASSUME NEW m \in Messages, Insert(m) PROVE Seen
  <2>1. UNCHANGED <<turn_lock, fate>> /\ actor[m].pc \in Early /\ actor[m].goal \in Early
    <3>1. actor[m].goal \in Goals
      BY <1>0, ActorFields
    <3> QED
      BY <1>2, <3>1 DEF Insert, At, Early, Goals
  <2>2. Acts(m, actor[m].goal, "idle", table', actor[m].permit, actor[m].pid)
    BY <1>0, <1>2, InsertActs
  <2> QED
    BY <2>1, <2>2, QueueEarly DEF Early
<1>3. ASSUME NEW m \in Messages, TakePermit(m) PROVE Seen
  <2>1. UNCHANGED <<turn_lock, fate>> /\ actor[m].pc \in Early /\ ~fate[m].accepted
    BY <1>0, <1>3 DEF TakePermit, At, Early, FateInv, Owned
  <2>2. CASE Acts(m, "refused", "idle", 0, 0, "none")
    BY <2>1, <2>2, QueueEarly
  <2>3. ASSUME NEW pc \in {"lookup", "spawn"},
               Acts(m, pc, "preempt", actor[m].on, actor[m].on, actor[m].pid)
        PROVE  Seen
    BY <2>1, <2>3, QueueEarly DEF Early
  <2> QED
    BY <1>0, <1>3, TakePermitActs, <2>2, <2>3
<1>4. ASSUME NEW m \in Messages, Post(m) PROVE Seen
  <2>1. Acts(m, "lookup", "permit", actor[m].on, actor[m].permit, actor[m].pid)
    BY <1>0, <1>4, SeeksFacts DEF Post, Goals
  <2> QED
    BY <1>4, <2>1, QueueEarly DEF Post, At, Early
<1>5. ASSUME NEW m \in Messages, Preempt(m) PROVE Seen
  <2>1. Acts(m, "spawn", actor[m].goal, actor[m].on, actor[m].permit, actor[m].pid)
    BY <1>0, <1>5, GoesFacts DEF Preempt, Places
  <2> QED
    BY <1>5, <2>1, QueueEarly DEF Preempt, At, Early
<1>6. ASSUME NEW m \in Messages, CheckClosed(m) PROVE Seen
  <2>1. InLine(m) /\ Holds(m) /\ UNCHANGED fate /\ actor[m].pc = "queued" /\ SameDropped
    BY <1>6 DEF CheckClosed, At, InLine, SameDropped
  <2>2. CASE Ends(m, "failed")
    BY <2>1, <2>2, QueueEnds
  <2>3. CASE Goes(m, "start") /\ UNCHANGED turn_lock
    BY <2>1, <2>3, QueueRuns DEF RunsTurn
  <2> QED
    BY <1>6, <2>2, <2>3 DEF CheckClosed
<1>7. ASSUME NEW m \in Messages, Finish(m) \/ Interrupt(m) PROVE Seen
  <2>1. /\ InLine(m) /\ actor[m].pc # "queued" /\ UNCHANGED fate /\ Ends(m, "done")
    BY <1>7 DEF Finish, Interrupt, At, InTurn, InLine
  <2>2. Holds(m)
    BY <1>0, <2>1 DEF LineInv, At
  <2> QED
    BY <2>1, <2>2, QueueEnds
<1>8. ASSUME NEW m \in Messages,
             Start(m) \/ Announce(m) \/ Register(m) \/ Receive(m) \/ Expire(m) \/ RemoveExpired(m)
      PROVE  Seen
  <2>1. /\ UNCHANGED turn_lock /\ SameDropped
        /\ \A n \in Messages : fate'[n].accepted = fate[n].accepted
    BY <1>0, <1>8 DEF Start, Announce, Register, Receive, Expire, RemoveExpired, FateRec, SameDropped
  <2>2. InLine(m) /\ actor[m].pc # "queued"
    BY <1>8 DEF Start, Announce, Register, Receive, Expire, RemoveExpired, At, InLine
  <2>3. Holds(m)
    BY <1>0, <2>2 DEF LineInv, At
  <2>4. \E pc \in RunsTurn : Goes(m, pc)
    BY <1>8 DEF Start, Announce, Register, Receive, Expire, RemoveExpired, RunsTurn
  <2> QED
    BY <2>1, <2>2, <2>3, <2>4, QueueRuns
<1>9. ASSUME NEW m \in Messages, Proceed(m) PROVE Seen
  BY <1>1, <1>2, <1>3, <1>5, <1>6, <1>7, <1>8, <1>9, QueueAccepts, QueueJoins DEF Proceed
<1>10. CASE SessIdles
  BY <1>10, QueueDrops
<1> QED
  BY <1>4, <1>7, <1>8, <1>9, <1>10 DEF SessNext, SessIdles

--------------------------------------------------------------------------------
(***************************************************************************)
(* Types: nobody holds a load, or a permit of one, that was never made.    *)
(***************************************************************************)
RangeInv ==
    /\ on_disk \in BOOLEAN /\ stopped \subseteq Messages
    /\ \A a \in Actors : actor[a].on <= made /\ actor[a].permit <= made

LEMMA RangeActs ==
    ASSUME SessTypes, SessTypes', RangeInv, NEW a \in Actors, made <= made',
           on_disk' \in BOOLEAN, stopped' \subseteq Messages,
           NEW pc, NEW goal, NEW on, NEW permit, NEW pid, Acts(a, pc, goal, on, permit, pid),
           on <= made', permit <= made'
    PROVE  RangeInv'
<1>1. made \in Nat /\ made' \in Nat
  BY SessAssumption DEF SessTypes, LoadIds
<1>2. \A b \in Actors \ {a} : actor'[b] = actor[b] /\ actor[b].on \in Nat /\ actor[b].permit \in Nat
  BY DEF Acts, SessTypes, ActorTypes, ActorRec, LoadIds
<1>3. \A b \in Actors \ {a} : actor'[b].on <= made' /\ actor'[b].permit <= made'
  BY <1>1, <1>2 DEF RangeInv
<1> QED
  BY <1>3 DEF RangeInv, Acts

LEMMA NextRange ==
    ASSUME SessTypes, SessTypes', RangeInv, [SessNext]_sessVars PROVE RangeInv'
<1>0. /\ Messages \subseteq Actors /\ {"delete", "evict", "answer"} \subseteq Actors
      /\ actor \in [Actors -> ActorRec] /\ made \in Nat
      /\ table \in Nat /\ table <= made
      /\ \A a \in Actors : actor[a].on \in Nat /\ actor[a].permit \in Nat
      /\ \A a \in Actors : actor[a].on <= made /\ actor[a].permit <= made
      /\ {"failed", "done", "start", "queued", "spawn", "run", "announced", "ask", "expired",
          "drop", "idle"} \subseteq Places
      /\ {"permit", "lock", "cancel"} \subseteq Goals
  BY SessAssumption DEF Actors, Handlers, SessTypes, ActorTypes, ActorRec, LoadIds, Places, Goals,
                        RangeInv
<1>1. ASSUME NEW a \in Actors, Lookup(a) PROVE RangeInv'
  <2>1. UNCHANGED <<made, on_disk, stopped>>
    BY <1>1 DEF Lookup
  <2>2. \E pc, goal, on, permit, pid :
            Acts(a, pc, goal, on, permit, pid) /\ on <= made /\ permit <= made
    BY <1>0, <1>1, LookupActs
  <2> QED
    BY <1>0, <2>1, <2>2, RangeActs DEF RangeInv
<1>2. ASSUME NEW a \in Actors, Insert(a) PROVE RangeInv'
  <2>1. UNCHANGED <<on_disk, stopped>>
    BY <1>2 DEF Insert
  <2>2. made <= made' /\ table' <= made' /\ made' \in Nat
    BY <1>0, <1>2, InsertActs DEF LoadIds
  <2>3. Acts(a, actor[a].goal, "idle", table', actor[a].permit, actor[a].pid)
    BY <1>2, InsertActs
  <2>4. actor[a].permit <= made'
    BY <1>0, <2>2
  <2> QED
    BY <2>1, <2>2, <2>3, <2>4, RangeActs DEF RangeInv
<1>3. ASSUME NEW m \in Messages, TakePermit(m) PROVE RangeInv'
  <2>1. UNCHANGED <<made, on_disk, stopped>>
    BY <1>3 DEF TakePermit
  <2>2. \E pc, goal, on, permit, pid :
            Acts(m, pc, goal, on, permit, pid) /\ on <= made /\ permit <= made
    BY <1>0, <1>3, TakePermitActs
  <2> QED
    BY <1>0, <2>1, <2>2, RangeActs DEF RangeInv
<1>4. ASSUME NEW a \in Actors, NEW pc \in Places, UNCHANGED made, on_disk' \in BOOLEAN,
             stopped' \subseteq Messages, Goes(a, pc) \/ Leaves(a, pc)
      PROVE  RangeInv'
  <2>1. \/ Acts(a, pc, actor[a].goal, actor[a].on, actor[a].permit, actor[a].pid)
        \/ Acts(a, pc, "idle", 0, 0, "none")
    BY <1>0, <1>4, GoesFacts, LeavesFacts
  <2> QED
    BY <1>0, <1>4, <2>1, RangeActs
<1>5. ASSUME NEW a \in Actors, NEW goal \in Goals, UNCHANGED <<made, on_disk, stopped>>,
             Seeks(a, goal)
      PROVE  RangeInv'
  <2>1. Acts(a, "lookup", goal, actor[a].on, actor[a].permit, actor[a].pid)
    BY <1>0, <1>5, SeeksFacts
  <2> QED
    BY <1>0, <1>5, <2>1, RangeActs DEF RangeInv
<1>6. ASSUME NEW m \in Messages, Post(m) \/ Spawn(m) PROVE RangeInv'
  BY <1>0, <1>5, <1>6 DEF Post, Spawn
<1>7. ASSUME NEW m \in Messages, Preempt(m) \/ Enqueue(m) PROVE RangeInv'
  <2>1. UNCHANGED <<made, on_disk>> /\ stopped' \subseteq Messages
    BY <1>7 DEF Preempt, Enqueue, CancelsOn, RangeInv
  <2>2. Goes(m, "spawn") \/ Goes(m, "queued")
    BY <1>7 DEF Preempt, Enqueue
  <2> QED
    BY <1>0, <1>4, <2>1, <2>2 DEF RangeInv
<1>8. ASSUME NEW m \in Messages, CheckClosed(m) \/ Finish(m) \/ Interrupt(m) PROVE RangeInv'
  <2>1. UNCHANGED <<made, on_disk>> /\ stopped' \subseteq Messages
    BY <1>8 DEF CheckClosed, Finish, Interrupt, Ends, RangeInv
  <2>2. Leaves(m, "failed") \/ Leaves(m, "done") \/ Goes(m, "start")
    BY <1>8 DEF CheckClosed, Finish, Interrupt, Ends
  <2> QED
    BY <1>0, <1>4, <2>1, <2>2 DEF RangeInv
<1>9. ASSUME NEW m \in Messages,
             Start(m) \/ Announce(m) \/ Register(m) \/ Receive(m) \/ Expire(m) \/ RemoveExpired(m)
      PROVE  RangeInv'
  <2>1. UNCHANGED <<made, stopped>> /\ on_disk' \in BOOLEAN
    BY <1>9 DEF Start, Announce, Register, Receive, Expire, RemoveExpired, RangeInv
  <2>2. Goes(m, "announced") \/ Goes(m, "ask") \/ Goes(m, "run") \/ Goes(m, "expired")
    BY <1>9 DEF Start, Announce, Register, Receive, Expire, RemoveExpired
  <2> QED
    BY <1>0, <1>4, <2>1, <2>2 DEF RangeInv
<1>10. CASE Answer \/ ListPending
  <2>1. UNCHANGED <<made, on_disk, stopped>>
    BY <1>10 DEF Answer, ListPending
  <2>2. \A a \in Actors : actor'[a].on = actor[a].on /\ actor'[a].permit = actor[a].permit
    <3>1. CASE Answer
      <4>1. actor["answer"] \in ActorRec
        BY <1>0
      <4>2. PICK m \in Messages : actor' = [actor EXCEPT !["answer"] =
                                      [@ EXCEPT !.pc = "lookup", !.goal = "resolve", !.pid = m]]
        BY <3>1 DEF Answer
      <4> QED
        BY <1>0, <4>1, <4>2 DEF ActorRec
    <3>2. CASE ListPending
      BY <3>2 DEF ListPending
    <3> QED
      BY <1>10, <3>1, <3>2
  <2> QED
    BY <2>1, <2>2 DEF RangeInv
<1>11. CASE Resolve \/ DeleteCancels \/ DeleteDrops \/ EvictTests \/ EvictDrops
  <2>1. UNCHANGED <<made, on_disk>> /\ stopped' \subseteq Messages
    BY <1>11 DEF Resolve, DeleteCancels, DeleteDrops, EvictTests, EvictDrops, CancelsOn, RangeInv
  <2>2. \/ Leaves("answer", "idle") \/ Goes("delete", "drop") \/ Leaves("delete", "idle")
        \/ Goes("evict", "drop") \/ Goes("evict", "idle")
    BY <1>11 DEF Resolve, DeleteCancels, DeleteDrops, EvictTests, EvictDrops
  <2> QED
    BY <1>0, <1>4, <2>1, <2>2 DEF RangeInv
<1>12. CASE Delete
  BY <1>0, <1>5, <1>12 DEF Delete
<1>13. CASE UNCHANGED sessVars
  BY <1>13 DEF sessVars, RangeInv
<1>14. ASSUME NEW m \in Messages, Proceed(m) PROVE RangeInv'
  BY <1>0, <1>1, <1>2, <1>3, <1>6, <1>7, <1>8, <1>9, <1>14 DEF Proceed
<1> QED
  BY <1>0, <1>1, <1>2, <1>6, <1>8, <1>9, <1>10, <1>11, <1>12, <1>13, <1>14 DEF SessNext

LEMMA InitRange == SessInit => RangeInv
<1> SUFFICES ASSUME SessInit PROVE RangeInv
  OBVIOUS
<1>1. \A a \in Actors : actor[a].on = 0 /\ actor[a].permit = 0
  BY DEF SessInit, Idling
<1>2. on_disk \in BOOLEAN /\ stopped \subseteq Messages /\ made = 1
  BY DEF SessInit
<1>3. \A a \in Actors : actor[a].on <= made /\ actor[a].permit <= made
  BY <1>1, <1>2
<1> QED
  BY <1>2, <1>3 DEF RangeInv

LEMMA SessionsInRange == SessTypes /\ LineInv /\ RangeInv => SessTypeOK
<1> SUFFICES ASSUME SessTypes, LineInv, RangeInv PROVE SessTypeOK
  OBVIOUS
<1>1. made \in Nat /\ closed \subseteq LoadIds
  BY SessAssumption DEF SessTypes, LoadIds
<1>2. actor \in [Actors -> [pc : Places, goal : Goals, on : 0..made, permit : 0..made,
                            pid : Messages \union {"none"}]]
  <2>1. ASSUME NEW a \in Actors
        PROVE  actor[a] \in [pc : Places, goal : Goals, on : 0..made, permit : 0..made,
                             pid : Messages \union {"none"}]
    <3>1. actor[a] \in ActorRec /\ actor[a].on <= made /\ actor[a].permit <= made
      BY DEF SessTypes, ActorTypes, RangeInv
    <3>2. actor[a].on \in 0..made /\ actor[a].permit \in 0..made
      BY <1>1, <3>1 DEF ActorRec, LoadIds
    <3> QED
      BY <3>1, <3>2 DEF ActorRec
  <2> QED
    BY <2>1 DEF SessTypes, ActorTypes
<1> QED
  BY <1>1, <1>2 DEF SessTypes, ActorTypes, LineInv, RangeInv, SessTypeOK, FateRec

--------------------------------------------------------------------------------
(* Only the load in the table may begin turns (session_mgr.rs:441-455, 828), for any *)
(* number of messages, permits and loads: two Runtimes never write one session.      *)
THEOREM OnlyOneOpens == SessSpec => []OneOpenLoad
BY InitSess, SessTypesKept, NextOpen, PTL DEF SessSpec

(* A prompt that a turn waits for can be found and answered (prompter.rs:101-136), *)
(* however answers, timeouts, sweeps, deletes and evictions overlap.               *)
THEOREM WaitersAreListed == SessSpec => []WaitingIsListed
<1>1. PromptInv => WaitingIsListed
  BY DEF PromptInv
<1> QED
  BY InitSess, SessTypesKept, NextPrompt, <1>1, PTL DEF SessSpec

(* A prompt takes one answer, and a verdict rests on it or on the timeout *)
(* (prompter.rs:138-171), for any number of turns and clients' answers.   *)
THEOREM AnswersHold == SessSpec => []AnswerHolds
<1>1. PromptInv => AnswerHolds
  BY DEF PromptInv
<1> QED
  BY InitSess, SessTypesKept, NextPrompt, <1>1, PTL DEF SessSpec

(* A message that was answered 202 (http.rs, send_message) fails only when a delete *)
(* or an eviction has come after it, for any number of messages and permits.        *)
THEOREM AcceptedIsRunOrDropped == SessSpec => []AcceptedFate
<1>1. FateInv => AcceptedFate
  BY DEF FateInv
<1> QED
  BY InitSess, SessTypesKept, NextFate, <1>1, PTL DEF SessSpec

(* The detailed session keeps the promise of MessageQueue to the clients that post  *)
(* messages (http.rs, send_message; session_mgr.rs, delete and insert_session): one *)
(* is refused or accepted, and an accepted one runs in its place in line or has     *)
(* lost its session, for any number of messages, permits and loads.                 *)
THEOREM SessionsActAsQueue == SessSpec => ActsAsQueue /\ Queue!Spec
<1>1. TurnsInv <=> SessTypes /\ FateInv /\ LineInv
  BY DEF TurnsInv
<1>2. [Queue!Next]_Queue!vars => [UNCHANGED sessVars \/ Queue!Next]_(Queue!vars)
  OBVIOUS
<1> QED
  BY InitSess, InitInLine, SessTypesKept, NextFate, NextLine, QueueInit, QueueRefines, <1>1, <1>2, PTL
     DEF SessSpec, ActsAsQueue, Queue!Spec

(* Two turns of one load never overlap (the turn_lock of send_message_boxed), *)
(* whatever cancels, deletes and restores come between them.                  *)
TurnsExclude ==
    \A m, n \in Messages :
        /\ At(m, "start") \/ InTurn(m)
        /\ At(n, "start") \/ InTurn(n)
        /\ actor[m].on = actor[n].on
        => m = n
THEOREM OneTurnPerLoad == SessSpec => []TurnsExclude
<1>1. LineInv => TurnsExclude
  BY DEF LineInv, TurnsExclude, InLine, InTurn, At, Holds
<1> QED
  BY InitSess, InitInLine, SessTypesKept, NextFate, NextLine, <1>1, PTL DEF SessSpec

(* The types of Sessions, the bounds of its loads among them. *)
THEOREM SessionsTyped == SessSpec => []SessTypeOK
BY InitSess, InitInLine, InitRange, SessTypesKept, NextFate, NextLine, NextRange, SessionsInRange, PTL
   DEF SessSpec

--------------------------------------------------------------------------------
(* Store: what the processes hold and what the files have, and what each step does to it. *)

Operations == {"append", "fork", "delete", "list", "list_sync"}
CountsOf == [Sids -> Nat]
ProcRec == [pc : {"idle", "lock"} \union Critical, op : Operations \union {"none"},
            sid : Sids \union {NoSid}, inode : Nat, gen : Nat, msg : Nat,
            loaded : CountsOf, scan : CountsOf]
FileRec == [gen : Nat, lines : Seq(Nat), torn : BOOLEAN]

StoreTypes ==
    /\ lock_file \in [Sids -> Nat] /\ inodes \in Nat /\ appends \in Nat
    /\ index \in CountsOf
    /\ file \in [Sids -> FileRec]
    /\ proc \in [Procs -> ProcRec]
    /\ \A p \in Procs : ~Is(p, "idle") => proc[p].op \in Operations
    /\ \A p \in Procs : proc[p].pc \in {"lock", "open", "write", "remove", "unlink"} => proc[p].sid \in Sids
    /\ \A p \in Procs : proc[p].op \in {"append", "fork", "delete"} => proc[p].sid \in Sids

(***************************************************************************)
(* Who has an inode open has the one that the name of the lock file leads  *)
(* to, unless the name was removed under him; and of one inode there is    *)
(* one lock.                                                               *)
(***************************************************************************)
LockInv ==
    /\ \A p \in Procs : proc[p].inode # 0 =>
          /\ proc[p].sid \in Sids
          /\ lock_file[proc[p].sid] = proc[p].inode \/ "unlinked" \in scars[proc[p].sid]
    /\ \A p, q \in Procs : p # q /\ Locked(p) /\ Locked(q) => proc[p].inode # proc[q].inode

--------------------------------------------------------------------------------
(***************************************************************************)
(* What a step changes of the process that takes it.                       *)
(***************************************************************************)
ProcStep(p, r) ==
    /\ r \in ProcRec /\ proc'[p] = r /\ \A q \in Procs \ {p} : proc'[q] = proc[q]
    /\ proc' \in [Procs -> ProcRec]

LEMMA ProcStepFacts ==
    ASSUME proc \in [Procs -> ProcRec], NEW p \in Procs, NEW r \in ProcRec,
           proc' = [proc EXCEPT ![p] = r]
    PROVE  ProcStep(p, r)
BY DEF ProcStep

LEMMA AtRestFacts ==
    /\ AtRest \in ProcRec /\ AtRest.pc = "idle" /\ AtRest.inode = 0 /\ AtRest.op = "none"
    /\ AtRest.sid = NoSid
<1>1. NoIndex \in CountsOf
  BY DEF NoIndex, CountsOf
<1> QED
  BY <1>1 DEF AtRest, ProcRec

LEMMA StoreMoves ==
    ASSUME proc \in [Procs -> ProcRec], NEW p \in Procs, NEW pc \in {"idle", "lock"} \union Critical,
           Moves(p, pc)
    PROVE  /\ proc' \in [Procs -> ProcRec]
           /\ proc'[p].pc = pc /\ proc'[p].op = proc[p].op
           /\ proc'[p].sid = proc[p].sid /\ proc'[p].inode = proc[p].inode
           /\ proc'[p].gen = proc[p].gen /\ proc'[p].msg = proc[p].msg
           /\ \A q \in Procs \ {p} : proc'[q] = proc[q]
<1> DEFINE r == [proc[p] EXCEPT !.pc = pc]
<1>1. proc[p] \in ProcRec
  OBVIOUS
<1>2. /\ r \in ProcRec /\ r.pc = pc /\ r.op = proc[p].op /\ r.sid = proc[p].sid
      /\ r.inode = proc[p].inode /\ r.gen = proc[p].gen /\ r.msg = proc[p].msg
  BY <1>1 DEF ProcRec
<1>3. proc' = [proc EXCEPT ![p] = r]
  BY DEF Moves
<1> HIDE DEF r
<1>4. ProcStep(p, r)
  BY <1>2, <1>3, ProcStepFacts
<1> QED
  BY <1>2, <1>4 DEF ProcStep

LEMMA RestsFacts ==
    ASSUME proc \in [Procs -> ProcRec], NEW p \in Procs, Rests(p)
    PROVE  ProcStep(p, AtRest)
BY AtRestFacts, ProcStepFacts DEF Rests

LEMMA OpensLockFacts ==
    ASSUME StoreTypes, NEW p \in Procs, NEW s \in Sids, NEW op \in {"append", "delete"},
           NEW msg \in Nat, OpensLock(p, s, op, msg)
    PROVE  \E inode \in Nat \ {0} :
              /\ inode = IF lock_file[s] = 0 THEN inodes + 1 ELSE lock_file[s]
              /\ lock_file' = [lock_file EXCEPT ![s] = inode] /\ inodes' \in Nat
              /\ proc' \in [Procs -> ProcRec]
              /\ proc'[p].pc = "lock" /\ proc'[p].op = op /\ proc'[p].sid = s /\ proc'[p].inode = inode
              /\ proc'[p].msg = msg
              /\ \A q \in Procs \ {p} : proc'[q] = proc[q]
<1> DEFINE inode == IF lock_file[s] = 0 THEN inodes + 1 ELSE lock_file[s]
           r == [AtRest EXCEPT !.pc = "lock", !.op = op, !.sid = s, !.inode = inode, !.msg = msg]
<1>1. inode \in Nat \ {0} /\ inodes' \in Nat
  BY DEF StoreTypes, OpensLock
<1>2. lock_file' = [lock_file EXCEPT ![s] = inode] /\ proc' = [proc EXCEPT ![p] = r]
  BY DEF OpensLock
<1> HIDE DEF inode
<1>3. r \in ProcRec /\ r.pc = "lock" /\ r.op = op /\ r.sid = s /\ r.inode = inode /\ r.msg = msg
  BY <1>1, AtRestFacts DEF ProcRec, Operations
<1> HIDE DEF r
<1>4. ProcStep(p, r)
  BY <1>2, <1>3, ProcStepFacts DEF StoreTypes
<1> QED
  BY <1>1, <1>2, <1>3, <1>4 DEF ProcStep, inode

LEMMA ScanTypes ==
    ASSUME file \in [Sids -> FileRec] PROVE [s \in Sids |-> ScanOf(file[s])] \in CountsOf
<1>1. \A s \in Sids : ScanOf(file[s]) \in Nat
  BY DEF ScanOf, FileRec
<1> QED
  BY <1>1 DEF CountsOf

LEMMA WithLineTypes ==
    ASSUME NEW f \in FileRec, NEW line \in Nat
    PROVE  WithLine(f, line) \in FileRec /\ [WithLine(f, line) EXCEPT !.torn = TRUE] \in FileRec
<1>1. (IF f.torn THEN f.lines ELSE Append(f.lines, line)) \in Seq(Nat)
  BY DEF FileRec
<1> QED
  BY <1>1 DEF WithLine, FileRec

--------------------------------------------------------------------------------
LEMMA InitStore == StoreInit => StoreTypes /\ LockInv
<1>1. NoIndex \in CountsOf /\ NoFile \in FileRec
  BY DEF NoIndex, CountsOf, NoFile, FileRec
<1>2. StoreInit => StoreTypes
  BY <1>1, AtRestFacts DEF StoreInit, StoreTypes, Is
<1>3. StoreInit => LockInv
  BY AtRestFacts DEF StoreInit, LockInv, Locked
<1> QED
  BY <1>2, <1>3

(* The places of one process may change, with the rest of the types kept. *)
ProcTypes ==
    /\ proc \in [Procs -> ProcRec]
    /\ \A p \in Procs : ~Is(p, "idle") => proc[p].op \in Operations
    /\ \A p \in Procs : proc[p].pc \in {"lock", "open", "write", "remove", "unlink"} => proc[p].sid \in Sids
    /\ \A p \in Procs : proc[p].op \in {"append", "fork", "delete"} => proc[p].sid \in Sids

LEMMA RestsKeep ==
    ASSUME ProcTypes, NEW p \in Procs, Rests(p) PROVE ProcTypes'
BY RestsFacts, AtRestFacts DEF ProcTypes, ProcStep, Is

LEMMA MovesKeep ==
    ASSUME ProcTypes, NEW p \in Procs, NEW pc \in Critical, Moves(p, pc), ~Is(p, "idle"),
           pc \in {"open", "write", "remove", "unlink"} => proc[p].sid \in Sids
    PROVE  ProcTypes'
<1>1. /\ proc' \in [Procs -> ProcRec]
      /\ proc'[p].pc = pc /\ proc'[p].op = proc[p].op /\ proc'[p].sid = proc[p].sid
      /\ \A q \in Procs \ {p} : proc'[q] = proc[q]
  BY StoreMoves DEF ProcTypes
<1>2. proc[p].op \in Operations /\ pc # "lock"
  BY DEF ProcTypes, Critical
<1> QED
  BY <1>1, <1>2 DEF ProcTypes, Is

LEMMA StepsKeep ==
    ASSUME ProcTypes, NEW p \in Procs, NEW r, ProcStep(p, r),
           r.pc # "idle" => r.op \in Operations,
           r.pc \in {"lock", "open", "write", "remove", "unlink"} => r.sid \in Sids,
           r.op \in {"append", "fork", "delete"} => r.sid \in Sids
    PROVE  ProcTypes'
BY DEF ProcTypes, ProcStep, Is

LEMMA StoreTypesKept ==
    ASSUME StoreTypes, [StoreNext]_storeVars PROVE StoreTypes'
<1> USE DEF StoreTypes
<1>0. ProcTypes /\ (ProcTypes' /\ lock_file' \in [Sids -> Nat] /\ inodes' \in Nat /\ appends' \in Nat
         /\ index' \in CountsOf /\ file' \in [Sids -> FileRec] => StoreTypes')
  BY DEF ProcTypes
<1>1. ASSUME NEW p \in Procs, BeginAppend(p) \/ BeginDelete(p) PROVE StoreTypes'
  <2>1. PICK s \in Sids, op \in {"append", "delete"}, msg \in Nat : OpensLock(p, s, op, msg)
    BY <1>1 DEF BeginAppend, BeginDelete
  <2>2. PICK inode \in Nat \ {0} :
            /\ lock_file' = [lock_file EXCEPT ![s] = inode] /\ inodes' \in Nat
            /\ proc' \in [Procs -> ProcRec]
            /\ proc'[p].pc = "lock" /\ proc'[p].op = op /\ proc'[p].sid = s
            /\ \A q \in Procs \ {p} : proc'[q] = proc[q]
    BY <2>1, OpensLockFacts
  <2>3. ProcTypes'
    BY <1>0, <2>2 DEF ProcTypes, Is, Operations
  <2> QED
    BY <1>0, <1>1, <2>2, <2>3 DEF BeginAppend, BeginDelete
<1>2. ASSUME NEW p \in Procs, Fork(p) PROVE StoreTypes'
  <2>1. PICK s \in Sids :
            /\ appends' = appends + 2
            /\ file' = [file EXCEPT ![s].lines = <<appends + 1, appends + 2>>]
            /\ proc' = [proc EXCEPT ![p] = [AtRest EXCEPT !.pc = "index", !.op = "fork", !.sid = s,
                                                          !.msg = appends + 2]]
            /\ UNCHANGED <<lock_file, inodes, index>>
    BY <1>2 DEF Fork
  <2> DEFINE r == [AtRest EXCEPT !.pc = "index", !.op = "fork", !.sid = s, !.msg = appends + 2]
  <2>2. r \in ProcRec /\ r.pc = "index" /\ r.op = "fork" /\ r.sid = s
    <3>1. appends + 2 \in Nat /\ s \in Sids \union {NoSid} /\ AtRest \in ProcRec
      BY AtRestFacts
    <3> QED
      BY <3>1 DEF ProcRec, Operations, Critical
  <2>3. proc' = [proc EXCEPT ![p] = r]
    BY <2>1
  <2> HIDE DEF r
  <2>4. ProcTypes'
    BY <1>0, <2>2, <2>3, ProcStepFacts, StepsKeep DEF Operations
  <2>5. file' \in [Sids -> FileRec]
    <3>1. [file[s] EXCEPT !.lines = <<appends + 1, appends + 2>>] \in FileRec
      <4>1. file[s] \in FileRec /\ <<appends + 1, appends + 2>> \in Seq(Nat)
        OBVIOUS
      <4> HIDE DEF StoreTypes
      <4> QED
        BY <4>1 DEF FileRec
    <3> QED
      BY <2>1, <3>1
  <2> QED
    BY <1>0, <2>1, <2>4, <2>5
<1>3. ASSUME NEW p \in Procs, Acquire(p) \/ GiveUp(p) PROVE StoreTypes'
  <2>1. ASSUME Acquire(p) PROVE ProcTypes'
    <3>1. /\ Is(p, "lock")
          /\ Moves(p, IF proc[p].op = "append" THEN "open" ELSE "remove")
      BY <2>1 DEF Acquire
    <3>2. proc[p].sid \in Sids
      BY <3>1 DEF Is
    <3> QED
      BY <1>0, <3>1, <3>2, MovesKeep DEF Is, Critical
  <2>2. ASSUME GiveUp(p) PROVE ProcTypes'
    BY <1>0, <2>2, RestsKeep DEF GiveUp
  <2> QED
    BY <1>0, <1>3, <2>1, <2>2 DEF Acquire, GiveUp, onDisk, tallies
<1>4. ASSUME NEW p \in Procs, OpenFile(p) PROVE StoreTypes'
  <2> DEFINE r == [proc[p] EXCEPT !.gen = file[proc[p].sid].gen, !.pc = "write"]
  <2>1. /\ proc[p] \in ProcRec /\ proc[p].sid \in Sids /\ proc[p].op \in Operations
        /\ file[proc[p].sid].gen \in Nat
    BY <1>4 DEF OpenFile, Is, FileRec
  <2>2. r \in ProcRec /\ r.pc = "write" /\ r.op = proc[p].op /\ r.sid = proc[p].sid
    BY <2>1 DEF ProcRec, Critical
  <2>3. proc' = [proc EXCEPT ![p] = r]
    BY <1>4, <2>1 DEF OpenFile, ProcRec
  <2> HIDE DEF r
  <2>4. ProcTypes'
    BY <1>0, <2>1, <2>2, <2>3, ProcStepFacts, StepsKeep
  <2>5. file' = file
    BY <1>4 DEF OpenFile, Opens
  <2> QED
    BY <1>0, <1>4, <2>4, <2>5 DEF OpenFile, tallies
<1>5. ASSUME NEW p \in Procs, WriteLine(p) PROVE StoreTypes'
  <2>1. /\ Is(p, "write") /\ Moves(p, "index") /\ proc[p].sid \in Sids
        /\ UNCHANGED <<lock_file, inodes, index, tallies>>
    BY <1>5 DEF WriteLine, Is
  <2>2. ProcTypes'
    BY <1>0, <2>1, MovesKeep DEF Is, Critical
  <2>3. WithLine(file[proc[p].sid], proc[p].msg) \in FileRec
    BY <2>1, WithLineTypes DEF ProcRec
  <2>4. file' = file \/ file' = [file EXCEPT ![proc[p].sid] = WithLine(file[proc[p].sid], proc[p].msg)]
    BY <1>5, <2>1 DEF WriteLine
  <2>5. file' \in [Sids -> FileRec]
    BY <2>3, <2>4
  <2> QED
    BY <1>0, <2>1, <2>2, <2>5 DEF tallies
<1>6. ASSUME NEW p \in Procs, RemoveFile(p) \/ UnlinkLock(p) PROVE StoreTypes'
  <2>1. ASSUME RemoveFile(p) PROVE StoreTypes'
    <3>1. /\ Is(p, "remove") /\ Moves(p, "index") /\ proc[p].sid \in Sids
          /\ UNCHANGED <<lock_file, inodes, index, tallies>>
          /\ file' = [file EXCEPT ![proc[p].sid] =
                         [NoFile EXCEPT !.gen = file[proc[p].sid].gen + 1]]
      BY <2>1 DEF RemoveFile, Is
    <3>2. [NoFile EXCEPT !.gen = file[proc[p].sid].gen + 1] \in FileRec
      <4>1. file[proc[p].sid].gen + 1 \in Nat /\ NoFile.lines = <<>> /\ NoFile \in FileRec
        BY <3>1 DEF NoFile, FileRec
      <4> HIDE DEF StoreTypes
      <4> QED
        BY <4>1 DEF FileRec
    <3>3. ProcTypes'
      BY <1>0, <3>1, MovesKeep DEF Is, Critical
    <3>4. file' \in [Sids -> FileRec]
      BY <3>1, <3>2
    <3> QED
      BY <1>0, <3>1, <3>3, <3>4 DEF tallies
  <2>2. ASSUME UnlinkLock(p) PROVE StoreTypes'
    <3>1. ProcTypes'
      BY <1>0, <2>2, RestsKeep DEF UnlinkLock
    <3> QED
      BY <1>0, <2>2, <3>1 DEF UnlinkLock, tallies
  <2> QED
    BY <1>6, <2>1, <2>2
<1>7. ASSUME NEW p \in Procs, IndexLoads(p) PROVE StoreTypes'
  <2> DEFINE r == [proc[p] EXCEPT !.pc = "save", !.loaded = index]
  <2>1. proc[p] \in ProcRec /\ proc[p].op \in Operations
    BY <1>7 DEF IndexLoads, Is
  <2>2. r \in ProcRec /\ r.pc = "save" /\ r.op = proc[p].op /\ r.sid = proc[p].sid
    BY <2>1 DEF ProcRec, Critical
  <2>3. proc' = [proc EXCEPT ![p] = r]
    BY <1>7, <2>1 DEF IndexLoads, ProcRec
  <2> HIDE DEF r
  <2>4. ProcTypes'
    BY <1>0, <2>1, <2>2, <2>3, ProcStepFacts, StepsKeep
  <2> QED
    BY <1>0, <1>7, <2>4 DEF IndexLoads, onDisk, tallies
<1>8. ASSUME NEW p \in Procs, IndexSaves(p) PROVE StoreTypes'
  <2>1. /\ Is(p, "save") /\ proc[p].op \in Operations /\ index' = Changed(p)
        /\ UNCHANGED <<lock_file, inodes, file, tallies>>
        /\ Rests(p) \/ (proc[p].op = "delete" /\ Moves(p, "unlink"))
    BY <1>8 DEF IndexSaves, Is, Operations
  <2>2. ProcTypes'
    BY <1>0, <2>1, RestsKeep, MovesKeep DEF Is, Critical
  <2>3. Changed(p) \in CountsOf
    <3>1. /\ proc[p].loaded \in [Sids -> Nat] /\ proc[p].scan \in [Sids -> Nat]
          /\ proc[p].sid \in Sids \union {NoSid}
      BY DEF ProcRec, CountsOf
    <3>2. CASE proc[p].op = "append"
      BY <3>1, <3>2 DEF Changed, CountsOf
    <3>3. CASE proc[p].op = "fork"
      BY <3>1, <3>3 DEF Changed, CountsOf
    <3>4. CASE proc[p].op = "delete"
      BY <3>1, <3>4 DEF Changed, CountsOf
    <3>5. CASE proc[p].op = "list"
      BY <3>1, <3>5 DEF Changed, CountsOf
    <3>6. CASE proc[p].op = "list_sync"
      BY <3>1, <3>6 DEF Changed, CountsOf
    <3> QED
      BY <2>1, <3>2, <3>3, <3>4, <3>5, <3>6 DEF Operations
  <2> QED
    BY <1>0, <2>1, <2>2, <2>3 DEF tallies
<1>9. ASSUME NEW p \in Procs, ReadIndex(p) PROVE StoreTypes'
  BY <1>9 DEF ReadIndex, onDisk, tallies, Is
<1>10. ASSUME NEW p \in Procs, Scan(p) PROVE StoreTypes'
  <2>1. PICK op \in {"list", "list_sync"} :
            proc' = [proc EXCEPT ![p] = [AtRest EXCEPT !.pc = "index", !.op = op,
                                                      !.scan = [s \in Sids |-> ScanOf(file[s])]]]
    BY <1>10 DEF Scan
  <2> DEFINE found == [s \in Sids |-> ScanOf(file[s])]
             r == [AtRest EXCEPT !.pc = "index", !.op = op, !.scan = found]
  <2>2. found \in CountsOf
    BY ScanTypes
  <2>3. proc' = [proc EXCEPT ![p] = r]
    BY <2>1
  <2> HIDE DEF found
  <2>4. r \in ProcRec /\ r.pc = "index" /\ r.op = op
    BY <2>2, AtRestFacts DEF ProcRec, Operations, Critical
  <2> HIDE DEF r
  <2>5. ProcTypes'
    BY <1>0, <2>3, <2>4, ProcStepFacts, StepsKeep DEF Operations
  <2> QED
    BY <1>0, <1>10, <2>5 DEF Scan, onDisk
<1>11. ASSUME NEW p \in Procs, Crash(p) PROVE StoreTypes'
  <2>1. ProcTypes' /\ UNCHANGED <<lock_file, inodes, index, appends>>
    BY <1>0, <1>11, RestsKeep DEF Crash
  <2>2. \/ UNCHANGED file
        \/ /\ Is(p, "write")
           /\ \/ file' = [file EXCEPT ![proc[p].sid] = WithLine(file[proc[p].sid], proc[p].msg)]
              \/ file' = [file EXCEPT ![proc[p].sid] =
                              [WithLine(file[proc[p].sid], Bad) EXCEPT !.torn = TRUE]]
    BY <1>11 DEF Crash, Is
  <2>3. Is(p, "write") =>
            /\ WithLine(file[proc[p].sid], proc[p].msg) \in FileRec
            /\ [WithLine(file[proc[p].sid], Bad) EXCEPT !.torn = TRUE] \in FileRec
    BY WithLineTypes DEF Bad, ProcRec, Is
  <2>4. file' \in [Sids -> FileRec]
    BY <2>2, <2>3
  <2> QED
    BY <1>0, <2>1, <2>4
<1>12. CASE UNCHANGED storeVars
  BY <1>12 DEF storeVars, Is
<1> QED
  BY <1>1, <1>2, <1>3, <1>4, <1>5, <1>6, <1>7, <1>8, <1>9, <1>10, <1>11, <1>12 DEF StoreNext

--------------------------------------------------------------------------------
(* A step that opens and removes no lock file, and takes no lock. *)
LEMMA LockKept ==
    ASSUME LockInv, UNCHANGED lock_file, NEW p \in Procs,
           \A s \in Sids : scars[s] \subseteq scars'[s],
           \A q \in Procs \ {p} : proc'[q] = proc[q],
           \/ proc'[p].inode = 0
           \/ /\ proc'[p].inode = proc[p].inode /\ proc'[p].sid = proc[p].sid
              /\ proc'[p].pc \in Critical => proc[p].pc \in Critical
    PROVE  LockInv'
BY DEF LockInv, Locked

LEMMA LockRests ==
    ASSUME StoreTypes, LockInv, UNCHANGED lock_file, NEW p \in Procs, Rests(p),
           \A s \in Sids : scars[s] \subseteq scars'[s]
    PROVE  LockInv'
<1>1. proc'[p].inode = 0 /\ \A q \in Procs \ {p} : proc'[q] = proc[q]
  BY RestsFacts, AtRestFacts DEF StoreTypes, ProcStep
<1> QED
  BY <1>1, LockKept

LEMMA LockMoves ==
    ASSUME StoreTypes, LockInv, UNCHANGED lock_file, NEW p \in Procs, NEW pc \in Critical,
           Moves(p, pc), proc[p].pc \in Critical, \A s \in Sids : scars[s] \subseteq scars'[s]
    PROVE  LockInv'
<1>1. /\ proc'[p].inode = proc[p].inode /\ proc'[p].sid = proc[p].sid
      /\ \A q \in Procs \ {p} : proc'[q] = proc[q]
  BY StoreMoves DEF StoreTypes
<1> QED
  BY <1>1, LockKept

LEMMA NextLock ==
    ASSUME StoreTypes, LockInv, scars = [s \in Sids |-> scars[s]], [StoreNext]_storeVars
    PROVE  /\ LockInv' /\ (scars = [s \in Sids |-> scars[s]])'
           /\ \A s \in Sids : scars[s] \subseteq scars'[s]
<1> USE DEF StoreTypes
<1> DEFINE Grow == scars' = [s \in Sids |-> scars'[s]] /\ \A s \in Sids : scars[s] \subseteq scars'[s]
<1>0. /\ UNCHANGED scars => Grow
      /\ \A s, what : Scar(s, what) => Grow
  BY DEF Scar
<1>1. ASSUME NEW p \in Procs, BeginAppend(p) \/ BeginDelete(p) PROVE LockInv' /\ Grow
  <2>1. PICK s \in Sids, op \in {"append", "delete"}, msg \in Nat : OpensLock(p, s, op, msg)
    BY <1>1 DEF BeginAppend, BeginDelete
  <2>2. PICK inode \in Nat \ {0} :
            /\ inode = IF lock_file[s] = 0 THEN inodes + 1 ELSE lock_file[s]
            /\ lock_file' = [lock_file EXCEPT ![s] = inode]
            /\ proc'[p].pc = "lock" /\ proc'[p].sid = s /\ proc'[p].inode = inode
            /\ \A q \in Procs \ {p} : proc'[q] = proc[q]
    BY <2>1, OpensLockFacts
  <2>3. UNCHANGED scars
    BY <1>1 DEF BeginAppend, BeginDelete, ghosts
  <2>4. ASSUME NEW q \in Procs, proc'[q].inode # 0
        PROVE  /\ proc'[q].sid \in Sids
               /\ lock_file'[proc'[q].sid] = proc'[q].inode \/ "unlinked" \in scars'[proc'[q].sid]
    <3>1. CASE q = p
      BY <2>2, <3>1
    <3>2. CASE q # p
      BY <2>2, <2>3, <2>4, <3>2 DEF LockInv
    <3> QED
      BY <3>1, <3>2
  <2>5. ~Locked(p)'
    BY <2>2 DEF Locked, Critical
  <2>6. \A q, r \in Procs : q # r /\ Locked(q)' /\ Locked(r)' => proc'[q].inode # proc'[r].inode
    BY <2>2, <2>5 DEF LockInv, Locked
  <2> QED
    BY <1>0, <2>3, <2>4, <2>6 DEF LockInv
<1>2. ASSUME NEW p \in Procs, Fork(p) PROVE LockInv' /\ Grow
  <2>1. /\ UNCHANGED <<lock_file, scars>>
        /\ \E s \in Sids : proc' = [proc EXCEPT ![p] = [AtRest EXCEPT !.pc = "index", !.op = "fork",
                                                        !.sid = s, !.msg = appends + 2]]
    BY <1>2 DEF Fork, ghosts
  <2>2. proc'[p].inode = 0 /\ \A q \in Procs \ {p} : proc'[q] = proc[q]
    BY <2>1 DEF AtRest
  <2> QED
    BY <1>0, <2>1, <2>2, LockKept
<1>3. ASSUME NEW p \in Procs, Acquire(p) PROVE LockInv' /\ Grow
  <2>1. /\ Moves(p, IF proc[p].op = "append" THEN "open" ELSE "remove")
        /\ ~HeldByOther(p) /\ UNCHANGED <<lock_file, scars>>
    BY <1>3 DEF Acquire, onDisk, ghosts
  <2>2. /\ proc'[p].inode = proc[p].inode /\ proc'[p].sid = proc[p].sid
        /\ \A q \in Procs \ {p} : proc'[q] = proc[q]
    BY <2>1, StoreMoves DEF Critical
  <2>3. \A q \in Procs \ {p} : Locked(q) => proc[q].inode # proc[p].inode
    BY <2>1 DEF HeldByOther
  <2> QED
    BY <1>0, <2>1, <2>2, <2>3 DEF LockInv, Locked
<1>4. ASSUME NEW p \in Procs, GiveUp(p) PROVE LockInv' /\ Grow
  BY <1>0, <1>4, LockRests DEF GiveUp, onDisk, ghosts
<1>5. ASSUME NEW p \in Procs, OpenFile(p) PROVE LockInv' /\ Grow
  <2>1. /\ proc[p].pc = "open" /\ UNCHANGED <<lock_file, scars>>
        /\ proc' = [proc EXCEPT ![p].gen = file[proc[p].sid].gen, ![p].pc = "write"]
    BY <1>5 DEF OpenFile, Is, ghosts
  <2>2. /\ proc'[p].inode = proc[p].inode /\ proc'[p].sid = proc[p].sid
        /\ \A q \in Procs \ {p} : proc'[q] = proc[q]
    BY <2>1 DEF ProcRec
  <2> QED
    BY <1>0, <2>1, <2>2, LockKept DEF Critical
<1>6. ASSUME NEW p \in Procs, WriteLine(p) PROVE LockInv' /\ Grow
  <2>1. /\ proc[p].pc = "write" /\ Moves(p, "index") /\ UNCHANGED lock_file
        /\ UNCHANGED scars \/ \E what : Scar(proc[p].sid, what)
    BY <1>6 DEF WriteLine, Is
  <2>2. Grow
    BY <1>0, <2>1
  <2> QED
    BY <2>1, <2>2, LockMoves DEF Critical
<1>7. ASSUME NEW p \in Procs, IndexLoads(p) PROVE LockInv' /\ Grow
  <2>1. /\ proc[p].pc = "index" /\ UNCHANGED <<lock_file, scars>>
        /\ proc' = [proc EXCEPT ![p].pc = "save", ![p].loaded = index]
    BY <1>7 DEF IndexLoads, Is, ghosts, onDisk
  <2>2. /\ proc'[p].inode = proc[p].inode /\ proc'[p].sid = proc[p].sid
        /\ \A q \in Procs \ {p} : proc'[q] = proc[q]
    BY <2>1 DEF ProcRec
  <2> QED
    BY <1>0, <2>1, <2>2, LockKept DEF Critical
<1>8. ASSUME NEW p \in Procs, IndexSaves(p) PROVE LockInv' /\ Grow
  <2>1. /\ proc[p].pc = "save" /\ UNCHANGED lock_file
        /\ Rests(p) \/ Moves(p, "unlink")
        /\ scars' = [s \in Sids |-> scars[s] \union
                        (IF proc[p].op \in {"list", "list_sync"} /\ Stale(p, s)
                         THEN {"scan"} ELSE {})]
    BY <1>8 DEF IndexSaves, Is
  <2>2. Grow
    BY <2>1
  <2> QED
    BY <2>1, <2>2, LockRests, LockMoves DEF Critical
<1>9. ASSUME NEW p \in Procs, RemoveFile(p) PROVE LockInv' /\ Grow
  <2>1. /\ proc[p].pc = "remove" /\ Moves(p, "index") /\ UNCHANGED lock_file
        /\ \E what : Scar(proc[p].sid, what)
    BY <1>9 DEF RemoveFile, Is
  <2>2. Grow
    BY <1>0, <2>1
  <2> QED
    BY <2>1, <2>2, LockMoves DEF Critical
<1>10. ASSUME NEW p \in Procs, UnlinkLock(p) PROVE LockInv' /\ Grow
  <2> DEFINE s == proc[p].sid
  <2>1. /\ lock_file' = [lock_file EXCEPT ![s] = 0] /\ Rests(p)
        /\ scars' = [scars EXCEPT ![s] = @ \union
                        IF \E q \in Procs \ {p} : proc[q].sid = s THEN {"unlinked"} ELSE {}]
    BY <1>10 DEF UnlinkLock, Scar
  <2>2. proc'[p].inode = 0 /\ \A q \in Procs \ {p} : proc'[q] = proc[q]
    BY <2>1, RestsFacts, AtRestFacts DEF ProcStep
  <2>3. /\ Grow
        /\ s \in Sids => \A q \in Procs \ {p} : proc[q].sid = s => "unlinked" \in scars'[s]
    BY <2>1
  <2> HIDE DEF s
  <2>4. \A t \in Sids \ {s} : lock_file'[t] = lock_file[t]
    BY <2>1
  <2>5. ASSUME NEW q \in Procs, proc'[q].inode # 0
        PROVE  /\ proc'[q].sid \in Sids
               /\ lock_file'[proc'[q].sid] = proc'[q].inode \/ "unlinked" \in scars'[proc'[q].sid]
    <3>1. q # p /\ proc'[q] = proc[q]
      BY <2>2, <2>5
    <3>2. /\ proc[q].sid \in Sids
          /\ lock_file[proc[q].sid] = proc[q].inode \/ "unlinked" \in scars[proc[q].sid]
      BY <2>5, <3>1 DEF LockInv
    <3> QED
      BY <2>3, <2>4, <3>1, <3>2
  <2>6. \A q, r \in Procs : q # r /\ Locked(q)' /\ Locked(r)' => proc'[q].inode # proc'[r].inode
    BY <2>2 DEF LockInv, Locked
  <2> QED
    BY <2>3, <2>5, <2>6 DEF LockInv
<1>11. ASSUME NEW p \in Procs, ReadIndex(p) PROVE LockInv' /\ Grow
  BY <1>0, <1>11 DEF ReadIndex, onDisk, ghosts, LockInv, Locked
<1>12. ASSUME NEW p \in Procs, Scan(p) PROVE LockInv' /\ Grow
  <2>1. /\ UNCHANGED <<lock_file, scars>>
        /\ \E op : \E found : proc' = [proc EXCEPT ![p] = [AtRest EXCEPT !.pc = "index", !.op = op,
                                                                     !.scan = found]]
    BY <1>12 DEF Scan, onDisk, ghosts
  <2>2. proc'[p].inode = 0 /\ \A q \in Procs \ {p} : proc'[q] = proc[q]
    BY <2>1 DEF AtRest
  <2> QED
    BY <1>0, <2>1, <2>2, LockKept
<1>13. ASSUME NEW p \in Procs, Crash(p) PROVE LockInv' /\ Grow
  <2>1. /\ UNCHANGED lock_file /\ Rests(p)
        /\ UNCHANGED scars \/ \E what : Scar(proc[p].sid, what)
    BY <1>13 DEF Crash
  <2>2. Grow
    BY <1>0, <2>1
  <2> QED
    BY <2>1, <2>2, LockRests
<1>14. CASE UNCHANGED storeVars
  BY <1>0, <1>14 DEF storeVars, LockInv, Locked
<1> QED
  BY <1>1, <1>2, <1>3, <1>4, <1>5, <1>6, <1>7, <1>8, <1>9, <1>10, <1>11, <1>12, <1>13, <1>14
     DEF StoreNext

(* Two processes work on one session's files only after a delete has removed its lock *)
(* file under one of them (lock.rs:41-86, jsonl.rs:226, 809), for any number of       *)
(* processes and sessions, and any number of appends, forks, deletes and crashes.     *)
THEOREM LocksExclude == StoreSpec => []LockHeldOnce
<1>1. LockInv => LockHeldOnce
  BY DEF LockInv, LockHeldOnce, Locked
<1>2. StoreInit => scars = [s \in Sids |-> scars[s]]
  BY DEF StoreInit
<1> QED
  BY InitStore, StoreTypesKept, NextLock, <1>1, <1>2, PTL DEF StoreSpec

--------------------------------------------------------------------------------
(***************************************************************************)
(* Where each operation can be, and what it carries there.                 *)
(***************************************************************************)
PlaceInv ==
    \A p \in Procs :
        /\ proc[p].pc = "idle" => proc[p] = AtRest
        /\ proc[p].pc = "lock" => proc[p].op \in {"append", "delete"}
        /\ proc[p].pc \in {"open", "write"} => proc[p].op = "append"
        /\ proc[p].pc \in {"remove", "unlink"} => proc[p].op = "delete"
        /\ proc[p].op \in {"append", "delete"} <=> proc[p].inode # 0
        /\ proc[p].op \in {"list", "list_sync"} => proc[p].sid = NoSid
        /\ proc[p].op = "append" => proc[p].msg > 0
        /\ proc[p].op = "fork" => proc[p].pc \in {"index", "save"}

LEMMA AppendedSet ==
    ASSUME NEW f \in FileRec, NEW line \in Nat
    PROVE  /\ ToSet(f.lines) \subseteq ToSet(WithLine(f, line).lines)
           /\ ToSet([WithLine(f, line) EXCEPT !.torn = TRUE].lines) = ToSet(WithLine(f, line).lines)
           /\ ~f.torn => /\ ToSet(WithLine(f, line).lines) = ToSet(f.lines) \union {line}
                         /\ Len(WithLine(f, line).lines) = Len(f.lines) + 1
           /\ WithLine(f, line).gen = f.gen /\ ~WithLine(f, line).torn
<1> DEFINE lines == IF f.torn THEN f.lines ELSE Append(f.lines, line)
<1>1. f.lines \in Seq(Nat) /\ f.torn \in BOOLEAN
  BY DEF FileRec
<1>2. /\ WithLine(f, line).lines = lines /\ WithLine(f, line).gen = f.gen /\ ~WithLine(f, line).torn
      /\ [WithLine(f, line) EXCEPT !.torn = TRUE].lines = lines
  BY DEF WithLine, FileRec
<1>3. /\ ToSet(Append(f.lines, line)) = ToSet(f.lines) \union {line}
      /\ Len(Append(f.lines, line)) = Len(f.lines) + 1
  <2>1. /\ Append(f.lines, line) \in Seq(Nat) /\ Len(Append(f.lines, line)) = Len(f.lines) + 1
        /\ \A i \in 1..Len(f.lines) : Append(f.lines, line)[i] = f.lines[i]
        /\ Append(f.lines, line)[Len(f.lines) + 1] = line
    BY <1>1
  <2>2. /\ DOMAIN Append(f.lines, line) = 1..(Len(f.lines) + 1) /\ DOMAIN f.lines = 1..Len(f.lines)
        /\ Len(f.lines) \in Nat
    BY <1>1, <2>1
  <2>3. \A i \in 1..(Len(f.lines) + 1) : i \in 1..Len(f.lines) \/ i = Len(f.lines) + 1
    BY <2>2
  <2> QED
    BY <2>1, <2>2, <2>3 DEF ToSet
<1> QED
  BY <1>1, <1>2, <1>3

LEMMA BeginFacts ==
    ASSUME StoreTypes, NEW p \in Procs, BeginAppend(p) \/ BeginDelete(p)
    PROVE  /\ proc[p].pc = "idle" /\ UNCHANGED <<file, index, ghosts>>
           /\ \A q \in Procs \ {p} : proc'[q] = proc[q]
           /\ proc'[p].pc = "lock" /\ proc'[p].op \in {"append", "delete"}
           /\ proc'[p].inode # 0 /\ proc'[p].sid \in Sids
           /\ proc'[p].op = "append" => proc'[p].msg > 0
<1>1. CASE BeginAppend(p)
  <2>1. PICK s \in Sids : OpensLock(p, s, "append", appends + 1)
    BY <1>1 DEF BeginAppend
  <2>2. appends + 1 \in Nat /\ appends + 1 > 0
    BY DEF StoreTypes
  <2> QED
    BY <1>1, <2>1, <2>2, OpensLockFacts DEF BeginAppend, Is, ghosts
<1>2. CASE BeginDelete(p)
  <2>1. PICK s \in Sids : OpensLock(p, s, "delete", 0)
    BY <1>2 DEF BeginDelete
  <2> QED
    BY <1>2, <2>1, OpensLockFacts DEF BeginDelete, Is, ghosts
<1> QED
  BY <1>1, <1>2

LEMMA ForkFacts ==
    ASSUME StoreTypes, NEW p \in Procs, Fork(p)
    PROVE  \E s \in Sids :
              /\ proc[p].pc = "idle" /\ UNCHANGED <<index, ghosts>>
              /\ file[s] = NoFile /\ \A q \in Procs : proc[q].sid # s
              /\ \A t \in Sids \ {s} : file'[t] = file[t]
              /\ file'[s].torn = FALSE /\ file'[s].gen = file[s].gen
              /\ file'[s].lines = <<appends + 1, appends + 2>>
              /\ \A q \in Procs \ {p} : proc'[q] = proc[q]
              /\ proc'[p].pc = "index" /\ proc'[p].op = "fork" /\ proc'[p].sid = s
              /\ proc'[p].inode = 0 /\ proc'[p].msg = appends + 2
<1>1. PICK s \in Sids :
          /\ proc[p].pc = "idle" /\ UNCHANGED <<index, ghosts>>
          /\ file[s] = NoFile /\ \A q \in Procs : proc[q].sid # s
          /\ file' = [file EXCEPT ![s].lines = <<appends + 1, appends + 2>>]
          /\ proc' = [proc EXCEPT ![p] = [AtRest EXCEPT !.pc = "index", !.op = "fork", !.sid = s,
                                                        !.msg = appends + 2]]
  BY DEF Fork, Is
<1> DEFINE r == [AtRest EXCEPT !.pc = "index", !.op = "fork", !.sid = s, !.msg = appends + 2]
           f == [NoFile EXCEPT !.lines = <<appends + 1, appends + 2>>]
<1>2. r.pc = "index" /\ r.op = "fork" /\ r.sid = s /\ r.inode = 0 /\ r.msg = appends + 2
  BY DEF AtRest
<1>3. f.torn = FALSE /\ f.gen = NoFile.gen /\ f.lines = <<appends + 1, appends + 2>>
  BY DEF NoFile
<1>4. file' = [file EXCEPT ![s] = f] /\ proc' = [proc EXCEPT ![p] = r]
  BY <1>1
<1> HIDE DEF f, r
<1>5. /\ \A t \in Sids \ {s} : file'[t] = file[t]
      /\ file'[s] = f /\ file[s].gen = f.gen
      /\ \A q \in Procs \ {p} : proc'[q] = proc[q]
      /\ proc'[p] = r
  BY <1>1, <1>3, <1>4 DEF StoreTypes
<1> WITNESS s \in Sids
<1> QED
  BY <1>1, <1>2, <1>3, <1>5

LEMMA ScanFacts ==
    ASSUME StoreTypes, NEW p \in Procs, Scan(p)
    PROVE  /\ proc[p].pc = "idle" /\ UNCHANGED <<file, index, ghosts>>
           /\ \A q \in Procs \ {p} : proc'[q] = proc[q]
           /\ proc'[p].pc = "index" /\ proc'[p].op \in {"list", "list_sync"}
           /\ proc'[p].inode = 0 /\ proc'[p].sid = NoSid
<1>1. PICK op \in {"list", "list_sync"} : \E found :
          /\ proc[p].pc = "idle" /\ UNCHANGED <<file, index, ghosts>>
          /\ proc' = [proc EXCEPT ![p] = [AtRest EXCEPT !.pc = "index", !.op = op, !.scan = found]]
  BY DEF Scan, Is, onDisk
<1> QED
  BY <1>1 DEF AtRest, StoreTypes

LEMMA IndexLoadsFacts ==
    ASSUME StoreTypes, NEW p \in Procs, IndexLoads(p)
    PROVE  /\ proc[p].pc = "index" /\ \A q \in Procs : proc[q].pc # "save"
           /\ UNCHANGED <<file, index, ghosts>>
           /\ \A q \in Procs \ {p} : proc'[q] = proc[q]
           /\ proc'[p].pc = "save" /\ proc'[p].loaded = index
           /\ proc'[p].op = proc[p].op /\ proc'[p].sid = proc[p].sid
           /\ proc'[p].inode = proc[p].inode /\ proc'[p].msg = proc[p].msg
<1>1. /\ proc[p].pc = "index" /\ \A q \in Procs : proc[q].pc # "save"
      /\ UNCHANGED <<file, index, ghosts>>
      /\ proc' = [proc EXCEPT ![p].pc = "save", ![p].loaded = index]
  BY DEF IndexLoads, IndexLocked, Is, onDisk
<1>2. proc \in [Procs -> ProcRec]
  BY DEF StoreTypes
<1> QED
  BY <1>1, <1>2 DEF ProcRec

LEMMA OpenFileFacts ==
    ASSUME StoreTypes, NEW p \in Procs, OpenFile(p)
    PROVE  /\ proc[p].pc = "open" /\ UNCHANGED <<file, index, ghosts>>
           /\ \A q \in Procs \ {p} : proc'[q] = proc[q]
           /\ proc'[p].pc = "write" /\ proc'[p].gen = file[proc[p].sid].gen
           /\ proc'[p].op = proc[p].op /\ proc'[p].sid = proc[p].sid
           /\ proc'[p].inode = proc[p].inode /\ proc'[p].msg = proc[p].msg
<1>1. /\ proc[p].pc = "open" /\ UNCHANGED <<index, ghosts>>
      /\ file' = [file EXCEPT ![proc[p].sid] = file[proc[p].sid]]
      /\ proc' = [proc EXCEPT ![p].gen = file[proc[p].sid].gen, ![p].pc = "write"]
  BY DEF OpenFile, Opens, Is
<1> QED
  BY <1>1 DEF StoreTypes, ProcRec

--------------------------------------------------------------------------------
(* A process may go from one place of its operation to another, to rest, or to begin. *)
LEMMA PlaceKept ==
    ASSUME PlaceInv, NEW p \in Procs, \A q \in Procs \ {p} : proc'[q] = proc[q],
           \/ proc'[p] = AtRest
           \/ /\ proc'[p].pc # "idle" /\ proc'[p].pc # "lock"
              /\ proc'[p].op = proc[p].op /\ proc'[p].sid = proc[p].sid
              /\ proc'[p].inode = proc[p].inode /\ proc'[p].msg = proc[p].msg
              /\ proc'[p].pc \in {"open", "write"} => proc'[p].op = "append"
              /\ proc'[p].pc \in {"remove", "unlink"} => proc'[p].op = "delete"
              /\ proc[p].op = "fork" => proc'[p].pc \in {"index", "save"}
    PROVE  PlaceInv'
BY AtRestFacts DEF PlaceInv

LEMMA NextPlace ==
    ASSUME StoreTypes, PlaceInv, [StoreNext]_storeVars PROVE PlaceInv'
<1>0. proc \in [Procs -> ProcRec]
  BY DEF StoreTypes
<1>1. ASSUME NEW p \in Procs, BeginAppend(p) \/ BeginDelete(p) PROVE PlaceInv'
  <2>1. /\ \A q \in Procs \ {p} : proc'[q] = proc[q]
        /\ proc'[p].pc = "lock" /\ proc'[p].op \in {"append", "delete"} /\ proc'[p].inode # 0
        /\ proc'[p].op = "append" => proc'[p].msg > 0
    BY <1>1, BeginFacts
  <2> QED
    BY <2>1 DEF PlaceInv
<1>2. ASSUME NEW p \in Procs, Fork(p) PROVE PlaceInv'
  <2>1. /\ \A q \in Procs \ {p} : proc'[q] = proc[q]
        /\ proc'[p].pc = "index" /\ proc'[p].op = "fork" /\ proc'[p].inode = 0
    BY <1>2, ForkFacts
  <2> QED
    BY <2>1 DEF PlaceInv
<1>3. ASSUME NEW p \in Procs, Acquire(p) PROVE PlaceInv'
  <2>1. /\ proc[p].pc = "lock"
        /\ Moves(p, IF proc[p].op = "append" THEN "open" ELSE "remove")
    BY <1>3 DEF Acquire, Is
  <2>2. proc[p].op \in {"append", "delete"}
    BY <2>1 DEF PlaceInv
  <2> QED
    BY <1>0, <2>1, <2>2, StoreMoves, PlaceKept DEF Critical
<1>4. ASSUME NEW p \in Procs, GiveUp(p) \/ UnlinkLock(p) \/ Crash(p) PROVE PlaceInv'
  <2>1. Rests(p)
    BY <1>4 DEF GiveUp, UnlinkLock, Crash
  <2> QED
    BY <1>0, <2>1, RestsFacts, PlaceKept DEF ProcStep
<1>5. ASSUME NEW p \in Procs, OpenFile(p) PROVE PlaceInv'
  <2>1. proc[p].pc = "open" => proc[p].op = "append"
    BY DEF PlaceInv
  <2> QED
    BY <1>5, <2>1, OpenFileFacts, PlaceKept
<1>6. ASSUME NEW p \in Procs, WriteLine(p) \/ RemoveFile(p) PROVE PlaceInv'
  <2>1. Moves(p, "index")
    BY <1>6 DEF WriteLine, RemoveFile
  <2> QED
    BY <1>0, <2>1, StoreMoves, PlaceKept DEF Critical
<1>7. ASSUME NEW p \in Procs, IndexLoads(p) PROVE PlaceInv'
  BY <1>7, IndexLoadsFacts, PlaceKept
<1>8. ASSUME NEW p \in Procs, IndexSaves(p) PROVE PlaceInv'
  <2>1. Rests(p) \/ (proc[p].op = "delete" /\ Moves(p, "unlink"))
    <3>1. Is(p, "save") /\ proc[p].op \in Operations
      BY <1>8 DEF IndexSaves, StoreTypes, Is
    <3> QED
      BY <1>8, <3>1 DEF IndexSaves, Operations
  <2>2. CASE Rests(p)
    BY <1>0, <2>2, RestsFacts, PlaceKept DEF ProcStep
  <2>3. CASE proc[p].op = "delete" /\ Moves(p, "unlink")
    BY <1>0, <2>3, StoreMoves, PlaceKept DEF Critical
  <2> QED
    BY <2>1, <2>2, <2>3
<1>9. ASSUME NEW p \in Procs, Scan(p) PROVE PlaceInv'
  <2>1. /\ \A q \in Procs \ {p} : proc'[q] = proc[q]
        /\ proc'[p].pc = "index" /\ proc'[p].op \in {"list", "list_sync"}
        /\ proc'[p].inode = 0 /\ proc'[p].sid = NoSid
    BY <1>9, ScanFacts
  <2> QED
    BY <2>1 DEF PlaceInv
<1>10. ASSUME UNCHANGED proc PROVE PlaceInv'
  BY <1>10 DEF PlaceInv
<1> QED
  BY <1>1, <1>2, <1>3, <1>4, <1>5, <1>6, <1>7, <1>8, <1>9, <1>10 DEF StoreNext, ReadIndex, storeVars

--------------------------------------------------------------------------------
(***************************************************************************)
(* The index is changed by one process at a time, which has read what it   *)
(* changes.                                                                *)
(***************************************************************************)
SaveInv ==
    /\ \A p \in Procs : proc[p].pc = "save" => proc[p].loaded = index
    /\ \A p, q \in Procs : proc[p].pc = "save" /\ proc[q].pc = "save" => p = q

LEMMA SaveKept ==
    ASSUME SaveInv, NEW p \in Procs, \A q \in Procs \ {p} : proc'[q] = proc[q],
           proc'[p].pc # "save", UNCHANGED index \/ proc[p].pc = "save"
    PROVE  SaveInv'
BY DEF SaveInv

LEMMA NextSave ==
    ASSUME StoreTypes, SaveInv, [StoreNext]_storeVars PROVE SaveInv'
<1>0. proc \in [Procs -> ProcRec]
  BY DEF StoreTypes
<1>1. ASSUME NEW p \in Procs, BeginAppend(p) \/ BeginDelete(p) PROVE SaveInv'
  BY <1>1, BeginFacts, SaveKept
<1>2. ASSUME NEW p \in Procs, Fork(p) PROVE SaveInv'
  BY <1>2, ForkFacts, SaveKept
<1>3. ASSUME NEW p \in Procs, Acquire(p) \/ WriteLine(p) \/ RemoveFile(p) PROVE SaveInv'
  <2>1. \E pc \in {"open", "remove", "index"} : Moves(p, pc)
    BY <1>3 DEF Acquire, WriteLine, RemoveFile
  <2>2. UNCHANGED index
    BY <1>3 DEF Acquire, WriteLine, RemoveFile, onDisk
  <2> QED
    BY <1>0, <2>1, <2>2, StoreMoves, SaveKept DEF Critical
<1>4. ASSUME NEW p \in Procs, GiveUp(p) \/ UnlinkLock(p) \/ Crash(p) PROVE SaveInv'
  <2>1. Rests(p) /\ UNCHANGED index
    BY <1>4 DEF GiveUp, UnlinkLock, Crash, onDisk
  <2> QED
    BY <1>0, <2>1, RestsFacts, AtRestFacts, SaveKept DEF ProcStep
<1>5. ASSUME NEW p \in Procs, OpenFile(p) PROVE SaveInv'
  BY <1>5, OpenFileFacts, SaveKept
<1>6. ASSUME NEW p \in Procs, IndexLoads(p) PROVE SaveInv'
  BY <1>6, IndexLoadsFacts DEF SaveInv
<1>7. ASSUME NEW p \in Procs, IndexSaves(p) PROVE SaveInv'
  <2>1. /\ proc[p].pc = "save"
        /\ Rests(p) \/ Moves(p, "unlink")
    BY <1>7 DEF IndexSaves, Is
  <2>2. proc'[p].pc # "save" /\ \A q \in Procs \ {p} : proc'[q] = proc[q]
    BY <1>0, <2>1, RestsFacts, AtRestFacts, StoreMoves DEF ProcStep, Critical
  <2> QED
    BY <2>1, <2>2, SaveKept
<1>8. ASSUME NEW p \in Procs, Scan(p) PROVE SaveInv'
  BY <1>8, ScanFacts, SaveKept
<1>9. ASSUME UNCHANGED <<proc, index>> PROVE SaveInv'
  BY <1>9 DEF SaveInv
<1> QED
  BY <1>1, <1>2, <1>3, <1>4, <1>5, <1>6, <1>7, <1>8, <1>9
     DEF StoreNext, ReadIndex, storeVars, onDisk

--------------------------------------------------------------------------------
(***************************************************************************)
(* Who is about to write has the file open that the name leads to, and     *)
(* what has been written but not acknowledged is in a file.                *)
(***************************************************************************)
NeverUnlinked == \A s \in Sids : scars[s] \intersect {"unlinked", "merged"} = {}
Written(p) ==
    proc[p].pc \in {"index", "save"} =>
        /\ proc[p].op = "append" => Kept(proc[p].msg)
        /\ proc[p].op = "fork" => Kept(proc[p].msg) /\ Kept(proc[p].msg - 1)

KeptInv ==
    /\ \A p \in Procs : Is(p, "write") => OnName(p) \/ "unlinked" \in scars[proc[p].sid]
    /\ NeverUnlinked => (\A m \in acked : Kept(m)) /\ (\A p \in Procs : Written(p))

ScarsStay == \A s \in Sids : scars[s] \subseteq scars'[s]

(* Two operations that need the lock are not both under way on a session without scars. *)
LEMMA OneAtATime ==
    ASSUME LockInv, PlaceInv, NEW p \in Procs, NEW q \in Procs, p # q,
           proc[p].op \in {"append", "delete"}, proc[p].pc \in Critical,
           proc[q].op \in {"append", "delete"}, proc[q].pc \in Critical,
           proc[p].sid = proc[q].sid
    PROVE  "unlinked" \in scars[proc[p].sid]
BY DEF LockInv, PlaceInv, Locked

LEMMA KeptFrame ==
    ASSUME StoreTypes, KeptInv, ScarsStay, UNCHANGED acked, NEW p \in Procs,
           \A q \in Procs \ {p} : proc'[q] = proc[q],
           \A q \in Procs \ {p} : Is(q, "write") =>
               \/ file'[proc[q].sid].gen = file[proc[q].sid].gen
               \/ "unlinked" \in scars'[proc[q].sid],
           \A m : Kept(m) => Kept(m)',
           (Is(p, "write") => OnName(p) \/ "unlinked" \in scars[proc[p].sid])',
           NeverUnlinked' => Written(p)'
    PROVE  KeptInv'
<1>1. \A q \in Procs \ {p} : Is(q, "write") => proc[q].sid \in Sids
  BY DEF StoreTypes, Is
<1>2. ASSUME NEW q \in Procs \ {p}
      PROVE  (Is(q, "write") => OnName(q) \/ "unlinked" \in scars[proc[q].sid])'
  BY <1>1, <1>2 DEF KeptInv, Is, OnName, ScarsStay
<1>3. NeverUnlinked' => NeverUnlinked
  BY DEF NeverUnlinked, ScarsStay
<1>4. ASSUME NEW q \in Procs \ {p}, NeverUnlinked' PROVE Written(q)'
  <2>1. Written(q) /\ proc'[q] = proc[q]
    BY <1>3, <1>4 DEF KeptInv
  <2> QED
    BY <2>1 DEF Written
<1> QED
  BY <1>2, <1>3, <1>4 DEF KeptInv

(* A process that stays out of the files and does not reach the index. *)
LEMMA KeptBeside ==
    ASSUME StoreTypes, KeptInv, ScarsStay, UNCHANGED <<file, acked, removed>>, NEW p \in Procs,
           \A q \in Procs \ {p} : proc'[q] = proc[q],
           proc'[p].pc # "write",
           \/ proc'[p].pc \notin {"index", "save"}
           \/ proc'[p].op \notin {"append", "fork"}
           \/ /\ proc[p].pc \in {"index", "save"}
              /\ proc'[p].op = proc[p].op /\ proc'[p].msg = proc[p].msg
    PROVE  KeptInv'
<1>1. \A m : Kept(m) => Kept(m)'
  BY DEF Kept
<1>2. NeverUnlinked' => NeverUnlinked
  BY DEF NeverUnlinked, ScarsStay
<1>3. NeverUnlinked' => Written(p)'
  BY <1>1, <1>2 DEF KeptInv, Written
<1> QED
  BY <1>1, <1>3, KeptFrame DEF Is

LEMMA NextKept ==
    ASSUME StoreTypes, LockInv, PlaceInv, KeptInv, scars = [s \in Sids |-> scars[s]],
           [StoreNext]_storeVars
    PROVE  KeptInv'
<1>0. ScarsStay /\ proc \in [Procs -> ProcRec] /\ file \in [Sids -> FileRec] /\ appends \in Nat
  BY NextLock DEF ScarsStay, StoreTypes
<1>1. ASSUME NEW p \in Procs, BeginAppend(p) \/ BeginDelete(p) PROVE KeptInv'
  <2>1. /\ UNCHANGED <<file, ghosts>> /\ proc'[p].pc = "lock"
        /\ \A q \in Procs \ {p} : proc'[q] = proc[q]
    BY <1>1, BeginFacts
  <2> QED
    BY <1>0, <2>1, KeptBeside DEF ghosts
<1>2. ASSUME NEW p \in Procs, Fork(p) PROVE KeptInv'
  <2>1. PICK s \in Sids :
            /\ UNCHANGED ghosts /\ file[s] = NoFile
            /\ \A t \in Sids \ {s} : file'[t] = file[t]
            /\ file'[s].gen = file[s].gen
            /\ file'[s].lines = <<appends + 1, appends + 2>>
            /\ \A q \in Procs \ {p} : proc'[q] = proc[q]
            /\ proc'[p].pc = "index" /\ proc'[p].op = "fork" /\ proc'[p].msg = appends + 2
    BY <1>2, ForkFacts
  <2>2. ToSet(file[s].lines) = {}
    BY <2>1 DEF NoFile, ToSet
  <2>3. \A m : Kept(m) => Kept(m)'
    BY <2>1, <2>2 DEF Kept, ghosts
  <2>4. {appends + 1, appends + 2} \subseteq ToSet(file'[s].lines)
    BY <2>1 DEF ToSet
  <2>5. Written(p)'
    BY <1>0, <2>1, <2>4 DEF Written, Kept
  <2>6. \A t \in Sids : file'[t].gen = file[t].gen
    BY <2>1
  <2>7. \A q \in Procs : Is(q, "write") => proc[q].sid \in Sids
    BY DEF StoreTypes, Is
  <2> QED
    BY <1>0, <2>1, <2>3, <2>5, <2>6, <2>7, KeptFrame DEF ghosts, Is
<1>3. ASSUME NEW p \in Procs, Acquire(p) PROVE KeptInv'
  <2>1. /\ \E pc \in {"open", "remove"} : Moves(p, pc)
        /\ UNCHANGED <<file, acked, removed>>
    BY <1>3 DEF Acquire, onDisk, ghosts
  <2> QED
    BY <1>0, <2>1, StoreMoves, KeptBeside DEF Critical
<1>4. ASSUME NEW p \in Procs, GiveUp(p) \/ UnlinkLock(p) PROVE KeptInv'
  <2>1. Rests(p) /\ UNCHANGED <<file, acked, removed>>
    BY <1>4 DEF GiveUp, UnlinkLock, onDisk, ghosts
  <2> QED
    BY <1>0, <2>1, RestsFacts, AtRestFacts, KeptBeside DEF ProcStep
<1>5. ASSUME NEW p \in Procs, OpenFile(p) PROVE KeptInv'
  <2>1. /\ UNCHANGED <<file, ghosts>> /\ proc'[p].pc = "write"
        /\ proc'[p].gen = file[proc[p].sid].gen /\ proc'[p].sid = proc[p].sid
        /\ \A q \in Procs \ {p} : proc'[q] = proc[q]
    BY <1>5, OpenFileFacts
  <2>2. OnName(p)'
    BY <2>1 DEF OnName
  <2>3. \A m : Kept(m) => Kept(m)'
    BY <2>1 DEF Kept, ghosts
  <2>4. Written(p)'
    BY <2>1 DEF Written
  <2> QED
    BY <1>0, <2>1, <2>2, <2>3, <2>4, KeptFrame DEF ghosts
<1>6. ASSUME NEW p \in Procs, WriteLine(p) PROVE KeptInv'
  <2> DEFINE s == proc[p].sid
             line == proc[p].msg
  <2>1. /\ proc[p].pc = "write" /\ s \in Sids /\ line \in Nat /\ file[s] \in FileRec
        /\ Moves(p, "index") /\ UNCHANGED <<acked, removed>>
        /\ OnName(p) => /\ file' = [file EXCEPT ![s] = WithLine(file[s], line)]
                        /\ Scar(s, IF file[s].torn THEN {"merged"} ELSE {})
        /\ ~OnName(p) => UNCHANGED file
    BY <1>0, <1>6 DEF WriteLine, Is, StoreTypes, ProcRec
  <2>2. /\ proc'[p].pc = "index" /\ proc'[p].op = proc[p].op /\ proc'[p].msg = line
        /\ \A q \in Procs \ {p} : proc'[q] = proc[q]
    BY <1>0, <2>1, StoreMoves DEF Critical
  <2>3. proc[p].op = "append"
    BY <2>1 DEF PlaceInv
  <2>4. /\ ToSet(file[s].lines) \subseteq ToSet(WithLine(file[s], line).lines)
        /\ ~file[s].torn => line \in ToSet(WithLine(file[s], line).lines)
        /\ WithLine(file[s], line).gen = file[s].gen
    <3>1. file[s] \in FileRec /\ line \in Nat
      BY <2>1
    <3> HIDE DEF s, line
    <3> QED
      BY <3>1, AppendedSet
  <2>5. \A t \in Sids : /\ file'[t].gen = file[t].gen
                       /\ ToSet(file[t].lines) \subseteq ToSet(file'[t].lines)
    BY <1>0, <2>1, <2>4
  <2>6. \A m : Kept(m) => Kept(m)'
    BY <2>1, <2>5 DEF Kept
  <2>7. ASSUME NeverUnlinked' PROVE Written(p)'
    <3>1. scars'[s] \intersect {"unlinked", "merged"} = {} /\ scars[s] \subseteq scars'[s]
      BY <1>0, <2>1, <2>7 DEF NeverUnlinked, ScarsStay
    <3>2. OnName(p)
      BY <2>1, <3>1 DEF KeptInv, Is
    <3>3. ~file[s].torn
      BY <2>1, <3>1, <3>2 DEF Scar
    <3>4. line \in ToSet(file'[s].lines)
      BY <1>0, <2>1, <2>4, <3>2, <3>3
    <3> QED
      BY <2>1, <2>2, <2>3, <3>4 DEF Written, Kept
  <2>8. \A q \in Procs : Is(q, "write") => proc[q].sid \in Sids
    BY DEF StoreTypes, Is
  <2> QED
    BY <1>0, <2>1, <2>2, <2>5, <2>6, <2>7, <2>8, KeptFrame DEF Is
<1>7. ASSUME NEW p \in Procs, IndexLoads(p) PROVE KeptInv'
  <2>1. /\ UNCHANGED <<file, ghosts>> /\ proc[p].pc = "index" /\ proc'[p].pc = "save"
        /\ \A q \in Procs \ {p} : proc'[q] = proc[q]
        /\ proc'[p].op = proc[p].op /\ proc'[p].msg = proc[p].msg
    BY <1>7, IndexLoadsFacts
  <2> QED
    BY <1>0, <2>1, KeptBeside DEF ghosts
<1>8. ASSUME NEW p \in Procs, IndexSaves(p) PROVE KeptInv'
  <2>1. /\ proc[p].pc = "save" /\ UNCHANGED <<file, removed>>
        /\ Rests(p) \/ Moves(p, "unlink")
        /\ \/ UNCHANGED acked
           \/ proc[p].op = "append" /\ acked' = acked \union {proc[p].msg}
           \/ proc[p].op = "fork" /\ acked' = acked \union {proc[p].msg - 1, proc[p].msg}
    BY <1>8 DEF IndexSaves, Is
  <2>2. /\ proc'[p].pc \in {"idle", "unlink"}
        /\ \A q \in Procs \ {p} : proc'[q] = proc[q]
    BY <1>0, <2>1, RestsFacts, AtRestFacts, StoreMoves DEF ProcStep, Critical
  <2>3. \A m : Kept(m)' <=> Kept(m)
    BY <2>1 DEF Kept
  <2>4. NeverUnlinked' => NeverUnlinked
    BY <1>0 DEF NeverUnlinked, ScarsStay
  <2>5. NeverUnlinked => Written(p) /\ \A m \in acked : Kept(m)
    BY DEF KeptInv
  <2>6. NeverUnlinked' => \A m \in acked' : Kept(m)'
    BY <2>1, <2>3, <2>4, <2>5 DEF Written
  <2>7. ASSUME NEW q \in Procs
        PROVE  /\ (Is(q, "write") => OnName(q) \/ "unlinked" \in scars[proc[q].sid])'
               /\ NeverUnlinked' => Written(q)'
    <3>1. CASE q = p
      BY <2>2, <3>1 DEF Is, Written
    <3>2. CASE q # p
      <4>1. proc'[q] = proc[q] /\ (Is(q, "write") => proc[q].sid \in Sids)
        BY <2>2, <3>2 DEF StoreTypes, Is
      <4>2. Is(q, "write")' => OnName(q)' \/ "unlinked" \in scars'[proc'[q].sid]
        BY <1>0, <2>1, <4>1 DEF KeptInv, Is, OnName, ScarsStay
      <4>3. NeverUnlinked' => Written(q)'
        BY <2>3, <2>4, <4>1 DEF KeptInv, Written
      <4> QED
        BY <4>2, <4>3
    <3> QED
      BY <3>1, <3>2
  <2> QED
    BY <2>6, <2>7 DEF KeptInv
<1>9. ASSUME NEW p \in Procs, RemoveFile(p) PROVE KeptInv'
  <2> DEFINE s == proc[p].sid
  <2>1. /\ proc[p].pc = "remove" /\ s \in Sids /\ Moves(p, "index") /\ UNCHANGED acked
        /\ \A t \in Sids \ {s} : file'[t] = file[t]
        /\ removed' = removed \union ToSet(file[s].lines)
    BY <1>0, <1>9 DEF RemoveFile, Is, StoreTypes
  <2>2. /\ proc'[p].pc = "index" /\ proc'[p].op = proc[p].op
        /\ \A q \in Procs \ {p} : proc'[q] = proc[q]
    BY <1>0, <2>1, StoreMoves DEF Critical
  <2>3. proc[p].op = "delete"
    BY <2>1 DEF PlaceInv
  <2>4. \A m : Kept(m) => Kept(m)'
    BY <2>1 DEF Kept
  <2>5. ASSUME NEW q \in Procs \ {p}, Is(q, "write")
        PROVE  \/ file'[proc[q].sid].gen = file[proc[q].sid].gen
               \/ "unlinked" \in scars'[proc[q].sid]
    <3>1. proc[q].op = "append" /\ proc[q].sid \in Sids
      BY <2>5 DEF PlaceInv, Is, StoreTypes
    <3>2. proc[q].sid = s => "unlinked" \in scars[s]
      BY <2>1, <2>3, <2>5, <3>1, OneAtATime DEF Is, Critical
    <3> QED
      BY <1>0, <2>1, <3>1, <3>2 DEF ScarsStay
  <2> QED
    BY <1>0, <2>1, <2>2, <2>3, <2>4, <2>5, KeptFrame DEF Is, Written
<1>10. ASSUME NEW p \in Procs, Scan(p) PROVE KeptInv'
  <2>1. /\ UNCHANGED <<file, ghosts>> /\ proc'[p].pc = "index" /\ proc'[p].op \in {"list", "list_sync"}
        /\ \A q \in Procs \ {p} : proc'[q] = proc[q]
    BY <1>10, ScanFacts
  <2> QED
    BY <1>0, <2>1, KeptBeside DEF ghosts
<1>11. ASSUME NEW p \in Procs, Crash(p) PROVE KeptInv'
  <2> DEFINE s == proc[p].sid
  <2>1. /\ Rests(p) /\ UNCHANGED <<acked, removed>>
        /\ \/ UNCHANGED file
           \/ /\ Is(p, "write")
              /\ \/ file' = [file EXCEPT ![s] = WithLine(file[s], proc[p].msg)]
                 \/ file' = [file EXCEPT ![s] = [WithLine(file[s], Bad) EXCEPT !.torn = TRUE]]
    BY <1>11 DEF Crash, Is
  <2>2. proc'[p].pc = "idle" /\ \A q \in Procs \ {p} : proc'[q] = proc[q]
    BY <1>0, <2>1, RestsFacts, AtRestFacts DEF ProcStep
  <2>3. ASSUME Is(p, "write")
        PROVE  /\ ToSet(file[s].lines) \subseteq ToSet(WithLine(file[s], proc[p].msg).lines)
               /\ WithLine(file[s], proc[p].msg).gen = file[s].gen
               /\ ToSet(file[s].lines) \subseteq
                      ToSet([WithLine(file[s], Bad) EXCEPT !.torn = TRUE].lines)
               /\ [WithLine(file[s], Bad) EXCEPT !.torn = TRUE].gen = file[s].gen
    <3>1. file[s] \in FileRec /\ proc[p].msg \in Nat /\ Bad \in Nat
      BY <1>0, <2>3 DEF Is, StoreTypes, ProcRec, Bad
    <3>2. WithLine(file[s], Bad) \in FileRec
      BY <3>1, WithLineTypes
    <3>3. [WithLine(file[s], Bad) EXCEPT !.torn = TRUE].gen = WithLine(file[s], Bad).gen
      BY <3>2 DEF FileRec
    <3> QED
      BY <3>1, <3>3, AppendedSet
  <2>4. \A t \in Sids : /\ file'[t].gen = file[t].gen
                       /\ ToSet(file[t].lines) \subseteq ToSet(file'[t].lines)
    BY <1>0, <2>1, <2>3
  <2>5. \A m : Kept(m) => Kept(m)'
    BY <2>1, <2>4 DEF Kept
  <2>6. \A q \in Procs : Is(q, "write") => proc[q].sid \in Sids
    BY DEF StoreTypes, Is
  <2> QED
    BY <1>0, <2>1, <2>2, <2>4, <2>5, <2>6, KeptFrame DEF Is, Written
<1>12. ASSUME UNCHANGED <<proc, file, acked, removed, scars>> PROVE KeptInv'
  BY <1>12 DEF KeptInv, Is, OnName, NeverUnlinked, Written, Kept
<1> QED
  BY <1>1, <1>2, <1>3, <1>4, <1>5, <1>6, <1>7, <1>8, <1>9, <1>10, <1>11, <1>12
     DEF StoreNext, ReadIndex, storeVars, onDisk, ghosts

(* A message whose append has returned is in a file until its session is deleted, for  *)
(* any number of processes, sessions, deletes and crashes, unless a lock file was       *)
(* removed under somebody or a torn line was written to (jsonl.rs:706).                *)
THEOREM AckedStay == StoreSpec => []AckedKept
<1>1. StoreInit => KeptInv /\ PlaceInv
  BY AtRestFacts DEF StoreInit, KeptInv, PlaceInv, Is, Written
<1>2. KeptInv => AckedKept
  BY DEF KeptInv, AckedKept, NeverUnlinked
<1>3. StoreInit => scars = [s \in Sids |-> scars[s]]
  BY DEF StoreInit
<1> QED
  BY InitStore, StoreTypesKept, NextLock, NextPlace, NextKept, <1>1, <1>2, <1>3, PTL DEF StoreSpec

--------------------------------------------------------------------------------
(***************************************************************************)
(* What index.json has yet to count of a session without scars.            *)
(***************************************************************************)
Indexing(p, s, op) == proc[p].sid = s /\ proc[p].op = op /\ proc[p].pc \in {"index", "save"}
Pends(s, op) == \E p \in Procs : Indexing(p, s, op)
Uncounted(s) == (IF Pends(s, "append") THEN 1 ELSE 0) + (IF Pends(s, "fork") THEN 2 ELSE 0)

Counted(s) ==
    /\ ~file[s].torn /\ Bad \notin ToSet(file[s].lines)
    /\ \A p, q \in Procs : Indexing(p, s, "fork") /\ Indexing(q, s, "fork") => p = q
    /\ IF Pends(s, "delete") THEN file[s].lines = <<>> /\ ~Pends(s, "fork")
       ELSE index[s] + Uncounted(s) = Len(file[s].lines)

IndexInv == \A s \in Sids : scars[s] = {} => Counted(s)

LEMMA CountedFrame ==
    ASSUME NEW s, Counted(s), file'[s] = file[s], index'[s] = index[s], NEW p \in Procs,
           \A q \in Procs \ {p} : proc'[q] = proc[q],
           \A op : Indexing(p, s, op)' <=> Indexing(p, s, op)
    PROVE  Counted(s)'
<1>1. ASSUME NEW q \in Procs, NEW op PROVE Indexing(q, s, op)' <=> Indexing(q, s, op)
  BY <1>1 DEF Indexing
<1>2. \A op : Pends(s, op)' <=> Pends(s, op)
  BY <1>1 DEF Pends
<1>3. Uncounted(s)' = Uncounted(s)
  BY <1>2 DEF Uncounted
<1> QED
  BY <1>1, <1>2, <1>3 DEF Counted

(* A file whose lines can all be read is counted by their number. *)
LEMMA ScanCounts ==
    ASSUME NEW f \in FileRec, Bad \notin ToSet(f.lines) PROVE ScanOf(f) = Len(f.lines)
<1>1. f.lines \in Seq(Nat)
  BY DEF FileRec
<1>2. CASE f.lines = <<>>
  BY <1>2 DEF ScanOf
<1>3. CASE f.lines # <<>>
  <2>1. {1, Len(f.lines)} \subseteq DOMAIN f.lines
    BY <1>1, <1>3
  <2>2. Head(f.lines) = f.lines[1] /\ Last(f.lines) = f.lines[Len(f.lines)]
    BY <1>1, <1>3 DEF Last
  <2>3. {Head(f.lines), Last(f.lines)} \subseteq ToSet(f.lines)
    BY <2>1, <2>2 DEF ToSet
  <2> QED
    BY <1>3, <2>3 DEF ScanOf
<1> QED
  BY <1>2, <1>3

LEMMA AppendCounts ==
    ASSUME StoreTypes, LockInv, PlaceInv, KeptInv, NEW s \in Sids, scars[s] = {}, Counted(s),
           NEW p \in Procs, WriteLine(p), proc[p].sid = s, scars'[s] = {},
           scars = [t \in Sids |-> scars[t]]
    PROVE  Counted(s)'
<1> DEFINE line == proc[p].msg
           f == WithLine(file[s], line)
<1>1. /\ proc[p].pc = "write" /\ proc[p].op = "append" /\ line \in Nat /\ line > 0
      /\ file[s] \in FileRec /\ index[s] \in Nat
      /\ proc \in [Procs -> ProcRec]
  BY DEF WriteLine, Is, StoreTypes, ProcRec, PlaceInv, CountsOf
<1>2. OnName(p)
  BY <1>1 DEF KeptInv, Is
<1>3. /\ file' = [file EXCEPT ![s] = f] /\ UNCHANGED index /\ Moves(p, "index")
      /\ ~file[s].torn
  BY <1>2 DEF WriteLine, Scar
<1>4. /\ proc'[p].pc = "index" /\ proc'[p].op = "append" /\ proc'[p].sid = s
      /\ \A q \in Procs \ {p} : proc'[q] = proc[q]
  BY <1>1, <1>3, StoreMoves DEF Critical
<1>5. /\ ToSet(f.lines) = ToSet(file[s].lines) \union {line} /\ Len(f.lines) = Len(file[s].lines) + 1
      /\ ~f.torn
  BY <1>1, <1>3, AppendedSet
<1> HIDE DEF f
<1>6. file'[s] = f
  BY <1>3 DEF StoreTypes
<1>7. \A q \in Procs : ~Indexing(q, s, "append") /\ ~Indexing(q, s, "delete")
  BY <1>1, OneAtATime DEF Indexing, Critical
<1>8. \A q \in Procs : /\ Indexing(q, s, "fork")' <=> Indexing(q, s, "fork")
                      /\ ~Indexing(q, s, "delete")'
  BY <1>1, <1>4, <1>7 DEF Indexing
<1>9. Pends(s, "append")' /\ ~Pends(s, "append") /\ ~Pends(s, "delete") /\ ~Pends(s, "delete")'
      /\ (Pends(s, "fork")' <=> Pends(s, "fork"))
  BY <1>4, <1>7, <1>8 DEF Pends, Indexing
<1>10. Len(file[s].lines) \in Nat
  BY <1>1 DEF FileRec
<1>11. index'[s] + Uncounted(s)' = Len(file'[s].lines)
  BY <1>1, <1>3, <1>5, <1>6, <1>9, <1>10 DEF Uncounted, Counted
<1>12. ~file'[s].torn /\ Bad \notin ToSet(file'[s].lines)
  BY <1>1, <1>5, <1>6 DEF Counted, Bad
<1> QED
  BY <1>8, <1>9, <1>11, <1>12 DEF Counted

LEMMA ForkCounts ==
    ASSUME StoreTypes, NEW s \in Sids, Counted(s), NEW p \in Procs, Fork(p)
    PROVE  Counted(s)'
<1>1. PICK t \in Sids :
          /\ proc[p].pc = "idle" /\ UNCHANGED index
          /\ file[t] = NoFile /\ \A q \in Procs : proc[q].sid # t
          /\ \A u \in Sids \ {t} : file'[u] = file[u]
          /\ file'[t].torn = FALSE /\ file'[t].lines = <<appends + 1, appends + 2>>
          /\ \A q \in Procs \ {p} : proc'[q] = proc[q]
          /\ proc'[p].pc = "index" /\ proc'[p].op = "fork" /\ proc'[p].sid = t
  BY ForkFacts
<1>2. CASE s # t
  BY <1>1, <1>2, CountedFrame DEF Indexing
<1>3. CASE s = t
  <2>1. /\ \A q \in Procs : \A op : ~Indexing(q, s, op)
        /\ \A q \in Procs : \A op : Indexing(q, s, op)' <=> (q = p /\ op = "fork")
    BY <1>1, <1>3 DEF Indexing
  <2>2. /\ \A op : ~Pends(s, op)
        /\ \A op : Pends(s, op)' <=> op = "fork"
    BY <2>1 DEF Pends
  <2>3. Uncounted(s) = 0 /\ Uncounted(s)' = 2
    BY <2>2 DEF Uncounted
  <2>4. Len(file[s].lines) = 0
    BY <1>1, <1>3 DEF NoFile
  <2>5. index[s] = 0
    BY <2>2, <2>3, <2>4 DEF Counted, StoreTypes, CountsOf
  <2>6. Len(file'[s].lines) = 2 /\ Bad \notin ToSet(file'[s].lines)
    <3> DEFINE two == <<appends + 1, appends + 2>>
    <3>1. appends \in Nat /\ file'[s].lines = two
      BY <1>1, <1>3 DEF StoreTypes
    <3>2. Len(two) = 2 /\ DOMAIN two = 1..2 /\ two[1] = appends + 1 /\ two[2] = appends + 2
      OBVIOUS
    <3> HIDE DEF two
    <3>3. \A i \in 1..2 : two[i] # 0
      BY <3>1, <3>2
    <3> QED
      BY <3>1, <3>2, <3>3 DEF ToSet, Bad
  <2>7. index'[s] + Uncounted(s)' = Len(file'[s].lines) /\ ~file'[s].torn
    BY <1>1, <1>3, <2>3, <2>5, <2>6
  <2>8. \A q, r \in Procs : Indexing(q, s, "fork")' /\ Indexing(r, s, "fork")' => q = r
    BY <2>1
  <2> QED
    BY <2>2, <2>6, <2>7, <2>8 DEF Counted
<1> QED
  BY <1>2, <1>3

LEMMA RemoveCounts ==
    ASSUME StoreTypes, PlaceInv, NEW s \in Sids, NEW p \in Procs, RemoveFile(p), proc[p].sid = s,
           scars'[s] = {}, scars = [t \in Sids |-> scars[t]]
    PROVE  Counted(s)'
<1>1. /\ proc[p].pc = "remove" /\ proc[p].op = "delete" /\ proc \in [Procs -> ProcRec]
      /\ Moves(p, "index")
      /\ file'[s] = [NoFile EXCEPT !.gen = file[s].gen + 1]
      /\ Scar(s, IF Forks(s) THEN {"fork"} ELSE {})
  BY DEF RemoveFile, Is, PlaceInv, StoreTypes
<1>2. file'[s].lines = <<>> /\ ~file'[s].torn /\ ToSet(file'[s].lines) = {}
  BY <1>1 DEF NoFile, ToSet
<1>3. /\ proc'[p].pc = "index" /\ proc'[p].op = "delete" /\ proc'[p].sid = s
      /\ \A q \in Procs \ {p} : proc'[q] = proc[q]
  BY <1>1, StoreMoves DEF Critical
<1>4. ~Forks(s)
  BY <1>1 DEF Scar
<1>5. Pends(s, "delete")' /\ \A q \in Procs : ~Indexing(q, s, "fork")'
  BY <1>3, <1>4 DEF Pends, Indexing, Forks
<1> QED
  BY <1>2, <1>5 DEF Counted, Pends

(* Of the processes that have yet to count, the one that saves the index is done. *)
LEMMA SaveCounts ==
    ASSUME StoreTypes, LockInv, PlaceInv, SaveInv, NEW s \in Sids, scars[s] = {}, Counted(s),
           NEW p \in Procs, IndexSaves(p), scars'[s] = {}
    PROVE  Counted(s)'
<1>1. /\ proc \in [Procs -> ProcRec] /\ proc[p].pc = "save" /\ proc[p].op \in Operations
      /\ proc[p].loaded = index /\ index[s] \in Nat /\ index \in CountsOf
      /\ proc[p].scan \in CountsOf /\ file[s] \in FileRec
  BY DEF IndexSaves, Is, StoreTypes, SaveInv, CountsOf, ProcRec
<1>2. /\ index' = Changed(p) /\ UNCHANGED file
      /\ Rests(p) \/ Moves(p, "unlink")
      /\ proc[p].op \in {"list", "list_sync"} => ~Stale(p, s)
  BY DEF IndexSaves
<1>3. /\ proc'[p].pc \in {"idle", "unlink"} /\ \A q \in Procs \ {p} : proc'[q] = proc[q]
  BY <1>1, <1>2, RestsFacts, AtRestFacts, StoreMoves DEF ProcStep, Critical
<1>4. \A q \in Procs : \A op : Indexing(q, s, op)' <=> (q # p /\ Indexing(q, s, op))
  BY <1>3 DEF Indexing
<1>5. /\ Len(file[s].lines) \in Nat /\ ~file'[s].torn /\ Bad \notin ToSet(file'[s].lines)
      /\ Len(file'[s].lines) = Len(file[s].lines)
  BY <1>1, <1>2 DEF FileRec, Counted
<1> DEFINE t == proc[p].sid
<1>a. /\ proc[p].op = "append" => index' = [index EXCEPT ![t] = @ + 1]
      /\ proc[p].op = "fork" => index' = [index EXCEPT ![t] = @ + 2]
      /\ proc[p].op = "delete" => index' = [index EXCEPT ![t] = 0]
      /\ proc[p].op \in {"list", "list_sync"} => index'[s] \in {proc[p].scan[s], index[s]}
  <2>1. CASE proc[p].op = "append"
    BY <1>1, <1>2, <2>1 DEF Changed
  <2>2. CASE proc[p].op = "fork"
    BY <1>1, <1>2, <2>2 DEF Changed
  <2>3. CASE proc[p].op = "delete"
    BY <1>1, <1>2, <2>3 DEF Changed
  <2>4. CASE proc[p].op = "list"
    BY <1>1, <1>2, <2>4 DEF Changed
  <2>5. CASE proc[p].op = "list_sync"
    BY <1>1, <1>2, <2>5 DEF Changed
  <2> QED
    BY <1>1, <2>1, <2>2, <2>3, <2>4, <2>5 DEF Operations
<1>6. CASE proc[p].sid # s /\ proc[p].op \in {"append", "fork", "delete"}
  <2>1. index'[s] = index[s]
    BY <1>1, <1>a, <1>6 DEF CountsOf
  <2> QED
    BY <1>2, <1>3, <1>6, <2>1, CountedFrame, <1>4 DEF Indexing
<1>7. CASE proc[p].sid = s /\ proc[p].op = "append"
  <2>1. index'[s] = index[s] + 1
    BY <1>1, <1>a, <1>7 DEF CountsOf
  <2>2. Indexing(p, s, "append") /\ ~Indexing(p, s, "fork")
    BY <1>1, <1>7 DEF Indexing
  <2>3. \A q \in Procs \ {p} : ~Indexing(q, s, "append") /\ ~Indexing(q, s, "delete")
    BY <1>1, <1>7, OneAtATime DEF Indexing, Critical
  <2>4. \A q \in Procs : ~Indexing(q, s, "delete") /\ ~Indexing(q, s, "append")' /\ ~Indexing(q, s, "delete")'
                      /\ (Indexing(q, s, "fork")' <=> Indexing(q, s, "fork"))
    BY <1>4, <1>7, <2>2, <2>3 DEF Indexing
  <2>5. /\ Pends(s, "append") /\ ~Pends(s, "append")' /\ ~Pends(s, "delete") /\ ~Pends(s, "delete")'
        /\ Pends(s, "fork")' <=> Pends(s, "fork")
    BY <2>2, <2>4 DEF Pends
  <2>6. index'[s] + Uncounted(s)' = Len(file'[s].lines)
    BY <1>5, <1>1, <2>1, <2>5 DEF Uncounted, Counted
  <2> QED
    BY <1>5, <2>4, <2>5, <2>6 DEF Counted
<1>8. CASE proc[p].sid = s /\ proc[p].op = "fork"
  <2>1. index'[s] = index[s] + 2
    BY <1>1, <1>a, <1>8 DEF CountsOf
  <2>2. Indexing(p, s, "fork") /\ ~Indexing(p, s, "append") /\ ~Indexing(p, s, "delete")
    BY <1>1, <1>8 DEF Indexing
  <2>3. Pends(s, "fork") /\ ~Pends(s, "delete")
    BY <2>2 DEF Pends, Counted
  <2>4. \A q \in Procs : ~Indexing(q, s, "fork")' /\ ~Indexing(q, s, "delete")'
                      /\ (Indexing(q, s, "append")' <=> Indexing(q, s, "append"))
    BY <1>4, <2>2, <2>3 DEF Counted, Pends
  <2>5. ~Pends(s, "fork")' /\ ~Pends(s, "delete")' /\ (Pends(s, "append")' <=> Pends(s, "append"))
    BY <2>4 DEF Pends
  <2>6. index'[s] + Uncounted(s)' = Len(file'[s].lines)
    BY <1>5, <1>1, <2>1, <2>3, <2>5 DEF Uncounted, Counted
  <2> QED
    BY <1>5, <2>4, <2>5, <2>6 DEF Counted
<1>9. CASE proc[p].sid = s /\ proc[p].op = "delete"
  <2>1. index'[s] = 0
    BY <1>1, <1>a, <1>9 DEF CountsOf
  <2>2. Indexing(p, s, "delete")
    BY <1>1, <1>9 DEF Indexing
  <2>3. file[s].lines = <<>> /\ ~Pends(s, "fork")
    BY <2>2 DEF Pends, Counted
  <2>4. \A q \in Procs \ {p} : ~Indexing(q, s, "append") /\ ~Indexing(q, s, "delete")
    BY <1>1, <1>9, OneAtATime DEF Indexing, Critical
  <2>5. \A q \in Procs : ~Indexing(q, s, "fork")' /\ ~Indexing(q, s, "delete")' /\ ~Indexing(q, s, "append")'
    BY <1>4, <2>3, <2>4 DEF Pends
  <2>6. ~Pends(s, "fork")' /\ ~Pends(s, "delete")' /\ ~Pends(s, "append")'
    BY <2>5 DEF Pends
  <2>7. index'[s] + Uncounted(s)' = Len(file'[s].lines)
    BY <1>5, <2>1, <2>3, <2>6 DEF Uncounted
  <2> QED
    BY <1>5, <2>5, <2>6, <2>7 DEF Counted
<1>10. CASE proc[p].op \in {"list", "list_sync"}
  <2>1. proc[p].sid # s
    BY <1>10, StoreAssumption DEF PlaceInv
  <2>2. /\ proc[p].scan[s] = ScanOf(file[s])
        /\ \A q \in Procs \ {p} : \A op : ~Indexing(q, s, op)
    BY <1>2, <1>10 DEF Stale, Indexing
  <2>3. \A op : ~Pends(s, op)
    BY <2>1, <2>2 DEF Pends, Indexing
  <2>4. index[s] = Len(file[s].lines) /\ ScanOf(file[s]) = Len(file[s].lines)
    BY <1>1, <2>3, ScanCounts DEF Counted, Uncounted
  <2>5. index'[s] \in {proc[p].scan[s], index[s]}
    BY <1>a, <1>10
  <2>6. index'[s] = index[s]
    BY <2>2, <2>4, <2>5
  <2> QED
    BY <1>2, <1>3, <2>1, <2>6, CountedFrame, <1>4 DEF Indexing
<1> QED
  BY <1>1, <1>6, <1>7, <1>8, <1>9, <1>10 DEF Operations

LEMMA NextIndex ==
    ASSUME StoreTypes, LockInv, PlaceInv, SaveInv, KeptInv, IndexInv,
           scars = [s \in Sids |-> scars[s]], [StoreNext]_storeVars
    PROVE  IndexInv'
<1> SUFFICES ASSUME NEW s \in Sids, scars'[s] = {} PROVE Counted(s)'
  BY DEF IndexInv
<1>0. proc \in [Procs -> ProcRec] /\ scars[s] = {} /\ Counted(s)
  BY NextLock DEF StoreTypes, IndexInv
<1>1. ASSUME NEW p \in Procs, BeginAppend(p) \/ BeginDelete(p) PROVE Counted(s)'
  <2>1. /\ UNCHANGED <<file, index>> /\ proc[p].pc = "idle" /\ proc'[p].pc = "lock"
        /\ \A q \in Procs \ {p} : proc'[q] = proc[q]
    BY <1>1, BeginFacts
  <2> QED
    BY <1>0, <2>1, CountedFrame DEF Indexing
<1>2. ASSUME NEW p \in Procs, Fork(p) PROVE Counted(s)'
  BY <1>0, <1>2, ForkCounts
<1>3. ASSUME NEW p \in Procs, Acquire(p) PROVE Counted(s)'
  <2>1. /\ \E pc \in {"open", "remove"} : Moves(p, pc)
        /\ UNCHANGED <<file, index>> /\ proc[p].pc = "lock"
    BY <1>3 DEF Acquire, onDisk, Is
  <2>2. proc'[p].pc \in {"open", "remove"} /\ \A q \in Procs \ {p} : proc'[q] = proc[q]
    BY <1>0, <2>1, StoreMoves DEF Critical
  <2> QED
    BY <1>0, <2>1, <2>2, CountedFrame DEF Indexing
<1>4. ASSUME NEW p \in Procs, GiveUp(p) \/ UnlinkLock(p) PROVE Counted(s)'
  <2>1. Rests(p) /\ UNCHANGED <<file, index>> /\ proc[p].pc \in {"lock", "unlink"}
    BY <1>4 DEF GiveUp, UnlinkLock, onDisk, Is
  <2>2. proc'[p].pc = "idle" /\ \A q \in Procs \ {p} : proc'[q] = proc[q]
    BY <1>0, <2>1, RestsFacts, AtRestFacts DEF ProcStep
  <2> QED
    BY <1>0, <2>1, <2>2, CountedFrame DEF Indexing
<1>5. ASSUME NEW p \in Procs, OpenFile(p) PROVE Counted(s)'
  <2>1. /\ UNCHANGED <<file, index>> /\ proc[p].pc = "open" /\ proc'[p].pc = "write"
        /\ \A q \in Procs \ {p} : proc'[q] = proc[q]
    BY <1>5, OpenFileFacts
  <2> QED
    BY <1>0, <2>1, CountedFrame DEF Indexing
<1>6. ASSUME NEW p \in Procs, WriteLine(p) PROVE Counted(s)'
  <2>1. CASE proc[p].sid = s
    BY <1>0, <1>6, <2>1, AppendCounts
  <2>2. CASE proc[p].sid # s
    <3>1. /\ Moves(p, "index") /\ UNCHANGED index /\ file'[s] = file[s]
      BY <1>6, <2>2 DEF WriteLine, StoreTypes
    <3>2. proc'[p].sid # s /\ \A q \in Procs \ {p} : proc'[q] = proc[q]
      BY <1>0, <2>2, <3>1, StoreMoves DEF Critical
    <3> QED
      BY <1>0, <2>2, <3>1, <3>2, CountedFrame DEF Indexing
  <2> QED
    BY <2>1, <2>2
<1>7. ASSUME NEW p \in Procs, IndexLoads(p) PROVE Counted(s)'
  <2>1. /\ UNCHANGED <<file, index>> /\ proc[p].pc = "index" /\ proc'[p].pc = "save"
        /\ \A q \in Procs \ {p} : proc'[q] = proc[q]
        /\ proc'[p].op = proc[p].op /\ proc'[p].sid = proc[p].sid
    BY <1>7, IndexLoadsFacts
  <2> QED
    BY <1>0, <2>1, CountedFrame DEF Indexing
<1>8. ASSUME NEW p \in Procs, IndexSaves(p) PROVE Counted(s)'
  BY <1>0, <1>8, SaveCounts
<1>9. ASSUME NEW p \in Procs, RemoveFile(p) PROVE Counted(s)'
  <2>1. CASE proc[p].sid = s
    BY <1>9, <2>1, RemoveCounts
  <2>2. CASE proc[p].sid # s
    <3>1. Moves(p, "index") /\ UNCHANGED index /\ file'[s] = file[s]
      BY <1>9, <2>2 DEF RemoveFile, StoreTypes
    <3>2. proc'[p].sid # s /\ \A q \in Procs \ {p} : proc'[q] = proc[q]
      BY <1>0, <2>2, <3>1, StoreMoves DEF Critical
    <3> QED
      BY <1>0, <2>2, <3>1, <3>2, CountedFrame DEF Indexing
  <2> QED
    BY <2>1, <2>2
<1>10. ASSUME NEW p \in Procs, Scan(p) PROVE Counted(s)'
  <2>1. /\ UNCHANGED <<file, index>> /\ proc[p].pc = "idle" /\ proc'[p].sid = NoSid
        /\ \A q \in Procs \ {p} : proc'[q] = proc[q]
    BY <1>10, ScanFacts
  <2> QED
    BY <1>0, <2>1, CountedFrame, StoreAssumption DEF Indexing
<1>11. ASSUME NEW p \in Procs, Crash(p) PROVE Counted(s)'
  <2>1. Rests(p) /\ UNCHANGED index
    BY <1>11 DEF Crash
  <2>2. proc'[p].pc = "idle" /\ \A q \in Procs \ {p} : proc'[q] = proc[q]
    BY <1>0, <2>1, RestsFacts, AtRestFacts DEF ProcStep
  <2>3. file'[s] = file[s] /\ ~(proc[p].sid = s /\ proc[p].pc \in {"index", "save"})
    <3>1. proc[p].sid = s => s # NoSid
      BY StoreAssumption
    <3>2. ASSUME proc[p].sid = s PROVE ~Scar(s, {"crash"}) /\ \A what : ~Scar(s, {"crash"} \union what)
      BY DEF Scar
    <3>3. CASE proc[p].sid = s
      BY <1>11, <3>1, <3>2, <3>3 DEF Crash
    <3>4. CASE proc[p].sid # s
      BY <1>11, <3>4 DEF Crash, StoreTypes
    <3> QED
      BY <3>3, <3>4
  <2> QED
    BY <1>0, <2>1, <2>2, <2>3, CountedFrame DEF Indexing
<1>12. ASSUME UNCHANGED <<proc, file, index>> PROVE Counted(s)'
  BY <1>0, <1>12 DEF Counted, Indexing, Pends, Uncounted
<1> QED
  BY <1>1, <1>2, <1>3, <1>4, <1>5, <1>6, <1>7, <1>8, <1>9, <1>10, <1>11, <1>12
     DEF StoreNext, ReadIndex, storeVars, onDisk

(* When every process is at rest, index.json counts the messages of every session nothing *)
(* has happened to (jsonl.rs:706-810, index.rs): no update of the index is lost, whatever *)
(* the number of processes and sessions and however their operations interleave.         *)
THEOREM IndexCounts == StoreSpec => []IndexAgrees
<1>1. StoreInit => PlaceInv /\ SaveInv /\ KeptInv
  BY AtRestFacts DEF StoreInit, PlaceInv, SaveInv, KeptInv, Is, Written
<1>2. StoreInit => IndexInv
  <2> SUFFICES ASSUME StoreInit, NEW s \in Sids PROVE Counted(s)
    BY DEF IndexInv
  <2>1. \A op : ~Pends(s, op)
    BY AtRestFacts DEF StoreInit, Pends, Indexing
  <2>2. index[s] = 0 /\ file[s] = NoFile
    BY DEF StoreInit, NoIndex
  <2>3. ~file[s].torn /\ file[s].lines = <<>> /\ ToSet(file[s].lines) = {}
    BY <2>2 DEF NoFile, ToSet
  <2> QED
    BY <2>1, <2>2, <2>3 DEF Counted, Uncounted, Pends
<1>3. StoreTypes /\ IndexInv => IndexAgrees
  <2> SUFFICES ASSUME StoreTypes, IndexInv, \A p \in Procs : Is(p, "idle"), NEW s \in Sids, scars[s] = {}
               PROVE  index[s] = ScanOf(file[s])
    BY DEF IndexAgrees
  <2>1. Counted(s) /\ \A op : ~Pends(s, op)
    BY DEF IndexInv, Pends, Indexing, Is
  <2>2. index[s] = Len(file[s].lines)
    BY <2>1 DEF Counted, Uncounted, StoreTypes, CountsOf
  <2> QED
    BY <2>1, <2>2, ScanCounts DEF Counted, StoreTypes
<1>4. StoreInit => scars = [s \in Sids |-> scars[s]]
  BY DEF StoreInit
<1> QED
  BY InitStore, StoreTypesKept, NextLock, NextPlace, NextSave, NextKept, NextIndex,
     <1>1, <1>2, <1>3, <1>4, PTL DEF StoreSpec
--------------------------------------------------------------------------------
(***************************************************************************)
(* How far the numbers go.  Every operation under way has been counted     *)
(* when it began: the lines of a file and the appends that have still to   *)
(* write are together no more than the appends, and so with the deletes.   *)
(* The index may count a message twice, once from a scan and once when the *)
(* append that wrote it gets to the index.                                 *)
(***************************************************************************)
Appenders == {p \in Procs : proc[p].op = "append"}
Forkers == {p \in Procs : proc[p].op = "fork"}
Writers == {p \in Procs : proc[p].op = "append" /\ proc[p].pc \in {"lock", "open", "write"}}
Deleters == {p \in Procs : proc[p].op = "delete" /\ proc[p].pc \in {"lock", "remove"}}
Awaited == Cardinality(Appenders) + 2 * Cardinality(Forkers)

PendingBounds ==
    /\ appends <= MaxAppends /\ deletes \in 0..MaxDeletes
    /\ Awaited <= appends
    /\ \A s \in Sids : /\ Len(file[s].lines) + Cardinality(Writers) <= appends
                       /\ file[s].gen + Cardinality(Deleters) <= deletes
                       /\ index[s] + Awaited <= 2 * appends

Gain(before, after) ==
    IF after /\ ~before THEN 1 ELSE IF before /\ ~after THEN -1 ELSE 0

(* A set that gains or loses one element. *)
LEMMA SetStep ==
    ASSUME NEW S \in SUBSET Procs, NEW T \in SUBSET Procs, NEW p \in Procs,
           \A q \in Procs \ {p} : q \in T <=> q \in S
    PROVE  /\ Cardinality(S) \in Nat /\ Cardinality(T) \in Nat
           /\ Cardinality(T) = Cardinality(S) + Gain(p \in S, p \in T)
<1>1. IsFiniteSet(S) /\ IsFiniteSet(T)
  BY StoreAssumption, FS_Subset
<1>2. Cardinality(S) \in Nat /\ Cardinality(T) \in Nat
  BY <1>1, FS_CardinalityType
<1>3. CASE p \in T /\ p \notin S
  <2>1. T = S \union {p}
    BY <1>3
  <2>2. Cardinality(S \union {p}) = Cardinality(S) + 1
    BY <1>1, <1>3, FS_AddElement
  <2> QED
    BY <1>2, <1>3, <2>1, <2>2 DEF Gain
<1>4. CASE p \in S /\ p \notin T
  <2>1. T = S \ {p}
    BY <1>4
  <2>2. Cardinality(S \ {p}) = Cardinality(S) - 1
    BY <1>1, <1>4, FS_RemoveElement
  <2> QED
    BY <1>2, <1>4, <2>1, <2>2 DEF Gain
<1>5. CASE p \in S <=> p \in T
  <2>1. T = S
    BY <1>5
  <2>2. Gain(p \in S, p \in T) = 0
    BY <1>5 DEF Gain
  <2> QED
    BY <1>2, <2>1, <2>2
<1> QED
  BY <1>3, <1>4, <1>5

(* The sizes before and after a step of one process, and of one that keeps its place. *)
Sizes ==
    /\ Cardinality(Appenders) \in Nat /\ Cardinality(Forkers) \in Nat
    /\ Cardinality(Writers) \in Nat /\ Cardinality(Deleters) \in Nat
Counting(p) ==
    /\ Sizes /\ Sizes'
    /\ Cardinality(Appenders') = Cardinality(Appenders)
          + Gain(proc[p].op = "append", proc'[p].op = "append")
    /\ Cardinality(Forkers') = Cardinality(Forkers)
          + Gain(proc[p].op = "fork", proc'[p].op = "fork")
    /\ Cardinality(Writers') = Cardinality(Writers)
          + Gain(proc[p].op = "append" /\ proc[p].pc \in {"lock", "open", "write"},
                 proc'[p].op = "append" /\ proc'[p].pc \in {"lock", "open", "write"})
    /\ Cardinality(Deleters') = Cardinality(Deleters)
          + Gain(proc[p].op = "delete" /\ proc[p].pc \in {"lock", "remove"},
                 proc'[p].op = "delete" /\ proc'[p].pc \in {"lock", "remove"})

LEMMA CountingStep ==
    ASSUME NEW p \in Procs, \A q \in Procs \ {p} : proc'[q] = proc[q]
    PROVE  Counting(p)
<1> DEFINE A(n) == {q \in Procs : n[q].op = "append"}
           F(n) == {q \in Procs : n[q].op = "fork"}
           W(n) == {q \in Procs : n[q].op = "append" /\ n[q].pc \in {"lock", "open", "write"}}
           D(n) == {q \in Procs : n[q].op = "delete" /\ n[q].pc \in {"lock", "remove"}}
<1>1. /\ Appenders = A(proc) /\ Appenders' = A(proc') /\ Forkers = F(proc) /\ Forkers' = F(proc')
      /\ Writers = W(proc) /\ Writers' = W(proc') /\ Deleters = D(proc) /\ Deleters' = D(proc')
  BY DEF Appenders, Forkers, Writers, Deleters
<1>2. PICK m, n : m = proc /\ n = proc'
  OBVIOUS
<1>3. \A q \in Procs \ {p} : n[q] = m[q]
  BY <1>2
<1>4. /\ Cardinality(A(m)) \in Nat /\ Cardinality(A(n)) \in Nat
      /\ Cardinality(A(n)) = Cardinality(A(m)) + Gain(p \in A(m), p \in A(n))
  <2>1. /\ A(m) \in SUBSET Procs /\ A(n) \in SUBSET Procs
        /\ \A q \in Procs \ {p} : q \in A(n) <=> q \in A(m)
    BY <1>3
  <2> HIDE DEF A
  <2> QED
    BY <2>1, SetStep
<1>5. /\ Cardinality(F(m)) \in Nat /\ Cardinality(F(n)) \in Nat
      /\ Cardinality(F(n)) = Cardinality(F(m)) + Gain(p \in F(m), p \in F(n))
  <2>1. /\ F(m) \in SUBSET Procs /\ F(n) \in SUBSET Procs
        /\ \A q \in Procs \ {p} : q \in F(n) <=> q \in F(m)
    BY <1>3
  <2> HIDE DEF F
  <2> QED
    BY <2>1, SetStep
<1>6. /\ Cardinality(W(m)) \in Nat /\ Cardinality(W(n)) \in Nat
      /\ Cardinality(W(n)) = Cardinality(W(m)) + Gain(p \in W(m), p \in W(n))
  <2>1. /\ W(m) \in SUBSET Procs /\ W(n) \in SUBSET Procs
        /\ \A q \in Procs \ {p} : q \in W(n) <=> q \in W(m)
    BY <1>3
  <2> HIDE DEF W
  <2> QED
    BY <2>1, SetStep
<1>7. /\ Cardinality(D(m)) \in Nat /\ Cardinality(D(n)) \in Nat
      /\ Cardinality(D(n)) = Cardinality(D(m)) + Gain(p \in D(m), p \in D(n))
  <2>1. /\ D(m) \in SUBSET Procs /\ D(n) \in SUBSET Procs
        /\ \A q \in Procs \ {p} : q \in D(n) <=> q \in D(m)
    BY <1>3
  <2> HIDE DEF D
  <2> QED
    BY <2>1, SetStep
<1>8. /\ Gain(p \in A(m), p \in A(n)) = Gain(m[p].op = "append", n[p].op = "append")
      /\ Gain(p \in F(m), p \in F(n)) = Gain(m[p].op = "fork", n[p].op = "fork")
      /\ Gain(p \in W(m), p \in W(n)) =
             Gain(m[p].op = "append" /\ m[p].pc \in {"lock", "open", "write"},
                  n[p].op = "append" /\ n[p].pc \in {"lock", "open", "write"})
      /\ Gain(p \in D(m), p \in D(n)) =
             Gain(m[p].op = "delete" /\ m[p].pc \in {"lock", "remove"},
                  n[p].op = "delete" /\ n[p].pc \in {"lock", "remove"})
  BY DEF Gain
<1> HIDE DEF A, F, W, D
<1> QED
  BY <1>1, <1>2, <1>4, <1>5, <1>6, <1>7, <1>8 DEF Counting, Sizes

NoMore ==
    /\ Sizes /\ Sizes'
    /\ Cardinality(Appenders') <= Cardinality(Appenders)
    /\ Cardinality(Forkers') <= Cardinality(Forkers)
    /\ Cardinality(Writers') <= Cardinality(Writers)
    /\ Cardinality(Deleters') <= Cardinality(Deleters)

LEMMA GoesOn ==
    ASSUME NEW p \in Procs, \A q \in Procs \ {p} : proc'[q] = proc[q],
           \/ proc'[p].op \notin {"append", "fork", "delete"}
           \/ /\ proc'[p].op = proc[p].op
              /\ proc'[p].op = "append" /\ proc'[p].pc \in {"lock", "open", "write"}
                    => proc[p].pc \in {"lock", "open", "write"}
              /\ proc'[p].op = "delete" /\ proc'[p].pc \in {"lock", "remove"}
                    => proc[p].pc \in {"lock", "remove"}
    PROVE  NoMore /\ Counting(p)
<1>1. Counting(p)
  BY CountingStep
<1>2. Sizes /\ Sizes'
  BY <1>1 DEF Counting
<1>3. /\ Gain(proc[p].op = "append", proc'[p].op = "append") \in {-1, 0}
      /\ Gain(proc[p].op = "fork", proc'[p].op = "fork") \in {-1, 0}
      /\ Gain(proc[p].op = "append" /\ proc[p].pc \in {"lock", "open", "write"},
              proc'[p].op = "append" /\ proc'[p].pc \in {"lock", "open", "write"}) \in {-1, 0}
      /\ Gain(proc[p].op = "delete" /\ proc[p].pc \in {"lock", "remove"},
              proc'[p].op = "delete" /\ proc'[p].pc \in {"lock", "remove"}) \in {-1, 0}
  BY DEF Gain
<1> QED
  BY <1>1, <1>2, <1>3 DEF Counting, NoMore, Sizes

LEMMA SizeTypes == Sizes /\ Sizes'
<1>1. /\ IsFiniteSet(Appenders) /\ IsFiniteSet(Forkers) /\ IsFiniteSet(Writers) /\ IsFiniteSet(Deleters)
  BY StoreAssumption, FS_Subset DEF Appenders, Forkers, Writers, Deleters
<1>2. /\ IsFiniteSet(Appenders)' /\ IsFiniteSet(Forkers)' /\ IsFiniteSet(Writers)' /\ IsFiniteSet(Deleters)'
  BY StoreAssumption, FS_Subset DEF Appenders, Forkers, Writers, Deleters
<1> QED
  BY <1>1, <1>2, FS_CardinalityType DEF Sizes

PendingNumbers ==
    /\ appends \in Nat /\ deletes \in Nat /\ MaxAppends \in Nat /\ MaxDeletes \in Nat
    /\ \A s \in Sids : Len(file[s].lines) \in Nat /\ file[s].gen \in Nat /\ index[s] \in Nat

LEMMA PendingTypes ==
    ASSUME StoreTypes, PendingBounds
    PROVE  PendingNumbers
<1>1. \A s \in Sids : file[s].lines \in Seq(Nat) /\ file[s].gen \in Nat /\ index[s] \in Nat
  BY DEF StoreTypes, FileRec, CountsOf
<1>2. \A s \in Sids : Len(file[s].lines) \in Nat
  BY <1>1
<1> QED
  BY <1>1, <1>2, StoreAssumption DEF StoreTypes, PendingBounds, PendingNumbers

LEMMA PendingFrame ==
    ASSUME StoreTypes, PendingBounds, NoMore, UNCHANGED <<appends, deletes>>,
           \A s \in Sids : /\ Len(file'[s].lines) <= Len(file[s].lines)
                                + Cardinality(Writers) - Cardinality(Writers')
                           /\ file'[s].gen <= file[s].gen
                                + Cardinality(Deleters) - Cardinality(Deleters')
                           /\ index'[s] = index[s],
           StoreTypes'
    PROVE  PendingBounds'
<1>1. PendingNumbers
  BY PendingTypes
<1>2. /\ Awaited \in Nat /\ Awaited' \in Nat /\ Awaited' <= Awaited
      /\ Cardinality(Writers) \in Nat /\ Cardinality(Writers') \in Nat
      /\ Cardinality(Deleters) \in Nat /\ Cardinality(Deleters') \in Nat
  BY DEF NoMore, Sizes, Awaited
<1>3. ASSUME NEW s \in Sids
      PROVE  /\ Len(file'[s].lines) + Cardinality(Writers') <= appends
             /\ file'[s].gen + Cardinality(Deleters') <= deletes
             /\ index'[s] + Awaited' <= 2 * appends
  <2>1. Len(file'[s].lines) \in Nat /\ file'[s].gen \in Nat
    <3>1. file'[s].lines \in Seq(Nat) /\ file'[s].gen \in Nat
      BY DEF StoreTypes, FileRec
    <3> QED
      BY <3>1
  <2>2. /\ Len(file[s].lines) \in Nat /\ file[s].gen \in Nat /\ index[s] \in Nat
        /\ appends \in Nat /\ deletes \in Nat
    BY <1>1 DEF PendingNumbers
  <2>3. /\ Len(file[s].lines) + Cardinality(Writers) <= appends
        /\ file[s].gen + Cardinality(Deleters) <= deletes
        /\ index[s] + Awaited <= 2 * appends
    BY DEF PendingBounds
  <2>4. \A n, m, w, v, a \in Nat : n + w <= a /\ m <= n + w - v => m + v <= a
    OBVIOUS
  <2>5. \A n, x, y, a \in Nat : n + x <= 2 * a /\ y <= x => n + y <= 2 * a
    OBVIOUS
  <2>9. /\ Len(file'[s].lines) <= Len(file[s].lines) + Cardinality(Writers) - Cardinality(Writers')
        /\ file'[s].gen <= file[s].gen + Cardinality(Deleters) - Cardinality(Deleters')
        /\ index'[s] = index[s]
    OBVIOUS
  <2>6. Len(file'[s].lines) + Cardinality(Writers') <= appends
    <3> DEFINE n == Len(file[s].lines)  m == Len(file'[s].lines)
               w == Cardinality(Writers)  v == Cardinality(Writers')
    <3>1. n \in Nat /\ m \in Nat /\ w \in Nat /\ v \in Nat /\ n + w <= appends /\ m <= n + w - v
          /\ appends \in Nat
      BY <1>2, <2>1, <2>2, <2>3, <2>9
    <3> HIDE DEF n, m, w, v
    <3>2. m + v <= appends
      BY <2>4, <3>1
    <3> QED
      BY <3>2 DEF m, v
  <2>7. file'[s].gen + Cardinality(Deleters') <= deletes
    <3> DEFINE n == file[s].gen  m == file'[s].gen
               w == Cardinality(Deleters)  v == Cardinality(Deleters')
    <3>1. n \in Nat /\ m \in Nat /\ w \in Nat /\ v \in Nat /\ n + w <= deletes /\ m <= n + w - v
          /\ deletes \in Nat
      BY <1>2, <2>1, <2>2, <2>3, <2>9
    <3> HIDE DEF n, m, w, v
    <3>2. m + v <= deletes
      BY <2>4, <3>1
    <3> QED
      BY <3>2 DEF m, v
  <2>8. index'[s] + Awaited' <= 2 * appends
    BY <1>2, <2>2, <2>3, <2>5, <2>9
  <2> QED
    BY <2>6, <2>7, <2>8
<1>4. appends <= MaxAppends /\ deletes \in 0..MaxDeletes /\ Awaited' <= appends
  BY <1>1, <1>2 DEF PendingBounds, PendingNumbers
<1> QED
  BY <1>3, <1>4 DEF PendingBounds

(* Nothing of the files or the index changes, and nobody begins. *)
LEMMA PendingSame ==
    ASSUME StoreTypes, PendingBounds, NoMore, UNCHANGED <<appends, deletes, file, index>>, StoreTypes'
    PROVE  PendingBounds'
<1>1. PendingNumbers
  BY PendingTypes
<1>2. \A s \in Sids : /\ Len(file'[s].lines) <= Len(file[s].lines)
                                + Cardinality(Writers) - Cardinality(Writers')
                      /\ file'[s].gen <= file[s].gen
                                + Cardinality(Deleters) - Cardinality(Deleters')
                      /\ index'[s] = index[s]
  <2>1. /\ Cardinality(Writers) - Cardinality(Writers') >= 0
        /\ Cardinality(Deleters) - Cardinality(Deleters') >= 0
        /\ Cardinality(Writers) - Cardinality(Writers') \in Int
        /\ Cardinality(Deleters) - Cardinality(Deleters') \in Int
    BY DEF NoMore, Sizes
  <2>2. \A n, d \in Nat, x, y \in Int : x >= 0 /\ y >= 0 => n <= n + x /\ d <= d + y
    OBVIOUS
  <2>3. /\ Cardinality(Writers) \in Nat /\ Cardinality(Writers') \in Nat
        /\ Cardinality(Deleters) \in Nat /\ Cardinality(Deleters') \in Nat
    BY DEF NoMore, Sizes
  <2>4. ASSUME NEW s \in Sids
        PROVE  /\ Len(file[s].lines) <= Len(file[s].lines) + Cardinality(Writers) - Cardinality(Writers')
               /\ file[s].gen <= file[s].gen + Cardinality(Deleters) - Cardinality(Deleters')
    <3>1. Len(file[s].lines) \in Nat /\ file[s].gen \in Nat
      BY <1>1 DEF PendingNumbers
    <3> QED
      BY <2>1, <2>3, <3>1
  <2> QED
    BY <2>4
<1> QED
  BY <1>2, PendingFrame

LEMMA BeginPending ==
    ASSUME StoreTypes, PlaceInv, PendingBounds, StoreTypes', NEW p \in Procs,
           BeginAppend(p) \/ BeginDelete(p)
    PROVE  PendingBounds'
<1>1. /\ UNCHANGED <<file, index>>
      /\ \A q \in Procs \ {p} : proc'[q] = proc[q]
      /\ proc[p].op = "none"
  BY BeginFacts, AtRestFacts DEF PlaceInv
<1>2. PendingNumbers
  BY PendingTypes
<1>3. Counting(p)
  BY <1>1, CountingStep
<1>4. CASE BeginAppend(p)
  <2>1. /\ proc'[p].op = "append" /\ proc'[p].pc = "lock"
        /\ appends < MaxAppends /\ appends' = appends + 1 /\ deletes' = deletes
    <3>1. PICK s \in Sids : OpensLock(p, s, "append", appends + 1)
      BY <1>4 DEF BeginAppend
    <3> QED
      BY <1>2, <1>4, <3>1, OpensLockFacts DEF BeginAppend, PendingNumbers
  <2>2. /\ Cardinality(Appenders') = Cardinality(Appenders) + 1
        /\ Cardinality(Forkers') = Cardinality(Forkers)
        /\ Cardinality(Writers') = Cardinality(Writers) + 1
        /\ Cardinality(Deleters') = Cardinality(Deleters)
        /\ Sizes
    BY <1>1, <1>3, <2>1 DEF Counting, Gain, Sizes
  <2>3. Awaited' = Awaited + 1 /\ Awaited \in Nat
    BY <2>2 DEF Awaited, Sizes
  <2>4. ASSUME NEW s \in Sids
        PROVE  /\ Len(file[s].lines) + Cardinality(Writers') <= appends'
               /\ file[s].gen + Cardinality(Deleters') <= deletes'
               /\ index[s] + Awaited' <= 2 * appends'
    <3>1. /\ Len(file[s].lines) \in Nat /\ file[s].gen \in Nat /\ index[s] \in Nat
          /\ appends \in Nat /\ deletes \in Nat
      BY <1>2 DEF PendingNumbers
    <3>2. /\ Len(file[s].lines) + Cardinality(Writers) <= appends
          /\ file[s].gen + Cardinality(Deleters) <= deletes
          /\ index[s] + Awaited <= 2 * appends
      BY DEF PendingBounds
    <3>3. Cardinality(Writers) \in Nat /\ Cardinality(Deleters) \in Nat
      BY <2>2 DEF Sizes
    <3>4. \A n, w, a \in Nat : n + w <= a => n + (w + 1) <= a + 1
      OBVIOUS
    <3>5. \A n, x, a \in Nat : n + x <= 2 * a => n + (x + 1) <= 2 * (a + 1)
      OBVIOUS
    <3>6. Len(file[s].lines) + Cardinality(Writers') <= appends'
      BY <2>1, <2>2, <3>1, <3>2, <3>3, <3>4
    <3>7. index[s] + Awaited' <= 2 * appends'
      BY <2>1, <2>3, <3>1, <3>2, <3>5
    <3>8. file[s].gen + Cardinality(Deleters') <= deletes'
      BY <2>1, <2>2, <3>2
    <3> QED
      BY <3>6, <3>7, <3>8
  <2>5. appends' <= MaxAppends /\ deletes' \in 0..MaxDeletes /\ Awaited' <= appends'
    BY <1>2, <2>1, <2>3 DEF PendingBounds, PendingNumbers
  <2> QED
    BY <1>1, <2>4, <2>5 DEF PendingBounds
<1>5. CASE BeginDelete(p)
  <2>1. /\ proc'[p].op = "delete" /\ proc'[p].pc = "lock"
        /\ deletes < MaxDeletes /\ deletes' = deletes + 1 /\ appends' = appends
    <3>1. PICK s \in Sids : OpensLock(p, s, "delete", 0)
      BY <1>5 DEF BeginDelete
    <3> QED
      BY <1>5, <3>1, OpensLockFacts DEF BeginDelete
  <2>2. /\ Cardinality(Appenders') = Cardinality(Appenders)
        /\ Cardinality(Forkers') = Cardinality(Forkers)
        /\ Cardinality(Writers') = Cardinality(Writers)
        /\ Cardinality(Deleters') = Cardinality(Deleters) + 1
        /\ Sizes
    BY <1>1, <1>3, <2>1 DEF Counting, Gain, Sizes
  <2>3. Awaited' = Awaited /\ Awaited \in Nat
    BY <2>2 DEF Awaited, Sizes
  <2>4. ASSUME NEW s \in Sids
        PROVE  /\ Len(file[s].lines) + Cardinality(Writers') <= appends'
               /\ file[s].gen + Cardinality(Deleters') <= deletes'
               /\ index[s] + Awaited' <= 2 * appends'
    <3>1. /\ Len(file[s].lines) \in Nat /\ file[s].gen \in Nat /\ index[s] \in Nat
          /\ appends \in Nat /\ deletes \in Nat
      BY <1>2 DEF PendingNumbers
    <3>2. /\ Len(file[s].lines) + Cardinality(Writers) <= appends
          /\ file[s].gen + Cardinality(Deleters) <= deletes
          /\ index[s] + Awaited <= 2 * appends
      BY DEF PendingBounds
    <3>3. Cardinality(Writers) \in Nat /\ Cardinality(Deleters) \in Nat
      BY <2>2 DEF Sizes
    <3> QED
      BY <2>1, <2>2, <2>3, <3>1, <3>2, <3>3
  <2>5. appends' <= MaxAppends /\ deletes' \in 0..MaxDeletes /\ Awaited' <= appends'
    BY <1>2, <2>1, <2>3 DEF PendingBounds, PendingNumbers
  <2> QED
    BY <1>1, <2>4, <2>5 DEF PendingBounds
<1> QED
  BY <1>4, <1>5

LEMMA ForkPending ==
    ASSUME StoreTypes, PlaceInv, PendingBounds, StoreTypes', NEW p \in Procs, Fork(p)
    PROVE  PendingBounds'
<1>1. PICK s \in Sids :
          /\ proc[p].pc = "idle" /\ UNCHANGED index
          /\ file[s] = NoFile
          /\ \A t \in Sids \ {s} : file'[t] = file[t]
          /\ file'[s].gen = file[s].gen
          /\ file'[s].lines = <<appends + 1, appends + 2>>
          /\ \A q \in Procs \ {p} : proc'[q] = proc[q]
          /\ proc'[p].pc = "index" /\ proc'[p].op = "fork"
  BY ForkFacts
<1>2. /\ appends + 2 <= MaxAppends /\ appends' = appends + 2 /\ deletes' = deletes
  BY DEF Fork
<1>3. PendingNumbers
  BY PendingTypes
<1>4. Counting(p) /\ proc[p].op = "none"
  BY <1>1, CountingStep, AtRestFacts DEF PlaceInv
<1>5. /\ Cardinality(Appenders') = Cardinality(Appenders)
      /\ Cardinality(Forkers') = Cardinality(Forkers) + 1
      /\ Cardinality(Writers') = Cardinality(Writers)
      /\ Cardinality(Deleters') = Cardinality(Deleters)
      /\ Sizes
  BY <1>1, <1>4 DEF Counting, Gain, Sizes
<1>6. Awaited' = Awaited + 2 /\ Awaited \in Nat
  BY <1>5 DEF Awaited, Sizes
<1>7. Len(file[s].lines) = 0 /\ Len(file'[s].lines) = 2
  BY <1>1 DEF NoFile
<1>8. \A n, w, a \in Nat : n + w <= a => n + w <= a + 2
  OBVIOUS
<1>9. \A w, a \in Nat : 0 + w <= a => 2 + w <= a + 2
  OBVIOUS
<1>10. \A n, x, a \in Nat : n + x <= 2 * a => n + (x + 2) <= 2 * (a + 2)
  OBVIOUS
<1>11. ASSUME NEW t \in Sids
       PROVE  /\ Len(file'[t].lines) + Cardinality(Writers') <= appends'
              /\ file'[t].gen + Cardinality(Deleters') <= deletes'
              /\ index'[t] + Awaited' <= 2 * appends'
  <2>1. /\ Len(file[t].lines) \in Nat /\ index[t] \in Nat /\ appends \in Nat
        /\ Len(file[t].lines) + Cardinality(Writers) <= appends
        /\ file[t].gen + Cardinality(Deleters) <= deletes
        /\ index[t] + Awaited <= 2 * appends
    BY <1>3 DEF PendingNumbers, PendingBounds
  <2>2. Cardinality(Writers) \in Nat
    BY <1>5 DEF Sizes
  <2>3. Len(file'[t].lines) + Cardinality(Writers) <= appends + 2
    <3>1. CASE t = s
      BY <1>7, <1>9, <2>1, <2>2, <3>1
    <3>2. CASE t # s
      BY <1>1, <1>8, <2>1, <2>2, <3>2
    <3> QED
      BY <3>1, <3>2
  <2>4. file'[t].gen = file[t].gen
    BY <1>1
  <2>5. index[t] + (Awaited + 2) <= 2 * (appends + 2)
    BY <1>6, <1>10, <2>1
  <2> QED
    BY <1>1, <1>2, <1>5, <1>6, <2>1, <2>3, <2>4, <2>5
<1>12. appends' <= MaxAppends /\ deletes' \in 0..MaxDeletes /\ Awaited' <= appends'
  BY <1>2, <1>3, <1>6 DEF PendingBounds, PendingNumbers
<1> QED
  BY <1>11, <1>12 DEF PendingBounds

(* One append less has to write, and one file is at most one line longer. *)
LEMMA WritePending ==
    ASSUME StoreTypes, PlaceInv, PendingBounds, StoreTypes', NEW p \in Procs,
           proc[p].pc = "write", \A q \in Procs \ {p} : proc'[q] = proc[q],
           proc'[p] = AtRest \/ (proc'[p].pc = "index" /\ proc'[p].op = proc[p].op),
           UNCHANGED <<appends, deletes, index>>, NEW line \in Nat,
           \/ UNCHANGED file
           \/ file' = [file EXCEPT ![proc[p].sid] = WithLine(file[proc[p].sid], line)]
           \/ file' = [file EXCEPT ![proc[p].sid] =
                           [WithLine(file[proc[p].sid], line) EXCEPT !.torn = TRUE]]
    PROVE  PendingBounds'
<1>1. proc[p].op = "append" /\ proc[p].sid \in Sids
  BY DEF PlaceInv, StoreTypes
<1>2. NoMore /\ Counting(p)
  BY <1>1, AtRestFacts, GoesOn
<1>3. /\ Cardinality(Writers') = Cardinality(Writers) - 1
      /\ Cardinality(Deleters') <= Cardinality(Deleters)
      /\ Cardinality(Writers) \in Nat /\ Cardinality(Deleters) \in Nat /\ Cardinality(Deleters') \in Nat
  BY <1>1, <1>2, AtRestFacts DEF Counting, Gain, Sizes, NoMore
<1>4. PendingNumbers
  BY PendingTypes
<1>5. ASSUME NEW s \in Sids
      PROVE  file'[s].gen = file[s].gen /\ Len(file'[s].lines) <= Len(file[s].lines) + 1
  <2> DEFINE f == file[s]  g == WithLine(f, line)
  <2>1. f \in FileRec /\ Len(f.lines) \in Nat
    BY <1>4 DEF StoreTypes, PendingNumbers
  <2>2. g \in FileRec /\ g.gen = f.gen /\ g.lines = (IF f.torn THEN f.lines ELSE Append(f.lines, line))
    BY <2>1, WithLineTypes DEF WithLine, FileRec
  <2>3. f.lines \in Seq(Nat)
    BY <2>1 DEF FileRec
  <2>4. Len(g.lines) <= Len(f.lines) + 1
    <3>1. Len(Append(f.lines, line)) = Len(f.lines) + 1
      BY <2>3
    <3> QED
      BY <2>1, <2>2, <3>1
  <2>5. file'[s] \in {f, g, [g EXCEPT !.torn = TRUE]}
    BY <1>1 DEF StoreTypes
  <2>6. [g EXCEPT !.torn = TRUE].gen = g.gen /\ [g EXCEPT !.torn = TRUE].lines = g.lines
    BY <2>2 DEF FileRec
  <2>7. Len(f.lines) <= Len(f.lines) + 1
    BY <2>1
  <2> HIDE DEF f, g
  <2>8. file'[s].gen = f.gen /\ Len(file'[s].lines) <= Len(f.lines) + 1
    BY <2>2, <2>4, <2>5, <2>6, <2>7
  <2> QED
    BY <2>8 DEF f
<1>6. ASSUME NEW s \in Sids
      PROVE  /\ Len(file'[s].lines) <= Len(file[s].lines)
                                + Cardinality(Writers) - Cardinality(Writers')
             /\ file'[s].gen <= file[s].gen
                                + Cardinality(Deleters) - Cardinality(Deleters')
             /\ index'[s] = index[s]
  <2>1. /\ Len(file[s].lines) \in Nat /\ file[s].gen \in Nat
    BY <1>4 DEF PendingNumbers
  <2>2. \A n, w \in Nat : n + 1 = n + w - (w - 1)
    OBVIOUS
  <2>3. Len(file[s].lines) + 1 = Len(file[s].lines) + Cardinality(Writers) - Cardinality(Writers')
    BY <1>3, <2>1, <2>2
  <2>4. \A n, d, e \in Nat : e <= d => n <= n + d - e
    OBVIOUS
  <2>5. file[s].gen <= file[s].gen + Cardinality(Deleters) - Cardinality(Deleters')
    BY <1>3, <2>1, <2>4
  <2> QED
    BY <1>5, <2>3, <2>5
<1> QED
  BY <1>2, <1>6, PendingFrame

LEMMA RemovePending ==
    ASSUME StoreTypes, PlaceInv, PendingBounds, StoreTypes', NEW p \in Procs, RemoveFile(p)
    PROVE  PendingBounds'
<1>1. /\ proc[p].pc = "remove" /\ Moves(p, "index") /\ UNCHANGED <<index, appends, deletes>>
      /\ file' = [file EXCEPT ![proc[p].sid] = [NoFile EXCEPT !.gen = file[proc[p].sid].gen + 1]]
      /\ proc[p].sid \in Sids /\ proc[p].op = "delete"
  BY DEF RemoveFile, Is, StoreTypes, tallies, PlaceInv
<1>2. /\ proc'[p].pc = "index" /\ proc'[p].op = proc[p].op
      /\ \A q \in Procs \ {p} : proc'[q] = proc[q]
  BY <1>1, StoreMoves DEF StoreTypes, Critical
<1>3. NoMore /\ Counting(p)
  BY <1>1, <1>2, GoesOn
<1>4. /\ Cardinality(Deleters') = Cardinality(Deleters) - 1
      /\ Cardinality(Writers') <= Cardinality(Writers)
      /\ Cardinality(Deleters) \in Nat /\ Cardinality(Writers) \in Nat /\ Cardinality(Writers') \in Nat
  BY <1>1, <1>2, <1>3 DEF Counting, Gain, Sizes, NoMore
<1>5. PendingNumbers
  BY PendingTypes
<1>6. ASSUME NEW s \in Sids
      PROVE  file'[s].gen <= file[s].gen + 1 /\ Len(file'[s].lines) <= Len(file[s].lines)
  <2>1. file[s].gen \in Nat /\ Len(file[s].lines) \in Nat
    BY <1>5 DEF PendingNumbers
  <2>2. CASE s = proc[p].sid
    <3>1. file'[s] = [NoFile EXCEPT !.gen = file[s].gen + 1]
      BY <1>1, <2>2 DEF StoreTypes
    <3>2. file'[s].gen = file[s].gen + 1 /\ file'[s].lines = <<>>
      BY <3>1 DEF NoFile
    <3> QED
      BY <2>1, <3>2
  <2>3. CASE s # proc[p].sid
    <3>1. file'[s] = file[s]
      BY <1>1, <2>3 DEF StoreTypes
    <3> QED
      BY <2>1, <3>1
  <2> QED
    BY <2>2, <2>3
<1>7. ASSUME NEW s \in Sids
      PROVE  /\ Len(file'[s].lines) <= Len(file[s].lines)
                                + Cardinality(Writers) - Cardinality(Writers')
             /\ file'[s].gen <= file[s].gen
                                + Cardinality(Deleters) - Cardinality(Deleters')
             /\ index'[s] = index[s]
  <2>1. Len(file[s].lines) \in Nat /\ file[s].gen \in Nat
    BY <1>5 DEF PendingNumbers
  <2>2. \A n, w \in Nat : n + 1 = n + w - (w - 1)
    OBVIOUS
  <2>3. file[s].gen + 1 = file[s].gen + Cardinality(Deleters) - Cardinality(Deleters')
    BY <1>4, <2>1, <2>2
  <2>4. \A n, d, e \in Nat : e <= d => n <= n + d - e
    OBVIOUS
  <2>5. Len(file[s].lines) <= Len(file[s].lines) + Cardinality(Writers) - Cardinality(Writers')
    BY <1>4, <2>1, <2>4
  <2>6. Len(file'[s].lines) \in Nat
    <3>1. file'[s].lines \in Seq(Nat)
      BY DEF StoreTypes, FileRec
    <3> QED
      BY <3>1
  <2>7. \A l, n, w, v \in Nat : l <= n /\ n <= n + w - v => l <= n + w - v
    OBVIOUS
  <2>8. Len(file'[s].lines) <= Len(file[s].lines) + Cardinality(Writers) - Cardinality(Writers')
    BY <1>4, <1>6, <2>1, <2>5, <2>6, <2>7
  <2> QED
    BY <1>1, <1>6, <2>3, <2>8
<1> QED
  BY <1>1, <1>3, <1>7, PendingFrame

(***************************************************************************)
(* What a process carries was there when it was read: no message, inode or *)
(* generation has a number that was not given yet, and no count is above   *)
(* what had been written.                                                  *)
(***************************************************************************)
InRange(r, i, a, d) ==
    /\ r.inode <= i /\ r.gen <= d /\ r.msg <= a
    /\ r.op = "fork" => r.msg >= 2
    /\ \A s \in Sids : r.scan[s] <= a /\ r.loaded[s] <= 2 * a
LinesUpTo(f, a) == \A k \in DOMAIN f.lines : f.lines[k] <= a

ValueBounds ==
    /\ inodes <= appends + deletes
    /\ \A s \in Sids : lock_file[s] <= inodes /\ LinesUpTo(file[s], appends)
    /\ \A p \in Procs : InRange(proc[p], inodes, appends, deletes)
    /\ acked \subseteq 1..appends /\ removed \subseteq 0..appends

LEMMA RangeGrows ==
    ASSUME NEW r \in ProcRec, NEW i \in Nat, NEW a \in Nat, NEW d \in Nat, NEW j \in Nat,
           NEW b \in Nat, NEW e \in Nat, i <= j, a <= b, d <= e, InRange(r, i, a, d)
    PROVE  InRange(r, j, b, e)
<1>1. /\ r.inode \in Nat /\ r.gen \in Nat /\ r.msg \in Nat
      /\ \A s \in Sids : r.scan[s] \in Nat /\ r.loaded[s] \in Nat
  BY DEF ProcRec, CountsOf
<1>2. r.inode <= j /\ r.gen <= e /\ r.msg <= b
  BY <1>1 DEF InRange
<1>3. \A n \in Nat : n <= a => n <= b
  OBVIOUS
<1>4. \A n \in Nat : n <= 2 * a => n <= 2 * b
  OBVIOUS
<1>5. \A s \in Sids : r.scan[s] <= b /\ r.loaded[s] <= 2 * b
  BY <1>1, <1>3, <1>4 DEF InRange
<1> QED
  BY <1>2, <1>5 DEF InRange

LEMMA RestInRange ==
    ASSUME NEW i \in Nat, NEW a \in Nat, NEW d \in Nat PROVE InRange(AtRest, i, a, d)
<1>1. /\ AtRest.inode = 0 /\ AtRest.gen = 0 /\ AtRest.msg = 0 /\ AtRest.op = "none"
      /\ \A s \in Sids : AtRest.scan[s] = 0 /\ AtRest.loaded[s] = 0
  BY DEF AtRest, NoIndex
<1>2. 0 <= i /\ 0 <= a /\ 0 <= d /\ 0 <= 2 * a
  OBVIOUS
<1> QED
  BY <1>1, <1>2 DEF InRange

(* A step that gives no number back, and the process that takes it. *)
LEMMA ValueFrame ==
    ASSUME StoreTypes, StoreTypes', deletes \in Nat, deletes' \in Nat, ValueBounds, NEW p \in Procs,
           inodes <= inodes', appends <= appends', deletes <= deletes',
           inodes' <= appends' + deletes',
           \A q \in Procs \ {p} : proc'[q] = proc[q],
           InRange(proc'[p], inodes', appends', deletes'),
           \A s \in Sids : lock_file'[s] <= inodes' /\ LinesUpTo(file'[s], appends'),
           acked' \subseteq 1..appends', removed' \subseteq 0..appends'
    PROVE  ValueBounds'
<1>1. \A q \in Procs : InRange(proc'[q], inodes', appends', deletes')
  <2> SUFFICES ASSUME NEW q \in Procs \ {p} PROVE InRange(proc'[q], inodes', appends', deletes')
    OBVIOUS
  <2>1. proc[q] \in ProcRec /\ InRange(proc[q], inodes, appends, deletes) /\ proc'[q] = proc[q]
    BY DEF StoreTypes, ValueBounds
  <2>2. {inodes, appends, inodes', appends'} \subseteq Nat
    BY DEF StoreTypes
  <2> QED
    BY <2>1, <2>2, RangeGrows
<1> QED
  BY <1>1 DEF ValueBounds

(* Nothing is counted and the files stay. *)
LEMMA ValueSame ==
    ASSUME StoreTypes, StoreTypes', deletes \in Nat, ValueBounds, NEW p \in Procs,
           UNCHANGED <<lock_file, inodes, appends, deletes, removed, acked>>,
           \A s \in Sids : LinesUpTo(file'[s], appends),
           \A q \in Procs \ {p} : proc'[q] = proc[q],
           InRange(proc'[p], inodes, appends, deletes)
    PROVE  ValueBounds'
<1>1. inodes <= inodes /\ appends <= appends /\ deletes <= deletes
  BY DEF StoreTypes
<1>2. \A s \in Sids : lock_file'[s] <= inodes'
  BY DEF ValueBounds
<1> QED
  BY <1>1, <1>2, ValueFrame DEF ValueBounds

LEMMA MovesInRange ==
    ASSUME StoreTypes, ValueBounds, NEW p \in Procs, NEW pc \in {"idle", "lock"} \union Critical,
           Moves(p, pc)
    PROVE  /\ \A q \in Procs \ {p} : proc'[q] = proc[q]
           /\ InRange(proc'[p], inodes, appends, deletes)
<1>1. proc[p] \in ProcRec /\ InRange(proc[p], inodes, appends, deletes)
  BY DEF StoreTypes, ValueBounds
<1>2. proc'[p] = [proc[p] EXCEPT !.pc = pc] /\ \A q \in Procs \ {p} : proc'[q] = proc[q]
  BY DEF Moves, StoreTypes
<1>3. /\ proc'[p].inode = proc[p].inode /\ proc'[p].gen = proc[p].gen /\ proc'[p].msg = proc[p].msg
      /\ proc'[p].op = proc[p].op /\ proc'[p].scan = proc[p].scan /\ proc'[p].loaded = proc[p].loaded
  BY <1>1, <1>2 DEF ProcRec
<1> QED
  BY <1>1, <1>2, <1>3 DEF InRange

LEMMA WithLineUpTo ==
    ASSUME NEW f \in FileRec, NEW a \in Nat, LinesUpTo(f, a), NEW line \in Nat, line <= a
    PROVE  LinesUpTo(WithLine(f, line), a) /\ LinesUpTo([WithLine(f, line) EXCEPT !.torn = TRUE], a)
<1> DEFINE lines == IF f.torn THEN f.lines ELSE Append(f.lines, line)
<1>1. f.lines \in Seq(Nat)
  BY DEF FileRec
<1>2. \A k \in DOMAIN lines : lines[k] <= a
  <2>1. \A k \in DOMAIN f.lines : f.lines[k] <= a
    BY DEF LinesUpTo
  <2>2. \A k \in DOMAIN Append(f.lines, line) :
            \/ k \in DOMAIN f.lines /\ Append(f.lines, line)[k] = f.lines[k]
            \/ Append(f.lines, line)[k] = line
    BY <1>1
  <2> QED
    BY <2>1, <2>2
<1>3. WithLine(f, line).lines = lines /\ [WithLine(f, line) EXCEPT !.torn = TRUE].lines = lines
  BY DEF WithLine, FileRec
<1> QED
  BY <1>2, <1>3 DEF LinesUpTo

LEMMA ScanUpTo ==
    ASSUME NEW f \in FileRec, NEW a \in Nat, Len(f.lines) <= a PROVE ScanOf(f) <= a
<1>1. f.lines \in Seq(Nat) /\ Len(f.lines) \in Nat
  BY DEF FileRec
<1> QED
  BY <1>1 DEF ScanOf

LEMMA SavePending ==
    ASSUME StoreTypes, PlaceInv, SaveInv, PendingBounds, ValueBounds, StoreTypes',
           NEW p \in Procs, IndexSaves(p)
    PROVE  PendingBounds'
<1>1. /\ proc[p].pc = "save" /\ index' = Changed(p) /\ UNCHANGED <<file, appends, deletes>>
      /\ proc[p].op \in Operations /\ proc[p].loaded = index
      /\ proc[p].op # "delete" => Rests(p)
      /\ proc[p].op = "delete" => Moves(p, "unlink")
  BY DEF IndexSaves, Is, tallies, StoreTypes, SaveInv, Operations
<1>2. /\ \A q \in Procs \ {p} : proc'[q] = proc[q]
      /\ proc[p].op # "delete" => proc'[p] = AtRest
      /\ proc[p].op = "delete" => proc'[p].op = "delete" /\ proc'[p].pc = "unlink"
  BY <1>1, RestsFacts, StoreMoves DEF ProcStep, StoreTypes, Critical
<1>3. NoMore /\ Counting(p)
  BY <1>1, <1>2, AtRestFacts, GoesOn
<1>4. PendingNumbers
  BY PendingTypes
<1>5. /\ Cardinality(Appenders') = Cardinality(Appenders)
             - (IF proc[p].op = "append" THEN 1 ELSE 0)
      /\ Cardinality(Forkers') = Cardinality(Forkers) - (IF proc[p].op = "fork" THEN 1 ELSE 0)
      /\ Cardinality(Appenders) \in Nat /\ Cardinality(Forkers) \in Nat
      /\ Cardinality(Appenders') \in Nat /\ Cardinality(Forkers') \in Nat
  BY <1>1, <1>2, <1>3, AtRestFacts DEF Counting, Gain, Sizes, NoMore
<1> DEFINE done == IF proc[p].op = "append" THEN 1 ELSE IF proc[p].op = "fork" THEN 2 ELSE 0
<1>6. /\ done \in Nat /\ Awaited' = Awaited - done /\ Awaited \in Nat /\ Awaited' \in Nat
      /\ Awaited' <= Awaited /\ Awaited <= appends
  <2>1. Awaited <= appends
    BY DEF PendingBounds
  <2>2. done \in Nat /\ Awaited \in Nat /\ Awaited' \in Nat
    BY <1>5 DEF Awaited
  <2>3. Awaited' = Awaited - done
    <3>1. CASE proc[p].op = "append"
      BY <1>5, <3>1 DEF Awaited
    <3>2. CASE proc[p].op = "fork"
      BY <1>5, <3>2 DEF Awaited
    <3>3. CASE proc[p].op \notin {"append", "fork"}
      BY <1>5, <3>3 DEF Awaited
    <3> QED
      BY <3>1, <3>2, <3>3
  <2> HIDE DEF done
  <2> QED
    BY <2>1, <2>2, <2>3
<1>7. ASSUME NEW s \in Sids
      PROVE  index'[s] + Awaited' <= 2 * appends
  <2>1. /\ index[s] \in Nat /\ appends \in Nat /\ index[s] + Awaited <= 2 * appends
    BY <1>4 DEF PendingNumbers, PendingBounds
  <2>2. proc[p].scan[s] \in Nat /\ proc[p].scan[s] <= appends
    BY DEF StoreTypes, ProcRec, CountsOf, ValueBounds, InRange
  <2>3. index \in [Sids -> Nat] /\ index' = Changed(p)
    BY <1>1 DEF StoreTypes, CountsOf
  <2>4. \/ index'[s] = index[s]
        \/ index'[s] = 0
        \/ index'[s] = proc[p].scan[s]
        \/ index'[s] = index[s] + done
    <3>1. CASE proc[p].op = "append"
      BY <1>1, <2>3, <3>1 DEF Changed
    <3>2. CASE proc[p].op = "fork"
      BY <1>1, <2>3, <3>2 DEF Changed
    <3>3. CASE proc[p].op = "delete"
      BY <1>1, <2>3, <3>3 DEF Changed
    <3>4. CASE proc[p].op = "list"
      BY <1>1, <2>3, <3>4 DEF Changed
    <3>5. CASE proc[p].op = "list_sync"
      BY <1>1, <2>3, <3>5 DEF Changed
    <3> QED
      BY <1>1, <3>1, <3>2, <3>3, <3>4, <3>5 DEF Operations
  <2> HIDE DEF done
  <2>5. \A n, x, d, a \in Nat : n + x <= 2 * a /\ d <= x => (n + d) + (x - d) <= 2 * a
    OBVIOUS
  <2>6. \A n, x, y, a \in Nat : n <= a /\ x <= a /\ y <= x => n + y <= 2 * a
    OBVIOUS
  <2>7. \A n, x, y, a \in Nat : n + x <= 2 * a /\ y <= x => n + y <= 2 * a
    OBVIOUS
  <2>8. done <= Awaited
    BY <1>6
  <2>9. CASE index'[s] = index[s] + done
    BY <1>6, <2>1, <2>5, <2>8, <2>9
  <2>10. CASE index'[s] = proc[p].scan[s]
    BY <1>6, <2>1, <2>2, <2>6, <2>10
  <2>11. CASE index'[s] = index[s]
    BY <1>6, <2>1, <2>7, <2>11
  <2>12. CASE index'[s] = 0
    <3>1. 0 <= appends /\ 0 \in Nat
      BY <2>1
    <3> QED
      BY <1>6, <2>1, <2>6, <2>12, <3>1
  <2> QED
    BY <2>4, <2>9, <2>10, <2>11, <2>12
<1>8. ASSUME NEW s \in Sids
      PROVE  /\ Len(file[s].lines) + Cardinality(Writers') <= appends
             /\ file[s].gen + Cardinality(Deleters') <= deletes
  <2>1. /\ Len(file[s].lines) \in Nat /\ file[s].gen \in Nat /\ appends \in Nat /\ deletes \in Nat
        /\ Len(file[s].lines) + Cardinality(Writers) <= appends
        /\ file[s].gen + Cardinality(Deleters) <= deletes
    BY <1>4 DEF PendingNumbers, PendingBounds
  <2>2. /\ Cardinality(Writers) \in Nat /\ Cardinality(Writers') \in Nat
        /\ Cardinality(Deleters) \in Nat /\ Cardinality(Deleters') \in Nat
        /\ Cardinality(Writers') <= Cardinality(Writers)
        /\ Cardinality(Deleters') <= Cardinality(Deleters)
    BY <1>3 DEF NoMore, Sizes
  <2>3. \A n, x, y, a \in Nat : n + x <= a /\ y <= x => n + y <= a
    OBVIOUS
  <2>4. Len(file[s].lines) + Cardinality(Writers') <= appends
    BY <2>1, <2>2, <2>3
  <2> QED
    BY <2>1, <2>2, <2>3, <2>4
<1>9. appends <= MaxAppends /\ deletes \in 0..MaxDeletes /\ Awaited' <= appends
  BY <1>4, <1>6 DEF PendingBounds, PendingNumbers
<1> HIDE DEF done
<1> QED
  BY <1>1, <1>7, <1>8, <1>9 DEF PendingBounds

--------------------------------------------------------------------------------
Bounds == PendingBounds /\ ValueBounds

LEMMA BeginInBounds ==
    ASSUME StoreTypes, PlaceInv, Bounds, StoreTypes', NEW p \in Procs, BeginAppend(p) \/ BeginDelete(p)
    PROVE  Bounds'
<1>1. PendingBounds'
  BY BeginPending DEF Bounds
<1>2. PendingNumbers /\ deletes' \in Nat
  BY <1>1, PendingTypes DEF Bounds, PendingBounds
<1>3. /\ UNCHANGED <<file, acked, removed>> /\ \A q \in Procs \ {p} : proc'[q] = proc[q]
  BY BeginFacts DEF ghosts
<1>4. PICK s \in Sids, op \in {"append", "delete"}, msg \in Nat :
          /\ OpensLock(p, s, op, msg) /\ msg <= appends'
          /\ appends' + deletes' = appends + deletes + 1
          /\ appends <= appends' /\ deletes <= deletes'
  <2>1. CASE BeginAppend(p)
    <3>1. appends' = appends + 1 /\ deletes' = deletes
      BY <2>1 DEF BeginAppend
    <3>2. PICK s \in Sids : OpensLock(p, s, "append", appends + 1)
      BY <2>1 DEF BeginAppend
    <3>3. /\ appends + 1 \in Nat /\ appends + 1 <= appends' /\ appends <= appends' /\ deletes <= deletes'
          /\ appends' + deletes' = appends + deletes + 1
      BY <1>2, <3>1 DEF PendingNumbers
    <3> QED
      BY <3>2, <3>3
  <2>2. CASE BeginDelete(p)
    <3>1. appends' = appends /\ deletes' = deletes + 1
      BY <2>2 DEF BeginDelete
    <3>2. PICK s \in Sids : OpensLock(p, s, "delete", 0)
      BY <2>2 DEF BeginDelete
    <3>3. /\ 0 <= appends' /\ appends <= appends' /\ deletes <= deletes' /\ 0 \in Nat
          /\ appends' + deletes' = appends + deletes + 1
      BY <1>2, <3>1 DEF PendingNumbers
    <3> QED
      BY <3>2, <3>3
  <2> QED
    BY <2>1, <2>2
<1>5. /\ inodes' = (IF lock_file[s] = 0 THEN inodes + 1 ELSE inodes)
      /\ lock_file' = [lock_file EXCEPT ![s] = IF lock_file[s] = 0 THEN inodes + 1 ELSE lock_file[s]]
      /\ proc'[p].inode = (IF lock_file[s] = 0 THEN inodes + 1 ELSE lock_file[s])
      /\ proc'[p].gen = 0 /\ proc'[p].msg = msg /\ proc'[p].op = op
      /\ \A t \in Sids : proc'[p].scan[t] = 0 /\ proc'[p].loaded[t] = 0
  BY <1>4 DEF OpensLock, StoreTypes, AtRest, NoIndex
<1>6. /\ inodes \in Nat /\ inodes' \in Nat /\ \A t \in Sids : lock_file[t] \in Nat /\ lock_file[t] <= inodes
      /\ inodes <= appends + deletes
  BY DEF StoreTypes, Bounds, ValueBounds
<1>7. inodes <= inodes' /\ inodes' <= appends' + deletes'
  <2>1. inodes <= inodes' /\ inodes' <= inodes + 1
    BY <1>5, <1>6
  <2>2. appends \in Nat /\ deletes \in Nat
    BY <1>2 DEF PendingNumbers
  <2>3. inodes + 1 <= appends' + deletes'
    BY <1>4, <1>6, <2>2
  <2>4. appends' + deletes' \in Nat
    BY <1>4, <2>2
  <2> QED
    BY <1>6, <2>1, <2>3, <2>4
<1>8. ASSUME NEW t \in Sids PROVE lock_file'[t] <= inodes'
  <2>1. lock_file'[t] = lock_file[t] \/ lock_file'[t] = inodes'
    <3>1. lock_file'[t] = IF t = s THEN IF lock_file[s] = 0 THEN inodes + 1 ELSE lock_file[s]
                          ELSE lock_file[t]
      BY <1>5 DEF StoreTypes
    <3> QED
      BY <1>5, <3>1
  <2>2. lock_file[t] <= inodes'
    <3>1. \A n, a, b \in Nat : n <= a /\ a <= b => n <= b
      OBVIOUS
    <3> QED
      BY <1>6, <1>7, <3>1
  <2> QED
    BY <1>6, <2>1, <2>2
<1>9. InRange(proc'[p], inodes', appends', deletes')
  <2>1. proc'[p].inode <= inodes'
    BY <1>5, <1>6
  <2>2. 0 <= deletes' /\ 0 <= appends' /\ 0 <= 2 * appends'
    <3>1. \A n \in Nat : 0 <= n /\ 0 <= 2 * n
      OBVIOUS
    <3>2. appends' \in Nat
      BY DEF StoreTypes
    <3> QED
      BY <1>2, <3>1, <3>2
  <2> QED
    BY <1>4, <1>5, <2>1, <2>2 DEF InRange
<1>10. \A t \in Sids : LinesUpTo(file'[t], appends')
  <2>1. ASSUME NEW t \in Sids, NEW k \in DOMAIN file[t].lines PROVE file[t].lines[k] <= appends'
    <3>1. file[t].lines[k] \in Nat /\ file[t].lines[k] <= appends
      <4>1. file[t] \in FileRec /\ LinesUpTo(file[t], appends)
        BY DEF StoreTypes, Bounds, ValueBounds
      <4>2. file[t].lines \in Seq(Nat)
        BY <4>1 DEF FileRec
      <4> QED
        BY <4>1, <4>2 DEF LinesUpTo
    <3>2. \A n, a, b \in Nat : n <= a /\ a <= b => n <= b
      OBVIOUS
    <3>3. appends \in Nat /\ appends' \in Nat
      BY DEF StoreTypes
    <3> QED
      BY <1>4, <3>1, <3>2, <3>3
  <2> QED
    BY <1>3, <2>1 DEF LinesUpTo
<1>11. acked' \subseteq 1..appends' /\ removed' \subseteq 0..appends'
  <2>1. 1..appends \subseteq 1..appends' /\ 0..appends \subseteq 0..appends'
    <3>1. \A a, b \in Nat : a <= b => 1..a \subseteq 1..b /\ 0..a \subseteq 0..b
      OBVIOUS
    <3>2. appends \in Nat /\ appends' \in Nat
      BY DEF StoreTypes
    <3> QED
      BY <1>4, <3>1, <3>2
  <2> QED
    BY <1>3, <2>1 DEF Bounds, ValueBounds
<1>12. ValueBounds'
  BY <1>2, <1>3, <1>4, <1>7, <1>8, <1>9, <1>10, <1>11, ValueFrame DEF Bounds, PendingNumbers
<1> QED
  BY <1>1, <1>12 DEF Bounds

LEMMA ForkInBounds ==
    ASSUME StoreTypes, PlaceInv, Bounds, StoreTypes', NEW p \in Procs, Fork(p)
    PROVE  Bounds'
<1>1. PendingBounds'
  BY ForkPending DEF Bounds
<1>2. PendingNumbers /\ deletes' = deletes /\ appends' = appends + 2 /\ UNCHANGED <<lock_file, inodes>>
  BY PendingTypes DEF Bounds, Fork
<1>3. PICK s \in Sids :
          /\ UNCHANGED <<acked, removed>>
          /\ \A t \in Sids \ {s} : file'[t] = file[t]
          /\ file'[s].lines = <<appends + 1, appends + 2>>
          /\ \A q \in Procs \ {p} : proc'[q] = proc[q]
          /\ proc'[p] = [AtRest EXCEPT !.pc = "index", !.op = "fork", !.sid = s, !.msg = appends + 2]
  <2>1. PICK s \in Sids :
            /\ UNCHANGED ghosts /\ file[s] = NoFile
            /\ file' = [file EXCEPT ![s].lines = <<appends + 1, appends + 2>>]
            /\ proc' = [proc EXCEPT ![p] = [AtRest EXCEPT !.pc = "index", !.op = "fork", !.sid = s,
                                                          !.msg = appends + 2]]
    BY DEF Fork
  <2>2. file'[s].lines = <<appends + 1, appends + 2>>
    <3> DEFINE f == [file[s] EXCEPT !.lines = <<appends + 1, appends + 2>>]
    <3>1. file' = [file EXCEPT ![s] = f]
      BY <2>1
    <3>2. f.lines = <<appends + 1, appends + 2>>
      BY DEF StoreTypes, FileRec
    <3> HIDE DEF f
    <3> QED
      BY <3>1, <3>2 DEF StoreTypes
  <2> QED
    BY <2>1, <2>2 DEF ghosts, StoreTypes
<1>4. appends \in Nat /\ deletes \in Nat /\ inodes \in Nat
  BY <1>2 DEF PendingNumbers, StoreTypes
<1>5. InRange(proc'[p], inodes, appends + 2, deletes)
  <2>1. /\ proc'[p].inode = 0 /\ proc'[p].gen = 0 /\ proc'[p].msg = appends + 2
        /\ proc'[p].op = "fork"
        /\ \A t \in Sids : proc'[p].scan[t] = 0 /\ proc'[p].loaded[t] = 0
    BY <1>3 DEF AtRest, NoIndex
  <2>2. /\ 0 <= inodes /\ 0 <= deletes /\ appends + 2 <= appends + 2 /\ appends + 2 >= 2
        /\ 0 <= appends + 2 /\ 0 <= 2 * (appends + 2)
    BY <1>4
  <2> QED
    BY <2>1, <2>2 DEF InRange
<1>6. \A n, a \in Nat : n <= a => n <= a + 2
  OBVIOUS
<1>7. ASSUME NEW t \in Sids PROVE LinesUpTo(file'[t], appends + 2)
  <2>1. CASE t = s
    <3>1. \A k \in DOMAIN <<appends + 1, appends + 2>> :
              <<appends + 1, appends + 2>>[k] <= appends + 2
      BY <1>4
    <3> QED
      BY <1>3, <2>1, <3>1 DEF LinesUpTo
  <2>2. CASE t # s
    <3>1. file[t] \in FileRec /\ LinesUpTo(file[t], appends) /\ file'[t] = file[t]
      BY <1>3, <2>2 DEF StoreTypes, Bounds, ValueBounds
    <3>2. file[t].lines \in Seq(Nat)
      BY <3>1 DEF FileRec
    <3>3. ASSUME NEW k \in DOMAIN file[t].lines PROVE file[t].lines[k] <= appends + 2
      <4>1. file[t].lines[k] \in Nat /\ file[t].lines[k] <= appends
        BY <3>1, <3>2 DEF LinesUpTo
      <4> QED
        BY <1>4, <1>6, <4>1
    <3> QED
      BY <3>1, <3>3 DEF LinesUpTo
  <2> QED
    BY <2>1, <2>2
<1>8. /\ inodes <= inodes /\ appends <= appends + 2 /\ deletes <= deletes
      /\ inodes <= (appends + 2) + deletes
  <2>1. inodes <= appends + deletes
    BY DEF Bounds, ValueBounds
  <2> QED
    BY <1>4, <2>1
<1>9. acked \subseteq 1..(appends + 2) /\ removed \subseteq 0..(appends + 2)
  <2>1. 1..appends \subseteq 1..(appends + 2) /\ 0..appends \subseteq 0..(appends + 2)
    BY <1>4
  <2> QED
    BY <2>1 DEF Bounds, ValueBounds
<1>10. \A t \in Sids : lock_file[t] <= inodes
  BY DEF Bounds, ValueBounds
<1>11. ValueBounds'
  BY <1>2, <1>3, <1>4, <1>5, <1>7, <1>8, <1>9, <1>10, ValueFrame DEF Bounds
<1> QED
  BY <1>1, <1>11 DEF Bounds

(* A step that changes neither the files nor what has been counted. *)
LEMMA PlainInBounds ==
    ASSUME StoreTypes, PlaceInv, Bounds, StoreTypes', NEW p \in Procs,
           \/ Acquire(p) \/ GiveUp(p) \/ OpenFile(p) \/ IndexLoads(p)
           \/ Scan(p) \/ ReadIndex(p)
    PROVE  Bounds'
<1>1. /\ UNCHANGED <<inodes, appends, deletes, file, index, acked, removed>>
      /\ UNCHANGED lock_file
  BY DEF Acquire, GiveUp, OpenFile, Opens, IndexLoads, Scan, ReadIndex, onDisk, tallies, ghosts, StoreTypes
<1>2. PendingNumbers
  BY PendingTypes DEF Bounds
<1>3. appends \in Nat /\ deletes \in Nat /\ inodes \in Nat
  BY <1>2 DEF PendingNumbers, StoreTypes
<1>4. \A q \in Procs : InRange(proc[q], inodes, appends, deletes) /\ proc[q] \in ProcRec
  BY DEF Bounds, ValueBounds, StoreTypes
<1>5. /\ \A q \in Procs \ {p} : proc'[q] = proc[q]
      /\ InRange(proc'[p], inodes, appends, deletes)
      /\ NoMore
  <2>1. CASE Acquire(p)
    <3>1. /\ proc[p].pc = "lock" /\ \E pc \in {"open", "remove"} : Moves(p, pc)
          /\ proc[p].op \in {"append", "delete"}
          /\ proc[p].op = "append" => Moves(p, "open")
      BY <2>1 DEF Acquire, Is, PlaceInv
    <3>2. InRange(proc'[p], inodes, appends, deletes) /\ \A q \in Procs \ {p} : proc'[q] = proc[q]
      BY <3>1, MovesInRange DEF Bounds, Critical
    <3>3. /\ proc'[p].op = proc[p].op
          /\ proc'[p].pc \in {"open", "remove"}
      BY <3>1, StoreMoves DEF StoreTypes, Critical
    <3>4. NoMore
      BY <3>1, <3>2, <3>3, GoesOn
    <3> QED
      BY <3>2, <3>4
  <2>2. CASE GiveUp(p)
    <3>1. proc'[p] = AtRest /\ \A q \in Procs \ {p} : proc'[q] = proc[q]
      BY <2>2, RestsFacts DEF GiveUp, ProcStep, StoreTypes
    <3>2. NoMore
      BY <3>1, AtRestFacts, GoesOn
    <3> QED
      BY <1>3, <3>1, <3>2, RestInRange
  <2>3. CASE OpenFile(p)
    <3>1. /\ proc[p].pc = "write" \/ proc[p].pc = "open"
          /\ \A q \in Procs \ {p} : proc'[q] = proc[q]
          /\ proc'[p].pc = "write" /\ proc'[p].gen = file[proc[p].sid].gen
          /\ proc'[p].op = proc[p].op /\ proc'[p].inode = proc[p].inode /\ proc'[p].msg = proc[p].msg
          /\ proc'[p].scan = proc[p].scan /\ proc'[p].loaded = proc[p].loaded
          /\ proc[p].sid \in Sids
      <4>1. proc' = [proc EXCEPT ![p].gen = file[proc[p].sid].gen, ![p].pc = "write"]
        BY <2>3 DEF OpenFile
      <4>2. proc'[p].scan = proc[p].scan /\ proc'[p].loaded = proc[p].loaded
        BY <4>1, <1>4 DEF StoreTypes, ProcRec
      <4>3. proc[p].sid \in Sids
        BY <2>3 DEF OpenFile, Is, StoreTypes
      <4> QED
        BY <2>3, <4>2, <4>3, OpenFileFacts
    <3>2. NoMore
      BY <3>1, GoesOn
    <3>3. file[proc[p].sid].gen <= deletes
      <4>1. file[proc[p].sid].gen + Cardinality(Deleters) <= deletes /\ file[proc[p].sid].gen \in Nat
        BY <1>2, <3>1 DEF Bounds, PendingBounds, PendingNumbers
      <4>2. Cardinality(Deleters) \in Nat
        BY SizeTypes DEF Sizes
      <4> QED
        BY <1>3, <4>1, <4>2
    <3> QED
      BY <1>4, <3>1, <3>2, <3>3 DEF InRange
  <2>4. CASE IndexLoads(p)
    <3>1. /\ proc[p].pc = "index"
          /\ \A q \in Procs \ {p} : proc'[q] = proc[q]
          /\ proc'[p].pc = "save" /\ proc'[p].loaded = index
          /\ proc'[p].op = proc[p].op /\ proc'[p].inode = proc[p].inode /\ proc'[p].msg = proc[p].msg
          /\ proc'[p].scan = proc[p].scan /\ proc'[p].gen = proc[p].gen
      <4>1. proc' = [proc EXCEPT ![p].pc = "save", ![p].loaded = index]
        BY <2>4 DEF IndexLoads
      <4>2. proc'[p].scan = proc[p].scan /\ proc'[p].gen = proc[p].gen
        BY <4>1, <1>4 DEF StoreTypes, ProcRec
      <4> QED
        BY <2>4, <4>2, IndexLoadsFacts
    <3>2. NoMore
      BY <3>1, GoesOn
    <3>3. ASSUME NEW s \in Sids PROVE index[s] <= 2 * appends
      <4>1. index[s] + Awaited <= 2 * appends /\ index[s] \in Nat
        BY <1>2 DEF Bounds, PendingBounds, PendingNumbers
      <4>2. Awaited \in Nat
        BY SizeTypes DEF Sizes, Awaited
      <4> QED
        BY <1>3, <4>1, <4>2
    <3> QED
      BY <1>4, <3>1, <3>2, <3>3 DEF InRange
  <2>5. CASE Scan(p)
    <3> DEFINE found == [s \in Sids |-> ScanOf(file[s])]
    <3>1. PICK op \in {"list", "list_sync"} :
              proc' = [proc EXCEPT ![p] = [AtRest EXCEPT !.pc = "index", !.op = op, !.scan = found]]
      BY <2>5 DEF Scan
    <3>2. \A s \in Sids : found[s] <= appends
      <4>1. ASSUME NEW s \in Sids PROVE Len(file[s].lines) <= appends /\ file[s] \in FileRec
        <5>1. Len(file[s].lines) + Cardinality(Writers) <= appends /\ Len(file[s].lines) \in Nat
          BY <1>2 DEF Bounds, PendingBounds, PendingNumbers
        <5>2. Cardinality(Writers) \in Nat
          BY SizeTypes DEF Sizes
        <5> QED
          BY <1>3, <5>1, <5>2 DEF StoreTypes
      <4> QED
        BY <1>3, <4>1, ScanUpTo
    <3> HIDE DEF found
    <3>3. /\ proc'[p] = [AtRest EXCEPT !.pc = "index", !.op = op, !.scan = found]
          /\ \A q \in Procs \ {p} : proc'[q] = proc[q]
      BY <3>1 DEF StoreTypes
    <3>4. /\ proc'[p].inode = 0 /\ proc'[p].gen = 0 /\ proc'[p].msg = 0 /\ proc'[p].op = op
          /\ proc'[p].scan = found /\ proc'[p].loaded = NoIndex
      BY <3>3 DEF AtRest
    <3>5. NoMore
      BY <3>3, <3>4, GoesOn
    <3>6. 0 <= inodes /\ 0 <= deletes /\ 0 <= appends /\ 0 <= 2 * appends
      BY <1>3
    <3> QED
      BY <3>2, <3>3, <3>4, <3>5, <3>6 DEF InRange, NoIndex
  <2>6. CASE ReadIndex(p)
    <3>1. proc' = proc
      BY <2>6 DEF ReadIndex
    <3>2. NoMore
      BY <3>1, GoesOn
    <3> QED
      BY <1>4, <3>1, <3>2
  <2> QED
    BY <2>1, <2>2, <2>3, <2>4, <2>5, <2>6
<1>6. PendingBounds'
  BY <1>1, <1>5, PendingSame DEF Bounds
<1>7. \A s \in Sids : LinesUpTo(file'[s], appends)
  BY <1>1 DEF Bounds, ValueBounds
<1>8. ValueBounds'
  BY <1>1, <1>3, <1>5, <1>7, ValueSame DEF Bounds
<1> QED
  BY <1>6, <1>8 DEF Bounds

LEMMA WriteInBounds ==
    ASSUME StoreTypes, PlaceInv, Bounds, StoreTypes', NEW p \in Procs,
           WriteLine(p) \/ Crash(p)
    PROVE  Bounds'
<1>1. PendingNumbers
  BY PendingTypes DEF Bounds
<1>2. /\ appends \in Nat /\ deletes \in Nat /\ inodes \in Nat
      /\ proc[p] \in ProcRec /\ InRange(proc[p], inodes, appends, deletes)
      /\ proc[p].msg \in Nat /\ proc[p].msg <= appends /\ Bad \in Nat /\ Bad <= appends
  BY <1>1 DEF PendingNumbers, StoreTypes, Bounds, ValueBounds, ProcRec, InRange, Bad
<1>3. /\ UNCHANGED <<lock_file, inodes, index, appends, deletes, acked, removed>>
  BY DEF WriteLine, Crash, tallies
<1>4. /\ \A q \in Procs \ {p} : proc'[q] = proc[q]
      /\ InRange(proc'[p], inodes, appends, deletes)
      /\ proc'[p] = AtRest \/ (proc[p].pc = "write" /\ proc'[p].pc = "index" /\ proc'[p].op = proc[p].op)
  <2>1. CASE WriteLine(p)
    <3>1. Moves(p, "index") /\ proc[p].pc = "write"
      BY <2>1 DEF WriteLine, Is
    <3> QED
      BY <3>1, MovesInRange, StoreMoves DEF Critical, Bounds, StoreTypes
  <2>2. CASE Crash(p)
    <3>1. proc'[p] = AtRest /\ \A q \in Procs \ {p} : proc'[q] = proc[q]
      BY <2>2, RestsFacts DEF Crash, ProcStep, StoreTypes
    <3> QED
      BY <1>2, <3>1, RestInRange
  <2> QED
    BY <2>1, <2>2
<1>5. \/ UNCHANGED file
      \/ /\ proc[p].pc = "write"
         /\ \E line \in {proc[p].msg, Bad} :
                \/ file' = [file EXCEPT ![proc[p].sid] = WithLine(file[proc[p].sid], line)]
                \/ file' = [file EXCEPT ![proc[p].sid] =
                               [WithLine(file[proc[p].sid], line) EXCEPT !.torn = TRUE]]
  <2>1. CASE WriteLine(p)
    BY <2>1 DEF WriteLine, Is
  <2>2. CASE Crash(p)
    BY <2>2 DEF Crash, Is
  <2> QED
    BY <2>1, <2>2
<1>6. PendingBounds'
  <2>1. CASE UNCHANGED file
    <3>1. NoMore
      BY <1>4, AtRestFacts, GoesOn
    <3> QED
      BY <1>3, <2>1, <3>1, PendingSame DEF Bounds
  <2>2. CASE ~UNCHANGED file
    <3>1. PICK line \in {proc[p].msg, Bad} :
                \/ file' = [file EXCEPT ![proc[p].sid] = WithLine(file[proc[p].sid], line)]
                \/ file' = [file EXCEPT ![proc[p].sid] =
                               [WithLine(file[proc[p].sid], line) EXCEPT !.torn = TRUE]]
      BY <1>5, <2>2
    <3>2. line \in Nat /\ proc[p].pc = "write"
      BY <1>2, <1>5, <2>2
    <3>3. proc'[p] = AtRest \/ (proc'[p].pc = "index" /\ proc'[p].op = proc[p].op)
      BY <1>4
    <3> QED
      BY <1>3, <1>4, <3>1, <3>2, <3>3, WritePending DEF Bounds
  <2> QED
    BY <2>1, <2>2
<1>7. \A s \in Sids : LinesUpTo(file'[s], appends)
  <2>1. \A s \in Sids : LinesUpTo(file[s], appends) /\ file[s] \in FileRec
    BY DEF Bounds, ValueBounds, StoreTypes
  <2>2. CASE UNCHANGED file
    BY <2>1, <2>2
  <2>3. ASSUME NEW line \in {proc[p].msg, Bad}, proc[p].pc = "write",
                \/ file' = [file EXCEPT ![proc[p].sid] = WithLine(file[proc[p].sid], line)]
                \/ file' = [file EXCEPT ![proc[p].sid] =
                               [WithLine(file[proc[p].sid], line) EXCEPT !.torn = TRUE]]
        PROVE  \A s \in Sids : LinesUpTo(file'[s], appends)
    <3>1. proc[p].sid \in Sids /\ line \in Nat /\ line <= appends
      BY <1>2, <2>3 DEF StoreTypes
    <3>2. /\ LinesUpTo(WithLine(file[proc[p].sid], line), appends)
          /\ LinesUpTo([WithLine(file[proc[p].sid], line) EXCEPT !.torn = TRUE], appends)
      BY <1>2, <2>1, <3>1, WithLineUpTo
    <3>3. \A s \in Sids : file'[s] \in {file[s], WithLine(file[proc[p].sid], line),
                                        [WithLine(file[proc[p].sid], line) EXCEPT !.torn = TRUE]}
      BY <2>3 DEF StoreTypes
    <3> QED
      BY <2>1, <3>2, <3>3
  <2> QED
    BY <1>5, <2>2, <2>3
<1>8. ValueBounds'
  BY <1>2, <1>3, <1>4, <1>7, ValueSame DEF Bounds
<1> QED
  BY <1>6, <1>8 DEF Bounds

LEMMA RemoveInBounds ==
    ASSUME StoreTypes, PlaceInv, Bounds, StoreTypes', NEW p \in Procs, RemoveFile(p)
    PROVE  Bounds'
<1>1. PendingBounds'
  BY RemovePending DEF Bounds
<1>2. PendingNumbers
  BY PendingTypes DEF Bounds
<1>3. appends \in Nat /\ deletes \in Nat /\ inodes \in Nat
  BY <1>2 DEF PendingNumbers, StoreTypes
<1>4. /\ UNCHANGED <<lock_file, inodes, appends, deletes, acked>> /\ Moves(p, "index")
      /\ file' = [file EXCEPT ![proc[p].sid] = [NoFile EXCEPT !.gen = file[proc[p].sid].gen + 1]]
      /\ removed' = removed \union ToSet(file[proc[p].sid].lines)
      /\ proc[p].sid \in Sids
  BY DEF RemoveFile, Is, StoreTypes, tallies
<1>5. \A s \in Sids : LinesUpTo(file[s], appends) /\ file[s].lines \in Seq(Nat)
  BY DEF StoreTypes, FileRec, Bounds, ValueBounds
<1>6. \A s \in Sids : LinesUpTo(file'[s], appends)
  <2> DEFINE f == [NoFile EXCEPT !.gen = file[proc[p].sid].gen + 1]
  <2>1. LinesUpTo(f, appends)
    BY DEF NoFile, LinesUpTo
  <2>2. \A s \in Sids : file'[s] = f \/ file'[s] = file[s]
    BY <1>4 DEF StoreTypes
  <2> HIDE DEF f
  <2> QED
    BY <1>5, <2>1, <2>2
<1>7. removed' \subseteq 0..appends
  <2>1. ASSUME NEW n \in ToSet(file[proc[p].sid].lines) PROVE n \in 0..appends
    <3>1. PICK k \in DOMAIN file[proc[p].sid].lines : n = file[proc[p].sid].lines[k]
      BY DEF ToSet
    <3>2. n \in Nat /\ n <= appends
      BY <1>4, <1>5, <3>1 DEF LinesUpTo
    <3> QED
      BY <1>3, <3>2
  <2> QED
    BY <1>4, <2>1 DEF Bounds, ValueBounds
<1>8. /\ \A q \in Procs \ {p} : proc'[q] = proc[q]
      /\ InRange(proc'[p], inodes, appends, deletes)
  BY <1>4, MovesInRange DEF Critical, Bounds
<1>9. /\ inodes <= inodes /\ appends <= appends /\ deletes <= deletes /\ inodes <= appends + deletes
      /\ \A s \in Sids : lock_file[s] <= inodes
      /\ acked \subseteq 1..appends
  BY <1>3 DEF Bounds, ValueBounds
<1>10. ValueBounds'
  BY <1>3, <1>4, <1>6, <1>7, <1>8, <1>9, ValueFrame DEF Bounds
<1> QED
  BY <1>1, <1>10 DEF Bounds

LEMMA UnlinkInBounds ==
    ASSUME StoreTypes, PlaceInv, Bounds, StoreTypes', NEW p \in Procs, UnlinkLock(p)
    PROVE  Bounds'
<1>1. /\ UNCHANGED <<inodes, appends, deletes, file, index, acked, removed>>
      /\ lock_file' = [lock_file EXCEPT ![proc[p].sid] = 0]
      /\ proc'[p] = AtRest /\ \A q \in Procs \ {p} : proc'[q] = proc[q]
  BY RestsFacts DEF UnlinkLock, ProcStep, StoreTypes, tallies
<1>2. PendingNumbers
  BY PendingTypes DEF Bounds
<1>3. appends \in Nat /\ deletes \in Nat /\ inodes \in Nat
  BY <1>2 DEF PendingNumbers, StoreTypes
<1>4. NoMore
  BY <1>1, AtRestFacts, GoesOn
<1>5. PendingBounds'
  BY <1>1, <1>4, PendingSame DEF Bounds
<1>6. InRange(proc'[p], inodes, appends, deletes)
  BY <1>1, <1>3, RestInRange
<1>7. /\ inodes <= inodes /\ appends <= appends /\ deletes <= deletes /\ inodes <= appends + deletes
      /\ \A s \in Sids : lock_file[s] <= inodes
      /\ acked \subseteq 1..appends /\ removed \subseteq 0..appends
      /\ \A s \in Sids : LinesUpTo(file[s], appends)
  BY <1>3 DEF Bounds, ValueBounds
<1>8. \A s \in Sids : lock_file'[s] <= inodes
  <2>1. \A s \in Sids : lock_file'[s] = 0 \/ lock_file'[s] = lock_file[s]
    BY <1>1 DEF StoreTypes
  <2>2. 0 <= inodes
    BY <1>3
  <2> QED
    BY <1>7, <2>1, <2>2
<1>9. ValueBounds'
  BY <1>1, <1>3, <1>6, <1>7, <1>8, ValueFrame DEF Bounds
<1> QED
  BY <1>5, <1>9 DEF Bounds

LEMMA SaveInBounds ==
    ASSUME StoreTypes, PlaceInv, SaveInv, Bounds, StoreTypes', NEW p \in Procs, IndexSaves(p)
    PROVE  Bounds'
<1>1. PendingBounds'
  BY SavePending DEF Bounds
<1>2. PendingNumbers
  BY PendingTypes DEF Bounds
<1>3. /\ appends \in Nat /\ deletes \in Nat /\ inodes \in Nat
      /\ InRange(proc[p], inodes, appends, deletes) /\ proc[p].msg \in Nat
  BY <1>2 DEF PendingNumbers, StoreTypes, ProcRec, Bounds, ValueBounds
<1>4. /\ UNCHANGED <<lock_file, inodes, appends, deletes, file, removed>>
      /\ Rests(p) \/ Moves(p, "unlink")
      /\ \/ UNCHANGED acked
         \/ proc[p].op = "append" /\ acked' = acked \union {proc[p].msg}
         \/ proc[p].op = "fork" /\ acked' = acked \union {proc[p].msg - 1, proc[p].msg}
  BY DEF IndexSaves, tallies, Is, StoreTypes, Operations
<1>5. /\ \A q \in Procs \ {p} : proc'[q] = proc[q]
      /\ InRange(proc'[p], inodes, appends, deletes)
  <2>1. CASE Rests(p)
    BY <1>3, <2>1, RestsFacts, RestInRange DEF ProcStep, StoreTypes
  <2>2. CASE Moves(p, "unlink")
    BY <2>2, MovesInRange DEF Critical, Bounds
  <2> QED
    BY <1>4, <2>1, <2>2
<1>6. acked' \subseteq 1..appends
  <2>1. acked \subseteq 1..appends
    BY DEF Bounds, ValueBounds
  <2>2. proc[p].op = "append" => proc[p].msg \in 1..appends
    BY <1>3 DEF InRange, PlaceInv
  <2>3. proc[p].op = "fork" => proc[p].msg \in 1..appends /\ proc[p].msg - 1 \in 1..appends
    BY <1>3 DEF InRange
  <2> QED
    BY <1>4, <2>1, <2>2, <2>3
<1>7. /\ inodes <= inodes /\ appends <= appends /\ deletes <= deletes /\ inodes <= appends + deletes
      /\ \A s \in Sids : lock_file[s] <= inodes
      /\ removed \subseteq 0..appends
      /\ \A s \in Sids : LinesUpTo(file[s], appends)
  BY <1>3 DEF Bounds, ValueBounds
<1>8. ValueBounds'
  BY <1>3, <1>4, <1>5, <1>6, <1>7, ValueFrame DEF Bounds
<1> QED
  BY <1>1, <1>8 DEF Bounds

(* The bounds of the model, and the names of what has happened to a session. *)
TallyBounds ==
    /\ lists \in 0..MaxLists /\ crashes \in 0..MaxCrashes /\ cached \subseteq Procs
    /\ scars \in [Sids -> SUBSET {"merged", "scan", "unlinked", "fork", "crash"}]

LEMMA NextTallies ==
    ASSUME StoreTypes, TallyBounds, [StoreNext]_storeVars PROVE TallyBounds'
<1>1. lists' = lists \/ (lists' = lists + 1 /\ lists < MaxLists)
  BY DEF StoreNext, BeginAppend, Fork, OpenFile, WriteLine, BeginDelete, RemoveFile, UnlinkLock,
         Acquire, GiveUp, IndexLoads, IndexSaves, ReadIndex, Scan, Crash, tallies, storeVars
<1>2. crashes' = crashes \/ (crashes' = crashes + 1 /\ crashes < MaxCrashes)
  BY DEF StoreNext, BeginAppend, Fork, OpenFile, WriteLine, BeginDelete, RemoveFile, UnlinkLock,
         Acquire, GiveUp, IndexLoads, IndexSaves, ReadIndex, Scan, Crash, tallies, storeVars
<1>3. cached' \subseteq Procs
  <2>1. \/ UNCHANGED cached
        \/ \E p \in Procs : IndexSaves(p) \/ ReadIndex(p) \/ Scan(p) \/ Crash(p)
    BY DEF StoreNext, BeginAppend, Fork, OpenFile, WriteLine, BeginDelete, RemoveFile, UnlinkLock,
           Acquire, GiveUp, IndexLoads, storeVars
  <2>2. ASSUME NEW p \in Procs, IndexSaves(p) PROVE cached' \subseteq Procs
    BY <2>2 DEF IndexSaves, TallyBounds
  <2>3. ASSUME NEW p \in Procs, ReadIndex(p) \/ Scan(p) PROVE cached' \subseteq Procs
    BY <2>3 DEF ReadIndex, Scan, TallyBounds
  <2>4. ASSUME NEW p \in Procs, Crash(p) PROVE cached' \subseteq Procs
    BY <2>4 DEF Crash, TallyBounds
  <2> QED
    BY <2>1, <2>2, <2>3, <2>4 DEF TallyBounds
<1>4. scars' \in [Sids -> SUBSET {"merged", "scan", "unlinked", "fork", "crash"}]
  <2> DEFINE What == {"merged", "scan", "unlinked", "fork", "crash"}
  <2>1. ASSUME NEW s, NEW what \in SUBSET What, Scar(s, what)
        PROVE  scars' \in [Sids -> SUBSET What]
    BY <2>1 DEF Scar, TallyBounds
  <2>2. ASSUME NEW p \in Procs, WriteLine(p) PROVE scars' \in [Sids -> SUBSET What]
    BY <2>1, <2>2 DEF WriteLine, TallyBounds
  <2>3. ASSUME NEW p \in Procs, IndexSaves(p) PROVE scars' \in [Sids -> SUBSET What]
    BY <2>3 DEF IndexSaves, TallyBounds
  <2>4. ASSUME NEW p \in Procs, RemoveFile(p) \/ UnlinkLock(p) PROVE scars' \in [Sids -> SUBSET What]
    BY <2>1, <2>4 DEF RemoveFile, UnlinkLock
  <2>5. ASSUME NEW p \in Procs, Crash(p) PROVE scars' \in [Sids -> SUBSET What]
    BY <2>1, <2>5 DEF Crash, TallyBounds
  <2>6. \/ UNCHANGED scars
        \/ \E p \in Procs : \/ WriteLine(p) \/ IndexSaves(p) \/ RemoveFile(p) \/ UnlinkLock(p)
                            \/ Crash(p)
    BY DEF StoreNext, BeginAppend, Fork, OpenFile, BeginDelete, Acquire, GiveUp, IndexLoads,
           ReadIndex, Scan, ghosts, storeVars
  <2>7. scars \in [Sids -> SUBSET What]
    BY DEF TallyBounds
  <2> QED
    BY <2>2, <2>3, <2>4, <2>5, <2>6, <2>7
<1>5. lists' \in 0..MaxLists
  BY <1>1, StoreAssumption DEF TallyBounds
<1>6. crashes' \in 0..MaxCrashes
  BY <1>2, StoreAssumption DEF TallyBounds
<1> QED
  BY <1>3, <1>4, <1>5, <1>6 DEF TallyBounds

LEMMA InitStoreBounds == StoreInit => Bounds /\ TallyBounds
<1> SUFFICES ASSUME StoreInit PROVE Bounds /\ TallyBounds
  OBVIOUS
<1>1. /\ Appenders = {} /\ Forkers = {} /\ Writers = {} /\ Deleters = {}
  BY AtRestFacts DEF StoreInit, Appenders, Forkers, Writers, Deleters
<1>2. Cardinality({}) = 0
  BY FS_EmptySet
<1>3. /\ Cardinality(Appenders) = 0 /\ Cardinality(Forkers) = 0
      /\ Cardinality(Writers) = 0 /\ Cardinality(Deleters) = 0 /\ Awaited = 0
  BY <1>1, <1>2 DEF Awaited
<1>4. {MaxAppends, MaxDeletes, MaxLists, MaxCrashes} \subseteq Nat
  BY StoreAssumption
<1>5. PendingBounds
  BY <1>3, <1>4 DEF StoreInit, PendingBounds, NoFile, NoIndex
<1>6. ValueBounds
  <2>1. InRange(AtRest, 0, 0, 0)
    BY RestInRange
  <2>2. LinesUpTo(NoFile, 0)
    BY DEF NoFile, LinesUpTo
  <2> QED
    BY <2>1, <2>2 DEF StoreInit, ValueBounds
<1>7. TallyBounds
  BY <1>4 DEF StoreInit, TallyBounds
<1> QED
  BY <1>5, <1>6, <1>7 DEF Bounds

LEMMA NextBounds ==
    ASSUME StoreTypes, PlaceInv, SaveInv, Bounds, [StoreNext]_storeVars PROVE Bounds'
<1>1. StoreTypes'
  BY StoreTypesKept
<1>2. ASSUME NEW p \in Procs,
             \/ BeginAppend(p) \/ Fork(p) \/ OpenFile(p) \/ WriteLine(p)
             \/ BeginDelete(p) \/ RemoveFile(p) \/ UnlinkLock(p)
             \/ Acquire(p) \/ GiveUp(p) \/ IndexLoads(p) \/ IndexSaves(p)
             \/ ReadIndex(p) \/ Scan(p) \/ Crash(p)
      PROVE  Bounds'
  BY <1>1, <1>2, BeginInBounds, ForkInBounds, PlainInBounds, WriteInBounds, RemoveInBounds,
     UnlinkInBounds, SaveInBounds
<1>3. CASE UNCHANGED storeVars
  BY <1>3 DEF storeVars, Bounds, PendingBounds, ValueBounds, Awaited, Appenders, Forkers, Writers,
              Deleters
<1> QED
  BY <1>2, <1>3 DEF StoreNext

LEMMA NarrowLines ==
    ASSUME NEW n \in Nat, NEW l \in Seq(Nat), \A k \in DOMAIN l : l[k] <= n
    PROVE  l \in Seq(0..n)
<1>1. Len(l) \in Nat /\ DOMAIN l = 1..Len(l) /\ l = [k \in 1..Len(l) |-> l[k]]
  OBVIOUS
<1>2. \A k \in 1..Len(l) : l[k] \in 0..n
  BY <1>1
<1>3. l \in [1..Len(l) -> 0..n]
  BY <1>1, <1>2
<1> QED
  BY <1>1, <1>3

(* What the variables of the message log can hold, with bounds that follow from how often *)
(* each operation may begin (jsonl.rs, lock.rs, index.rs): in particular no more lines in *)
(* a file than appends, no generation past the deletes, no count above two for a message. *)
THEOREM StoreTyped == StoreSpec => []StoreTypeOK
<1>1. StoreInit => PlaceInv /\ SaveInv
  BY AtRestFacts DEF StoreInit, PlaceInv, SaveInv
<1>2. StoreTypes /\ PlaceInv /\ SaveInv /\ Bounds /\ TallyBounds => StoreTypeOK
  <2> SUFFICES ASSUME StoreTypes, PlaceInv, SaveInv, Bounds, TallyBounds PROVE StoreTypeOK
    OBVIOUS
  <2>1. PendingNumbers
    BY PendingTypes DEF Bounds
  <2>2. /\ appends \in Nat /\ deletes \in Nat /\ inodes \in Nat /\ MaxAppends \in Nat
        /\ MaxDeletes \in Nat /\ appends <= MaxAppends /\ deletes <= MaxDeletes
        /\ inodes <= appends + deletes
    BY <2>1 DEF PendingNumbers, StoreTypes, Bounds, PendingBounds, ValueBounds
  <2>3. inodes \in 0..(MaxAppends + MaxDeletes) /\ appends \in 0..MaxAppends /\ deletes \in 0..MaxDeletes
    BY <2>2
  <2>4. lock_file \in [Sids -> 0..inodes]
    <3>1. \A s \in Sids : lock_file[s] \in 0..inodes
      BY <2>2 DEF StoreTypes, Bounds, ValueBounds
    <3> QED
      BY <3>1 DEF StoreTypes
  <2>5. file \in [Sids -> [gen : 0..MaxDeletes, lines : Seq(0..MaxAppends), torn : BOOLEAN]]
    <3>1. ASSUME NEW s \in Sids
          PROVE  file[s] \in [gen : 0..MaxDeletes, lines : Seq(0..MaxAppends), torn : BOOLEAN]
      <4>1. file[s] \in FileRec /\ LinesUpTo(file[s], appends)
            /\ file[s].gen + Cardinality(Deleters) <= deletes
        BY DEF StoreTypes, Bounds, ValueBounds, PendingBounds
      <4>2. file[s].gen \in Nat /\ file[s].lines \in Seq(Nat) /\ Cardinality(Deleters) \in Nat
        BY <4>1, SizeTypes DEF FileRec, Sizes
      <4>3. file[s].gen \in 0..MaxDeletes
        BY <2>2, <4>1, <4>2
      <4>4. file[s].lines \in Seq(0..MaxAppends)
        <5>1. ASSUME NEW k \in DOMAIN file[s].lines PROVE file[s].lines[k] <= MaxAppends
          <6>1. file[s].lines[k] \in Nat /\ file[s].lines[k] <= appends
            BY <4>1, <4>2 DEF LinesUpTo
          <6> QED
            BY <2>2, <6>1
        <5> QED
          BY <2>2, <4>2, <5>1, NarrowLines
      <4> QED
        BY <4>1, <4>3, <4>4 DEF FileRec
    <3> QED
      BY <3>1 DEF StoreTypes
  <2>6. index \in Counts
    <3>1. ASSUME NEW s \in Sids PROVE index[s] \in 0..(2 * MaxAppends)
      <4>1. index[s] + Awaited <= 2 * appends /\ index[s] \in Nat /\ Awaited \in Nat
        BY <2>1, SizeTypes DEF PendingNumbers, Bounds, PendingBounds, Sizes, Awaited
      <4> QED
        BY <2>2, <4>1
    <3> QED
      BY <3>1 DEF StoreTypes, CountsOf, Counts
  <2>7. ASSUME NEW p \in Procs
        PROVE  proc[p] \in [pc : {"idle", "lock"} \union Critical,
                            op : {"none", "append", "fork", "delete", "list", "list_sync"},
                            sid : Sids \union {NoSid}, inode : 0..inodes, gen : 0..MaxDeletes,
                            msg : 0..MaxAppends, loaded : Counts, scan : Counts]
    <3>1. proc[p] \in ProcRec /\ InRange(proc[p], inodes, appends, deletes)
      BY DEF StoreTypes, Bounds, ValueBounds
    <3>2. /\ proc[p].inode \in Nat /\ proc[p].gen \in Nat /\ proc[p].msg \in Nat
          /\ proc[p].loaded \in [Sids -> Nat] /\ proc[p].scan \in [Sids -> Nat]
      BY <3>1 DEF ProcRec, CountsOf
    <3>3. /\ proc[p].inode \in 0..inodes /\ proc[p].gen \in 0..MaxDeletes
          /\ proc[p].msg \in 0..MaxAppends
      BY <2>2, <3>1, <3>2 DEF InRange
    <3>4. ASSUME NEW s \in Sids
          PROVE  proc[p].loaded[s] \in 0..(2 * MaxAppends) /\ proc[p].scan[s] \in 0..(2 * MaxAppends)
      <4>1. /\ proc[p].loaded[s] \in Nat /\ proc[p].scan[s] \in Nat
            /\ proc[p].loaded[s] <= 2 * appends /\ proc[p].scan[s] <= appends
        BY <3>1, <3>2 DEF InRange
      <4> QED
        BY <2>2, <4>1
    <3>5. proc[p].loaded \in Counts /\ proc[p].scan \in Counts
      BY <3>2, <3>4 DEF Counts
    <3> QED
      BY <3>1, <3>3, <3>5 DEF ProcRec, Operations
  <2>8. \A p, q \in Procs : Is(p, "save") /\ Is(q, "save") => p = q
    BY DEF SaveInv, Is
  <2>9. acked \subseteq 1..MaxAppends /\ removed \subseteq 0..MaxAppends
    <3>1. 1..appends \subseteq 1..MaxAppends /\ 0..appends \subseteq 0..MaxAppends
      BY <2>2
    <3> QED
      BY <3>1 DEF Bounds, ValueBounds
  <2>10. proc \in [Procs -> [pc : {"idle", "lock"} \union Critical,
                            op : {"none", "append", "fork", "delete", "list", "list_sync"},
                            sid : Sids \union {NoSid}, inode : 0..inodes, gen : 0..MaxDeletes,
                            msg : 0..MaxAppends, loaded : Counts, scan : Counts]]
    BY <2>7 DEF StoreTypes
  <2> QED
    BY <2>3, <2>4, <2>5, <2>6, <2>8, <2>9, <2>10 DEF TallyBounds, StoreTypeOK
<1> QED
  BY InitStore, InitStoreBounds, StoreTypesKept, NextPlace, NextSave, NextBounds, NextTallies,
     <1>1, <1>2, PTL DEF StoreSpec
================================================================================
