--------------------------- MODULE EventStreamProofs ---------------------------
(***************************************************************************)
(* Theorems about EventStream, for every value of its constants.           *)
(***************************************************************************)
EXTENDS EventStream, FiniteSetTheorems, TLAPS

TaskType == [pc : PCs, seq : 0..MaxSeq, body : Bodies]

(* A writer that waits to restore the mode carries one, and a writer that   *)
(* has allocated a number holds a positive one.                             *)
Numbered == {"init_set", "init_append", "init_done",
             "append", "rollback", "durable", "snapshot"}
Sound(state) ==
    /\ state \in TaskType
    /\ state.pc = "restore" => state.body.arg \in Modes
    /\ state.pc \in Numbered => state.seq >= 1
TasksOK == task \in [Writers -> TaskType] /\ \A w \in Writers : Sound(task[w])

TypeInv == TypeOK /\ TasksOK

--------------------------------------------------------------------------------
(* Copies counts: the number of times a stretch of the event file appends a *)
(* message is a natural number.                                             *)
LEMMA CopiesNat ==
    ASSUME NEW rs \in Seq(Record), NEW m
    PROVE  Copies(rs, m) \in Nat
<1> DEFINE hits == {i \in DOMAIN rs : rs[i].body = Message(m)}
<1>1. DOMAIN rs = 1..Len(rs) /\ Len(rs) \in Nat
  OBVIOUS
<1>2. IsFiniteSet(DOMAIN rs)
  BY <1>1, FS_Interval
<1>3. IsFiniteSet(hits)
  BY <1>2, FS_Subset
<1> QED
  BY <1>3, FS_CardinalityType DEF Copies

(* parse_events yields records. *)
LEMMA ParsedType ==
    ASSUME TypeOK
    PROVE  Parsed \in Seq(Record)
<1>1. CASE tail \in {<<>>, <<Garbage>>}
  BY <1>1 DEF Parsed, TypeOK
<1>2. CASE tail \notin {<<>>, <<Garbage>>}
  <2>1. PICK r \in Record : tail = <<r>>
    BY <1>2 DEF TypeOK
  <2>2. <<r>> \in Seq(Record)
    OBVIOUS
  <2> QED
    BY <1>2, <2>1, <2>2 DEF Parsed, TypeOK
<1> QED
  BY <1>1, <1>2

(* Whatever the front end finds on disk, it opens with a well-formed context. *)
LEMMA HistoryType ==
    ASSUME TypeOK
    PROVE  History \in Context
<1>1. EmptyCtx \in Context
  BY DEF EmptyCtx, Context
<1>2. FromMessageLog \in Context
  BY DEF FromMessageLog, Context
<1>3. Replayed \in Context
  <2>1. \A m \in Messages : Copies(Parsed, m) \in Nat
    BY ParsedType, CopiesNat
  <2>2. \A m \in Messages : snapshot.messages[m] \in Nat
    BY DEF TypeOK, Context
  <2> QED
    BY <2>1, <2>2 DEF Replayed, Context
<1> QED
  BY <1>1, <1>2, <1>3 DEF History

(* The event bodies the writers use are events. *)
LEMMA BodiesType ==
    /\ Created \in Bodies /\ Audit \in Bodies /\ NoBody \in Bodies
    /\ \A m \in Messages : Message(m) \in Bodies
    /\ \A to \in Modes : ModeChanged(to) \in Bodies
BY DEF Created, Audit, NoBody, Message, ModeChanged, Bodies

(* Writing a line of a writer keeps the file well formed. *)
LEMMA WriteLineType ==
    ASSUME TypeOK, NEW w \in Writers, WriteLine(Rec(w))
    PROVE  records' \in Seq(Record) /\ tail' = <<>>
<1>1. Rec(w) \in Record
  BY DEF TypeOK, Rec, Record
<1> QED
  BY <1>1 DEF WriteLine, TypeOK

LEMMA FailLineType ==
    ASSUME TypeOK, NEW w \in Writers, RejectLine(Rec(w)) \/ FailLine(Rec(w))
    PROVE  /\ records' \in Seq(Record)
           /\ tail' = <<>> \/ \E r \in Record : tail' = <<r>>
<1>1. Rec(w) \in Record
  BY DEF TypeOK, Rec, Record
<1>2. Garbage \in Record
  BY BodiesType, ConstantsAssumption DEF Garbage, Record
<1>3. records \in Seq(Record)
  BY DEF TypeOK
<1> QED
  BY <1>1, <1>2, <1>3, WriteLineType DEF RejectLine, FailLine

--------------------------------------------------------------------------------
LEMMA InitType == Init => TypeInv
<1> SUFFICES ASSUME Init PROVE TypeInv
  OBVIOUS
<1> USE ConstantsAssumption DEF Init
<1>1. EmptyCtx \in Context
  BY DEF EmptyCtx, Context
<1>2. NoSnapshot \in [seq : 0..MaxSeq, messages : Context, mode : Modes]
  BY <1>1 DEF NoSnapshot
<1>3. Idle \in TaskType
  BY BodiesType DEF Idle, At, TaskType, PCs, TasksOK, Sound, Numbered
<1>4. task \in [Writers -> TaskType]
  BY <1>3
<1>5. TasksOK
  BY <1>3, <1>4 DEF TasksOK, Sound, Numbered, Idle, At
<1> QED
  BY <1>1, <1>2, <1>4, <1>5 DEF TypeInv, TypeOK, TasksOK, TaskType

(* A writer that moves on to a sound state keeps the writers sound. *)
LEMMA GotoType ==
    ASSUME TypeInv, NEW w \in Writers, NEW state, Sound(state), Goto(w, state)
    PROVE  TasksOK'
BY DEF Goto, TypeInv, TasksOK, Sound

(* The states a writer can be sent to. *)
LEMMA StatesType ==
    /\ Sound(Idle) /\ Sound(Ready) /\ Sound(InitDone)
    /\ \A w \in Writers : Sound(AtRest(w))
    /\ \A pc \in PCs \ (Numbered \union {"restore"}), b \in Bodies : Sound(At(pc, 0, b))
    /\ \A pc \in Numbered, s \in 1..MaxSeq, b \in Bodies : Sound(At(pc, s, b))
    /\ \A to \in Modes : Sound(At("restore", 0, ModeChanged(to)))
BY ConstantsAssumption, BodiesType
   DEF Idle, Ready, InitDone, AtRest, At, TaskType, PCs, Sound, Numbered, ModeChanged

(* The last complete line has a number within the bound. *)
LEMMA TailSeqType ==
    ASSUME TypeOK
    PROVE  TailSeq \in 0..MaxSeq
<1>1. CASE records = <<>>
  BY <1>1, ConstantsAssumption DEF TailSeq
<1>2. CASE records # <<>>
  <2>1. records[Len(records)] \in Record
    BY <1>2 DEF TypeOK
  <2> QED
    BY <1>2, <2>1 DEF TailSeq, Record
<1> QED
  BY <1>1, <1>2

(* TypeInv is inductive: one step per action. *)
LEMMA TypeStep == TypeInv /\ [Next]_vars => TypeInv'
<1> SUFFICES ASSUME TypeInv, [Next]_vars PROVE TypeInv'
  OBVIOUS
<1> USE ConstantsAssumption
<1>0. "turn" \in Writers /\ "mode" \in Writers
  BY DEF Writers
<1>1. CASE Launch
  <2>1. ctx' \in Context
    BY <1>1, HistoryType DEF Launch, TypeInv
  <2>2. snapshot.mode \in Modes
    BY DEF TypeInv, TypeOK
  <2>3. Sound(At("init_read", 0, NoBody)) /\ Sound(Idle)
        /\ Sound(At("restore", 0, ModeChanged(snapshot.mode)))
    BY <2>2, StatesType, BodiesType DEF PCs, Numbered
  <2>4. TasksOK'
    BY <1>1, <2>3 DEF Launch, Writers, TasksOK, Sound
  <2> QED
    BY <1>1, <2>1, <2>4 DEF Launch, TypeInv, TypeOK, TasksOK, TaskType, disk
<1>2. CASE ReadNextSeq
  <2>1. Sound(At("init_set", NextSeq, NoBody))
    BY <1>2, TailSeqType, StatesType, BodiesType
       DEF ReadNextSeq, NextSeq, PCs, Numbered, TypeInv
  <2>2. TasksOK'
    BY <1>0, <1>2, <2>1, GotoType DEF ReadNextSeq, At
  <2> QED
    BY <1>2, <2>2 DEF ReadNextSeq, TypeInv, TypeOK, TasksOK, TaskType, disk, counters
<1>3. CASE LoadSnapshot
  <2>1. task["turn"].seq \in 1..MaxSeq
    BY <1>0, <1>3 DEF LoadSnapshot, TypeInv, TypeOK, TasksOK, Sound, Numbered
  <2>3. Sound(At("init_append", 1, Created))
    BY StatesType, BodiesType DEF PCs, Numbered
  <2>4. TasksOK'
    BY <1>0, <1>3, <2>3, GotoType, StatesType DEF LoadSnapshot, At
  <2>5. durable_seq' \in 0..MaxSeq
    BY <1>3, <2>1, SMTT(20) DEF LoadSnapshot, DurableAtStart, TypeInv, TypeOK
  <2>6. event_seq' \in 1..(MaxSeq + 1)
    BY <1>3, <2>1 DEF LoadSnapshot, TypeInv, TypeOK
  <2> QED
    BY <1>3, <2>4, <2>5, <2>6 DEF LoadSnapshot, TypeInv, TypeOK, TasksOK, TaskType, disk
<1>4. CASE InitAppended
  <2>1. Sound([task["turn"] EXCEPT !.pc = "init_done"])
    BY <1>0, <1>4 DEF InitAppended, TypeInv, TaskType, PCs, TasksOK, Sound, Numbered
  <2>2. TasksOK'
    BY <1>0, <1>4, <2>1, GotoType DEF InitAppended
  <2> QED
    BY <1>0, <1>4, <2>2, WriteLineType
       DEF InitAppended, TypeInv, TypeOK, TasksOK, TaskType, counters
<1>5. CASE InitCreated
  <2>1. TasksOK'
    BY <1>0, <1>5, GotoType, StatesType DEF InitCreated
  <2> QED
    BY <1>5, <2>1 DEF InitCreated, TypeInv, TypeOK, TasksOK, TaskType, disk, Seqs
<1>6. CASE InitFails
  <2>1. CASE phase = "boot"
    BY <1>0, <1>6, <2>1, StatesType, FailLineType
       DEF InitFails, Sound, TypeInv, TypeOK, TasksOK, TaskType, counters
  <2>2. CASE phase # "boot"
    <3>1. TasksOK'
      BY <1>0, <1>6, <2>2, GotoType, StatesType DEF InitFails
    <3> QED
      BY <1>0, <1>6, <2>2, <3>1, FailLineType
         DEF InitFails, TypeInv, TypeOK, TasksOK, TaskType, counters
  <2> QED
    BY <2>1, <2>2
<1>7. CASE StartTurn
  <2>1. Sound(At("init_read", 0, NoBody))
    BY StatesType, BodiesType DEF PCs, Numbered
  <2>2. TasksOK'
    BY <1>0, <1>7, <2>1, GotoType, StatesType DEF StartTurn, At
  <2> QED
    BY <1>7, <2>2 DEF StartTurn, TypeInv, TypeOK, TasksOK, TaskType, disk, counters
<1>8. CASE StoreMessage
  <2>1. stored + 1 \in Messages
    BY <1>8 DEF StoreMessage, Messages, TypeInv, TypeOK
  <2>2. Sound(At("alloc", 0, Message(stored + 1)))
    BY <2>1, StatesType, BodiesType DEF PCs, Numbered
  <2>3. TasksOK'
    BY <1>0, <1>8, <2>2, GotoType DEF StoreMessage, At
  <2>4. ctx' \in Context
    BY <1>8, <2>1 DEF StoreMessage, Context, TypeInv, TypeOK
  <2> QED
    BY <1>8, <2>1, <2>3, <2>4
       DEF StoreMessage, TypeInv, TypeOK, TasksOK, TaskType, Messages, counters
<1>9. CASE PersistAudit
  <2>1. Sound(At("alloc", 0, Audit))
    BY StatesType, BodiesType DEF PCs, Numbered
  <2>2. TasksOK'
    BY <1>0, <1>9, <2>1, GotoType DEF PersistAudit, At
  <2> QED
    BY <1>9, <2>2 DEF PersistAudit, TypeInv, TypeOK, TasksOK, TaskType, disk, counters
<1>10. CASE ExitPlan
  <2>1. PICK to \in Modes : mode' = to /\ Goto("turn", At("alloc", 0, ModeChanged(to)))
    BY <1>10 DEF ExitPlan
  <2>2. Sound(At("alloc", 0, ModeChanged(to)))
    BY StatesType, BodiesType DEF PCs, Numbered
  <2>3. TasksOK'
    BY <1>0, <2>1, <2>2, GotoType DEF At
  <2> QED
    BY <1>10, <2>1, <2>3 DEF ExitPlan, TypeInv, TypeOK, TasksOK, TaskType, disk, counters
<1>11. CASE EndTurn
  <2>1. TasksOK'
    BY <1>0, <1>11, GotoType, StatesType DEF EndTurn
  <2> QED
    BY <1>11, <2>1 DEF EndTurn, TypeInv, TypeOK, TasksOK, TaskType, disk, counters
<1>12. CASE SetMode
  <2>1. PICK to \in Modes : mode' = to /\ Goto("mode", At("alloc", 0, ModeChanged(to)))
    BY <1>12 DEF SetMode
  <2>2. Sound(At("alloc", 0, ModeChanged(to)))
    BY StatesType, BodiesType DEF PCs, Numbered
  <2>3. TasksOK'
    BY <1>0, <2>1, <2>2, GotoType DEF At
  <2> QED
    BY <1>12, <2>1, <2>3 DEF SetMode, TypeInv, TypeOK, TasksOK, TaskType, disk, counters
<1>13. CASE RestoreMode
  <2>1. task["mode"].body \in Bodies /\ task["mode"].body.arg \in Modes
    BY <1>0, <1>13 DEF RestoreMode, TypeInv, TypeOK, TasksOK, Sound
  <2>2. Sound(At("alloc", 0, task["mode"].body))
    BY <2>1, StatesType DEF PCs, Numbered
  <2>3. TasksOK'
    BY <1>0, <1>13, <2>2, GotoType DEF RestoreMode, At
  <2> QED
    BY <1>13, <2>1, <2>3 DEF RestoreMode, TypeInv, TypeOK, TasksOK, TaskType, disk, counters
<1>14. ASSUME NEW w \in Writers, Persist(w) PROVE TypeInv'
  <2> USE <1>14
  <2>0. task[w] \in TaskType /\ Sound(task[w])
    BY DEF TypeInv, TasksOK
  <2>1. CASE Allocate(w)
    <3>1. Sound(At("append", event_seq, task[w].body))
      BY <2>0, <2>1, StatesType DEF Allocate, PCs, Numbered, TypeInv, TypeOK, TaskType
    <3>2. TasksOK'
      BY <2>1, <3>1, GotoType DEF Allocate, At
    <3> QED
      BY <2>1, <3>2 DEF Allocate, TypeInv, TypeOK, TasksOK, TaskType, disk
  <2>2. CASE Appended(w)
    <3>1. Sound([task[w] EXCEPT !.pc = "durable"])
      BY <2>0, <2>2 DEF Appended, TaskType, PCs, Sound, Numbered
    <3>2. TasksOK'
      BY <2>2, <2>0, <3>1, GotoType DEF Appended
    <3> QED
      BY <2>2, <3>2, WriteLineType DEF Appended, TypeInv, TypeOK, TasksOK, TaskType, counters
  <2>3. CASE AppendFails(w)
    <3>1. Sound([task[w] EXCEPT !.pc = "rollback"])
      BY <2>0, <2>3 DEF AppendFails, TaskType, PCs, Sound, Numbered
    <3>2. TasksOK'
      BY <2>3, <2>0, <3>1, GotoType, StatesType DEF AppendFails
    <3> QED
      BY <2>3, <3>2, FailLineType DEF AppendFails, TypeInv, TypeOK, TasksOK, TaskType, counters
  <2>4. CASE Rollback(w)
    <3>1. TasksOK'
      BY <2>4, GotoType, StatesType DEF Rollback
    <3>2. event_seq' \in 1..(MaxSeq + 1)
      BY <2>0, <2>4 DEF Rollback, TypeInv, TypeOK, Sound, Numbered, TaskType
    <3> QED
      BY <2>4, <3>1, <3>2 DEF Rollback, TypeInv, TypeOK, TasksOK, TaskType, disk
  <2>5. CASE MarkDurable(w)
    <3>1. Sound([task[w] EXCEPT !.pc = "snapshot"])
      BY <2>0, <2>5 DEF MarkDurable, TaskType, PCs, Sound, Numbered
    <3>2. TasksOK'
      BY <2>5, <2>0, <3>1, GotoType, StatesType DEF MarkDurable
    <3>3. task[w].seq \in 1..MaxSeq
      BY <2>0, <2>5 DEF MarkDurable, TaskType, Sound, Numbered
    <3>4. acked' \subseteq Seqs
      BY <2>5, <3>3 DEF MarkDurable, TypeInv, TypeOK, Seqs
    <3>5. durable_seq' \in 0..MaxSeq
      BY <2>5, <3>3 DEF MarkDurable, TypeInv, TypeOK
    <3>6. message_since_snapshot' \in Nat
      BY <2>5 DEF MarkDurable, TypeInv, TypeOK
    <3> QED
      BY <2>5, <3>2, <3>4, <3>5, <3>6
         DEF MarkDurable, TypeInv, TypeOK, TasksOK, TaskType, disk
  <2>6. CASE CreateSnapshot(w)
    <3>1. TasksOK'
      BY <2>6, GotoType, StatesType DEF CreateSnapshot
    <3> QED
      BY <2>0, <2>6, <3>1 DEF CreateSnapshot, TypeInv, TypeOK, TasksOK, TaskType
  <2>7. CASE Drop(w)
    <3>1. TasksOK'
      BY <2>7, GotoType, StatesType DEF Drop
    <3> QED
      BY <2>7, <3>1, WriteLineType DEF Drop, TypeInv, TypeOK, TasksOK, TaskType, counters
  <2> QED
    BY <2>1, <2>2, <2>3, <2>4, <2>5, <2>6, <2>7 DEF Persist
<1>15. CASE Crash
  <2>1. records' \in Seq(Record) /\ (tail' = <<>> \/ \E r \in Record : tail' = <<r>>)
    <3>1. Garbage \in Record
      BY BodiesType DEF Garbage, Record
    <3>2. \A w \in Writers : Rec(w) \in Record
      BY DEF TypeInv, TypeOK, Rec, Record
    <3> QED
      BY <1>15, <3>1, <3>2, WriteLineType DEF Crash, TypeInv, TypeOK
  <2>2. TasksOK'
    BY <1>0, <1>15, StatesType DEF Crash, TasksOK, Sound
  <2> QED
    BY <1>15, <2>1, <2>2
       DEF Crash, TypeInv, TypeOK, TasksOK, TaskType, EmptyCtx, Context
<1>16. CASE UNCHANGED vars
  BY <1>16 DEF vars, disk, counters, TypeInv, TypeOK, TasksOK
<1> QED
  BY <1>1, <1>2, <1>3, <1>4, <1>5, <1>6, <1>7, <1>8, <1>9, <1>10, <1>11, <1>12,
     <1>13, <1>14, <1>15, <1>16 DEF Next

(***************************************************************************)
(* The type invariant holds in every behaviour.                            *)
(***************************************************************************)
THEOREM TypeCorrect == Spec => []TypeOK
<1>1. TypeInv => TypeOK
  BY DEF TypeInv
<1> QED
  BY InitType, TypeStep, <1>1, PTL DEF Spec

--------------------------------------------------------------------------------
(***************************************************************************)
(* The event file.  A step leaves its lines alone or appends one line with *)
(* a number above all of them; so what has a record keeps it.              *)
(***************************************************************************)

(* What a writer already relies on being in the file. *)
RestsOn(state) ==
    /\ state.pc \in {"durable", "snapshot"} => HasRecord(state.seq)
    /\ state.pc = "init_done" => HasRecord(1)
    /\ state.pc = "init_set" => state.seq = 1 \/ HasRecord(state.seq - 1)
    /\ state.pc = "init_append" => state.seq = 1

LogInv == TypeInv /\ SeqStrict /\ DurableBacked /\ \A w \in Writers : RestsOn(task[w])

LEMMA NumbersType ==
    ASSUME TypeOK
    PROVE  \A i \in DOMAIN records : records[i].seq \in 0..MaxSeq
<1>1. \A i \in DOMAIN records : records[i] \in Record
  BY DEF TypeOK
<1> QED
  BY <1>1 DEF Record

(* The number of the last line bounds them all. *)
LEMMA TailIsMax ==
    ASSUME TypeOK, SeqStrict
    PROVE  /\ \A i \in DOMAIN records : records[i].seq <= TailSeq
           /\ TailSeq > 0 => HasRecord(TailSeq)
<1>1. records \in Seq(Record) /\ DOMAIN records = 1..Len(records) /\ Len(records) \in Nat
  BY DEF TypeOK
<1>2. CASE records = <<>>
  BY <1>1, <1>2 DEF TailSeq
<1>3. CASE records # <<>>
  <2>1. Len(records) \in DOMAIN records
    BY <1>1, <1>3
  <2>2. TailSeq = records[Len(records)].seq
    BY <1>3 DEF TailSeq
  <2>3. \A i \in DOMAIN records : records[i].seq \in 0..MaxSeq
    BY <1>1, NumbersType
  <2>4. \A i \in DOMAIN records : i < Len(records) \/ i = Len(records)
    BY <1>1
  <2>5. \A i \in DOMAIN records : records[i].seq <= records[Len(records)].seq
    BY <2>1, <2>3, <2>4, ConstantsAssumption DEF SeqStrict
  <2> QED
    BY <2>1, <2>2, <2>5 DEF HasRecord
<1> QED
  BY <1>2, <1>3

LEMMA WriteLineKeepsOrder ==
    ASSUME TypeOK, SeqStrict, NEW r \in Record, WriteLine(r)
    PROVE  /\ SeqStrict'
           /\ HasRecord(r.seq)'
           /\ \A s : HasRecord(s) => HasRecord(s)'
           /\ \A i \in DOMAIN records : records[i].seq < r.seq
<1>1. records \in Seq(Record) /\ DOMAIN records = 1..Len(records) /\ Len(records) \in Nat
  BY DEF TypeOK
<1>2. /\ records' = Append(records, r)
      /\ r.seq > TailSeq
  BY DEF WriteLine, Accepts
<1>3. /\ DOMAIN records' = 1..(Len(records) + 1)
      /\ \A i \in DOMAIN records : records'[i] = records[i]
      /\ records'[Len(records) + 1] = r
  BY <1>1, <1>2
<1>4. \A i \in DOMAIN records : records[i].seq < r.seq
  <2>1. \A i \in DOMAIN records : records[i].seq \in 0..MaxSeq
    BY NumbersType
  <2>2. r.seq \in 0..MaxSeq /\ TailSeq \in 0..MaxSeq
    BY TailSeqType DEF Record
  <2> QED
    BY <1>2, <2>1, <2>2, TailIsMax, ConstantsAssumption
<1>5. SeqStrict'
  <2> SUFFICES ASSUME NEW i \in DOMAIN records', NEW j \in DOMAIN records', i < j
               PROVE  records'[i].seq < records'[j].seq
    BY DEF SeqStrict
  <2>1. i \in DOMAIN records
    BY <1>1, <1>3
  <2>2. CASE j \in DOMAIN records
    BY <1>3, <2>1, <2>2 DEF SeqStrict
  <2>3. CASE j \notin DOMAIN records
    BY <1>1, <1>3, <1>4, <2>1, <2>3
  <2> QED
    BY <2>2, <2>3
<1>6. HasRecord(r.seq)'
  BY <1>1, <1>3 DEF HasRecord
<1>7. \A s : HasRecord(s) => HasRecord(s)'
  BY <1>1, <1>3 DEF HasRecord
<1> QED
  BY <1>4, <1>5, <1>6, <1>7

(* Every step of the system, seen from the file. *)
LEMMA RecordsStep ==
    ASSUME TypeInv, [Next]_vars
    PROVE  \/ UNCHANGED records
           \/ \E w \in Writers : WriteLine(Rec(w)) /\ Rec(w) \in Record
<1>1. \A w \in Writers : Rec(w) \in Record
  BY DEF TypeInv, TypeOK, Rec, Record
<1>2. "turn" \in Writers
  BY DEF Writers
<1>3. CASE InitAppended \/ InitFails
  BY <1>1, <1>2, <1>3 DEF InitAppended, InitFails, RejectLine, FailLine
<1>4. ASSUME NEW w \in Writers, Persist(w)
      PROVE  UNCHANGED records \/ WriteLine(Rec(w))
  BY <1>4 DEF Persist, Allocate, Appended, AppendFails, Rollback, MarkDurable,
              CreateSnapshot, Drop, RejectLine, FailLine, disk
<1>5. CASE Crash
  BY <1>1, <1>5 DEF Crash
<1>6. CASE UNCHANGED vars
  BY <1>6 DEF vars, disk
<1>7. CASE \/ Launch \/ ReadNextSeq \/ LoadSnapshot \/ InitCreated
           \/ StartTurn \/ StoreMessage \/ PersistAudit \/ ExitPlan \/ EndTurn
           \/ SetMode \/ RestoreMode
  BY <1>7 DEF Launch, ReadNextSeq, LoadSnapshot, InitCreated, StartTurn, StoreMessage,
              PersistAudit, ExitPlan, EndTurn, SetMode, RestoreMode, disk
<1> QED
  BY <1>1, <1>3, <1>4, <1>5, <1>6, <1>7 DEF Next

LEMMA RecordsGrow ==
    ASSUME TypeInv, SeqStrict, [Next]_vars
    PROVE  SeqStrict' /\ \A s : HasRecord(s) => HasRecord(s)'
<1>1. CASE UNCHANGED records
  BY <1>1 DEF SeqStrict, HasRecord
<1>2. ASSUME NEW w \in Writers, WriteLine(Rec(w)), Rec(w) \in Record
      PROVE  SeqStrict' /\ \A s : HasRecord(s) => HasRecord(s)'
  BY <1>2, WriteLineKeepsOrder DEF TypeInv
<1> QED
  BY <1>1, <1>2, RecordsStep

LEMMA InitLog == Init => LogInv
<1> SUFFICES ASSUME Init PROVE LogInv
  OBVIOUS
<1>1. SeqStrict
  BY DEF Init, SeqStrict
<1>2. DurableBacked
  BY DEF Init, DurableBacked, NoSnapshot
<1>3. \A w \in Writers : RestsOn(task[w])
  BY DEF Init, RestsOn, Idle, At
<1> QED
  BY <1>1, <1>2, <1>3, InitType DEF LogInv

(* A writer that moves to a state whose lines are in the file keeps all      *)
(* writers resting on the file.                                              *)
LEMMA GotoRests ==
    ASSUME LogInv, [Next]_vars, NEW w \in Writers, NEW state,
           RestsOn(state)', Goto(w, state)
    PROVE  \A v \in Writers : RestsOn(task[v])'
<1>1. \A s : HasRecord(s) => HasRecord(s)'
  BY RecordsGrow DEF LogInv
<1>2. \A v \in Writers : task'[v] = IF v = w THEN state ELSE task[v]
  BY DEF Goto, LogInv, TypeInv, TypeOK
<1>3. \A v \in Writers \ {w} : RestsOn(task[v])'
  BY <1>1, <1>2 DEF LogInv, RestsOn
<1> QED
  BY <1>2, <1>3

(* Nothing rests on the file in these states. *)
LEMMA RestFree ==
    ASSUME NEW state, state.pc \notin {"durable", "snapshot", "init_done", "init_set",
                                      "init_append"}
    PROVE  RestsOn(state)'
BY DEF RestsOn

LEMMA LogStep == LogInv /\ [Next]_vars => LogInv'
<1> SUFFICES ASSUME LogInv, [Next]_vars PROVE LogInv'
  OBVIOUS
<1> USE ConstantsAssumption
<1> DEFINE Rests == \A v \in Writers : RestsOn(task[v])
<1>0. "turn" \in Writers /\ "mode" \in Writers
  BY DEF Writers
<1>a. TypeInv /\ TypeInv'
  BY TypeStep DEF LogInv
<1>b. SeqStrict' /\ \A s : HasRecord(s) => HasRecord(s)'
  BY RecordsGrow DEF LogInv
<1>c. \A w \in Writers : RestsOn(task[w]) /\ task[w] \in TaskType
  BY <1>a DEF LogInv, TypeInv, TasksOK
<1>d. ASSUME UNCHANGED <<acked, durable_seq, snapshot>> PROVE DurableBacked'
  BY <1>b, <1>d DEF LogInv, DurableBacked
<1>e. /\ Idle.pc = "idle" /\ Ready.pc = "ready"
      /\ InitDone.pc \in {"idle", "ready"}
      /\ \A w \in Writers : AtRest(w).pc \in {"idle", "ready"}
  BY DEF Idle, Ready, InitDone, AtRest, At
<1>f. ASSUME Rests', DurableBacked' PROVE LogInv'
  BY <1>a, <1>b, <1>f DEF LogInv
<1>1. CASE Launch
  <2>1. Rests'
    BY <1>1 DEF Launch, RestsOn, Idle, At, Writers
  <2>2. DurableBacked'
    BY <1>1, <1>b DEF Launch, DurableBacked, LogInv, disk
  <2> QED
    BY <2>1, <2>2, <1>f
<1>2. CASE ReadNextSeq
  <2>1. RestsOn(At("init_set", NextSeq, NoBody))'
    <3>1. TailSeq = 0 \/ HasRecord(TailSeq)
      BY <1>a, TailIsMax, TailSeqType DEF LogInv, TypeInv
    <3>2. TailSeq \in Nat /\ UNCHANGED records
      BY <1>2, <1>a, TailSeqType DEF ReadNextSeq, disk, TypeInv
    <3> QED
      BY <3>1, <3>2, <1>b DEF RestsOn, At, NextSeq, TailSeq, HasRecord
  <2>2. Rests'
    BY <1>0, <1>2, <2>1, GotoRests DEF ReadNextSeq, NextSeq, TailSeq, disk, At
  <2>3. DurableBacked'
    BY <1>2, <1>d DEF ReadNextSeq, disk, counters
  <2> QED
    BY <2>2, <2>3, <1>f
<1>3. CASE LoadSnapshot
  <2>0. PICK state : Goto("turn", state)
                     /\ state \in {At("init_append", 1, Created), InitDone}
    BY <1>3 DEF LoadSnapshot
  <2>1. RestsOn(state)'
    BY <1>e, <2>0 DEF RestsOn, At
  <2>2. Rests'
    BY <1>0, <2>0, <2>1, GotoRests
  <2>3. task["turn"].seq \in 1..MaxSeq
    BY <1>0, <1>3, <1>a DEF LoadSnapshot, TypeInv, TypeOK, TasksOK, Sound, Numbered
  <2>4. snapshot.seq \in 0..MaxSeq
    BY <1>a DEF TypeInv, TypeOK
  <2>5. durable_seq' > 0 => HasRecord(durable_seq')
    BY <1>0, <1>3, <1>c, <2>3, <2>4
       DEF LoadSnapshot, DurableAtStart, RestsOn, LogInv, DurableBacked
  <2>6. DurableBacked'
    BY <1>3, <1>b, <2>5 DEF LoadSnapshot, DurableBacked, LogInv, disk, HasRecord
  <2> QED
    BY <2>2, <2>6, <1>f
<1>4. CASE InitAppended
  <2>1. HasRecord(1)'
    <3>1. Rec("turn") \in Record
      BY <1>0, <1>a DEF TypeInv, TypeOK, Rec, Record
    <3>2. Rec("turn").seq = 1
      BY <1>0, <1>4, <1>c DEF InitAppended, RestsOn, Rec
    <3> QED
      BY <1>4, <1>a, <3>1, <3>2, WriteLineKeepsOrder DEF InitAppended, LogInv, TypeInv
  <2>2. PICK state : Goto("turn", state) /\ state.pc = "init_done"
    BY <1>0, <1>4, <1>c DEF InitAppended, TaskType
  <2>3. Rests'
    <3>1. RestsOn(state)'
      BY <2>1, <2>2 DEF RestsOn
    <3> QED
      BY <1>0, <2>2, <3>1, GotoRests
  <2> QED
    BY <1>4, <2>3, <1>d, <1>f DEF InitAppended, counters
<1>5. CASE InitCreated
  <2>1. HasRecord(1)
    BY <1>0, <1>5, <1>c DEF InitCreated, RestsOn
  <2>2. Rests'
    BY <1>0, <1>5, <1>e, RestFree, GotoRests DEF InitCreated
  <2>3. DurableBacked'
    BY <1>5, <1>b, <2>1 DEF InitCreated, DurableBacked, LogInv, disk
  <2> QED
    BY <2>2, <2>3, <1>f
<1>6. CASE InitFails
  <2>1. Rests'
    <3>1. CASE phase = "boot"
      BY <1>6, <3>1, <1>e, RestFree DEF InitFails
    <3>2. CASE phase # "boot"
      BY <1>0, <1>6, <3>2, <1>e, RestFree, GotoRests DEF InitFails
    <3> QED
      BY <3>1, <3>2
  <2> QED
    BY <1>6, <2>1, <1>d, <1>f DEF InitFails, counters
<1>7. CASE \/ StartTurn \/ StoreMessage \/ PersistAudit \/ ExitPlan \/ EndTurn
          \/ SetMode \/ RestoreMode
  <2>1. \A s, b : At("alloc", s, b).pc = "alloc" /\ At("init_read", s, b).pc = "init_read"
    BY DEF At
  <2>2. PICK w, state :
            /\ w \in Writers /\ Goto(w, state)
            /\ state.pc \in {"alloc", "init_read", "ready", "idle"}
    BY <1>0, <1>7, <1>e, <2>1
       DEF StartTurn, StoreMessage, PersistAudit, ExitPlan, EndTurn, SetMode, RestoreMode
  <2>3. Rests'
    BY <2>2, RestFree, GotoRests
  <2>4. UNCHANGED <<acked, durable_seq, snapshot>>
    BY <1>7 DEF StartTurn, StoreMessage, PersistAudit, ExitPlan, EndTurn, SetMode,
                RestoreMode, disk, counters
  <2> QED
    BY <2>3, <2>4, <1>d, <1>f
<1>8. ASSUME NEW w \in Writers, Persist(w) PROVE LogInv'
  <2>1. CASE Allocate(w)
    <3>1. Rests'
      BY <2>1, <1>8, RestFree, GotoRests DEF Allocate, At
    <3> QED
      BY <2>1, <3>1, <1>d, <1>f DEF Allocate, disk
  <2>2. CASE Appended(w)
    <3>1. Rec(w) \in Record /\ Rec(w).seq = task[w].seq
      BY <1>8, <1>a DEF TypeInv, TypeOK, Rec, Record
    <3>2. PICK r : r = Rec(w)
      OBVIOUS
    <3>3. HasRecord(r.seq)'
      BY <2>2, <1>a, <3>1, <3>2, WriteLineKeepsOrder DEF Appended, LogInv, TypeInv
    <3>4. PICK state : Goto(w, state) /\ state.pc = "durable" /\ state.seq = r.seq
      BY <2>2, <1>8, <1>c, <3>1, <3>2 DEF Appended, TaskType
    <3>5. RestsOn(state)'
      BY <3>3, <3>4 DEF RestsOn
    <3>6. Rests'
      BY <1>8, <3>4, <3>5, GotoRests
    <3> QED
      BY <2>2, <3>6, <1>d, <1>f DEF Appended, counters
  <2>3. CASE AppendFails(w)
    <3>1. [task[w] EXCEPT !.pc = "rollback"].pc = "rollback"
      BY <1>8, <1>c DEF TaskType
    <3>2. Rests'
      BY <2>3, <1>8, <1>e, <3>1, RestFree, GotoRests DEF AppendFails
    <3> QED
      BY <2>3, <3>2, <1>d, <1>f DEF AppendFails, counters
  <2>4. CASE Rollback(w)
    <3>1. Rests'
      BY <2>4, <1>8, <1>e, RestFree, GotoRests DEF Rollback
    <3> QED
      BY <2>4, <3>1, <1>d, <1>f DEF Rollback, disk
  <2>5. CASE MarkDurable(w)
    <3>1. HasRecord(task[w].seq)
      BY <1>8, <2>5, <1>c DEF MarkDurable, RestsOn
    <3>2. PICK state : Goto(w, state) /\ \/ state.pc \in {"idle", "ready"}
                                         \/ state.pc = "snapshot" /\ state.seq = task[w].seq
      BY <2>5, <1>8, <1>c, <1>e DEF MarkDurable, TaskType
    <3>3. Rests'
      <4>1. RestsOn(state)'
        BY <1>b, <3>1, <3>2 DEF RestsOn
      <4> QED
        BY <1>8, <3>2, <4>1, GotoRests
    <3>4. DurableBacked'
      BY <2>5, <1>8, <1>b, <3>1 DEF MarkDurable, DurableBacked, LogInv, disk
    <3> QED
      BY <3>3, <3>4, <1>f
  <2>6. CASE CreateSnapshot(w)
    <3>1. HasRecord(task[w].seq)
      BY <1>8, <2>6, <1>c DEF CreateSnapshot, RestsOn
    <3>2. Rests'
      BY <2>6, <1>8, <1>e, RestFree, GotoRests DEF CreateSnapshot
    <3>3. DurableBacked'
      BY <2>6, <1>b, <3>1 DEF CreateSnapshot, DurableBacked, LogInv
    <3> QED
      BY <3>2, <3>3, <1>f
  <2>7. CASE Drop(w)
    <3>1. Rests'
      BY <2>7, <1>8, <1>e, RestFree, GotoRests DEF Drop
    <3> QED
      BY <2>7, <3>1, <1>d, <1>f DEF Drop, counters
  <2> QED
    BY <1>8, <2>1, <2>2, <2>3, <2>4, <2>5, <2>6, <2>7 DEF Persist
<1>9. CASE Crash
  <2>1. Rests'
    BY <1>9, <1>e, RestFree DEF Crash
  <2>2. DurableBacked'
    BY <1>9, <1>b DEF Crash, DurableBacked, LogInv
  <2> QED
    BY <2>1, <2>2, <1>f
<1>10. CASE UNCHANGED vars
  BY <1>10, <1>b, <1>d, <1>f DEF vars, counters, disk, LogInv, RestsOn
<1> QED
  BY <1>1, <1>2, <1>3, <1>4, <1>5, <1>6, <1>7, <1>8, <1>9, <1>10 DEF Next

(***************************************************************************)
(* The lines of the event file are in order, and what memory and the       *)
(* snapshot claim to be durable is in the file, for every front end, every *)
(* kind of append failure, drops and crashes.                              *)
(***************************************************************************)
THEOREM LogSafe == Spec => [](SeqStrict /\ DurableBacked)
<1>1. LogInv => SeqStrict /\ DurableBacked
  BY DEF LogInv
<1> QED
  BY InitLog, LogStep, <1>1, PTL DEF Spec

--------------------------------------------------------------------------------
(***************************************************************************)
(* EventStream implements EventLog: a step appends one line above the      *)
(* others, acknowledges a number that has a line, or is invisible.         *)
(***************************************************************************)
LEMMA LogInit == Init => Log!Init
BY DEF Init, Log!Init

LEMMA WriteIsLogWrite ==
    ASSUME LogInv, NEW w \in Writers, WriteLine(Rec(w)), UNCHANGED acked
    PROVE  Log!Next
<1>1. Rec(w) \in Record /\ Rec(w) = [seq |-> task[w].seq, body |-> task[w].body]
  BY DEF LogInv, TypeInv, TypeOK, Rec, Record
<1>2. \A i \in DOMAIN records : records[i].seq < task[w].seq
  BY <1>1, WriteLineKeepsOrder DEF LogInv, TypeInv
<1>3. task[w].seq \in Seqs
  <2>1. task[w].seq > TailSeq /\ TailSeq \in 0..MaxSeq /\ task[w].seq \in 0..MaxSeq
    BY <1>1, TailSeqType DEF WriteLine, Accepts, LogInv, TypeInv, TypeOK
  <2> QED
    BY <2>1, ConstantsAssumption DEF Seqs
<1>4. task[w].body \in Bodies
  BY DEF LogInv, TypeInv, TypeOK
<1>5. Log!Write(task[w].seq, task[w].body)
  BY <1>1, <1>2 DEF WriteLine, Log!Write
<1> QED
  BY <1>3, <1>4, <1>5 DEF Log!Next

LEMMA AckIsLogAck ==
    ASSUME LogInv, NEW s \in Seqs, HasRecord(s), acked' = acked \union {s}, UNCHANGED records
    PROVE  Log!Next
<1>1. Log!Ack(s)
  BY DEF Log!Ack, HasRecord
<1> QED
  BY <1>1 DEF Log!Next

LEMMA LogRefines == LogInv /\ [Next]_vars => [Log!Next]_Log!vars
<1> SUFFICES ASSUME LogInv, [Next]_vars PROVE Log!Next \/ UNCHANGED <<records, acked>>
  BY DEF Log!vars
<1>0. "turn" \in Writers
  BY DEF Writers
<1>1. CASE InitAppended \/ InitFails
  BY <1>0, <1>1, WriteIsLogWrite DEF InitAppended, InitFails, RejectLine, FailLine
<1>2. CASE InitCreated
  <2>1. HasRecord(1) /\ 1 \in Seqs
    BY <1>0, <1>2, ConstantsAssumption DEF InitCreated, LogInv, RestsOn, Seqs
  <2> QED
    BY <1>2, <2>1, AckIsLogAck DEF InitCreated, disk
<1>3. ASSUME NEW w \in Writers, Persist(w)
      PROVE  Log!Next \/ UNCHANGED <<records, acked>>
  <2>1. CASE MarkDurable(w)
    <3>1. HasRecord(task[w].seq)
      BY <1>3, <2>1 DEF MarkDurable, LogInv, RestsOn
    <3>2. task[w].seq \in Seqs
      BY <1>3, <2>1 DEF MarkDurable, LogInv, TypeInv, TypeOK, TasksOK, Sound, Numbered, Seqs
    <3> QED
      BY <2>1, <3>1, <3>2, AckIsLogAck DEF MarkDurable, disk
  <2>2. CASE Appended(w) \/ AppendFails(w) \/ Drop(w)
    BY <1>3, <2>2, WriteIsLogWrite DEF Appended, AppendFails, Drop, RejectLine, FailLine
  <2>3. CASE Allocate(w) \/ Rollback(w) \/ CreateSnapshot(w)
    BY <2>3 DEF Allocate, Rollback, CreateSnapshot, disk
  <2> QED
    BY <1>3, <2>1, <2>2, <2>3 DEF Persist
<1>4. CASE Crash
  BY <1>4, WriteIsLogWrite DEF Crash
<1>5. CASE UNCHANGED vars
  BY <1>5 DEF vars, disk
<1>6. CASE \/ Launch \/ ReadNextSeq \/ LoadSnapshot
           \/ StartTurn \/ StoreMessage \/ PersistAudit \/ ExitPlan \/ EndTurn
           \/ SetMode \/ RestoreMode
  BY <1>6 DEF Launch, ReadNextSeq, LoadSnapshot, StartTurn, StoreMessage,
              PersistAudit, ExitPlan, EndTurn, SetMode, RestoreMode, disk
<1> QED
  BY <1>1, <1>2, <1>3, <1>4, <1>5, <1>6 DEF Next

(***************************************************************************)
(* The event stream keeps EventLog's promise: an append-only log with      *)
(* increasing numbers in which every acknowledged event stays.             *)
(***************************************************************************)
THEOREM StreamImplementsLog == Spec => Implements
BY InitLog, LogStep, LogInit, LogRefines, PTL DEF Spec, Implements, Log!Spec

--------------------------------------------------------------------------------
(***************************************************************************)
(* The cli.  Its writers take turns, so a number held is above the end of  *)
(* the file until it is written, and the next number always is.            *)
(***************************************************************************)
InitPCs == {"init_read", "init_set", "init_append", "init_done"}

(* One command at a time; set_mode waits for init_event_stream.             *)
Serial ==
    /\ phase = "down" => \A w \in Writers : task[w].pc = "idle"
    /\ phase = "boot" => task["turn"].pc \in InitPCs /\ task["mode"].pc \in {"idle", "restore"}
    /\ phase = "open" => /\ task["turn"].pc \notin InitPCs /\ task["mode"].pc \notin InitPCs
                         /\ task["turn"].pc = "idle" \/ task["mode"].pc = "idle"

(* init_event_stream works on the end of the file that it read.             *)
Boot ==
    /\ task["turn"].pc = "init_set" => task["turn"].seq = TailSeq + 1
    /\ task["turn"].pc = "init_append" =>
          task["turn"].body = Created /\ task["turn"].seq = 1 /\ records = <<>>
    /\ task["turn"].pc = "init_done" => TailSeq = 1 /\ records # <<>>
    /\ phase = "open" => records # <<>>

Begins == /\ \A i \in DOMAIN records : records[i].seq >= 1
          /\ records # <<>> => records[1].body = Created

(* Numbers not yet written lie above the end of the file.                   *)
Ahead == phase = "open" =>
    /\ event_seq > TailSeq
    /\ \A w \in Writers : task[w].pc \in {"append", "rollback"} =>
          task[w].seq > TailSeq /\ event_seq > task[w].seq

CliInv ==
    /\ LogInv
    /\ frontend = "cli" => /\ Serial /\ Boot /\ Begins
                           /\ "written" \notin Faults => Ahead

LEMMA InitCli == Init => CliInv
<1> SUFFICES ASSUME Init PROVE CliInv
  OBVIOUS
<1>1. \A w \in Writers : task[w].pc = "idle"
  BY DEF Init, Idle, At
<1>2. Serial /\ Boot /\ Begins /\ Ahead
  BY <1>1 DEF Init, Serial, Boot, Begins, Ahead, Writers
<1> QED
  BY <1>2, InitLog DEF CliInv

LEMMA FrontendFixed == [Next]_vars => frontend' = frontend
BY DEF Next, vars, Launch, ReadNextSeq, LoadSnapshot, InitAppended, InitCreated, InitFails,
       StartTurn, StoreMessage, PersistAudit, ExitPlan, EndTurn, SetMode, RestoreMode,
       Persist, Allocate, Appended, AppendFails, Rollback, MarkDurable, CreateSnapshot,
       Drop, Crash

(* What a line written after the others does to the end of the file.        *)
LEMMA WriteLineAtEnd ==
    ASSUME TypeInv, NEW w \in Writers, WriteLine(Rec(w)), Begins
    PROVE  /\ TailSeq' = task[w].seq /\ records' # <<>>
           /\ task[w].seq >= 1
           /\ records # <<>> \/ task[w].body = Created => Begins'
<1>1. records \in Seq(Record) /\ DOMAIN records = 1..Len(records) /\ Len(records) \in Nat
  BY DEF TypeInv, TypeOK
<1>2. Rec(w) = [seq |-> task[w].seq, body |-> task[w].body] /\ Rec(w) \in Record
  BY DEF TypeInv, TypeOK, Rec, Record
<1>3. /\ records' = Append(records, Rec(w))
      /\ task[w].seq > TailSeq
  BY <1>2 DEF WriteLine, Accepts
<1>4. /\ DOMAIN records' = 1..(Len(records) + 1) /\ Len(records') = Len(records) + 1
      /\ \A i \in DOMAIN records : records'[i] = records[i]
      /\ records'[Len(records) + 1] = Rec(w) /\ records' # <<>>
  BY <1>1, <1>2, <1>3
<1>5. TailSeq' = task[w].seq
  BY <1>2, <1>4 DEF TailSeq
<1>6. task[w].seq >= 1
  BY <1>3, TailSeqType, ConstantsAssumption DEF TypeInv, TypeOK
<1>7. ASSUME records # <<>> \/ task[w].body = Created PROVE Begins'
  <2>1. \A i \in DOMAIN records' : records'[i].seq >= 1
    BY <1>1, <1>2, <1>4, <1>6 DEF Begins
  <2>2. records'[1].body = Created
    <3>1. CASE records = <<>>
      BY <1>1, <1>2, <1>4, <1>7, <3>1
    <3>2. CASE records # <<>>
      BY <1>1, <1>4, <3>2 DEF Begins
    <3> QED
      BY <3>1, <3>2
  <2> QED
    BY <2>1, <2>2 DEF Begins
<1> QED
  BY <1>4, <1>5, <1>6, <1>7

(* An end of the file without a number is an empty file.                    *)
LEMMA TailZero ==
    ASSUME TypeInv, Begins, TailSeq = 0
    PROVE  records = <<>>
<1> SUFFICES ASSUME records # <<>> PROVE FALSE
  OBVIOUS
<1>1. Len(records) \in DOMAIN records
  BY DEF TypeInv, TypeOK
<1> QED
  BY <1>1 DEF TailSeq, Begins

(* What every step of the cli preserves beside LogInv. *)
CliPart == Serial /\ Boot /\ Begins /\ ("written" \notin Faults => Ahead)

LEMMA CliStep == CliInv /\ [Next]_vars => CliInv'
<1> SUFFICES ASSUME CliInv, [Next]_vars, frontend = "cli" PROVE CliPart'
  BY LogStep, FrontendFixed DEF CliInv, CliPart
<1> USE ConstantsAssumption
<1>0. /\ "turn" \in Writers /\ "mode" \in Writers
      /\ \A w \in Writers : w = "turn" \/ w = "mode"
  BY DEF Writers
<1>a. LogInv /\ TypeInv /\ Serial /\ Boot /\ Begins /\ ("written" \notin Faults => Ahead)
  BY DEF CliInv, LogInv
<1>b. /\ task \in [Writers -> TaskType]
      /\ event_seq \in 1..(MaxSeq + 1) /\ TailSeq \in 0..MaxSeq
      /\ phase \in {"down", "boot", "open"}
  BY <1>a, TailSeqType DEF TypeInv, TypeOK, TasksOK
<1>c. /\ Idle.pc = "idle" /\ Ready.pc = "ready"
      /\ InitDone.pc \in {"idle", "ready"}
      /\ phase = "boot" => InitDone.pc = "idle"
      /\ AtRest("turn").pc = "ready" /\ AtRest("mode").pc = "idle"
      /\ \A pc, s, b : At(pc, s, b).pc = pc /\ At(pc, s, b).seq = s /\ At(pc, s, b).body = b
  BY DEF Idle, Ready, InitDone, AtRest, At
<1>d. ASSUME UNCHANGED records PROVE Begins' /\ TailSeq' = TailSeq
  BY <1>a, <1>d DEF Begins, TailSeq
<1>1. CASE Launch
  BY <1>0, <1>1, <1>c, <1>d DEF Launch, BootsStream, CliPart, Serial, Boot, Ahead,
     InitPCs, disk, Writers
<1>2. CASE ReadNextSeq
  BY <1>0, <1>2, <1>a, <1>b, <1>c, <1>d
     DEF ReadNextSeq, CliPart, Serial, Boot, Ahead, InitPCs, Goto, disk, counters, NextSeq
<1>3. CASE LoadSnapshot
  <2>1. task["turn"].seq = TailSeq + 1 /\ phase = "boot"
    BY <1>0, <1>a, <1>b, <1>3 DEF LoadSnapshot, Boot, Serial, InitPCs
  <2>2. snapshot.seq \in 0..MaxSeq /\ (snapshot.seq > 0 => records # <<>>)
    BY <1>a DEF TypeInv, TypeOK, LogInv, DurableBacked, HasRecord
  <2>3. TailSeq = 0 => records = <<>>
    BY <1>a, TailZero
  <2>4. TailSeq > 0 => records # <<>>
    BY DEF TailSeq
  <2>5. CASE task["turn"].seq = 1 /\ snapshot.seq = 0
    BY <1>0, <1>3, <1>a, <1>b, <1>c, <1>d, <2>1, <2>3, <2>5
       DEF LoadSnapshot, CliPart, Serial, Boot, Ahead, InitPCs, Goto, disk
  <2>6. CASE ~(task["turn"].seq = 1 /\ snapshot.seq = 0)
    BY <1>0, <1>3, <1>a, <1>b, <1>c, <1>d, <2>1, <2>2, <2>4, <2>6
       DEF LoadSnapshot, CliPart, Serial, Boot, Ahead, InitPCs, Goto, disk
  <2> QED
    BY <2>5, <2>6
<1>4. CASE InitAppended
  <2>1. task["turn"].body = Created /\ task["turn"].seq = 1 /\ phase = "boot"
    BY <1>0, <1>a, <1>b, <1>4 DEF InitAppended, Boot, Serial, InitPCs
  <2>2. TailSeq' = 1 /\ records' # <<>> /\ Begins'
    BY <1>0, <1>a, <1>4, <2>1, WriteLineAtEnd DEF InitAppended
  <2> QED
    BY <1>0, <1>4, <1>a, <1>b, <2>1, <2>2
       DEF InitAppended, CliPart, Serial, Boot, Ahead, InitPCs, Goto, TaskType
<1>5. CASE InitCreated
  BY <1>0, <1>5, <1>a, <1>b, <1>c, <1>d
     DEF InitCreated, CliPart, Serial, Boot, Ahead, InitPCs, Goto, disk
<1>6. CASE InitFails
  <2>1. phase = "boot" /\ task["turn"].body = Created
    BY <1>0, <1>a, <1>b, <1>6 DEF InitFails, Boot, Serial, InitPCs
  <2>2. Begins'
    <3>1. CASE UNCHANGED records
      BY <3>1, <1>d
    <3>2. CASE WriteLine(Rec("turn"))
      BY <1>0, <1>a, <2>1, <3>2, WriteLineAtEnd
    <3> QED
      BY <1>6, <3>1, <3>2 DEF InitFails, RejectLine, FailLine
  <2>3. Serial' /\ Boot' /\ Ahead'
    BY <1>0, <1>6, <1>c, <2>1 DEF InitFails, Serial, Boot, Ahead, InitPCs
  <2> QED
    BY <2>2, <2>3 DEF CliPart
<1>7. CASE StartTurn \/ StoreMessage \/ PersistAudit \/ ExitPlan \/ EndTurn
  <2>1. PICK state : Goto("turn", state) /\ state.pc \in {"idle", "ready", "alloc"}
    BY <1>7, <1>c DEF StartTurn, StoreMessage, PersistAudit, ExitPlan, EndTurn
  <2>2. /\ task["mode"].pc = "idle" /\ phase = "open"
        /\ UNCHANGED <<records, event_seq, phase>>
    BY <1>0, <1>7, <1>a, <1>b DEF StartTurn, StoreMessage, PersistAudit, ExitPlan, EndTurn,
       Alone, Serial, InitPCs, disk, counters
  <2> QED
    BY <1>0, <1>a, <1>b, <1>d, <2>1, <2>2 DEF CliPart, Serial, Boot, Ahead, InitPCs, Goto
<1>8. CASE SetMode \/ RestoreMode
  <2>1. PICK state : Goto("mode", state) /\ state.pc = "alloc"
    BY <1>8, <1>c DEF SetMode, RestoreMode
  <2>2. /\ task["turn"].pc = "idle" /\ phase = "open"
        /\ UNCHANGED <<records, event_seq, phase>>
    BY <1>0, <1>8, <1>a, <1>b DEF SetMode, RestoreMode, Alone, Serial, InitPCs, disk, counters
  <2> QED
    BY <1>0, <1>a, <1>b, <1>d, <2>1, <2>2 DEF CliPart, Serial, Boot, Ahead, InitPCs, Goto
<1>9. ASSUME NEW w \in Writers, Persist(w) PROVE CliPart'
  <2>1. PICK v \in Writers : v # w /\ Writers = {v, w}
    BY DEF Writers
  <2>2. /\ phase = "open" /\ UNCHANGED phase /\ records # <<>>
        /\ task[w].pc \notin InitPCs \union {"idle", "restore", "ready"}
        /\ task[v].pc = "idle"
    BY <1>0, <1>9, <1>a, <1>b, <2>1
       DEF Persist, Allocate, Appended, AppendFails, Rollback, MarkDurable, CreateSnapshot,
           Drop, Serial, Boot, InitPCs
  <2>3. ASSUME NEW state, Goto(w, state)
        PROVE  task'[w] = state /\ task'[v] = task[v]
    BY <1>b, <2>1, <2>3 DEF Goto
  <2>4. AtRest(w).pc \in {"idle", "ready"}
    BY <1>0, <1>c
  <2>5. ASSUME NEW state, Goto(w, state), Begins', records' # <<>>,
               state.pc \notin InitPCs,
               "written" \notin Faults =>
                  /\ event_seq' > TailSeq'
                  /\ state.pc \in {"append", "rollback"} =>
                        state.seq > TailSeq' /\ event_seq' > state.seq
        PROVE  CliPart'
    BY <1>0, <2>1, <2>2, <2>3, <2>5 DEF CliPart, Serial, Boot, Ahead, InitPCs
  <2>6. CASE Allocate(w)
    BY <1>a, <1>b, <1>c, <1>d, <2>2, <2>5, <2>6 DEF Allocate, Ahead, InitPCs, disk
  <2>7. CASE Appended(w)
    <3>1. PICK state : Goto(w, state) /\ state.pc = "durable"
      BY <1>9, <1>b, <2>7 DEF Appended, TaskType
    <3>2. Begins' /\ records' # <<>> /\ TailSeq' = task[w].seq
      BY <1>9, <1>a, <2>2, <2>7, WriteLineAtEnd DEF Appended
    <3> QED
      BY <1>9, <1>a, <2>2, <2>5, <2>7, <3>1, <3>2 DEF Appended, Ahead, InitPCs, counters
  <2>8. CASE AppendFails(w)
    <3>1. PICK state : /\ Goto(w, state)
                       /\ \/ state.pc \in {"idle", "ready"}
                          \/ state.pc = "rollback" /\ state.seq = task[w].seq
      BY <1>9, <1>b, <2>4, <2>8 DEF AppendFails, TaskType
    <3>2. Begins' /\ records' # <<>>
      BY <1>9, <1>a, <1>d, <2>2, <2>8, WriteLineAtEnd DEF AppendFails, RejectLine, FailLine
    <3>3. "written" \notin Faults => UNCHANGED records
      BY <2>8 DEF AppendFails, RejectLine, FailLine
    <3> QED
      BY <1>9, <1>a, <1>d, <2>2, <2>5, <2>8, <3>1, <3>2, <3>3
         DEF AppendFails, Ahead, InitPCs, counters
  <2>9. CASE Rollback(w)
    BY <1>9, <1>a, <1>b, <1>c, <1>d, <2>2, <2>4, <2>5, <2>9
       DEF Rollback, Ahead, InitPCs, disk
  <2>10. CASE MarkDurable(w)
    <3>1. PICK state : Goto(w, state) /\ state.pc \in {"idle", "ready", "snapshot"}
      BY <1>9, <1>b, <2>4, <2>10 DEF MarkDurable, TaskType
    <3> QED
      BY <1>a, <1>d, <2>2, <2>5, <2>10, <3>1 DEF MarkDurable, Ahead, InitPCs, disk
  <2>11. CASE CreateSnapshot(w)
    BY <1>a, <1>d, <2>2, <2>4, <2>5, <2>11 DEF CreateSnapshot, Ahead, InitPCs
  <2>12. CASE Drop(w)
    <3>1. CASE UNCHANGED records
      BY <1>a, <1>d, <2>2, <2>4, <2>5, <2>12, <3>1 DEF Drop, Ahead, InitPCs, counters
    <3>2. CASE task[w].pc = "append" /\ WriteLine(Rec(w))
      <4>1. Begins' /\ records' # <<>> /\ TailSeq' = task[w].seq
        BY <1>9, <1>a, <2>2, <3>2, WriteLineAtEnd
      <4> QED
        BY <1>9, <1>a, <2>2, <2>4, <2>5, <2>12, <3>2, <4>1
           DEF Drop, Ahead, InitPCs, counters
    <3> QED
      BY <2>12, <3>1, <3>2 DEF Drop
  <2> QED
    BY <1>9, <2>6, <2>7, <2>8, <2>9, <2>10, <2>11, <2>12 DEF Persist
<1>10. CASE Crash
  <2>1. Begins'
    <3>1. CASE UNCHANGED records
      BY <3>1, <1>d
    <3>2. ASSUME NEW w \in Writers, WriteLine(Rec(w)), task[w].pc \in {"append", "init_append"}
          PROVE  Begins'
      <4>1. records # <<>> \/ task[w].body = Created
        BY <1>0, <1>a, <1>b, <3>2 DEF Serial, Boot, InitPCs
      <4> QED
        BY <1>a, <3>2, <4>1, WriteLineAtEnd
    <3> QED
      BY <1>10, <3>1, <3>2 DEF Crash
  <2>2. Serial' /\ Boot' /\ Ahead'
    BY <1>0, <1>10, <1>c DEF Crash, Serial, Boot, Ahead, InitPCs
  <2> QED
    BY <2>1, <2>2 DEF CliPart
<1>11. CASE UNCHANGED vars
  BY <1>11, <1>a, <1>d DEF vars, disk, counters, CliPart, Serial, Boot, Ahead
<1> QED
  BY <1>1, <1>2, <1>3, <1>4, <1>5, <1>6, <1>7, <1>8, <1>9, <1>10, <1>11 DEF Next

(***************************************************************************)
(* In the cli no append is ever refused for its number, unless an append   *)
(* reported an error after it wrote its line: rollback, restart, drops and *)
(* torn lines never leave the stream frozen.                               *)
(***************************************************************************)
THEOREM CliAccepted == Spec => []CliAppendAccepted
<1>1. CliInv => CliAppendAccepted
  <2> SUFFICES ASSUME CliInv, frontend = "cli", "written" \notin Faults,
                      NEW w \in Writers, task[w].pc \in {"append", "init_append"}
               PROVE  task[w].seq > TailSeq
    BY DEF CliAppendAccepted, AppendAccepted, Accepts
  <2>1. Serial /\ Boot /\ Ahead /\ phase \in {"down", "boot", "open"}
    BY DEF CliInv, LogInv, TypeInv, TypeOK
  <2>2. CASE task[w].pc = "init_append"
    <3>1. w = "turn" /\ task["turn"].seq = 1 /\ TailSeq = 0
      BY <2>1, <2>2 DEF Serial, Boot, InitPCs, TailSeq, Writers
    <3> QED
      BY <3>1
  <2>3. CASE task[w].pc = "append"
    BY <2>1, <2>3 DEF Serial, Ahead, InitPCs, Writers
  <2> QED
    BY <2>2, <2>3
<1> QED
  BY InitCli, CliStep, <1>1, PTL DEF Spec

(***************************************************************************)
(* The event file of a session that the cli opens begins with              *)
(* SessionCreated, whatever fails.                                         *)
(***************************************************************************)
THEOREM CliCreatedFirst == Spec => []CreatedFirst
<1>1. CliInv => CreatedFirst
  BY DEF CliInv, Begins, CreatedFirst
<1> QED
  BY InitCli, CliStep, <1>1, PTL DEF Spec

--------------------------------------------------------------------------------
(***************************************************************************)
(* Reopening, by the cli.  An unterminated line at the head of an otherwise *)
(* empty file is a SessionCreated cut short, so whatever a crash leaves     *)
(* behind can be replayed.                                                  *)
(***************************************************************************)
TailBegins == records = <<>> /\ tail \notin {<<>>, <<Garbage>>} => tail[1].body = Created

ReopenInv == CliInv /\ (frontend = "cli" => TailBegins)

LEMMA InitReopen == Init => ReopenInv
<1>1. Init => TailBegins
  BY DEF Init, TailBegins
<1> QED
  BY <1>1, InitCli DEF ReopenInv

LEMMA ReopenStep == ReopenInv /\ [Next]_vars => ReopenInv'
<1> SUFFICES ASSUME ReopenInv, [Next]_vars, frontend = "cli" PROVE TailBegins'
  BY CliStep, FrontendFixed DEF ReopenInv
<1>0. "turn" \in Writers
  BY DEF Writers
<1>a. /\ TypeInv /\ Serial /\ Boot /\ TailBegins
      /\ phase \in {"down", "boot", "open"}
  BY DEF ReopenInv, CliInv, LogInv, TypeInv, TypeOK
<1>b. ASSUME tail' = <<>> PROVE TailBegins'
  BY <1>b DEF TailBegins
<1>c. ASSUME UNCHANGED <<records, tail>> PROVE TailBegins'
  BY <1>a, <1>c DEF TailBegins
<1>d. ASSUME NEW w \in Writers, tail' = <<Rec(w)>>, task[w].body = Created PROVE TailBegins'
  BY <1>d DEF TailBegins, Rec
<1>e. ASSUME records' # <<>> PROVE TailBegins'
  BY <1>e DEF TailBegins
<1>f. ASSUME tail' = <<Garbage>> PROVE TailBegins'
  BY <1>f DEF TailBegins
<1>1. CASE InitAppended
  BY <1>1, <1>b DEF InitAppended, WriteLine
<1>2. CASE InitFails
  <2>1. task["turn"].body = Created
    BY <1>2, <1>a DEF InitFails, Boot
  <2> QED
    BY <1>0, <1>2, <2>1, <1>b, <1>d, <1>f DEF InitFails, RejectLine, FailLine, WriteLine
<1>3. ASSUME NEW w \in Writers, Persist(w) PROVE TailBegins'
  <2>1. CASE AppendFails(w)
    <3>1. records # <<>>
      BY <2>1, <1>a DEF AppendFails, Serial, Boot, Writers, InitPCs
    <3> QED
      BY <2>1, <3>1, <1>b, <1>e DEF AppendFails, RejectLine, FailLine, WriteLine
  <2>2. CASE Appended(w) \/ Drop(w)
    BY <2>2, <1>b, <1>c DEF Appended, Drop, WriteLine
  <2>3. CASE Allocate(w) \/ Rollback(w) \/ MarkDurable(w) \/ CreateSnapshot(w)
    BY <2>3, <1>c DEF Allocate, Rollback, MarkDurable, CreateSnapshot, disk
  <2> QED
    BY <1>3, <2>1, <2>2, <2>3 DEF Persist
<1>4. CASE Crash
  <2>1. CASE UNCHANGED <<records, tail>>
    BY <2>1, <1>c
  <2>2. ASSUME NEW w \in Writers, task[w].pc \in {"append", "init_append"},
               WriteLine(Rec(w)) \/ (tail' \in {<<Garbage>>, <<Rec(w)>>} /\ UNCHANGED records)
        PROVE  TailBegins'
    <3>1. records # <<>> \/ task[w].body = Created
      BY <2>2, <1>a DEF Serial, Boot, Writers, InitPCs
    <3> QED
      BY <2>2, <3>1, <1>b, <1>d, <1>e, <1>f DEF WriteLine
  <2> QED
    BY <1>4, <2>1, <2>2 DEF Crash
<1>5. CASE \/ Launch \/ ReadNextSeq \/ LoadSnapshot \/ InitCreated
           \/ StartTurn \/ StoreMessage \/ PersistAudit \/ ExitPlan \/ EndTurn
           \/ SetMode \/ RestoreMode
  BY <1>5, <1>c DEF Launch, ReadNextSeq, LoadSnapshot, InitCreated, StartTurn, StoreMessage,
              PersistAudit, ExitPlan, EndTurn, SetMode, RestoreMode, disk
<1>6. CASE UNCHANGED vars
  BY <1>6, <1>c DEF vars, disk
<1> QED
  BY <1>1, <1>2, <1>3, <1>4, <1>5, <1>6 DEF Next

(* What the invariant is for: the replay finds a beginning, or no stream.   *)
LEMMA ReopenInvOpens == ReopenInv => AlwaysReopens
<1> SUFFICES ASSUME ReopenInv, frontend = "cli", ~NoStream, ~(snapshot.seq > 0)
             PROVE  ReplayOk
  BY DEF AlwaysReopens, CanOpen, ReplayOk
<1>1. TypeOK /\ Begins /\ TailBegins
  BY DEF ReopenInv, CliInv, LogInv, TypeInv
<1>2. Parsed # <<>>
  BY <1>1 DEF NoStream, TypeOK
<1>3. Parsed \in Seq(Record)
  BY <1>1, ParsedType
<1>4. 1 \in DOMAIN Parsed /\ Parsed[1].body = Created
  <2>1. CASE records # <<>>
    <3>1. records \in Seq(Record) /\ Parsed[1] = records[1]
      BY <1>1, <2>1 DEF TypeOK, Parsed
    <3> QED
      BY <1>1, <1>2, <1>3, <2>1, <3>1 DEF Begins
  <2>2. CASE records = <<>>
    <3>1. tail \notin {<<>>, <<Garbage>>} /\ Parsed = records \o tail
      BY <1>2, <2>2 DEF Parsed
    <3>2. PICK r \in Record : tail = <<r>>
      BY <1>1, <3>1 DEF TypeOK
    <3>3. Parsed = tail
      BY <2>2, <3>1, <3>2
    <3> QED
      BY <1>1, <2>2, <3>1, <3>2, <3>3 DEF TailBegins
  <2> QED
    BY <2>1, <2>2
<1> QED
  BY <1>4 DEF ReplayOk

(***************************************************************************)
(* No crash, failed append or drop locks the cli out of its session: when   *)
(* it starts again, replay succeeds or there is nothing to replay.          *)
(***************************************************************************)
THEOREM CliReopens == Spec => []AlwaysReopens
BY InitReopen, ReopenStep, ReopenInvOpens, PTL DEF Spec

--------------------------------------------------------------------------------
(***************************************************************************)
(* What a cli or tui session remembers.  A message enters the context      *)
(* before its event can enter the file, so while the process lives the     *)
(* context holds every message that the file holds or is about to hold; a  *)
(* snapshot is that context, and later lines have larger numbers.          *)
(***************************************************************************)
DownIsIdle == phase = "down" => \A w \in Writers : task[w] = Idle

InFile(m) == \E i \in DOMAIN records : records[i].body = Message(m)
Underway(m) == \E w \in Writers : task[w].body = Message(m)
Remembered ==
    phase # "down" => \A m \in Messages : InFile(m) \/ Underway(m) => ctx[m] > 0

MemoryInv ==
    /\ LogInv /\ DownIsIdle
    /\ frontend # "server" => Remembered
    /\ SnapshotCovers

LEMMA NotMessages ==
    \A m \in Messages :
        /\ Message(m) # NoBody /\ Message(m) # Created /\ Message(m) # Audit
        /\ \A to : Message(m) # ModeChanged(to)
        /\ \A n : Message(m) = Message(n) => m = n
BY DEF Message, NoBody, Created, Audit, ModeChanged

LEMMA InitMemory == Init => MemoryInv
<1> SUFFICES ASSUME Init PROVE MemoryInv
  OBVIOUS
<1>1. DownIsIdle /\ Remembered /\ SnapshotCovers
  BY DEF Init, DownIsIdle, Remembered, SnapshotCovers
<1> QED
  BY <1>1, InitLog DEF MemoryInv

(* A line of the file counts as a copy of its message.                      *)
LEMMA CopiesPositive ==
    ASSUME NEW rs \in Seq(Record), NEW m, NEW i \in DOMAIN rs, rs[i].body = Message(m)
    PROVE  Copies(rs, m) > 0
<1> DEFINE hits == {j \in DOMAIN rs : rs[j].body = Message(m)}
<1>1. DOMAIN rs = 1..Len(rs) /\ Len(rs) \in Nat
  OBVIOUS
<1>2. IsFiniteSet(hits)
  <2>1. IsFiniteSet(DOMAIN rs)
    BY <1>1, FS_Interval
  <2> QED
    BY <2>1, FS_Subset
<1>3. hits # {}
  OBVIOUS
<1>4. Cardinality(hits) \in Nat /\ Cardinality(hits) # 0
  BY <1>2, <1>3, FS_CardinalityType, FS_EmptySet
<1> QED
  BY <1>4 DEF Copies

(* Replay brings back every message of the file.                            *)
LEMMA ReplayRemembers ==
    ASSUME TypeOK, NEW m \in Messages, InFile(m), frontend # "server"
    PROVE  History[m] > 0
<1>1. PICK i \in DOMAIN records : records[i].body = Message(m)
  BY DEF InFile
<1>2. records \in Seq(Record) /\ Parsed \in Seq(Record)
  BY ParsedType DEF TypeOK
<1>3. i \in DOMAIN Parsed /\ Parsed[i] = records[i]
  <2>1. CASE tail \in {<<>>, <<Garbage>>}
    BY <1>1, <2>1 DEF Parsed
  <2>2. CASE tail \notin {<<>>, <<Garbage>>}
    <3>1. PICK r \in Record : tail = <<r>>
      BY <2>2 DEF TypeOK
    <3> QED
      BY <1>1, <1>2, <2>2, <3>1 DEF Parsed
  <2> QED
    BY <2>1, <2>2
<1>4. ~NoStream
  BY <1>2, <1>3 DEF NoStream
<1>5. Copies(Parsed, m) \in Nat /\ Copies(Parsed, m) > 0
  BY <1>1, <1>2, <1>3, CopiesPositive, CopiesNat
<1>6. snapshot.messages[m] \in Nat
  BY DEF TypeOK, Context
<1> QED
  BY <1>4, <1>5, <1>6 DEF History, Replayed

(* While the process lives, no message leaves its context.                  *)
LEMMA ContextGrows ==
    ASSUME TypeInv, DownIsIdle, [Next]_vars, ~Launch, phase' # "down"
    PROVE  /\ phase # "down"
           /\ \A m \in Messages : ctx[m] > 0 => ctx'[m] > 0
<1>0. "turn" \in Writers /\ "mode" \in Writers
  BY DEF Writers
<1>1. ctx \in Context
  BY DEF TypeInv, TypeOK
<1>2. CASE StoreMessage
  BY <1>0, <1>1, <1>2 DEF StoreMessage, Context, DownIsIdle, Idle, At
<1>3. CASE \/ ReadNextSeq \/ LoadSnapshot \/ InitAppended \/ InitCreated \/ InitFails
           \/ StartTurn \/ PersistAudit \/ ExitPlan \/ EndTurn \/ SetMode \/ RestoreMode
  BY <1>0, <1>3 DEF ReadNextSeq, LoadSnapshot, InitAppended, InitCreated, InitFails, StartTurn,
     PersistAudit, ExitPlan, EndTurn, SetMode, RestoreMode, DownIsIdle, Idle, At
<1>4. ASSUME NEW w \in Writers, Persist(w)
      PROVE  UNCHANGED <<phase, ctx>>
  BY <1>4 DEF Persist, Allocate, Appended, AppendFails, Rollback, MarkDurable,
              CreateSnapshot, Drop
<1>5. CASE UNCHANGED vars
  BY <1>5 DEF vars
<1>6. ~Crash
  BY DEF Crash
<1> QED
  BY <1>2, <1>3, <1>4, <1>5, <1>6 DEF Next

(* What is underway was underway before, or has just entered the context.   *)
LEMMA UnderwayStep ==
    ASSUME TypeInv, [Next]_vars, ~Launch, NEW m \in Messages, Underway(m)'
    PROVE  Underway(m) \/ ctx'[m] > 0
<1> USE NotMessages
<1>0. "turn" \in Writers /\ "mode" \in Writers
  BY DEF Writers
<1>1. ctx \in Context /\ task \in [Writers -> TaskType] /\ stored \in 0..MaxMsg
  BY DEF TypeInv, TypeOK, TasksOK
<1>2. /\ Idle.body = NoBody /\ Ready.body = NoBody /\ InitDone.body = NoBody
      /\ \A w \in Writers : AtRest(w).body = NoBody
      /\ \A pc, s, b : At(pc, s, b).body = b
  BY DEF Idle, Ready, InitDone, AtRest, At
<1>3. ASSUME NEW w \in Writers, NEW state, Goto(w, state),
             state.body = task[w].body \/ state.body # Message(m)
      PROVE  Underway(m)
  BY <1>1, <1>3 DEF Underway, Goto
<1>4. CASE StoreMessage
  <2>1. ctx'[stored + 1] > 0
    <3>1. stored + 1 \in Messages
      BY <1>1, <1>4, ConstantsAssumption DEF StoreMessage, Messages
    <3> QED
      BY <1>1, <1>4, <3>1 DEF StoreMessage, Context
  <2>2. CASE m = stored + 1
    BY <2>1, <2>2
  <2>3. CASE m # stored + 1
    BY <1>0, <1>2, <1>3, <1>4, <2>3 DEF StoreMessage
  <2> QED
    BY <2>2, <2>3
<1>5. CASE InitFails
  <2>1. CASE phase = "boot"
    BY <1>2, <1>5, <2>1 DEF InitFails, Underway
  <2>2. CASE phase # "boot"
    BY <1>0, <1>2, <1>3, <1>5, <2>2 DEF InitFails
  <2> QED
    BY <2>1, <2>2
<1>6. CASE InitAppended
  <2>1. [task["turn"] EXCEPT !.pc = "init_done"].body = task["turn"].body
    BY <1>0, <1>1 DEF TaskType
  <2> QED
    BY <1>0, <1>3, <1>6, <2>1 DEF InitAppended
<1>7. CASE ReadNextSeq \/ InitCreated \/ StartTurn \/ PersistAudit \/ EndTurn
  BY <1>0, <1>2, <1>3, <1>7 DEF ReadNextSeq, InitCreated, StartTurn, PersistAudit, EndTurn
<1>8. CASE LoadSnapshot
  <2>1. PICK state : Goto("turn", state) /\ state.body \in {NoBody, Created}
    BY <1>2, <1>8 DEF LoadSnapshot
  <2> QED
    BY <1>0, <1>3, <2>1
<1>9. CASE ExitPlan \/ SetMode
  BY <1>0, <1>2, <1>3, <1>9 DEF ExitPlan, SetMode
<1>10. CASE RestoreMode
  BY <1>0, <1>2, <1>3, <1>10 DEF RestoreMode
<1>11. ASSUME NEW w \in Writers, Persist(w) PROVE Underway(m)
  <2>1. \A pc : [task[w] EXCEPT !.pc = pc].body = task[w].body
    BY <1>1, <1>11 DEF TaskType
  <2>2. PICK state : Goto(w, state) /\ state.body \in {NoBody, task[w].body}
    <3>1. CASE Allocate(w)
      BY <1>2, <3>1 DEF Allocate
    <3>2. CASE Appended(w)
      BY <2>1, <3>2 DEF Appended
    <3>3. CASE AppendFails(w)
      <4>1. CASE task[w].body.kind = "mode"
        BY <1>2, <1>11, <3>3, <4>1 DEF AppendFails
      <4>2. CASE task[w].body.kind # "mode"
        BY <2>1, <3>3, <4>2 DEF AppendFails
      <4> QED
        BY <4>1, <4>2
    <3>4. CASE MarkDurable(w)
      <4>1. Goto(w, [task[w] EXCEPT !.pc = "snapshot"]) \/ Goto(w, AtRest(w))
        BY <3>4 DEF MarkDurable
      <4> QED
        BY <1>2, <1>11, <2>1, <4>1
    <3>5. CASE Rollback(w) \/ CreateSnapshot(w) \/ Drop(w)
      BY <1>2, <1>11, <3>5 DEF Rollback, CreateSnapshot, Drop
    <3> QED
      BY <1>11, <3>1, <3>2, <3>3, <3>4, <3>5 DEF Persist
  <2> QED
    BY <1>3, <1>11, <2>2
<1>12. CASE Crash
  BY <1>2, <1>12 DEF Crash, Underway
<1>13. CASE UNCHANGED vars
  BY <1>13 DEF vars, Underway
<1> QED
  BY <1>4, <1>5, <1>6, <1>7, <1>8, <1>9, <1>10, <1>11, <1>12, <1>13 DEF Next

(* A message that enters the file was underway.                             *)
LEMMA InFileStep ==
    ASSUME TypeInv, [Next]_vars, NEW m, InFile(m)'
    PROVE  InFile(m) \/ Underway(m)
<1>1. CASE UNCHANGED records
  BY <1>1 DEF InFile
<1>2. ASSUME NEW w \in Writers, WriteLine(Rec(w)), Rec(w) \in Record
      PROVE  InFile(m) \/ Underway(m)
  <2>1. records \in Seq(Record) /\ records' = Append(records, Rec(w)) /\ Rec(w).body = task[w].body
    BY <1>2 DEF TypeInv, TypeOK, WriteLine, Rec
  <2> QED
    BY <1>2, <2>1 DEF InFile, Underway
<1> QED
  BY <1>1, <1>2, RecordsStep

(* Only create_snapshot replaces the snapshot, with the context.            *)
LEMMA SnapshotStep ==
    ASSUME DownIsIdle, [Next]_vars
    PROVE  \/ UNCHANGED snapshot
           \/ snapshot'.messages = ctx /\ phase # "down" /\ UNCHANGED records
<1>1. ASSUME NEW w \in Writers, CreateSnapshot(w)
      PROVE  UNCHANGED snapshot \/ (snapshot'.messages = ctx /\ phase # "down" /\ UNCHANGED records)
  BY <1>1 DEF CreateSnapshot, DownIsIdle, Idle, At
<1>2. ASSUME NEW w \in Writers, Persist(w), ~CreateSnapshot(w) PROVE UNCHANGED snapshot
  BY <1>2 DEF Persist, Allocate, Appended, AppendFails, Rollback, MarkDurable, Drop, disk
<1>3. CASE ~\E w \in Writers : Persist(w)
  BY <1>3 DEF Next, vars, Launch, ReadNextSeq, LoadSnapshot, InitAppended, InitCreated,
     InitFails, StartTurn, StoreMessage, PersistAudit, ExitPlan, EndTurn, SetMode,
     RestoreMode, Crash, disk
<1> QED
  BY <1>1, <1>2, <1>3

LEMMA CoversStep ==
    ASSUME LogInv, DownIsIdle, frontend # "server" => Remembered, SnapshotCovers, [Next]_vars
    PROVE  SnapshotCovers'
<1> SUFFICES ASSUME frontend # "server", NEW i \in DOMAIN records', NEW m \in Messages,
                    records'[i].body = Message(m), records'[i].seq <= snapshot'.seq
             PROVE  snapshot'.messages[m] > 0
  BY FrontendFixed DEF SnapshotCovers
<1>1. CASE UNCHANGED snapshot
  <2>1. CASE i \in DOMAIN records /\ records'[i] = records[i]
    BY <1>1, <2>1 DEF SnapshotCovers
  <2>2. ASSUME NEW w \in Writers, WriteLine(Rec(w)), Rec(w) \in Record,
               ~(i \in DOMAIN records /\ records'[i] = records[i])
        PROVE  FALSE
    <3>1. records \in Seq(Record) /\ records' = Append(records, Rec(w))
      BY <2>2 DEF LogInv, TypeInv, TypeOK, WriteLine
    <3>2. records'[i] = Rec(w)
      BY <2>2, <3>1
    <3>3. \A j \in DOMAIN records : records[j].seq < Rec(w).seq
      BY <2>2, WriteLineKeepsOrder DEF LogInv, TypeInv
    <3>4. Rec(w).seq > TailSeq /\ TailSeq \in 0..MaxSeq /\ Rec(w).seq \in 0..MaxSeq
          /\ snapshot.seq \in 0..MaxSeq
      BY <2>2, TailSeqType DEF LogInv, TypeInv, TypeOK, WriteLine, Accepts, Record
    <3>5. snapshot.seq > 0
      BY <1>1, <3>2, <3>4, ConstantsAssumption
    <3>6. PICK j \in DOMAIN records : records[j].seq = snapshot.seq
      BY <3>5 DEF LogInv, DurableBacked, HasRecord
    <3> QED
      BY <1>1, <3>2, <3>3, <3>4, <3>6, ConstantsAssumption
  <2>3. CASE UNCHANGED records
    BY <2>1, <2>3
  <2> QED
    BY <2>1, <2>2, <2>3, RecordsStep DEF LogInv
<1>2. CASE snapshot'.messages = ctx /\ phase # "down" /\ UNCHANGED records
  BY <1>2 DEF Remembered, InFile
<1> QED
  BY <1>1, <1>2, SnapshotStep

LEMMA DownStep == LogInv /\ DownIsIdle /\ [Next]_vars => DownIsIdle'
<1> SUFFICES ASSUME LogInv, DownIsIdle, [Next]_vars, phase' = "down"
             PROVE  \A w \in Writers : task'[w] = Idle
  BY DEF DownIsIdle
<1>0. "turn" \in Writers /\ "mode" \in Writers
  BY DEF Writers
<1>1. phase \in {"down", "boot", "open"} /\ \A pc, s, b : At(pc, s, b).pc = pc
  BY DEF LogInv, TypeInv, TypeOK, At
<1>2. CASE InitFails \/ Crash \/ UNCHANGED vars
  BY <1>0, <1>1, <1>2 DEF InitFails, Crash, vars, DownIsIdle, Idle
<1>3. CASE \/ Launch \/ ReadNextSeq \/ LoadSnapshot \/ InitAppended \/ InitCreated
           \/ StartTurn \/ StoreMessage \/ PersistAudit \/ ExitPlan \/ EndTurn
           \/ SetMode \/ RestoreMode
  BY <1>0, <1>1, <1>3 DEF Launch, ReadNextSeq, LoadSnapshot, InitAppended, InitCreated,
     StartTurn, StoreMessage, PersistAudit, ExitPlan, EndTurn, SetMode, RestoreMode,
     DownIsIdle, Idle
<1>4. ASSUME NEW w \in Writers, Persist(w) PROVE FALSE
  BY <1>1, <1>4 DEF Persist, Allocate, Appended, AppendFails, Rollback, MarkDurable,
     CreateSnapshot, Drop, DownIsIdle, Idle
<1> QED
  BY <1>2, <1>3, <1>4 DEF Next

LEMMA RememberedStep ==
    ASSUME LogInv, DownIsIdle, Remembered, frontend # "server", [Next]_vars
    PROVE  Remembered'
<1> SUFFICES ASSUME phase' # "down", NEW m \in Messages, InFile(m)' \/ Underway(m)'
             PROVE  ctx'[m] > 0
  BY DEF Remembered
<1>1. CASE Launch
  <2>1. ~Underway(m)'
    BY <1>1, NotMessages DEF Launch, Underway, Writers, At, Idle
  <2>2. InFile(m)
    BY <1>1, <2>1 DEF Launch, InFile, disk
  <2> QED
    BY <1>1, <2>2, ReplayRemembers DEF Launch, LogInv, TypeInv
<1>2. CASE ~Launch
  BY <1>2, ContextGrows, UnderwayStep, InFileStep DEF LogInv, Remembered
<1> QED
  BY <1>1, <1>2

LEMMA MemoryStep == MemoryInv /\ [Next]_vars => MemoryInv'
BY LogStep, DownStep, RememberedStep, CoversStep, FrontendFixed DEF MemoryInv

(***************************************************************************)
(* An open cli or tui session has in its context every message whose event *)
(* was acknowledged, by this process or an earlier one, for every kind of  *)
(* append failure, drops and crashes.                                      *)
(***************************************************************************)
THEOREM SessionsRemember == Spec => []NothingForgotten
<1>1. MemoryInv => NothingForgotten
  BY DEF MemoryInv, Remembered, NothingForgotten, InFile
<1> QED
  BY InitMemory, MemoryStep, <1>1, PTL DEF Spec

(***************************************************************************)
(* A snapshot holds every message that the events up to its number append. *)
(***************************************************************************)
THEOREM SnapshotsCover == Spec => []SnapshotCovers
<1>1. MemoryInv => SnapshotCovers
  BY DEF MemoryInv
<1> QED
  BY InitMemory, MemoryStep, <1>1, PTL DEF Spec

(***************************************************************************)
(* Whatever memory or the snapshot claims to be durable has its line in    *)
(* the event file.                                                         *)
(***************************************************************************)
THEOREM DurableIsOnDisk == Spec => []DurableBacked
<1>1. LogInv => DurableBacked
  BY DEF LogInv
<1> QED
  BY InitLog, LogStep, <1>1, PTL DEF Spec

--------------------------------------------------------------------------------
(***************************************************************************)
(* durable_seq.  Outside the server init_event_stream runs only while the  *)
(* process starts, before anything was persisted, so nothing sets the      *)
(* counter back later.                                                     *)
(***************************************************************************)
StartsOnce ==
    frontend # "server" =>
        /\ task["turn"].pc \in InitPCs => phase = "boot"
        /\ phase = "boot" => /\ durable_seq = 0
                             /\ task["turn"].pc \in InitPCs
                             /\ task["mode"].pc \in {"idle", "restore"}

StartInv == TypeInv /\ StartsOnce

LEMMA InitStart == Init => StartInv
<1>1. Init => StartsOnce
  BY DEF Init, StartsOnce, InitPCs, Idle, At, Writers
<1> QED
  BY <1>1, InitType DEF StartInv

(* No write call runs while the process starts.                             *)
LEMMA StartIsAlone ==
    ASSUME StartInv, frontend # "server", NEW w \in Writers, Persist(w)
    PROVE  phase # "boot" /\ task[w].pc \notin InitPCs
BY DEF StartInv, StartsOnce, Persist, Allocate, Appended, AppendFails, Rollback, MarkDurable,
       CreateSnapshot, Drop, Writers, InitPCs

LEMMA StartStep == StartInv /\ [Next]_vars => StartInv'
<1> SUFFICES ASSUME StartInv, [Next]_vars, frontend # "server" PROVE StartsOnce'
  BY TypeStep, FrontendFixed DEF StartInv, StartsOnce
<1>0. "turn" \in Writers /\ "mode" \in Writers /\ Writers = {"turn", "mode"}
  BY DEF Writers
<1>a. TypeInv /\ StartsOnce /\ task \in [Writers -> TaskType] /\ frontend' = frontend
  BY FrontendFixed DEF StartInv, TypeInv, TasksOK
<1>b. /\ Idle.pc = "idle" /\ Ready.pc = "ready" /\ InitDone.pc \in {"idle", "ready"}
      /\ \A w \in Writers : AtRest(w).pc \in {"idle", "ready"}
      /\ \A pc, s, b : At(pc, s, b).pc = pc /\ At(pc, s, b).seq = s
  BY DEF Idle, Ready, InitDone, AtRest, At
<1>1. CASE Launch
  BY <1>0, <1>1, <1>b DEF Launch, StartsOnce, InitPCs
<1>2. CASE ReadNextSeq
  BY <1>0, <1>2, <1>a, <1>b DEF ReadNextSeq, StartsOnce, InitPCs, Goto, counters
<1>3. CASE LoadSnapshot
  <2>1. phase = "boot" /\ durable_seq = 0
    BY <1>3, <1>a DEF LoadSnapshot, StartsOnce, InitPCs
  <2>2. CASE task["turn"].seq = 1 /\ snapshot.seq = 0
    <3>1. durable_seq' = 0
      BY <1>3, <2>1, <2>2 DEF LoadSnapshot, DurableAtStart
    <3> QED
      BY <1>0, <1>3, <1>a, <1>b, <2>1, <2>2, <3>1 DEF LoadSnapshot, StartsOnce, InitPCs, Goto
  <2>3. CASE ~(task["turn"].seq = 1 /\ snapshot.seq = 0)
    BY <1>0, <1>3, <1>a, <1>b, <2>1, <2>3 DEF LoadSnapshot, StartsOnce, InitPCs, Goto
  <2> QED
    BY <2>2, <2>3
<1>4. CASE InitAppended
  <2>1. [task["turn"] EXCEPT !.pc = "init_done"].pc = "init_done"
    BY <1>0, <1>a DEF TaskType
  <2> QED
    BY <1>0, <1>4, <1>a, <2>1 DEF InitAppended, StartsOnce, InitPCs, Goto, counters
<1>5. CASE InitCreated
  BY <1>0, <1>5, <1>a, <1>b DEF InitCreated, StartsOnce, InitPCs, Goto
<1>6. CASE InitFails
  BY <1>0, <1>6, <1>a, <1>b DEF InitFails, StartsOnce, InitPCs
<1>7. CASE StartTurn \/ StoreMessage \/ PersistAudit \/ ExitPlan \/ EndTurn
  <2>1. PICK state : Goto("turn", state) /\ state.pc \in {"idle", "ready", "alloc"}
    BY <1>7, <1>b DEF StartTurn, StoreMessage, PersistAudit, ExitPlan, EndTurn
  <2>2. phase # "boot" /\ UNCHANGED phase
    BY <1>7, <1>a DEF StartTurn, StoreMessage, PersistAudit, ExitPlan, EndTurn,
       StartsOnce, InitPCs
  <2> QED
    BY <1>0, <1>a, <2>1, <2>2 DEF StartsOnce, InitPCs, Goto
<1>8. CASE SetMode \/ RestoreMode
  BY <1>0, <1>8, <1>a, <1>b DEF SetMode, RestoreMode, StartsOnce, InitPCs, Goto
<1>9. ASSUME NEW w \in Writers, Persist(w) PROVE StartsOnce'
  <2>1. phase # "boot" /\ UNCHANGED phase /\ task[w].pc \notin InitPCs
    BY <1>9, StartIsAlone DEF Persist, Allocate, Appended, AppendFails, Rollback,
       MarkDurable, CreateSnapshot, Drop
  <2>2. PICK state : Goto(w, state) /\ state.pc \notin InitPCs
    <3>1. /\ [task[w] EXCEPT !.pc = "durable"].pc = "durable"
          /\ [task[w] EXCEPT !.pc = "rollback"].pc = "rollback"
          /\ [task[w] EXCEPT !.pc = "snapshot"].pc = "snapshot"
      BY <1>9, <1>a DEF TaskType
    <3>2. CASE Allocate(w)
      BY <1>b, <3>2 DEF Allocate, InitPCs
    <3>3. CASE Appended(w)
      BY <3>1, <3>3 DEF Appended, InitPCs
    <3>4. CASE AppendFails(w)
      <4>1. Goto(w, AtRest(w)) \/ Goto(w, [task[w] EXCEPT !.pc = "rollback"])
        BY <3>4 DEF AppendFails
      <4> QED
        BY <1>b, <1>9, <3>1, <4>1 DEF InitPCs
    <3>5. CASE MarkDurable(w)
      <4>1. Goto(w, AtRest(w)) \/ Goto(w, [task[w] EXCEPT !.pc = "snapshot"])
        BY <3>5 DEF MarkDurable
      <4> QED
        BY <1>b, <1>9, <3>1, <4>1 DEF InitPCs
    <3>6. CASE Rollback(w) \/ CreateSnapshot(w) \/ Drop(w)
      BY <1>b, <1>9, <3>6 DEF Rollback, CreateSnapshot, Drop, InitPCs
    <3> QED
      BY <1>9, <3>2, <3>3, <3>4, <3>5, <3>6 DEF Persist
  <2> QED
    BY <1>0, <1>9, <1>a, <2>1, <2>2 DEF StartsOnce, Goto
<1>10. CASE Crash
  BY <1>0, <1>10, <1>b DEF Crash, StartsOnce, InitPCs
<1>11. CASE UNCHANGED vars
  BY <1>11, <1>a DEF vars, counters, StartsOnce
<1> QED
  BY <1>1, <1>2, <1>3, <1>4, <1>5, <1>6, <1>7, <1>8, <1>9, <1>10, <1>11 DEF Next

(***************************************************************************)
(* While a cli or tui process lives, durable_seq never goes back.          *)
(***************************************************************************)
THEOREM DurableGrows == Spec => DurableMonotone
<1> DEFINE Grows == frontend # "server" /\ phase # "down" /\ phase' # "down"
                       => durable_seq' >= durable_seq
<1>1. StartInv /\ [Next]_vars => [Grows]_vars
  <2> SUFFICES ASSUME StartInv, Next, frontend # "server", phase # "down", phase' # "down"
               PROVE  durable_seq' >= durable_seq
    OBVIOUS
  <2>0. durable_seq \in 0..MaxSeq /\ durable_seq' \in 0..MaxSeq
        /\ task' \in [Writers -> TaskType]
    <3>1. StartInv'
      BY StartStep
    <3> QED
      BY <3>1 DEF StartInv, TypeInv, TypeOK, TasksOK
  <2>1. CASE LoadSnapshot \/ InitCreated
    <3>1. durable_seq = 0
      BY <2>1 DEF LoadSnapshot, InitCreated, StartInv, StartsOnce, InitPCs
    <3> QED
      BY <2>0, <3>1, ConstantsAssumption
  <2>2. CASE \E w \in Writers : MarkDurable(w)
    BY <2>0, <2>2, ConstantsAssumption DEF MarkDurable, StartInv, TypeInv, TypeOK
  <2>3. CASE UNCHANGED durable_seq
    BY <2>0, <2>3, ConstantsAssumption
  <2>4. ~Launch /\ ~Crash
    BY DEF Launch, Crash
  <2> QED
    BY <2>1, <2>2, <2>3, <2>4 DEF Next, ReadNextSeq, InitAppended, InitFails, StartTurn,
       StoreMessage, PersistAudit, ExitPlan, EndTurn, SetMode, RestoreMode, counters,
       Persist, Allocate, Appended, AppendFails, Rollback, CreateSnapshot, Drop
<1> QED
  BY InitStart, StartStep, <1>1, PTL DEF Spec, DurableMonotone
================================================================================
