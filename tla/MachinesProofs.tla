----------------------------- MODULE MachinesProofs -----------------------------
(***************************************************************************)
(* Theorems about MCMachines: a behaviour of all the machines is one of    *)
(* each of them, so what is proved of each holds of the whole that the run *)
(* `machines` checks, and each keeps its types whichever of them moves.    *)
(***************************************************************************)
EXTENDS MCMachines, SessionsProofs, DeliveryProofs, ToolsProofs, RequestProofs

all == <<machine, rest1, rest2>>

(* A step of the whole is a step of one machine, and leaves the others as they are. *)
Rests1 == UNCHANGED sessVars /\ UNCHANGED sseVars /\ UNCHANGED storeVars /\ UNCHANGED toolVars
Rests2 == UNCHANGED cmpVars /\ UNCHANGED strmVars /\ UNCHANGED mcpVars /\ UNCHANGED shellVars
          /\ UNCHANGED journalVars /\ UNCHANGED stdioVars

LEMMA OneMoves ==
    ASSUME [MCNext]_all
    PROVE  /\ [SessNext]_sessVars /\ [SseNext]_sseVars /\ [StoreNext]_storeVars
           /\ [ToolNext]_toolVars /\ [CmpNext]_cmpVars /\ [StrmNext]_strmVars
           /\ [McpNext]_mcpVars /\ [ShellNext]_shellVars /\ [JournalNext]_journalVars
           /\ [StdioNext]_stdioVars
<1>1. UNCHANGED rest1 => Rests1
  BY DEF rest1, Rests1
<1>2. UNCHANGED rest3 => UNCHANGED journalVars /\ UNCHANGED stdioVars
  BY DEF rest3
<1>3. UNCHANGED rest2 => Rests2
  BY <1>2 DEF rest2, Rests2
<1>4. CASE UNCHANGED all
  <2>1. UNCHANGED rest1 /\ UNCHANGED rest2
    BY <1>4 DEF all
  <2> QED
    BY <1>1, <1>3, <2>1 DEF Rests1, Rests2
<1>5. CASE MCNext
  <2>1. CASE UNCHANGED <<sseVars, storeVars, toolVars, rest2>> /\ SessNext
    BY <1>3, <2>1 DEF Rests2
  <2>2. CASE UNCHANGED <<sessVars, storeVars, toolVars, rest2>> /\ SseNext
    BY <1>3, <2>2 DEF Rests2
  <2>3. CASE UNCHANGED <<sessVars, sseVars, toolVars, rest2>> /\ StoreNext
    BY <1>3, <2>3 DEF Rests2
  <2>4. CASE UNCHANGED <<sessVars, sseVars, storeVars, rest2>> /\ ToolNext
    BY <1>3, <2>4 DEF Rests2
  <2>5. CASE UNCHANGED <<rest1, strmVars, mcpVars, shellVars, rest3>> /\ CmpNext
    BY <1>1, <1>2, <2>5 DEF Rests1
  <2>6. CASE UNCHANGED <<rest1, cmpVars, mcpVars, shellVars, rest3>> /\ StrmNext
    BY <1>1, <1>2, <2>6 DEF Rests1
  <2>7. CASE UNCHANGED <<rest1, cmpVars, strmVars, shellVars, rest3>> /\ McpNext
    BY <1>1, <1>2, <2>7 DEF Rests1
  <2>8. CASE UNCHANGED <<rest1, cmpVars, strmVars, mcpVars, rest3>> /\ ShellNext
    BY <1>1, <1>2, <2>8 DEF Rests1
  <2>9. CASE UNCHANGED <<rest1, cmpVars, strmVars, mcpVars, shellVars, stdioVars>> /\ JournalNext
    BY <1>1, <2>9 DEF Rests1
  <2>10. CASE UNCHANGED <<rest1, cmpVars, strmVars, mcpVars, shellVars, journalVars>> /\ StdioNext
    BY <1>1, <2>10 DEF Rests1
  <2> QED
    BY <1>5, <2>1, <2>2, <2>3, <2>4, <2>5, <2>6, <2>7, <2>8, <2>9, <2>10 DEF MCNext
<1> QED
  BY <1>4, <1>5

(* The machines share no state: a behaviour of the whole is a behaviour of each, in which *)
(* a machine that was not chosen rests.                                                    *)
THEOREM EachMoves ==
    MCSpec => /\ SessSpec /\ SseSpec /\ StoreSpec /\ ToolSpec /\ CmpSpec
              /\ StrmSpec /\ McpSpec /\ ShellSpec /\ JournalSpec /\ StdioSpec
<1>1. MCInit => /\ SessInit /\ SseInit /\ StoreInit /\ ToolInit /\ CmpInit
                /\ StrmInit /\ McpInit /\ ShellInit /\ JournalInit /\ StdioInit
  BY DEF MCInit
<1>2. [MCNext]_<<machine, rest1, rest2>> =>
         /\ [SessNext]_sessVars /\ [SseNext]_sseVars /\ [StoreNext]_storeVars
         /\ [ToolNext]_toolVars /\ [CmpNext]_cmpVars /\ [StrmNext]_strmVars
         /\ [McpNext]_mcpVars /\ [ShellNext]_shellVars /\ [JournalNext]_journalVars
         /\ [StdioNext]_stdioVars
  BY OneMoves DEF all
<1> QED
  BY <1>1, <1>2, PTL DEF MCSpec, SessSpec, SseSpec, StoreSpec, ToolSpec, CmpSpec, StrmSpec,
     McpSpec, ShellSpec, JournalSpec, StdioSpec

(* Each machine keeps its types, and the one that was chosen stays chosen. *)
Chosen == machine \in {"sessions", "sse", "store", "tools", "context", "streams", "mcp",
                       "shells", "journal", "stdio"}

THEOREM MachinesTyped == MCSpec => []MachinesTypeOK
<1>1. MCInit => Chosen
  BY DEF MCInit, Chosen
<1>2. Chosen /\ [MCNext]_<<machine, rest1, rest2>> => Chosen'
  BY DEF MCNext, Chosen
<1>3. Chosen /\ SessTypeOK /\ SseTypeOK /\ StoreTypeOK /\ ToolTypeOK /\ CmpTypeOK /\ StrmTypeOK
      /\ McpTypeOK /\ ShellTypeOK /\ JournalTypeOK /\ StdioTypeOK => MachinesTypeOK
  BY DEF Chosen, MachinesTypeOK
<1> QED
  BY <1>1, <1>2, <1>3, EachMoves, SessionsTyped, SseTyped, StoreTyped, ToolsTyped, ContextTyped,
     StreamsTyped, McpTyped, ShellsTyped, JournalTyped, StdioTyped, PTL DEF MCSpec

(* Every property that the run checks of the machines together, for all values of the     *)
(* constants; the fit of a request needs room under the threshold (see RequestsFit).       *)
SessionsHold == OneOpenLoad /\ WaitingIsListed /\ AnswerHolds
DeliveryHolds == SentIsReplayable /\ NothingMissed /\ NothingTwice /\ TurnIsTold
StoreHolds == LockHeldOnce /\ IndexAgrees /\ AckedKept
ToolsHold ==
    /\ HardDenyHolds /\ RestrictedAsked /\ WavesKeepOrder /\ HardTripEnds
    /\ OneRequestPerKey /\ RequestKeepsConnection /\ KillReaches /\ UndoIsExact
RequestsHold == GroupsWhole /\ RequestFits /\ ReplyIsWhatWasSaid /\ ShownOnce

THEOREM MachinesHold ==
    ASSUME OverheadFits
    PROVE  MCSpec => /\ [](SessionsHold /\ DeliveryHolds /\ StoreHolds /\ ToolsHold /\ RequestsHold)
                     /\ ActsAsQueue
<1>1. SessSpec => []SessionsHold /\ ActsAsQueue
  BY OnlyOneOpens, WaitersAreListed, AnswersHold, SessionsActAsQueue, PTL DEF SessionsHold
<1>2. SseSpec /\ StdioSpec => []DeliveryHolds
  BY SentCanBeReplayed, ClientsMissNothing, ClientsSeeNothingTwice, TurnsAreTold, PTL
     DEF DeliveryHolds
<1>3. StoreSpec => []StoreHolds
  BY LocksExclude, IndexCounts, AckedStay, PTL DEF StoreHolds
<1>4. ToolSpec /\ McpSpec /\ ShellSpec /\ JournalSpec => []ToolsHold
  BY DeniedNeverRuns, DocumentsAreAsked, CallsKeepOrder, BreakerEndsTurns, EqualCallsShare,
     ConnectionsKept, KillAlwaysReaches, UndoExact, PTL DEF ToolsHold
<1>5. CmpSpec /\ StrmSpec => []RequestsHold
  BY GroupsStayWhole, RequestsFit, RepliesAreWhatWasSaid, TextsShownOnce, PTL DEF RequestsHold
<1> QED
  BY <1>1, <1>2, <1>3, <1>4, <1>5, EachMoves, PTL
================================================================================
