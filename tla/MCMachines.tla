------------------------------- MODULE MCMachines -------------------------------
(***************************************************************************)
(* Machines of this system that share no state: the table of sessions of   *)
(* the server with its prompts, the event stream of its clients, the files *)
(* of the message log, a round of tool calls, the context of a session, an *)
(* answer of the model on its way, the pool of MCP connections, the        *)
(* background shells, the journal of file changes, and a server on         *)
(* standard input and output.  A behaviour is one of theirs, chosen at the *)
(* start; to interleave them would only multiply the states.               *)
(***************************************************************************)
EXTENDS Sessions, Sse, Store, ToolCalls, Compaction, Streams, Mcp, Shells,
        Journal, Stdio

VARIABLE machine

MCInit ==
    /\ machine \in {"sessions", "sse", "store", "tools", "context", "streams", "mcp", "shells",
                    "journal", "stdio"}
    /\ SessInit /\ SseInit /\ StoreInit /\ ToolInit /\ CmpInit /\ StrmInit /\ McpInit /\ ShellInit
    /\ JournalInit /\ StdioInit
    /\ machine = "tools" \/ plan.mode = "default"
    /\ machine = "streams" \/ provider = "openai"
    /\ machine = "mcp" \/ \A s \in Servers : connections[s].up = "live"
    /\ \A f \in Files : files[f] = Absent
    /\ machine = "stdio" \/ protocol = "lsp"

rest3 == <<journalVars, stdioVars>>
rest1 == <<sessVars, sseVars, storeVars, toolVars>>
rest2 == <<cmpVars, strmVars, mcpVars, shellVars, rest3>>

MCNext ==
    /\ UNCHANGED machine
    /\ \/ machine = "sessions" /\ UNCHANGED <<sseVars, storeVars, toolVars, rest2>> /\ SessNext
       \/ machine = "sse" /\ UNCHANGED <<sessVars, storeVars, toolVars, rest2>> /\ SseNext
       \/ machine = "store" /\ UNCHANGED <<sessVars, sseVars, toolVars, rest2>> /\ StoreNext
       \/ machine = "tools" /\ UNCHANGED <<sessVars, sseVars, storeVars, rest2>> /\ ToolNext
       \/ machine = "context" /\ UNCHANGED <<rest1, strmVars, mcpVars, shellVars, rest3>> /\ CmpNext
       \/ machine = "streams" /\ UNCHANGED <<rest1, cmpVars, mcpVars, shellVars, rest3>> /\ StrmNext
       \/ machine = "mcp" /\ UNCHANGED <<rest1, cmpVars, strmVars, shellVars, rest3>> /\ McpNext
       \/ machine = "shells" /\ UNCHANGED <<rest1, cmpVars, strmVars, mcpVars, rest3>> /\ ShellNext
       \/ machine = "journal" /\ UNCHANGED <<rest1, cmpVars, strmVars, mcpVars, shellVars, stdioVars>>
          /\ JournalNext
       \/ machine = "stdio" /\ UNCHANGED <<rest1, cmpVars, strmVars, mcpVars, shellVars, journalVars>>
          /\ StdioNext

MCSpec == MCInit /\ [][MCNext]_<<machine, rest1, rest2>>

(* The variables of the machine that moves have their types; the others rest. *)
MachinesTypeOK ==
    CASE machine = "sessions" -> SessTypeOK [] machine = "sse" -> SseTypeOK
      [] machine = "store" -> StoreTypeOK   [] machine = "tools" -> ToolTypeOK
      [] machine = "context" -> CmpTypeOK   [] machine = "streams" -> StrmTypeOK
      [] machine = "mcp" -> McpTypeOK       [] machine = "shells" -> ShellTypeOK
      [] machine = "journal" -> JournalTypeOK [] machine = "stdio" -> StdioTypeOK
================================================================================
