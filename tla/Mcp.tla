---------------------------------- MODULE Mcp ----------------------------------
(***************************************************************************)
(* The pool of MCP connections (minicoding-mcp, client/rmcp.rs) with the   *)
(* supervisor that mcp_setup.rs starts beside it.  Equal calls share one   *)
(* request: it is a Shared future, listed in inflight until the call that  *)
(* made it has its result.  A future moves only while a call waits for it; *)
(* the cancel of a turn drops the call, and the future that is still       *)
(* listed stops where it stands, with the read guard it holds.             *)
(*                                                                         *)
(* connections is a tokio RwLock, first come first served.  A write        *)
(* section awaits nothing, so it is one step; so is a section of inflight. *)
(***************************************************************************)
EXTENDS Integers, FiniteSets, Sequences, SequencesExt

CONSTANTS
    Callers,            \* tasks that execute an MCP tool
    ServerCount,        \* the enabled servers, in the order of the configuration
    ToolInputs,         \* tool and input of a call, for what the key tells apart
    MaxDispatches,      \* bound: dispatch futures made
    MaxDeaths,          \* bound: connections that close
    MaxTicks            \* bound: ticks of the supervisor

ASSUME McpAssumption ==
    /\ ServerCount \in Nat \ {0} /\ ToolInputs # {}
    /\ {MaxDispatches, MaxDeaths, MaxTicks} \subseteq Nat

Servers == 1..ServerCount
RequestKey == Servers \X ToolInputs

VARIABLES
    connections,    \* by server: its connection, and how many it has had
    readers,        \* who holds the read guard of connections
    waiters,        \* who waits for connections, in turn
    inflight,       \* by key: the future that is listed, 0 for none
    dispatches,     \* the dispatch futures made
    callers,        \* where each call stands
    supervisor,     \* the task of mcp_setup.rs
    deaths, ticks   \* what the bounds count

mcpVars == <<connections, readers, waiters, inflight, dispatches, callers, supervisor, deaths, ticks>>

Call == [at |-> "idle", key |-> CHOOSE k \in RequestKey : TRUE, on |-> 0, made |-> FALSE]
NewDispatch(key) == [key |-> key, at |-> "made", over |-> 0]
Health == 0             \* who holds or awaits connections: a future, health_check,
Restart == -1           \* or the restart

(* start has run: a server that is not required may have failed to come up. *)
McpInit ==
    /\ connections \in [Servers -> {[up |-> "live", number |-> 1], [up |-> "none", number |-> 0]}]
    /\ readers = {} /\ waiters = <<>>
    /\ inflight = [k \in RequestKey |-> 0] /\ dispatches = <<>>
    /\ callers = [c \in Callers |-> Call]
    /\ supervisor = [at |-> "resting", next |-> 1]
    /\ deaths = 0 /\ ticks = 0

--------------------------------------------------------------------------------
(***************************************************************************)
(* The fair lock: leading readers are let in when no writer is before them *)
(* and nobody is let in before the first of the queue.                     *)
(***************************************************************************)
LeadingReaders(queue) ==
    LET writers == {n \in DOMAIN queue : queue[n] = Restart}
    IN IF writers = {} THEN Len(queue) ELSE (CHOOSE n \in writers : \A m \in writers : n <= m) - 1
LetIn(holding, queue) ==
    LET n == LeadingReaders(queue)
    IN /\ readers' = holding \union ToSet(SubSeq(queue, 1, n))
       /\ waiters' = SubSeq(queue, n + 1, Len(queue))
AsksToRead(who) == LetIn(readers, Append(waiters, who))
Release(who) == LetIn(readers \ {who}, waiters)

--------------------------------------------------------------------------------
(***************************************************************************)
(* call: look in inflight, else make a future and look again with the      *)
(* write lock.                                                             *)
(***************************************************************************)
Joins(c, key) ==
    callers' = [callers EXCEPT ![c] = [at |-> "waiting", key |-> key, on |-> inflight[key], made |-> FALSE]]

LooksInFlight(c, key) ==
    /\ callers[c].at = "idle"
    /\ IF inflight[key] # 0 THEN Joins(c, key)
       ELSE callers' = [callers EXCEPT ![c].at = "dispatching", ![c].key = key]
    /\ UNCHANGED <<connections, readers, waiters, inflight, dispatches, supervisor, deaths, ticks>>

ListsBlind(c) ==               \* defect: no second look
    /\ callers[c].at = "dispatching" /\ Len(dispatches) < MaxDispatches
    /\ dispatches' = Append(dispatches, NewDispatch(callers[c].key))
    /\ inflight' = [inflight EXCEPT ![callers[c].key] = Len(dispatches')]
    /\ callers' = [callers EXCEPT ![c].at = "waiting", ![c].on = Len(dispatches'), ![c].made = TRUE]
    /\ UNCHANGED <<connections, readers, waiters, supervisor, deaths, ticks>>
Lists(c) ==
    LET key == callers[c].key
    IN /\ callers[c].at = "dispatching"
       /\ IF inflight[key] # 0
          THEN Joins(c, key) /\ UNCHANGED <<inflight, dispatches>>
          ELSE /\ Len(dispatches) < MaxDispatches
               /\ dispatches' = Append(dispatches, NewDispatch(key))
               /\ inflight' = [inflight EXCEPT ![key] = Len(dispatches')]
               /\ callers' = [callers EXCEPT ![c].at = "waiting", ![c].on = Len(dispatches'),
                                             ![c].made = TRUE]
       /\ UNCHANGED <<connections, readers, waiters, supervisor, deaths, ticks>>

(* Who made the future takes it off the list, after the result is there. *)
Returns(c) ==
    /\ callers[c].at = "waiting" /\ dispatches[callers[c].on].at = "done"
    /\ callers' = [callers EXCEPT ![c] = IF @.made THEN [@ EXCEPT !.at = "returning"] ELSE Call]
    /\ UNCHANGED <<connections, readers, waiters, inflight, dispatches, supervisor, deaths, ticks>>
Removes(c) ==
    /\ callers[c].at = "returning"
    /\ inflight' = [inflight EXCEPT ![callers[c].key] = 0]
    /\ callers' = [callers EXCEPT ![c] = Call]
    /\ UNCHANGED <<connections, readers, waiters, dispatches, supervisor, deaths, ticks>>

(* The turn is cancelled, and its call is dropped where it awaits. *)
CallCancelled(c) ==
    /\ callers[c].at # "idle"
    /\ callers' = [callers EXCEPT ![c] = Call]
    /\ UNCHANGED <<connections, readers, waiters, inflight, dispatches, supervisor, deaths, ticks>>

--------------------------------------------------------------------------------
(***************************************************************************)
(* The dispatch future.                                                    *)
(***************************************************************************)
Polled(f) == \E c \in Callers : callers[c].at = "waiting" /\ callers[c].on = f
Conn(f) == connections[dispatches[f].key[1]]

AsksForConnections(f) ==
    /\ Polled(f) /\ dispatches[f].at = "made"
    /\ dispatches' = [dispatches EXCEPT ![f].at = "queued"]
    /\ AsksToRead(f)
    /\ UNCHANGED <<connections, inflight, callers, supervisor, deaths, ticks>>

Done(f) == dispatches' = [dispatches EXCEPT ![f].at = "done", ![f].over = 0]

(* No connection, a tool it has not listed or input that is no object end it at once. *)
NotSent(f) ==
    /\ Polled(f) /\ dispatches[f].at = "queued" /\ f \in readers
    /\ Done(f) /\ Release(f)
    /\ UNCHANGED <<connections, inflight, callers, supervisor, deaths, ticks>>
SendReleasing(f) ==             \* defect: the guard is dropped before the request
    /\ Polled(f) /\ dispatches[f].at = "queued" /\ f \in readers /\ Conn(f).up # "none"
    /\ dispatches' = [dispatches EXCEPT ![f].at = "sent", ![f].over = Conn(f).number]
    /\ Release(f)
    /\ UNCHANGED <<connections, inflight, callers, supervisor, deaths, ticks>>
Send(f) ==
    /\ Polled(f) /\ dispatches[f].at = "queued" /\ f \in readers /\ Conn(f).up # "none"
    /\ dispatches' = [dispatches EXCEPT ![f].at = "sent", ![f].over = Conn(f).number]
    /\ UNCHANGED <<connections, readers, waiters, inflight, callers, supervisor, deaths, ticks>>

(* The answer, or tool_timeout, or the connection has closed. *)
Resolves(f) ==
    /\ Polled(f) /\ dispatches[f].at = "sent"
    /\ Done(f) /\ Release(f)
    /\ UNCHANGED <<connections, inflight, callers, supervisor, deaths, ticks>>

ServerDies(s) ==
    /\ connections[s].up = "live" /\ deaths < MaxDeaths
    /\ connections' = [connections EXCEPT ![s].up = "closed"] /\ deaths' = deaths + 1
    /\ UNCHANGED <<readers, waiters, inflight, dispatches, callers, supervisor, ticks>>

--------------------------------------------------------------------------------
(***************************************************************************)
(* The supervisor: every tick health_check, and when a connection is       *)
(* closed restart, which starts all the servers one after the other.       *)
(***************************************************************************)
Tick ==
    /\ supervisor.at = "resting" /\ ticks < MaxTicks
    /\ supervisor' = [supervisor EXCEPT !.at = "checking"] /\ ticks' = ticks + 1
    /\ AsksToRead(Health)
    /\ UNCHANGED <<connections, inflight, dispatches, callers, deaths>>

HealthCheck ==
    /\ supervisor.at = "checking" /\ Health \in readers
    /\ supervisor' = [at |-> IF \E s \in Servers : connections[s].up = "closed" THEN "starting" ELSE "resting",
                      next |-> 1]
    /\ Release(Health)
    /\ UNCHANGED <<connections, inflight, dispatches, callers, deaths, ticks>>

StartsNext == [at |-> IF supervisor.next = ServerCount THEN "resting" ELSE "starting",
               next |-> IF supervisor.next = ServerCount THEN 1 ELSE supervisor.next + 1]

(* A server that does not come up leaves what was there. *)
StartFails ==
    /\ supervisor.at = "starting"
    /\ supervisor' = StartsNext
    /\ UNCHANGED <<connections, readers, waiters, inflight, dispatches, callers, deaths, ticks>>
Started ==
    /\ supervisor.at = "starting"
    /\ supervisor' = [supervisor EXCEPT !.at = "replacing"]
    /\ AsksToRead(Restart)
    /\ UNCHANGED <<connections, inflight, dispatches, callers, deaths, ticks>>
ReplacesConnection ==
    /\ supervisor.at = "replacing" /\ readers = {} /\ Head(waiters) = Restart
    /\ connections' = [connections EXCEPT ![supervisor.next] = [up |-> "live", number |-> @.number + 1]]
    /\ supervisor' = StartsNext
    /\ LetIn({}, Tail(waiters))
    /\ UNCHANGED <<inflight, dispatches, callers, deaths, ticks>>

McpNext ==
    \/ \E c \in Callers :
          \/ \E key \in RequestKey : LooksInFlight(c, key)
          \/ Lists(c) \/ Returns(c) \/ Removes(c) \/ CallCancelled(c)
    \/ \E f \in DOMAIN dispatches :
          AsksForConnections(f) \/ NotSent(f) \/ Send(f) \/ Resolves(f)
    \/ \E s \in Servers : ServerDies(s)
    \/ Tick \/ HealthCheck \/ StartFails \/ Started \/ ReplacesConnection

McpSpec == McpInit /\ [][McpNext]_mcpVars

--------------------------------------------------------------------------------
McpTypeOK ==
    /\ connections \in [Servers -> [up : {"none", "live", "closed"}, number : Nat]]
    /\ inflight \in [RequestKey -> 0..Len(dispatches)]
    /\ Len(dispatches) <= MaxDispatches
    /\ readers \subseteq (DOMAIN dispatches \union {Health})
    /\ ToSet(waiters) \subseteq (DOMAIN dispatches \union {Health, Restart})
    /\ \A c \in Callers : callers[c].at \in {"idle", "dispatching", "waiting", "returning"}
    /\ supervisor.at \in {"resting", "checking", "starting", "replacing"}

(* Equal calls share a request: two of them are never under way at once, however *)
(* the calls race to the list and whichever of them are cancelled.               *)
OneRequestPerKey ==
    \A f, g \in DOMAIN dispatches :
        f # g /\ dispatches[f].key = dispatches[g].key
          => dispatches[f].at = "done" \/ dispatches[g].at = "done"

(* A restart never takes the connection from under a request: while a request is *)
(* under way, the connection it went out on is the one in the pool.              *)
RequestKeepsConnection ==
    \A f \in DOMAIN dispatches :
        dispatches[f].at = "sent" => Conn(f).number = dispatches[f].over

(* rmcp.rs:606 says of the list that an entry is taken off so that it does not   *)
(* grow, and an equal call later is sent anew: an entry has a call to remove it. *)
EntryHasItsCall ==
    \A key \in RequestKey : inflight[key] # 0 =>
        \E c \in Callers : callers[c].made /\ callers[c].on = inflight[key]
================================================================================
