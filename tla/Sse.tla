---------------------------------- MODULE Sse ----------------------------------
(***************************************************************************)
(* The event stream of the server's clients: the sequencer task that gives *)
(* every event of a session its cursor number (session_mgr.rs), the ring   *)
(* buffer it keeps them in (protocol, cursor.rs), and the SSE connections  *)
(* that replay from the buffer or from the EventStore and then follow the  *)
(* live channel (sse.rs).                                                  *)
(*                                                                         *)
(* Two number spaces meet here.  The EventStore numbers the persisted      *)
(* events; the cursor numbers everything that is broadcast, the transient  *)
(* events (Token and the like) too, from a value seeded with the store's.  *)
(* A session can be dropped from the table and restored: each load is a    *)
(* new ServerSession with a new cursor, and a connection stays with the    *)
(* one it was made on.                                                     *)
(*                                                                         *)
(* An event is the position at which it was emitted; event 0 is            *)
(* SessionCreated, which is persisted and never broadcast.                 *)
(***************************************************************************)
EXTENDS Integers, FiniteSets, Sequences, SequencesExt

CONSTANTS
    Clients,        \* browsers with an EventSource on the session
    Capacity,       \* EventCursor.capacity
    BusCapacity,    \* capacity of the Runtime's EventBus
    LiveCapacity,   \* capacity of sequenced_tx
    SnapshotEvery,  \* records between two snapshots
    Transient,      \* the events that are not persisted (Token and the like)
    MaxEvents,      \* bound: events
    MaxLoads,       \* bound: times the session is created or restored
    MaxConnects     \* bound: connections of one client

ASSUME SseAssumption ==
    /\ IsFiniteSet(Clients)
    /\ {Capacity, BusCapacity, LiveCapacity, SnapshotEvery} \subseteq Nat \ {0}
    /\ Transient \subseteq Nat /\ {MaxEvents, MaxConnects} \subseteq Nat
    /\ MaxLoads \in Nat \ {0}

VARIABLES
    emitted,     \* number of events so far
    disk,        \* the EventStore: its n-th record is the one numbered n
    loads,       \* number of ServerSessions so far
    loaded,      \* the one in the table, 0 when there is none
    durable_seq, \* Runtime::durable_seq of each
    cursor,      \* its EventCursor
    bus,         \* events its sequencer has not received yet
    sequencer,   \* its sequencer task
    sent,        \* what it has sent on sequenced_tx
    client,      \* each client's connection and Last-Event-ID
    view         \* history: what each client has been given and told

serving == <<loads, loaded, durable_seq, cursor, bus, sequencer, sent>>
sseVars == <<emitted, disk, serving, client, view>>

Loads == 1..MaxLoads
NoId == -1                       \* no Last-Event-ID: the client has received none

NewCursor == [buffer |-> <<>>, next |-> 1, durable |-> 0]
Resting == [pc |-> "recv", ev |-> 0, seq |-> 0]
Offline == [pc |-> "off", on |-> 0, last |-> NoId, from |-> 0, floor |-> 0, at |-> 0,
            todo |-> <<>>, connects |-> 0]
NewView == [seen |-> {}, twice |-> FALSE, since |-> 0, told |-> FALSE, scars |-> {}]

(***************************************************************************)
(* EventCursor.                                                            *)
(***************************************************************************)
PushUnbounded(buffer, item) == Append(buffer, item)       \* defect: never evicts
Push(buffer, item) ==
    IF Len(buffer) >= Capacity THEN Append(Tail(buffer), item) ELSE Append(buffer, item)

SeedWithoutMax(c, persisted) ==               \* defect: forgets what it has numbered
    [c EXCEPT !.next = persisted + 1, !.durable = persisted]
Seed(c, persisted) ==
    [c EXCEPT !.next = IF persisted + 1 > @ THEN persisted + 1 ELSE @,
              !.durable = IF persisted > @ THEN persisted ELSE @]

Current(c) == c.next - 1

Evicted(c, after) == after > 0 /\ c.buffer # <<>> /\ after < c.buffer[1].seq

(* The filter of replay_after and load_after: entries are kept in the order of    *)
(* their numbers, so that it leaves those behind some position.                   *)
Later(entries, after) ==
    LET cut == CHOOSE n \in 0..Len(entries) :
                   \A m \in DOMAIN entries : entries[m].seq > after <=> m > n
    IN SubSeq(entries, cut + 1, Len(entries))

(* Records of the store, numbered as the store numbers them. *)
Stored == [n \in DOMAIN disk |-> [seq |-> n, ev |-> disk[n]]]

SseInit ==
    /\ emitted = 0 /\ disk = <<0>>
    /\ loads = 1 /\ loaded = 1
    /\ durable_seq = [i \in Loads |-> IF i = 1 THEN 1 ELSE 0]
    /\ cursor = [i \in Loads |-> IF i = 1 THEN Seed(NewCursor, 1) ELSE NewCursor]
    /\ bus = [i \in Loads |-> <<>>]
    /\ sequencer = [i \in Loads |-> Resting]
    /\ sent = [i \in Loads |-> <<>>]
    /\ client = [c \in Clients |-> Offline]
    /\ view = [c \in Clients |-> NewView]

--------------------------------------------------------------------------------
(***************************************************************************)
(* The Runtime of the loaded session: persist_event, then the broadcast.   *)
(* A full bus drops its oldest event for the sequencer, which receives     *)
(* Lagged and goes on: like one that a turn cancelled between the two      *)
(* steps never broadcasts, it gets no number.                              *)
(***************************************************************************)
Broadcasts(ev) ==
    bus' = [bus EXCEPT ![loaded] = Append(IF Len(@) >= BusCapacity THEN Tail(@) ELSE @, ev)]

Emit ==
    /\ loaded # 0 /\ emitted < MaxEvents
    /\ emitted' = emitted + 1
    /\ Broadcasts(emitted + 1)
    /\ IF emitted + 1 \in Transient
       THEN UNCHANGED <<disk, durable_seq>>
       ELSE /\ disk' = Append(disk, emitted + 1)
            /\ durable_seq' = [durable_seq EXCEPT ![loaded] = Len(disk) + 1]
    /\ UNCHANGED <<loads, loaded, cursor, sequencer, sent, client, view>>

(***************************************************************************)
(* push_event: number and buffer the event; take over the Runtime's        *)
(* durable_seq and send the event on.                                      *)
(***************************************************************************)
Number(i) ==
    /\ sequencer[i].pc = "recv" /\ bus[i] # <<>>
    /\ bus' = [bus EXCEPT ![i] = Tail(@)]
    /\ LET seq == cursor[i].next
           ev == Head(bus[i])
       IN /\ cursor' = [cursor EXCEPT ![i].buffer = Push(@, [seq |-> seq, ev |-> ev]),
                                      ![i].next = @ + 1]
          /\ sequencer' = [sequencer EXCEPT ![i] = [pc |-> "send", ev |-> ev, seq |-> seq]]
    /\ UNCHANGED <<emitted, disk, loads, loaded, durable_seq, sent, client, view>>

SendOn(i) ==
    /\ sequencer[i].pc = "send"
    /\ cursor' = [cursor EXCEPT ![i].durable = durable_seq[i]]
    /\ sent' = [sent EXCEPT ![i] = Append(@, [seq |-> sequencer[i].seq, ev |-> sequencer[i].ev])]
    /\ sequencer' = [sequencer EXCEPT ![i] = Resting]
    /\ UNCHANGED <<emitted, disk, loads, loaded, durable_seq, bus, client, view>>

--------------------------------------------------------------------------------
(***************************************************************************)
(* send_message_boxed, before the turn: init_event_stream once more, which *)
(* sets durable_seq to the number of the last snapshot, if there is one,   *)
(* then seed_cursor_from_runtime.                                          *)
(***************************************************************************)
SnapshotAt == SnapshotEvery * (Len(disk) \div SnapshotEvery)
ReadDurable(i) ==
    durable_seq' = [durable_seq EXCEPT ![i] = IF SnapshotAt = 0 THEN Len(disk) ELSE SnapshotAt]

StartTurn ==
    /\ loaded # 0
    /\ ReadDurable(loaded)
    /\ cursor' = [cursor EXCEPT ![loaded] = Seed(@, Len(disk))]
    /\ UNCHANGED <<emitted, disk, loads, loaded, bus, sequencer, sent, client, view>>

(***************************************************************************)
(* SessionManager::delete, for DELETE and for eviction.  The tasks of the  *)
(* session hold it alive, so neither its channel nor a connection closes.  *)
(***************************************************************************)
DropSession ==
    /\ loaded # 0 /\ loads < MaxLoads
    /\ loaded' = 0
    /\ UNCHANGED <<emitted, disk, loads, durable_seq, cursor, bus, sequencer, sent,
                   client, view>>

(* restore_session: the session is in the table before its cursor is seeded. *)
Restore ==
    /\ loaded = 0 /\ loads < MaxLoads
    /\ loads' = loads + 1 /\ loaded' = loads + 1
    /\ ReadDurable(loads + 1)
    /\ UNCHANGED <<emitted, disk, cursor, bus, sequencer, sent, client, view>>

SeedRestored ==
    /\ loaded > 1
    /\ cursor' = [cursor EXCEPT ![loaded] = Seed(@, Len(disk))]
    /\ cursor' # cursor
    /\ UNCHANGED <<emitted, disk, loads, loaded, durable_seq, bus, sequencer, sent,
                   client, view>>

(* The server dies: every connection drops and only the disk is left.  *)
CutOff(c) == [client[c] EXCEPT !.pc = "off", !.on = 0, !.floor = 0, !.at = 0, !.todo = <<>>]
ServerRestart ==
    /\ loads < MaxLoads
    /\ loaded' = 0
    /\ durable_seq' = [i \in Loads |-> 0]
    /\ cursor' = [i \in Loads |-> NewCursor]
    /\ bus' = [i \in Loads |-> <<>>]
    /\ sequencer' = [i \in Loads |-> Resting]
    /\ sent' = [i \in Loads |-> <<>>]
    /\ client' = [c \in Clients |-> CutOff(c)]
    /\ UNCHANGED <<emitted, disk, loads, view>>

--------------------------------------------------------------------------------
(***************************************************************************)
(* A connection.  The handler takes the session from the table, and the    *)
(* task it spawns subscribes first and replays afterwards (sse_stream), or *)
(* only subscribes when the request has no Last-Event-ID (sse_live).  The  *)
(* page has loaded the history with a GET before its first connection; a   *)
(* later one without an id has no way to ask for what it missed.           *)
(***************************************************************************)
Risks(c) == {cut \in {"no id"} : client[c].connects > 0 /\ client[c].last = NoId}
           \union {cut \in {"restored"} : client[c].last # NoId /\ client[c].from # loaded}
Connect(c) ==
    /\ client[c].pc = "off" /\ loaded # 0 /\ client[c].connects < MaxConnects
    /\ client' = [client EXCEPT ![c].on = loaded, ![c].at = Len(sent[loaded]),
                                ![c].pc = IF client[c].last = NoId THEN "live" ELSE "replay",
                                ![c].connects = @ + 1]
    /\ view' = [view EXCEPT
          ![c].since = IF client[c].connects = 0 THEN emitted ELSE @,
          ![c].scars = @ \union Risks(c)]
    /\ UNCHANGED <<emitted, disk, serving>>

(* replay_after and classify_replay, under the cursor's lock. *)
Replay(c) ==
    /\ client[c].pc = "replay"
    /\ LET i == client[c].on
           last == client[c].last
           evicted == Evicted(cursor[i], last)
           todo == IF evicted THEN <<>> ELSE Later(cursor[i].buffer, last)
       IN /\ client' = [client EXCEPT
              ![c].pc = IF ~evicted THEN "live"
                        ELSE IF last <= cursor[i].durable THEN "load" ELSE "reload",
              ![c].todo = todo, ![c].floor = last]
    /\ UNCHANGED <<emitted, disk, serving, view>>

(* EventStore::load_after, after a second look at durable_seq. *)
LoadAfter(c) ==
    /\ client[c].pc = "load"
    /\ LET i == client[c].on
           records == IF client[c].last > durable_seq[i] THEN <<>>
                      ELSE Later(Stored, client[c].last)
       IN client' = [client EXCEPT ![c].pc = IF records = <<>> THEN "reload" ELSE "live",
                                   ![c].todo = records]
    /\ view' = [view EXCEPT ![c].scars = @ \union {"from store"}]
    /\ UNCHANGED <<emitted, disk, serving>>

(* RehydrateRequired: the client fetches the session anew. *)
Told(c, scars) == [view EXCEPT ![c].since = emitted, ![c].told = TRUE, ![c].scars = scars]

Reload(c) ==
    /\ client[c].pc = "reload"
    /\ LET i == client[c].on
       IN client' = [client EXCEPT ![c] = [CutOff(c) EXCEPT !.last = Current(cursor[i]),
                                                            !.from = i]]
    /\ view' = Told(c, {})
    /\ UNCHANGED <<emitted, disk, serving>>

(***************************************************************************)
(* Forwarding.  Each event raises the floor; one at or below it has been   *)
(* replayed already.  Events in the connection's own channel are counted   *)
(* as received: those a disconnect loses were never acknowledged by an id. *)
(***************************************************************************)
Gives(c, e) ==
    /\ client' = [client EXCEPT ![c].floor = IF e.seq > @ THEN e.seq ELSE @,
                                ![c].last = e.seq, ![c].from = client[c].on,
                                ![c].todo = IF @ # <<>> THEN Tail(@) ELSE @,
                                ![c].at = IF client[c].todo = <<>> THEN @ + 1 ELSE @]
    /\ view' = [view EXCEPT ![c].seen = @ \union {e.ev}, ![c].twice = @ \/ e.ev \in view[c].seen]

ForwardReplayed(c) ==
    /\ client[c].pc = "live" /\ client[c].todo # <<>>
    /\ Gives(c, Head(client[c].todo))
    /\ UNCHANGED <<emitted, disk, serving>>

Unread(c) == Len(sent[client[c].on]) - client[c].at
Waits(c) == client[c].pc = "live" /\ client[c].todo = <<>>

ForwardAll(c) ==                              \* defect: no floor
    /\ Waits(c) /\ Unread(c) \in 1..LiveCapacity
    /\ Gives(c, sent[client[c].on][client[c].at + 1])
    /\ UNCHANGED <<emitted, disk, serving>>
ForwardLive(c) ==
    /\ Waits(c) /\ Unread(c) \in 1..LiveCapacity
    /\ LET e == sent[client[c].on][client[c].at + 1]
       IN IF e.seq <= client[c].floor
          THEN /\ client' = [client EXCEPT ![c].at = @ + 1]
               /\ UNCHANGED view
          ELSE Gives(c, e)
    /\ UNCHANGED <<emitted, disk, serving>>

(* recv reports Lagged once; the channel's oldest event is read next. *)
ForwardSilently(c) ==                         \* defect: goes on without a word
    /\ Waits(c) /\ Unread(c) > LiveCapacity
    /\ client' = [client EXCEPT ![c].at = Len(sent[client[c].on]) - LiveCapacity]
    /\ UNCHANGED <<emitted, disk, serving, view>>
ForwardLagged(c) ==
    /\ Waits(c) /\ Unread(c) > LiveCapacity
    /\ LET i == client[c].on
       IN client' = [client EXCEPT ![c].at = Len(sent[i]) - LiveCapacity,
                                   ![c].last = Current(cursor[i]), ![c].from = i]
    /\ view' = Told(c, view[c].scars)
    /\ UNCHANGED <<emitted, disk, serving>>

Disconnect(c) ==                    \* bound: the last connection stays
    /\ client[c].pc # "off" /\ client[c].connects < MaxConnects
    /\ client' = [client EXCEPT ![c] = CutOff(c)]
    /\ UNCHANGED <<emitted, disk, serving, view>>

SseNext ==
    \/ Emit
    \/ \E i \in Loads : Number(i) \/ SendOn(i)
    \/ StartTurn \/ DropSession \/ Restore \/ SeedRestored \/ ServerRestart
    \/ \E c \in Clients :
          \/ Connect(c) \/ Replay(c) \/ LoadAfter(c) \/ Reload(c)
          \/ ForwardReplayed(c) \/ ForwardLive(c) \/ ForwardLagged(c) \/ Disconnect(c)

SseSpec == SseInit /\ [][SseNext]_sseVars

--------------------------------------------------------------------------------
Numbered == [seq : 1..(2 * MaxEvents + 1), ev : 0..MaxEvents]
Entries == Seq(Numbered)

SseTypeOK ==
    /\ emitted \in 0..MaxEvents
    /\ disk \in Seq(0..MaxEvents) /\ Len(disk) \in 1..(MaxEvents + 1)
    /\ loads \in Loads /\ loaded \in 0..loads
    /\ durable_seq \in [Loads -> 0..(MaxEvents + 1)]
    /\ \A i \in Loads :
          /\ cursor[i].buffer \in Entries /\ Len(cursor[i].buffer) <= Capacity
          /\ cursor[i].next \in Nat \ {0} /\ cursor[i].durable \in 0..(MaxEvents + 1)
          /\ bus[i] \in Seq(1..MaxEvents) /\ Len(bus[i]) <= BusCapacity
          /\ sequencer[i] \in [pc : {"recv", "send"}, ev : 0..MaxEvents, seq : Nat]
          /\ sent[i] \in Entries
    /\ \A c \in Clients :
          /\ client[c].pc \in {"off", "replay", "load", "reload", "live"}
          /\ client[c].on \in 0..loads /\ client[c].from \in 0..loads
          /\ client[c].last \in {NoId} \union Nat /\ client[c].todo \in Entries
          /\ client[c].at \in Nat /\ client[c].floor \in Nat
          /\ view[c].seen \subseteq 0..MaxEvents /\ view[c].since \in 0..emitted

(* One writer numbers the events: on the live channel the numbers only rise,     *)
(* and what has been sent on it can be replayed unless it is evicted, so that a   *)
(* connection that subscribes first and replays second has no hole between.      *)
SentIsReplayable ==
    \A i \in Loads :
        LET buffer == cursor[i].buffer
        IN /\ \A m, n \in DOMAIN sent[i] : m < n => sent[i][m].seq < sent[i][n].seq
           /\ \A n \in DOMAIN sent[i] :
                 /\ sent[i][n].seq <= Current(cursor[i])
                 /\ buffer # <<>> /\ sent[i][n].seq >= buffer[1].seq
                       => sent[i][n] \in ToSet(buffer)

(* A client that has kept to one load of the session, has an id to reconnect     *)
(* with, and was not served from the EventStore misses nothing: everything the   *)
(* session has sent is in what it was given, in what its connection is about to  *)
(* replay, in what it has not read yet, or older than its last full fetch.        *)
NothingMissed ==
    \A c \in Clients :
        client[c].pc = "live" /\ view[c].scars = {} =>
            \A n \in 1..client[c].at :
                LET e == sent[client[c].on][n]
                IN \/ e.ev \in view[c].seen \/ e.ev <= view[c].since
                   \/ e \in ToSet(client[c].todo)

(* Such a client is given no event twice, over all its connections, as long as   *)
(* it was never told to fetch the session anew.                                  *)
NothingTwice ==
    \A c \in Clients : view[c].scars = {} /\ ~view[c].told => ~view[c].twice
================================================================================
