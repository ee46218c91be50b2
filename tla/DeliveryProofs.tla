----------------------------- MODULE DeliveryProofs -----------------------------
(***************************************************************************)
(* Theorems about the ways events reach a client: Sse (what the sequencer  *)
(* sent can be replayed, and a client that keeps to one load of the        *)
(* session misses nothing and is given nothing twice, over all its         *)
(* connections) and Stdio (what the client of a server on standard input   *)
(* and output is told, for any prompts, messages, work and capacity), and  *)
(* that the variables of both keep their types.                            *)
(***************************************************************************)
EXTENDS Sse, Stdio, SequenceLemmas, SequenceTheorems, TLAPS

--------------------------------------------------------------------------------
(* Sse: the invariant and what each step does to it.                        *)

Sequenced == [seq : Nat, ev : Nat]
CursorType == [buffer : Seq(Sequenced), next : Nat, durable : Nat]
SequencerType == [pc : {"recv", "send"}, ev : Nat, seq : Nat]
ClientType == [pc : {"off", "replay", "load", "reload", "live"}, on : Nat, last : {NoId} \union Nat,
               from : Nat, floor : Nat, at : Nat, todo : Seq(Sequenced), connects : Nat]
ViewType == [seen : SUBSET Nat, twice : BOOLEAN, since : Nat, told : BOOLEAN,
             scars : SUBSET {"no id", "restored", "from store"}]

Types ==
    /\ emitted \in Nat /\ disk \in Seq(Nat)
    /\ loads \in Loads /\ loaded \in {0, loads}
    /\ durable_seq \in [Loads -> Nat]
    /\ cursor \in [Loads -> CursorType]
    /\ bus \in [Loads -> Seq(Nat)]
    /\ sequencer \in [Loads -> SequencerType]
    /\ sent \in [Loads -> Seq(Sequenced)]
    /\ client \in [Clients -> ClientType]
    /\ view \in [Clients -> ViewType]

--------------------------------------------------------------------------------
(***************************************************************************)
(* One load of the session: its entries are what it has sent and what it   *)
(* is about to send.  They are numbered in the order in which they were    *)
(* emitted, the bus holds later events, and the buffer holds all entries   *)
(* from its oldest on.                                                     *)
(***************************************************************************)
InSequence(s) ==
    \A m, n \in DOMAIN s : m < n => s[m].seq < s[n].seq /\ s[m].ev < s[n].ev

InHand(i) == [seq |-> sequencer[i].seq, ev |-> sequencer[i].ev]
SentOrInHand(i, e) == \/ \E n \in DOMAIN sent[i] : sent[i][n] = e
                      \/ sequencer[i].pc = "send" /\ e = InHand(i)

SentInOrder(i) ==
    /\ InSequence(sent[i])
    /\ sequencer[i].pc = "send" =>
          \A n \in DOMAIN sent[i] : /\ sent[i][n].seq < sequencer[i].seq
                                    /\ sent[i][n].ev < sequencer[i].ev
    /\ \A j, k \in DOMAIN bus[i] : j < k => bus[i][j] < bus[i][k]
    /\ \A k \in DOMAIN bus[i] : bus[i][k] <= emitted

Trails(i) ==
    \A e \in Sequenced : SentOrInHand(i, e) =>
        /\ 1 <= e.seq /\ e.seq < cursor[i].next /\ e.ev <= emitted
        /\ \A k \in DOMAIN bus[i] : e.ev < bus[i][k]

Buffered(i) ==
    LET buffer == cursor[i].buffer
    IN /\ InSequence(buffer)
       /\ \A n \in DOMAIN buffer : SentOrInHand(i, buffer[n])
       /\ \A e \in Sequenced : SentOrInHand(i, e) =>
             /\ buffer # <<>>
             /\ e.seq >= buffer[1].seq => \E n \in DOMAIN buffer : buffer[n] = e

Line(i) == cursor[i].next >= 1 /\ SentInOrder(i) /\ Trails(i) /\ Buffered(i)

--------------------------------------------------------------------------------
(***************************************************************************)
(* A client.  Its id divides the entries of its load: those up to it were  *)
(* given to it or are older than its last full fetch, and as long as it    *)
(* was never told to fetch, those after it are newer than all it was given.*)
(***************************************************************************)
Covered(c, e) == e.ev \in view[c].seen \/ e.ev <= view[c].since
NotSeen(c, i) ==
    \A x \in view[c].seen :
        /\ x <= emitted
        /\ \A e \in Sequenced : SentOrInHand(i, e) /\ e.seq > client[c].last => x < e.ev
        /\ \A k \in DOMAIN bus[i] : x < bus[i][k]
Anchored(c, i) ==
    /\ client[c].last < cursor[i].next
    /\ \A e \in Sequenced : SentOrInHand(i, e) /\ e.seq <= client[c].last => Covered(c, e)
    /\ ~view[c].told => NotSeen(c, i)

Connected(c) ==
    LET k == client[c]
    IN /\ k.on <= loads /\ k.from <= loads /\ k.last # 0
       /\ k.last # NoId => k.from >= 1
       /\ view[c].since <= emitted
       /\ \A m \in DOMAIN k.todo : k.todo[m].seq >= 1
       /\ k.pc = "off" => k.todo = <<>> /\ k.floor = 0
       /\ k.pc # "off" => k.on \in 1..loads /\ k.at <= Len(sent[k.on])
       /\ k.pc \in {"replay", "load"} => k.last # NoId
       /\ k.pc \in {"load", "reload"} => cursor[k.on].buffer # <<>>
       /\ k.connects = 0 => k.pc = "off" /\ k.last = NoId /\ view[c].seen = {}
                            /\ ~view[c].twice

Following(c, i) ==
    LET k == client[c]
        Due(e) == \E m \in DOMAIN k.todo : k.todo[m] = e
    IN /\ InSequence(k.todo) /\ k.floor < cursor[i].next
       /\ \A m \in DOMAIN k.todo : SentOrInHand(i, k.todo[m]) /\ k.todo[m].seq > k.floor
       /\ \A e \in Sequenced : SentOrInHand(i, e) /\ e.seq <= k.floor => Covered(c, e)
       /\ \A e \in Sequenced, m \in DOMAIN k.todo :
             SentOrInHand(i, e) /\ e.seq <= k.todo[m].seq => Covered(c, e) \/ Due(e)
       /\ \A n \in 1..k.at : Covered(c, sent[i][n]) \/ Due(sent[i][n])
       /\ k.todo # <<>> => k.last = k.floor
       /\ k.last # NoId /\ ~view[c].told => k.last <= k.floor

Unscarred(c) ==
    LET k == client[c]
    IN /\ ~view[c].told => ~view[c].twice /\ (k.last = NoId => view[c].seen = {})
       /\ k.pc = "off" /\ k.last # NoId /\ k.from = loaded => Anchored(c, loaded)
       /\ k.pc # "off" /\ k.last # NoId => k.from = k.on /\ Anchored(c, k.on)
       /\ k.pc = "live" => Following(c, k.on)

Client(c) == Connected(c) /\ (view[c].scars = {} => Unscarred(c))

SseInv ==
    /\ Types
    /\ \A i \in Loads : Line(i)
    /\ \A c \in Clients : Client(c)

--------------------------------------------------------------------------------
(* Later is the filter of replay_after: of numbered entries it leaves those *)
(* with a larger number, all of them, as a tail of the sequence.            *)
ByNumber(s) == \A m, n \in DOMAIN s : m < n => s[m].seq < s[n].seq

LEMMA LaterCuts ==
    ASSUME NEW s \in Seq(Sequenced), ByNumber(s), NEW a \in Int
    PROVE  \E cut \in 0..Len(s) :
              /\ \A m \in DOMAIN s : s[m].seq > a <=> m > cut
              /\ Later(s, a) = SubSeq(s, cut + 1, Len(s))
<1> DEFINE larger == {m \in DOMAIN s : s[m].seq > a}
           Cut(n) == \A m \in DOMAIN s : s[m].seq > a <=> m > n
<1>0. DOMAIN s = 1..Len(s) /\ Len(s) \in Nat /\ \A m \in DOMAIN s : s[m].seq \in Nat
  <2>1. \A m \in DOMAIN s : s[m] \in Sequenced
    OBVIOUS
  <2> QED
    BY <2>1 DEF Sequenced
<1>1. \E n \in 0..Len(s) : Cut(n)
  <2>1. CASE larger = {}
    <3>1. \A m \in DOMAIN s : ~ (s[m].seq > a) /\ ~ (m > Len(s))
      BY <1>0, <2>1
    <3>2. Cut(Len(s)) /\ Len(s) \in 0..Len(s)
      BY <1>0, <3>1
    <3> QED
      BY <3>2
  <2>2. CASE larger # {}
    <3>0. larger \subseteq Nat
      BY <1>0
    <3>1. PICK x \in larger : \A y \in larger : x <= y
      <4> HIDE DEF larger
      <4> QED
        BY <2>2, <3>0, LeastNatural
    <3>2. \A m \in DOMAIN s : s[m].seq > a <=> m > x - 1
      <4>1. ASSUME NEW m \in DOMAIN s, s[m].seq > a PROVE m > x - 1
        BY <1>0, <3>1, <4>1
      <4>2. ASSUME NEW m \in DOMAIN s, m > x - 1 PROVE s[m].seq > a
        <5>1. m = x \/ x < m
          BY <1>0, <3>1, <4>2
        <5>2. s[x].seq > a /\ (x < m => s[x].seq < s[m].seq)
          BY <3>1 DEF ByNumber
        <5> QED
          BY <1>0, <3>1, <5>1, <5>2
      <4> QED
        BY <1>0, <3>1, <4>1, <4>2
    <3>3. Cut(x - 1) /\ x - 1 \in 0..Len(s)
      BY <1>0, <3>1, <3>2
    <3> QED
      BY <3>3
  <2> QED
    BY <2>1, <2>2
<1>2. PICK cut : /\ cut = CHOOSE n \in 0..Len(s) : Cut(n)
                 /\ cut \in 0..Len(s) /\ Cut(cut)
  BY <1>1
<1>3. Later(s, a) = SubSeq(s, cut + 1, Len(s))
  BY <1>2 DEF Later
<1> QED
  BY <1>2, <1>3

LEMMA LaterFilters ==
    ASSUME NEW s \in Seq(Sequenced), ByNumber(s), NEW a \in Int
    PROVE  /\ Later(s, a) \in Seq(Sequenced)
           /\ \A k \in DOMAIN Later(s, a) :
                 Later(s, a)[k].seq > a /\ \E m \in DOMAIN s : s[m] = Later(s, a)[k]
           /\ \A m \in DOMAIN s : s[m].seq > a =>
                 \E k \in DOMAIN Later(s, a) : Later(s, a)[k] = s[m]
           /\ InSequence(s) => InSequence(Later(s, a))
<1>1. PICK cut \in 0..Len(s) :
          /\ \A m \in DOMAIN s : s[m].seq > a <=> m > cut
          /\ Later(s, a) = SubSeq(s, cut + 1, Len(s))
  BY LaterCuts
<1>2. /\ DOMAIN s = 1..Len(s) /\ Len(s) \in Nat
      /\ Later(s, a) \in Seq(Sequenced)
      /\ DOMAIN Later(s, a) = 1..(Len(s) - cut)
      /\ \A k \in 1..(Len(s) - cut) : Later(s, a)[k] = s[cut + k]
  BY <1>1
<1>3. \A k \in DOMAIN Later(s, a) :
          Later(s, a)[k].seq > a /\ \E m \in DOMAIN s : s[m] = Later(s, a)[k]
  <2> SUFFICES ASSUME NEW k \in DOMAIN Later(s, a)
               PROVE  Later(s, a)[k].seq > a /\ \E m \in DOMAIN s : s[m] = Later(s, a)[k]
    OBVIOUS
  <2>1. cut + k \in DOMAIN s /\ cut + k > cut /\ Later(s, a)[k] = s[cut + k]
    BY <1>2
  <2> QED
    BY <1>1, <2>1
<1>4. ASSUME NEW m \in DOMAIN s, s[m].seq > a
      PROVE  \E k \in DOMAIN Later(s, a) : Later(s, a)[k] = s[m]
  <2>1. m > cut
    BY <1>1, <1>4
  <2>2. m - cut \in 1..(Len(s) - cut) /\ cut + (m - cut) = m
    BY <1>2, <2>1
  <2> QED
    BY <1>2, <2>2
<1>5. ASSUME InSequence(s) PROVE InSequence(Later(s, a))
  <2> SUFFICES ASSUME NEW m \in DOMAIN Later(s, a), NEW n \in DOMAIN Later(s, a), m < n
               PROVE  /\ Later(s, a)[m].seq < Later(s, a)[n].seq
                      /\ Later(s, a)[m].ev < Later(s, a)[n].ev
    BY DEF InSequence
  <2>0. m \in 1..(Len(s) - cut) /\ n \in 1..(Len(s) - cut) /\ m < n
    BY <1>2
  <2>1. /\ cut + m \in DOMAIN s /\ cut + n \in DOMAIN s /\ cut + m < cut + n
        /\ Later(s, a)[m] = s[cut + m] /\ Later(s, a)[n] = s[cut + n]
    BY <1>2, <2>0
  <2> QED
    BY <1>5, <2>1 DEF InSequence
<1> QED
  BY <1>2, <1>3, <1>4, <1>5

LEMMA OrderedByNumber == \A s : InSequence(s) => ByNumber(s)
BY DEF InSequence, ByNumber

--------------------------------------------------------------------------------
(***************************************************************************)
(* Types.                                                                  *)
(***************************************************************************)
LEMMA PushTyped ==
    ASSUME NEW s \in Seq(Sequenced), NEW x \in Sequenced
    PROVE  /\ Push(s, x) \in Seq(Sequenced)
           /\ Len(s) < Capacity => Push(s, x) = Append(s, x)
           /\ Len(s) >= Capacity => s # <<>> /\ Push(s, x) = Append(Tail(s), x)
BY SseAssumption DEF Push

LEMMA SeedTyped ==
    ASSUME NEW k \in CursorType, NEW n \in Nat
    PROVE  /\ Seed(k, n) \in CursorType
           /\ Seed(k, n).buffer = k.buffer /\ Seed(k, n).next >= k.next
<1> DEFINE next == IF n + 1 > k.next THEN n + 1 ELSE k.next
           durable == IF n > k.durable THEN n ELSE k.durable
<1>1. k.next \in Nat /\ k.durable \in Nat /\ k.buffer \in Seq(Sequenced)
  BY DEF CursorType
<1>2. next \in Nat /\ durable \in Nat /\ next >= k.next
  BY <1>1
<1>3. Seed(k, n) = [buffer |-> k.buffer, next |-> next, durable |-> durable]
  <2>1. k = [buffer |-> k.buffer, next |-> k.next, durable |-> k.durable]
    BY DEF CursorType
  <2>2. Seed(k, n) = [[k EXCEPT !.next = next] EXCEPT !.durable = durable]
    BY <2>1 DEF Seed
  <2> HIDE DEF next, durable
  <2> QED
    BY <2>1, <2>2
<1> HIDE DEF next, durable
<1> QED
  BY <1>1, <1>2, <1>3 DEF CursorType

LEMMA SnapshotAtTyped ==
    ASSUME disk \in Seq(Nat)
    PROVE  SnapshotAt \in Nat
<1>1. SnapshotEvery \in Nat \ {0} /\ Len(disk) \in Nat
  BY SseAssumption
<1>2. Len(disk) \div SnapshotEvery \in Nat
  BY <1>1
<1> QED
  BY <1>1, <1>2 DEF SnapshotAt

LEMMA StoredTyped ==
    ASSUME disk \in Seq(Nat)
    PROVE  /\ Stored \in Seq(Sequenced) /\ ByNumber(Stored)
           /\ \A n \in DOMAIN Stored : Stored[n].seq >= 1
<1>1. DOMAIN disk = 1..Len(disk) /\ Len(disk) \in Nat /\ \A n \in 1..Len(disk) : disk[n] \in Nat
  OBVIOUS
<1>2. DOMAIN Stored = 1..Len(disk)
      /\ \A n \in 1..Len(disk) : Stored[n] = [seq |-> n, ev |-> disk[n]]
  BY <1>1 DEF Stored
<1>3. \A n \in 1..Len(disk) : Stored[n] \in Sequenced /\ Stored[n].seq = n
  BY <1>1, <1>2 DEF Sequenced
<1>4. Stored = [n \in 1..Len(disk) |-> Stored[n]]
  BY <1>1 DEF Stored
<1>5. Stored \in [1..Len(disk) -> Sequenced]
  BY <1>3, <1>4
<1> QED
  BY <1>1, <1>2, <1>3, <1>5 DEF ByNumber

LEMMA InitSseTypes ==
    ASSUME SseInit PROVE Types
<1>1. NewCursor \in CursorType /\ Resting \in SequencerType /\ Offline \in ClientType
      /\ NewView \in ViewType
  BY DEF NewCursor, CursorType, Resting, SequencerType, Offline, ClientType, NewView, ViewType, NoId
<1>2. Seed(NewCursor, 1) \in CursorType
  BY <1>1, SeedTyped
<1>3. 1 \in Loads
  BY SseAssumption DEF Loads
<1> QED
  BY <1>1, <1>2, <1>3 DEF SseInit, Types

(* What each step of a client changes, field by field. *)
LEMMA ViewRecord ==
    ASSUME NEW seen \in SUBSET Nat, NEW twice \in BOOLEAN, NEW since \in Nat, NEW fetch \in BOOLEAN,
           NEW scars \in SUBSET {"no id", "restored", "from store"}
    PROVE  [seen |-> seen, twice |-> twice, since |-> since, told |-> fetch, scars |-> scars]
           \in ViewType
BY DEF ViewType

LEMMA ViewFields ==
    ASSUME NEW w \in ViewType
    PROVE  /\ w = [seen |-> w.seen, twice |-> w.twice, since |-> w.since, told |-> w.told,
                   scars |-> w.scars]
           /\ w.seen \in SUBSET Nat /\ w.twice \in BOOLEAN /\ w.since \in Nat /\ w.told \in BOOLEAN
           /\ w.scars \in SUBSET {"no id", "restored", "from store"}
BY DEF ViewType

LEMMA ClientRecord ==
    ASSUME NEW pc \in {"off", "replay", "load", "reload", "live"},
           NEW on \in Nat, NEW last \in {NoId} \union Nat, NEW from \in Nat, NEW floor \in Nat,
           NEW at \in Nat, NEW todo \in Seq(Sequenced), NEW connects \in Nat
    PROVE  [pc |-> pc, on |-> on, last |-> last, from |-> from, floor |-> floor, at |-> at,
            todo |-> todo, connects |-> connects] \in ClientType
BY DEF ClientType

LEMMA ClientFields ==
    ASSUME NEW k \in ClientType
    PROVE  /\ k = [pc |-> k.pc, on |-> k.on, last |-> k.last, from |-> k.from, floor |-> k.floor,
                   at |-> k.at, todo |-> k.todo, connects |-> k.connects]
           /\ k.pc \in {"off", "replay", "load", "reload", "live"}
           /\ k.on \in Nat /\ k.last \in {NoId} \union Nat /\ k.last \in Int
           /\ k.from \in Nat /\ k.floor \in Nat /\ k.at \in Nat
           /\ k.todo \in Seq(Sequenced) /\ k.connects \in Nat
BY DEF ClientType, NoId

(* The state of a client is replaced as a whole. *)
LEMMA ClientReplaced ==
    ASSUME client \in [Clients -> ClientType], NEW c \in Clients, NEW k,
           client' = [client EXCEPT ![c] = k], client'[c] \in ClientType
    PROVE  /\ client' \in [Clients -> ClientType]
           /\ \A d \in Clients \ {c} : client'[d] = client[d]
OBVIOUS

LEMMA ViewReplaced ==
    ASSUME view \in [Clients -> ViewType], NEW c \in Clients, NEW v,
           view' = [view EXCEPT ![c] = v], view'[c] \in ViewType
    PROVE  /\ view' \in [Clients -> ViewType]
           /\ \A d \in Clients \ {c} : view'[d] = view[d]
OBVIOUS

Others(c) == \A d \in Clients \ {c} : client'[d] = client[d] /\ view'[d] = view[d]
ClientsTyped == client' \in [Clients -> ClientType] /\ view' \in [Clients -> ViewType]

LEMMA ConnectStep ==
    ASSUME Types, NEW c \in Clients, Connect(c)
    PROVE  /\ ClientsTyped /\ Others(c)
           /\ client'[c].pc = IF client[c].last = NoId THEN "live" ELSE "replay"
           /\ client'[c].on = loaded /\ client'[c].at = Len(sent[loaded])
           /\ client'[c].connects = client[c].connects + 1
           /\ client'[c].last = client[c].last /\ client'[c].from = client[c].from
           /\ client'[c].floor = client[c].floor /\ client'[c].todo = client[c].todo
           /\ view'[c].seen = view[c].seen /\ view'[c].twice = view[c].twice
           /\ view'[c].told = view[c].told
           /\ view'[c].since = IF client[c].connects = 0 THEN emitted ELSE view[c].since
           /\ view'[c].scars = {} =>
                 /\ view[c].scars = {}
                 /\ client[c].connects # 0 => client[c].last # NoId /\ client[c].from = loaded
<1>1. /\ loaded \in Nat /\ Len(sent[loaded]) \in Nat
      /\ client[c] \in ClientType /\ view[c] \in ViewType
  <2>1. loads \in Nat /\ loaded \in Loads
    BY SseAssumption DEF Types, Connect, Loads
  <2>2. sent[loaded] \in Seq(Sequenced) /\ client[c] \in ClientType /\ view[c] \in ViewType
    BY <2>1 DEF Types
  <2> QED
    BY <2>1, <2>2 DEF Loads
<1>2. /\ client[c].connects \in Nat /\ client[c].pc = "off"
      /\ emitted \in Nat
  BY <1>1 DEF Types, Connect, ClientType
<1>3. /\ Risks(c) \subseteq {"no id", "restored", "from store"}
      /\ Risks(c) = {} /\ client[c].connects # 0 => client[c].last # NoId /\ client[c].from = loaded
  <2>1. Risks(c) \subseteq {"no id", "restored", "from store"}
    BY DEF Risks
  <2>2. ASSUME client[c].connects # 0, client[c].last = NoId PROVE "no id" \in Risks(c)
    <3>1. client[c].connects > 0
      BY <1>2, <2>2
    <3> QED
      BY <2>2, <3>1 DEF Risks
  <2>3. ASSUME client[c].last # NoId, client[c].from # loaded PROVE "restored" \in Risks(c)
    BY <2>3 DEF Risks
  <2> QED
    BY <2>1, <2>2, <2>3
<1> DEFINE since == IF client[c].connects = 0 THEN emitted ELSE view[c].since
           scars == view[c].scars \union Risks(c)
           V == [seen |-> view[c].seen, twice |-> view[c].twice, since |-> since,
                 told |-> view[c].told, scars |-> scars]
           pc == IF client[c].last = NoId THEN "live" ELSE "replay"
           K == [pc |-> pc, on |-> loaded, last |-> client[c].last, from |-> client[c].from,
                 floor |-> client[c].floor, at |-> Len(sent[loaded]), todo |-> client[c].todo,
                 connects |-> client[c].connects + 1]
<1>a. view' = [view EXCEPT ![c] = [view[c] EXCEPT !.since = since, !.scars = scars]]
  BY DEF Connect
<1>b. client' = [client EXCEPT ![c] = [client[c] EXCEPT !.on = loaded, !.at = Len(sent[loaded]),
                                                      !.pc = pc, !.connects = @ + 1]]
  BY DEF Connect
<1>4. /\ since \in Nat /\ scars \in SUBSET {"no id", "restored", "from store"}
      /\ pc \in {"live", "replay"}
  BY <1>1, <1>2, <1>3, ViewFields
<1> HIDE DEF since, scars, pc
<1>5. view'[c] = V
  <2>1. view'[c] = [view[c] EXCEPT !.since = since, !.scars = scars]
    BY <1>a DEF Types
  <2> QED
    BY <1>1, <2>1 DEF ViewType
<1>6. client'[c] = K
  <2>1. client'[c] = [client[c] EXCEPT !.on = loaded, !.at = Len(sent[loaded]),
                                       !.pc = pc, !.connects = @ + 1]
    BY <1>b DEF Types
  <2> QED
    BY <1>1, <2>1 DEF ClientType
<1>7. V \in ViewType /\ K \in ClientType
  <2>1. V \in ViewType
    BY <1>1, <1>4, ViewFields, ViewRecord
  <2>2. K \in ClientType
    <3>1. client[c].connects + 1 \in Nat
      BY <1>2
    <3> QED
      BY <1>1, <1>4, <3>1, ClientFields, ClientRecord
  <2> QED
    BY <2>1, <2>2
<1> HIDE DEF V, K
<1>8. view'[c].scars = {} => view[c].scars = {} /\ Risks(c) = {}
  BY <1>5 DEF V, scars
<1>9. ClientsTyped /\ Others(c)
  BY <1>a, <1>b, <1>5, <1>6, <1>7, ClientReplaced, ViewReplaced DEF Types, ClientsTyped, Others
<1>10. /\ client'[c].pc = pc /\ client'[c].on = loaded /\ client'[c].at = Len(sent[loaded])
       /\ client'[c].connects = client[c].connects + 1
       /\ client'[c].last = client[c].last /\ client'[c].from = client[c].from
       /\ client'[c].floor = client[c].floor /\ client'[c].todo = client[c].todo
  BY <1>6 DEF K
<1>11. /\ view'[c].seen = view[c].seen /\ view'[c].twice = view[c].twice
       /\ view'[c].told = view[c].told /\ view'[c].since = since
  BY <1>5 DEF V
<1> QED
  BY <1>3, <1>8, <1>9, <1>10, <1>11 DEF pc, since

LEMMA LoadsSoFar ==
    ASSUME Types
    PROVE  /\ loads \in Nat /\ loaded \in Nat /\ loaded <= loads
           /\ \A i \in 1..loads : i \in Loads /\ i \in Nat
           /\ loaded # 0 => loaded = loads /\ loaded \in Loads
BY SseAssumption DEF Types, Loads

LEMMA ReplayStep ==
    ASSUME Types, \A i \in Loads : Line(i), NEW c \in Clients, Connected(c), Replay(c)
    PROVE  /\ ClientsTyped /\ Others(c) /\ view' = view
           /\ client[c].on \in Loads /\ client[c].last # NoId
           /\ \E pc, todo :
                 /\ client'[c] = [pc |-> pc, on |-> client[c].on, last |-> client[c].last,
                                  from |-> client[c].from, floor |-> client[c].last,
                                  at |-> client[c].at, todo |-> todo,
                                  connects |-> client[c].connects]
                 /\ \/ /\ ~Evicted(cursor[client[c].on], client[c].last)
                       /\ pc = "live" /\ todo = Later(cursor[client[c].on].buffer, client[c].last)
                    \/ /\ Evicted(cursor[client[c].on], client[c].last)
                       /\ pc \in {"load", "reload"} /\ todo = <<>>
<1> DEFINE i == client[c].on
           last == client[c].last
           evicted == Evicted(cursor[i], last)
           todo == IF evicted THEN <<>> ELSE Later(cursor[i].buffer, last)
           pc == IF ~evicted THEN "live" ELSE IF last <= cursor[i].durable THEN "load" ELSE "reload"
           K == [pc |-> pc, on |-> client[c].on, last |-> last, from |-> client[c].from,
                 floor |-> last, at |-> client[c].at, todo |-> todo,
                 connects |-> client[c].connects]
<1>1. /\ client[c] \in ClientType /\ client[c].on \in Loads
      /\ client[c].last # NoId /\ client[c].last \in Nat
  <2>1. client[c] \in ClientType
    BY DEF Types
  <2>2. client[c].on \in 1..loads /\ client[c].last # NoId
    BY DEF Connected, Replay
  <2>3. client[c].on \in Loads
    BY <2>2, LoadsSoFar
  <2> QED
    BY <2>1, <2>2, <2>3, ClientFields
<1>2. todo \in Seq(Sequenced)
  <2>1. cursor[i].buffer \in Seq(Sequenced) /\ ByNumber(cursor[i].buffer)
    BY <1>1, OrderedByNumber DEF Types, CursorType, Line, Buffered
  <2> QED
    BY <1>1, <2>1, LaterFilters
<1>3. pc \in {"live", "load", "reload"}
  OBVIOUS
<1>4. client' = [client EXCEPT ![c] = [client[c] EXCEPT !.pc = pc, !.todo = todo, !.floor = last]]
  BY DEF Replay
<1>5. \/ ~evicted /\ pc = "live" /\ todo = Later(cursor[i].buffer, last)
      \/ evicted /\ pc \in {"load", "reload"} /\ todo = <<>>
  OBVIOUS
<1> HIDE DEF evicted, todo, pc
<1>6. client'[c] = K
  <2>1. client'[c] = [client[c] EXCEPT !.pc = pc, !.todo = todo, !.floor = last]
    BY <1>4 DEF Types
  <2> QED
    BY <1>1, <2>1 DEF ClientType
<1>7. K \in ClientType
  BY <1>1, <1>2, <1>3, ClientFields, ClientRecord
<1> HIDE DEF K
<1>8. ClientsTyped /\ Others(c) /\ view' = view
  BY <1>4, <1>6, <1>7, ClientReplaced DEF Types, ClientsTyped, Others, Replay
<1>9. /\ client'[c] = [pc |-> pc, on |-> client[c].on, last |-> client[c].last,
                       from |-> client[c].from, floor |-> client[c].last,
                       at |-> client[c].at, todo |-> todo, connects |-> client[c].connects]
  BY <1>6 DEF K
<1> QED
  BY <1>1, <1>5, <1>8, <1>9 DEF evicted

LEMMA LoadAfterStep ==
    ASSUME Types, NEW c \in Clients, Connected(c), LoadAfter(c)
    PROVE  /\ ClientsTyped /\ Others(c)
           /\ client[c].on \in Loads
           /\ "from store" \in view'[c].scars /\ view'[c].since = view[c].since
           /\ \E pc, todo :
                 /\ client'[c] = [pc |-> pc, on |-> client[c].on, last |-> client[c].last,
                                  from |-> client[c].from, floor |-> client[c].floor,
                                  at |-> client[c].at, todo |-> todo,
                                  connects |-> client[c].connects]
                 /\ pc \in {"live", "reload"}
                 /\ \A m \in DOMAIN todo : todo[m].seq >= 1
<1> DEFINE records == IF client[c].last > durable_seq[client[c].on] THEN <<>>
                      ELSE Later(Stored, client[c].last)
           pc == IF records = <<>> THEN "reload" ELSE "live"
           scars == view[c].scars \union {"from store"}
           K == [pc |-> pc, on |-> client[c].on, last |-> client[c].last, from |-> client[c].from,
                 floor |-> client[c].floor, at |-> client[c].at, todo |-> records,
                 connects |-> client[c].connects]
           V == [seen |-> view[c].seen, twice |-> view[c].twice, since |-> view[c].since,
                 told |-> view[c].told, scars |-> scars]
<1>1. /\ client[c] \in ClientType /\ view[c] \in ViewType
      /\ client[c].on \in Loads /\ client[c].last \in Int
  <2>1. client[c] \in ClientType /\ view[c] \in ViewType
    BY DEF Types
  <2>2. client[c].on \in 1..loads
    BY DEF Connected, LoadAfter
  <2> QED
    BY <2>1, <2>2, LoadsSoFar, ClientFields
<1>2. records \in Seq(Sequenced) /\ \A m \in DOMAIN records : records[m].seq >= 1
  <2>1. /\ Stored \in Seq(Sequenced) /\ ByNumber(Stored)
        /\ \A n \in DOMAIN Stored : Stored[n].seq >= 1
    BY StoredTyped DEF Types
  <2>2. CASE records = <<>>
    <3>1. \A s : s = <<>> => s \in Seq(Sequenced) /\ \A m \in DOMAIN s : s[m].seq >= 1
      OBVIOUS
    <3> HIDE DEF records
    <3> QED
      BY <2>2, <3>1
  <2>3. CASE records = Later(Stored, client[c].last)
    <3>1. /\ Later(Stored, client[c].last) \in Seq(Sequenced)
          /\ \A k \in DOMAIN Later(Stored, client[c].last) :
                \E m \in DOMAIN Stored : Stored[m] = Later(Stored, client[c].last)[k]
      BY <1>1, <2>1, LaterFilters
    <3> HIDE DEF records
    <3>2. records \in Seq(Sequenced)
      BY <2>3, <3>1
    <3>3. \A k \in DOMAIN records : \E m \in DOMAIN Stored : Stored[m] = records[k]
      BY <2>3, <3>1
    <3> QED
      BY <2>1, <3>2, <3>3
  <2> QED
    BY <2>2, <2>3
<1>3. pc \in {"live", "reload"} /\ scars \in SUBSET {"no id", "restored", "from store"}
  BY <1>1, ViewFields
<1>4. client' = [client EXCEPT ![c] = [client[c] EXCEPT !.pc = pc, !.todo = records]]
  BY DEF LoadAfter
<1>5. view' = [view EXCEPT ![c] = [view[c] EXCEPT !.scars = scars]]
  BY DEF LoadAfter
<1>6. "from store" \in scars
  OBVIOUS
<1> HIDE DEF records, pc, scars
<1>7. client'[c] = K
  <2>1. client'[c] = [client[c] EXCEPT !.pc = pc, !.todo = records]
    BY <1>4 DEF Types
  <2> QED
    BY <1>1, <2>1 DEF ClientType
<1>8. view'[c] = V
  <2>1. view'[c] = [view[c] EXCEPT !.scars = scars]
    BY <1>5 DEF Types
  <2> QED
    BY <1>1, <2>1 DEF ViewType
<1>9. K \in ClientType /\ V \in ViewType
  <2>1. /\ client[c].on \in Nat /\ client[c].last \in {NoId} \union Nat
        /\ client[c].from \in Nat /\ client[c].floor \in Nat
        /\ client[c].at \in Nat /\ client[c].connects \in Nat
    BY <1>1, ClientFields
  <2>2. pc \in {"off", "replay", "load", "reload", "live"} /\ records \in Seq(Sequenced)
    BY <1>2, <1>3
  <2>3. K \in ClientType
    BY <2>1, <2>2, ClientRecord
  <2>4. V \in ViewType
    BY <1>1, <1>3, ViewFields, ViewRecord
  <2> QED
    BY <2>3, <2>4
<1>10. "from store" \in view'[c].scars /\ view'[c].since = view[c].since
  <2>1. view'[c].scars = scars /\ view'[c].since = view[c].since
    BY <1>8
  <2> QED
    BY <1>6, <2>1
<1> HIDE DEF K, V
<1>11. ClientsTyped /\ Others(c)
  BY <1>4, <1>5, <1>7, <1>8, <1>9, ClientReplaced, ViewReplaced DEF Types, ClientsTyped, Others
<1>12. client'[c] = [pc |-> pc, on |-> client[c].on, last |-> client[c].last,
                     from |-> client[c].from, floor |-> client[c].floor,
                     at |-> client[c].at, todo |-> records, connects |-> client[c].connects]
  BY <1>7 DEF K
<1> QED
  BY <1>1, <1>2, <1>3, <1>10, <1>11, <1>12

LEMMA CutOffTyped ==
    ASSUME Types, NEW c \in Clients
    PROVE  /\ CutOff(c) = [pc |-> "off", on |-> 0, last |-> client[c].last,
                           from |-> client[c].from, floor |-> 0, at |-> 0, todo |-> <<>>,
                           connects |-> client[c].connects]
           /\ CutOff(c) \in ClientType
<1> DEFINE K == [pc |-> "off", on |-> 0, last |-> client[c].last, from |-> client[c].from,
                 floor |-> 0, at |-> 0, todo |-> <<>>, connects |-> client[c].connects]
<1>1. client[c] \in ClientType
  BY DEF Types
<1>2. ASSUME NEW k, k = CutOff(c) PROVE k = K
  BY <1>1, <1>2 DEF CutOff, ClientType
<1>3. K \in ClientType
  <2>1. <<>> \in Seq(Sequenced)
    OBVIOUS
  <2>2. "off" \in {"off", "replay", "load", "reload", "live"} /\ 0 \in Nat
    OBVIOUS
  <2> QED
    BY <1>1, <2>1, <2>2, ClientFields, ClientRecord
<1> QED
  BY <1>2, <1>3

LEMMA LoadTyped ==
    ASSUME Types, NEW i \in Loads
    PROVE  /\ cursor[i] \in CursorType
           /\ cursor[i].buffer \in Seq(Sequenced) /\ cursor[i].next \in Nat /\ cursor[i].durable \in Nat
           /\ Len(cursor[i].buffer) \in Nat
           /\ bus[i] \in Seq(Nat) /\ Len(bus[i]) \in Nat
           /\ sequencer[i] \in SequencerType /\ sequencer[i].pc \in {"recv", "send"}
           /\ sequencer[i].ev \in Nat /\ sequencer[i].seq \in Nat /\ InHand(i) \in Sequenced
           /\ sent[i] \in Seq(Sequenced) /\ Len(sent[i]) \in Nat
           /\ \A n \in DOMAIN sent[i] : sent[i][n] \in Sequenced
           /\ \A n \in DOMAIN cursor[i].buffer : cursor[i].buffer[n] \in Sequenced
           /\ \A k \in DOMAIN bus[i] : bus[i][k] \in Nat
           /\ durable_seq[i] \in Nat /\ emitted \in Nat
<1>1. /\ cursor[i] \in CursorType /\ bus[i] \in Seq(Nat) /\ sequencer[i] \in SequencerType
      /\ sent[i] \in Seq(Sequenced) /\ durable_seq[i] \in Nat /\ emitted \in Nat
  BY DEF Types
<1>2. cursor[i].buffer \in Seq(Sequenced) /\ cursor[i].next \in Nat /\ cursor[i].durable \in Nat
  BY <1>1 DEF CursorType
<1>3. /\ sequencer[i].pc \in {"recv", "send"} /\ sequencer[i].ev \in Nat
      /\ sequencer[i].seq \in Nat
  BY <1>1 DEF SequencerType
<1>4. InHand(i) \in Sequenced
  BY <1>3 DEF InHand, Sequenced
<1> QED
  BY <1>1, <1>2, <1>3, <1>4

LEMMA ReloadStep ==
    ASSUME Types, NEW c \in Clients, Connected(c), Line(client[c].on), Reload(c)
    PROVE  /\ ClientsTyped /\ Others(c) /\ client[c].on \in Loads
           /\ client'[c] = [pc |-> "off", on |-> 0, last |-> Current(cursor[client[c].on]),
                            from |-> client[c].on, floor |-> 0, at |-> 0, todo |-> <<>>,
                            connects |-> client[c].connects]
           /\ view'[c] = [seen |-> view[c].seen, twice |-> view[c].twice, since |-> emitted,
                          told |-> TRUE, scars |-> {}]
<1> DEFINE i == client[c].on
           current == Current(cursor[i])
           K == [pc |-> "off", on |-> 0, last |-> current, from |-> i, floor |-> 0, at |-> 0,
                 todo |-> <<>>, connects |-> client[c].connects]
           V == [seen |-> view[c].seen, twice |-> view[c].twice, since |-> emitted,
                 told |-> TRUE, scars |-> {}]
<1>1. /\ client[c] \in ClientType /\ view[c] \in ViewType /\ emitted \in Nat
      /\ client[c].on \in Loads /\ client[c].on \in Nat
  <2>1. client[c].on \in 1..loads
    BY DEF Connected, Reload
  <2> QED
    BY <2>1, LoadsSoFar DEF Types
<1>2. current \in Nat
  <2>1. cursor[i].next \in Nat /\ cursor[i].next >= 1
    BY <1>1, LoadTyped DEF Line
  <2> QED
    BY <2>1 DEF Current
<1>3. client' = [client EXCEPT ![c] = [CutOff(c) EXCEPT !.last = current, !.from = i]]
  BY DEF Reload
<1>4. view' = [view EXCEPT ![c] = [view[c] EXCEPT !.since = emitted, !.told = TRUE, !.scars = {}]]
  BY DEF Reload, Told
<1>5. /\ CutOff(c) \in ClientType /\ CutOff(c).connects = client[c].connects
      /\ CutOff(c).pc = "off" /\ CutOff(c).on = 0 /\ CutOff(c).floor = 0 /\ CutOff(c).at = 0
      /\ CutOff(c).todo = <<>>
  BY CutOffTyped
<1> HIDE DEF current
<1>6. client'[c] = K
  <2>1. client'[c] = [CutOff(c) EXCEPT !.last = current, !.from = i]
    BY <1>3 DEF Types
  <2> QED
    BY <1>5, <2>1 DEF ClientType
<1>7. view'[c] = V
  <2>1. view'[c] = [view[c] EXCEPT !.since = emitted, !.told = TRUE, !.scars = {}]
    BY <1>4 DEF Types
  <2> QED
    BY <1>1, <2>1 DEF ViewType
<1>8. K \in ClientType /\ V \in ViewType
  <2>1. K \in ClientType
    <3>1. <<>> \in Seq(Sequenced) /\ "off" \in {"off", "replay", "load", "reload", "live"}
      OBVIOUS
    <3> QED
      BY <1>1, <1>2, <3>1, ClientFields, ClientRecord
  <2>2. V \in ViewType
    BY <1>1, ViewFields, ViewRecord
  <2> QED
    BY <2>1, <2>2
<1> HIDE DEF K, V
<1>9. ClientsTyped /\ Others(c)
  BY <1>3, <1>4, <1>6, <1>7, <1>8, ClientReplaced, ViewReplaced DEF Types, ClientsTyped, Others
<1> QED
  BY <1>1, <1>6, <1>7, <1>9 DEF K, V, current

LEMMA GivesStep ==
    ASSUME Types, NEW c \in Clients, NEW e \in Sequenced, Gives(c, e)
    PROVE  /\ ClientsTyped /\ Others(c)
           /\ client'[c] = [pc |-> client[c].pc, on |-> client[c].on, last |-> e.seq,
                            from |-> client[c].on,
                            floor |-> IF e.seq > client[c].floor THEN e.seq ELSE client[c].floor,
                            at |-> IF client[c].todo = <<>> THEN client[c].at + 1 ELSE client[c].at,
                            todo |-> IF client[c].todo # <<>> THEN Tail(client[c].todo)
                                     ELSE client[c].todo,
                            connects |-> client[c].connects]
           /\ view'[c].seen = view[c].seen \union {e.ev}
           /\ view'[c].twice = (view[c].twice \/ e.ev \in view[c].seen)
           /\ view'[c].since = view[c].since /\ view'[c].told = view[c].told
           /\ view'[c].scars = view[c].scars
<1> DEFINE floor == IF e.seq > client[c].floor THEN e.seq ELSE client[c].floor
           at == IF client[c].todo = <<>> THEN client[c].at + 1 ELSE client[c].at
           todo == IF client[c].todo # <<>> THEN Tail(client[c].todo) ELSE client[c].todo
           seen == view[c].seen \union {e.ev}
           twice == view[c].twice \/ e.ev \in view[c].seen
           K == [pc |-> client[c].pc, on |-> client[c].on, last |-> e.seq, from |-> client[c].on,
                 floor |-> floor, at |-> at, todo |-> todo, connects |-> client[c].connects]
           V == [seen |-> seen, twice |-> twice, since |-> view[c].since,
                 told |-> view[c].told, scars |-> view[c].scars]
<1>1. /\ client[c] \in ClientType /\ view[c] \in ViewType
      /\ e.seq \in Nat /\ e.ev \in Nat
  BY DEF Types, Sequenced
<1>2. floor \in Nat /\ at \in Nat /\ todo \in Seq(Sequenced)
  <2>1. client[c].floor \in Nat /\ client[c].at \in Nat /\ client[c].todo \in Seq(Sequenced)
    BY <1>1, ClientFields
  <2>2. client[c].todo # <<>> => Tail(client[c].todo) \in Seq(Sequenced)
    BY <2>1
  <2> QED
    BY <1>1, <2>1, <2>2
<1>3. seen \in SUBSET Nat /\ twice \in BOOLEAN
  BY <1>1, ViewFields
<1>4. client' = [client EXCEPT ![c] = [client[c] EXCEPT !.floor = floor, !.last = e.seq,
                                                        !.from = client[c].on, !.todo = todo,
                                                        !.at = at]]
  BY DEF Gives
<1>5. view' = [view EXCEPT ![c] = [view[c] EXCEPT !.seen = seen, !.twice = twice]]
  BY DEF Gives
<1> HIDE DEF floor, at, todo, seen, twice
<1>6. client'[c] = K
  <2>1. client'[c] = [client[c] EXCEPT !.floor = floor, !.last = e.seq, !.from = client[c].on,
                                       !.todo = todo, !.at = at]
    BY <1>4 DEF Types
  <2> QED
    BY <1>1, <2>1 DEF ClientType
<1>7. view'[c] = V
  <2>1. view'[c] = [view[c] EXCEPT !.seen = seen, !.twice = twice]
    BY <1>5 DEF Types
  <2> QED
    BY <1>1, <2>1 DEF ViewType
<1>8. K \in ClientType /\ V \in ViewType
  <2>1. K \in ClientType
    <3>1. /\ client[c].pc \in {"off", "replay", "load", "reload", "live"}
          /\ client[c].on \in Nat /\ client[c].connects \in Nat
      BY <1>1, ClientFields
    <3> QED
      BY <1>1, <1>2, <3>1, ClientRecord
  <2>2. V \in ViewType
    BY <1>1, <1>3, ViewFields, ViewRecord
  <2> QED
    BY <2>1, <2>2
<1>9. /\ view'[c].seen = seen /\ view'[c].twice = twice /\ view'[c].since = view[c].since
      /\ view'[c].told = view[c].told /\ view'[c].scars = view[c].scars
  BY <1>7
<1> HIDE DEF K, V
<1>10. ClientsTyped /\ Others(c)
  BY <1>4, <1>5, <1>6, <1>7, <1>8, ClientReplaced, ViewReplaced DEF Types, ClientsTyped, Others
<1> QED
  BY <1>6, <1>9, <1>10 DEF K, floor, at, todo, seen, twice

LEMMA SkipStep ==
    ASSUME Types, NEW c \in Clients, UNCHANGED view,
           client' = [client EXCEPT ![c].at = @ + 1]
    PROVE  /\ ClientsTyped /\ Others(c)
           /\ client'[c] = [pc |-> client[c].pc, on |-> client[c].on, last |-> client[c].last,
                            from |-> client[c].from, floor |-> client[c].floor,
                            at |-> client[c].at + 1, todo |-> client[c].todo,
                            connects |-> client[c].connects]
<1> DEFINE at == client[c].at + 1
           K == [pc |-> client[c].pc, on |-> client[c].on, last |-> client[c].last,
                 from |-> client[c].from, floor |-> client[c].floor, at |-> at,
                 todo |-> client[c].todo, connects |-> client[c].connects]
<1>1. client[c] \in ClientType
  BY DEF Types
<1>2. at \in Nat
  BY <1>1, ClientFields
<1>3. client' = [client EXCEPT ![c] = [client[c] EXCEPT !.at = at]]
  OBVIOUS
<1> HIDE DEF at
<1>4. client'[c] = K
  <2>1. client'[c] = [client[c] EXCEPT !.at = at]
    BY <1>3 DEF Types
  <2> QED
    BY <1>1, <2>1 DEF ClientType
<1>5. K \in ClientType
  <2>1. /\ client[c].pc \in {"off", "replay", "load", "reload", "live"}
        /\ client[c].on \in Nat /\ client[c].last \in {NoId} \union Nat
        /\ client[c].from \in Nat /\ client[c].floor \in Nat
        /\ client[c].todo \in Seq(Sequenced) /\ client[c].connects \in Nat
    BY <1>1, ClientFields
  <2> QED
    BY <1>2, <2>1, ClientRecord
<1> HIDE DEF K
<1>6. ClientsTyped /\ Others(c)
  BY <1>3, <1>4, <1>5, ClientReplaced DEF Types, ClientsTyped, Others
<1> QED
  BY <1>4, <1>6 DEF K, at

LEMMA LaggedStep ==
    ASSUME Types, NEW c \in Clients, Connected(c), Line(client[c].on), ForwardLagged(c)
    PROVE  /\ ClientsTyped /\ Others(c) /\ client[c].on \in Loads
           /\ Len(sent[client[c].on]) - LiveCapacity \in 1..Len(sent[client[c].on])
           /\ client'[c] = [pc |-> client[c].pc, on |-> client[c].on,
                            last |-> Current(cursor[client[c].on]), from |-> client[c].on,
                            floor |-> client[c].floor,
                            at |-> Len(sent[client[c].on]) - LiveCapacity,
                            todo |-> client[c].todo, connects |-> client[c].connects]
           /\ view'[c] = [seen |-> view[c].seen, twice |-> view[c].twice, since |-> emitted,
                          told |-> TRUE, scars |-> view[c].scars]
<1> DEFINE i == client[c].on
           current == Current(cursor[i])
           at == Len(sent[i]) - LiveCapacity
           K == [pc |-> client[c].pc, on |-> i, last |-> current, from |-> i,
                 floor |-> client[c].floor, at |-> at, todo |-> client[c].todo,
                 connects |-> client[c].connects]
           V == [seen |-> view[c].seen, twice |-> view[c].twice, since |-> emitted,
                 told |-> TRUE, scars |-> view[c].scars]
<1>1. /\ client[c] \in ClientType /\ view[c] \in ViewType /\ emitted \in Nat
      /\ client[c].on \in Loads /\ client[c].on \in Nat
  <2>1. client[c].on \in 1..loads
    BY DEF Connected, ForwardLagged, Waits
  <2> QED
    BY <2>1, LoadsSoFar DEF Types
<1>2. current \in Nat
  <2>1. cursor[i].next \in Nat /\ cursor[i].next >= 1
    BY <1>1, LoadTyped DEF Line
  <2> QED
    BY <2>1 DEF Current
<1>3. at \in 1..Len(sent[i]) /\ at \in Nat
  <2>1. sent[i] \in Seq(Sequenced) /\ client[c].at \in Nat
    BY <1>1, ClientFields DEF Types
  <2>2. Len(sent[i]) \in Nat /\ Len(sent[i]) - client[c].at > LiveCapacity
    BY <2>1 DEF ForwardLagged, Unread
  <2>3. LiveCapacity \in Nat \ {0}
    BY SseAssumption
  <2>4. \A x, y, z \in Nat : x - y > z /\ z # 0 => x - z \in 1..x /\ x - z \in Nat
    OBVIOUS
  <2> QED
    BY <2>1, <2>2, <2>3, <2>4
<1>4. client' = [client EXCEPT ![c] = [client[c] EXCEPT !.at = at, !.last = current, !.from = i]]
  BY DEF ForwardLagged
<1>5. view' = [view EXCEPT ![c] = [view[c] EXCEPT !.since = emitted, !.told = TRUE,
                                                  !.scars = view[c].scars]]
  BY DEF ForwardLagged, Told
<1> HIDE DEF current, at
<1>6. client'[c] = K
  <2>1. client'[c] = [client[c] EXCEPT !.at = at, !.last = current, !.from = i]
    BY <1>4 DEF Types
  <2> QED
    BY <1>1, <2>1 DEF ClientType
<1>7. view'[c] = V
  <2>1. view'[c] = [view[c] EXCEPT !.since = emitted, !.told = TRUE, !.scars = view[c].scars]
    BY <1>5 DEF Types
  <2> QED
    BY <1>1, <2>1 DEF ViewType
<1>8. K \in ClientType /\ V \in ViewType
  <2>1. K \in ClientType
    <3>1. /\ client[c].pc \in {"off", "replay", "load", "reload", "live"}
          /\ client[c].floor \in Nat /\ client[c].todo \in Seq(Sequenced)
          /\ client[c].connects \in Nat
      BY <1>1, ClientFields
    <3> QED
      BY <1>1, <1>2, <1>3, <3>1, ClientRecord
  <2>2. V \in ViewType
    BY <1>1, <1>3, ViewFields, ViewRecord
  <2> QED
    BY <2>1, <2>2
<1> HIDE DEF K, V
<1>9. ClientsTyped /\ Others(c)
  BY <1>4, <1>5, <1>6, <1>7, <1>8, ClientReplaced, ViewReplaced DEF Types, ClientsTyped, Others
<1> QED
  BY <1>1, <1>3, <1>6, <1>7, <1>9 DEF K, V, current, at

LEMMA DisconnectStep ==
    ASSUME Types, NEW c \in Clients, Disconnect(c)
    PROVE  ClientsTyped /\ Others(c) /\ view' = view /\ client'[c] = CutOff(c)
BY CutOffTyped DEF Types, Disconnect, ClientsTyped, Others

--------------------------------------------------------------------------------
(***************************************************************************)
(* The server's steps.  All but a restart only add to a load: what was     *)
(* sent and the entries stay, a new entry has the next number and an event *)
(* from the bus, and a new event on the bus is later than all before it.   *)
(***************************************************************************)
CountsOn(i) ==
    /\ emitted' >= emitted /\ cursor'[i].next >= cursor[i].next
    /\ cursor[i].buffer # <<>> => cursor'[i].buffer # <<>>
    /\ Len(sent'[i]) >= Len(sent[i]) /\ \A n \in DOMAIN sent[i] : sent'[i][n] = sent[i][n]
    /\ \A e \in Sequenced : SentOrInHand(i, e) => SentOrInHand(i, e)'
    /\ \A e \in Sequenced : SentOrInHand(i, e)' =>
          \/ SentOrInHand(i, e)
          \/ e.seq >= cursor[i].next /\ \E j \in DOMAIN bus[i] : bus[i][j] = e.ev
    /\ \A k \in DOMAIN bus'[i] :
          bus'[i][k] > emitted \/ \E j \in DOMAIN bus[i] : bus[i][j] = bus'[i][k]

(* What is the same in two states is the same for the line and its growth. *)
LEMMA LineKept ==
    ASSUME Types, NEW i \in Loads, Line(i), emitted' \in Nat, emitted' >= emitted,
           sequencer'[i] = sequencer[i], sent'[i] = sent[i], bus'[i] = bus[i],
           cursor'[i] \in CursorType, cursor'[i].buffer = cursor[i].buffer,
           cursor'[i].next >= cursor[i].next
    PROVE  Line(i)' /\ CountsOn(i)
<1> USE LoadTyped
<1>0. cursor'[i].next \in Nat
  BY DEF CursorType
<1>1. \A e : SentOrInHand(i, e)' <=> SentOrInHand(i, e)
  BY DEF SentOrInHand, InHand
<1>2. \A k \in DOMAIN bus[i] : bus[i][k] <= emitted'
  BY DEF Line, SentInOrder
<1>3. SentInOrder(i)'
  BY <1>2 DEF Line, SentInOrder
<1>4. Trails(i)'
  <2> SUFFICES ASSUME NEW e \in Sequenced, SentOrInHand(i, e)
               PROVE  /\ 1 <= e.seq /\ e.seq < cursor'[i].next /\ e.ev <= emitted'
                      /\ \A k \in DOMAIN bus[i] : e.ev < bus[i][k]
    BY <1>1 DEF Trails
  <2>1. e.seq \in Nat /\ e.ev \in Nat
    BY DEF Sequenced
  <2> QED
    BY <1>0, <2>1 DEF Line, Trails
<1>5. Buffered(i)'
  BY <1>1 DEF Line, Buffered, InSequence
<1>6. CountsOn(i)
  BY <1>1 DEF CountsOn
<1> QED
  BY <1>0, <1>3, <1>4, <1>5, <1>6 DEF Line

LEMMA LineSame ==
    ASSUME Types, NEW i \in Loads, Line(i), emitted' \in Nat, emitted' >= emitted,
           sequencer'[i] = sequencer[i], sent'[i] = sent[i], bus'[i] = bus[i],
           cursor'[i] = cursor[i]
    PROVE  Line(i)' /\ CountsOn(i)
<1>1. cursor[i] \in CursorType /\ cursor[i].next \in Nat
  BY LoadTyped
<1>2. /\ cursor'[i] \in CursorType /\ cursor'[i].buffer = cursor[i].buffer
      /\ cursor'[i].next >= cursor[i].next
  BY <1>1
<1> QED
  BY <1>2, LineKept

LEMMA EmitStep ==
    ASSUME Types, \A i \in Loads : Line(i), Emit
    PROVE  Types' /\ \A i \in Loads : Line(i)' /\ CountsOn(i)
<1>0. /\ loaded \in Loads /\ emitted \in Nat /\ emitted' = emitted + 1
      /\ sent' = sent /\ cursor' = cursor /\ sequencer' = sequencer
  BY LoadsSoFar DEF Emit, Types
<1> DEFINE rest == IF Len(bus[loaded]) >= BusCapacity THEN Tail(bus[loaded]) ELSE bus[loaded]
<1>1. /\ rest \in Seq(Nat)
      /\ \E d \in {0, 1} : /\ DOMAIN rest = 1..(Len(bus[loaded]) - d)
                           /\ \A k \in DOMAIN rest : rest[k] = bus[loaded][k + d]
  <2>1. bus[loaded] \in Seq(Nat) /\ Len(bus[loaded]) \in Nat /\ BusCapacity \in Nat \ {0}
    BY <1>0, LoadTyped, SseAssumption
  <2>2. CASE Len(bus[loaded]) >= BusCapacity
    <3>1. bus[loaded] # <<>>
      BY <2>1, <2>2
    <3>2. /\ Tail(bus[loaded]) \in Seq(Nat)
          /\ DOMAIN Tail(bus[loaded]) = 1..(Len(bus[loaded]) - 1)
          /\ \A k \in DOMAIN Tail(bus[loaded]) : Tail(bus[loaded])[k] = bus[loaded][k + 1]
      BY <2>1, <3>1
    <3> QED
      BY <2>2, <3>2
  <2>3. CASE ~(Len(bus[loaded]) >= BusCapacity)
    <3>1. /\ DOMAIN bus[loaded] = 1..(Len(bus[loaded]) - 0)
          /\ \A k \in DOMAIN bus[loaded] : bus[loaded][k] = bus[loaded][k + 0]
      BY <2>1
    <3> QED
      BY <2>1, <2>3, <3>1
  <2> QED
    BY <2>2, <2>3
<1>2. bus' = [bus EXCEPT ![loaded] = Append(rest, emitted + 1)]
  BY DEF Emit, Broadcasts
<1> HIDE DEF rest
<1>3. Append(rest, emitted + 1) \in Seq(Nat)
  BY <1>0, <1>1
<1>4. bus' \in [Loads -> Seq(Nat)] /\ bus'[loaded] = Append(rest, emitted + 1)
      /\ \A i \in Loads \ {loaded} : bus'[i] = bus[i]
  BY <1>0, <1>2, <1>3 DEF Types
<1>5. disk' \in Seq(Nat) /\ durable_seq' \in [Loads -> Nat]
  <2>1. disk \in Seq(Nat) /\ durable_seq \in [Loads -> Nat] /\ Len(disk) + 1 \in Nat
        /\ emitted + 1 \in Nat
    BY <1>0 DEF Types
  <2>2. CASE emitted + 1 \in Transient
    BY <2>1, <2>2 DEF Emit
  <2>3. CASE emitted + 1 \notin Transient
    <3>1. /\ disk' = Append(disk, emitted + 1)
          /\ durable_seq' = [durable_seq EXCEPT ![loaded] = Len(disk) + 1]
      BY <2>3 DEF Emit
    <3>2. disk' \in Seq(Nat)
      BY <2>1, <3>1
    <3>3. durable_seq' \in [Loads -> Nat]
      BY <2>1, <3>1
    <3> QED
      BY <3>2, <3>3
  <2> QED
    BY <2>2, <2>3
<1>6. Types'
  <2>1. /\ loads' = loads /\ loaded' = loaded /\ client' = client /\ view' = view
        /\ emitted' \in Nat
    BY <1>0 DEF Emit
  <2> QED
    BY <1>0, <1>4, <1>5, <2>1 DEF Types
<1>7. ASSUME NEW i \in Loads, i # loaded PROVE Line(i)' /\ CountsOn(i)
  <2>1. /\ emitted' \in Nat /\ emitted' >= emitted /\ sequencer'[i] = sequencer[i]
        /\ sent'[i] = sent[i] /\ cursor'[i] = cursor[i]
    BY <1>0
  <2>2. bus'[i] = bus[i]
    BY <1>4, <1>7
  <2>3. Line(i)
    OBVIOUS
  <2> QED
    BY <2>1, <2>2, <2>3, LineSame
<1>8. ASSUME NEW i \in Loads, i = loaded PROVE Line(i)' /\ CountsOn(i)
  <2>0. /\ bus'[i] = Append(rest, emitted + 1)
        /\ \E d \in {0, 1} : /\ DOMAIN rest = 1..(Len(bus[i]) - d)
                             /\ \A k \in DOMAIN rest : rest[k] = bus[i][k + d]
    BY <1>1, <1>4, <1>8
  <2>1. PICK d \in {0, 1} : /\ DOMAIN rest = 1..(Len(bus[i]) - d)
                            /\ \A k \in DOMAIN rest : rest[k] = bus[i][k + d]
    BY <2>0
  <2>2. Line(i)
    OBVIOUS
  <2>3. /\ Len(rest) \in Nat /\ DOMAIN rest = 1..Len(rest)
        /\ DOMAIN bus'[i] = 1..(Len(rest) + 1) /\ bus'[i][Len(rest) + 1] = emitted + 1
        /\ \A k \in 1..Len(rest) : bus'[i][k] = rest[k]
    BY <1>0, <1>1, <2>0
  <2>4. \A k \in 1..Len(rest) : k + d \in DOMAIN bus[i] /\ bus'[i][k] = bus[i][k + d]
    <3>1. DOMAIN bus[i] = 1..Len(bus[i]) /\ Len(bus[i]) \in Nat
      BY LoadTyped
    <3>2. \A k \in 1..Len(rest) : k \in 1..(Len(bus[i]) - d) /\ k + d \in 1..Len(bus[i])
      BY <2>1, <2>3, <3>1
    <3> QED
      BY <2>1, <2>3, <3>1, <3>2
  <2>5. \A k \in DOMAIN bus'[i] :
           \/ k = Len(rest) + 1 /\ bus'[i][k] = emitted + 1
           \/ k \in 1..Len(rest) /\ k + d \in DOMAIN bus[i] /\ bus'[i][k] = bus[i][k + d]
    BY <2>3, <2>4
  <2>6. \A e : SentOrInHand(i, e)' <=> SentOrInHand(i, e)
    BY <1>0 DEF SentOrInHand, InHand
  <2>7. SentInOrder(i)'
    <3>1. InSequence(sent[i])'
      BY <1>0, <2>2 DEF Line, SentInOrder
    <3>2. ASSUME NEW j \in DOMAIN bus'[i], NEW k \in DOMAIN bus'[i], j < k
          PROVE  bus'[i][j] < bus'[i][k]
      <4>1. CASE k = Len(rest) + 1
        <5>1. j \in 1..Len(rest)
          BY <2>3, <3>2, <4>1
        <5>2. bus'[i][j] = bus[i][j + d] /\ bus[i][j + d] <= emitted /\ bus[i][j + d] \in Nat
          BY <2>2, <2>4, <5>1, LoadTyped DEF Line, SentInOrder
        <5> QED
          BY <1>0, <2>3, <4>1, <5>2
      <4>2. CASE k \in 1..Len(rest)
        <5>1. j \in 1..Len(rest) /\ j + d < k + d
          BY <2>3, <3>2, <4>2
        <5> QED
          BY <2>2, <2>4, <4>2, <5>1 DEF Line, SentInOrder
      <4> QED
        BY <2>3, <4>1, <4>2
    <3>3. ASSUME NEW k \in DOMAIN bus'[i] PROVE bus'[i][k] <= emitted'
      <4>1. \A j \in DOMAIN bus[i] : bus[i][j] \in Nat /\ bus[i][j] <= emitted
        BY <2>2, LoadTyped DEF Line, SentInOrder
      <4>2. \A j \in DOMAIN bus[i] : bus[i][j] <= emitted + 1
        BY <1>0, <4>1
      <4> QED
        BY <1>0, <2>5, <4>2
    <3>4. sequencer[i].pc = "send" =>
          \A n \in DOMAIN sent[i] : /\ sent[i][n].seq < sequencer[i].seq
                                    /\ sent[i][n].ev < sequencer[i].ev
      BY <2>2 DEF Line, SentInOrder
    <3> QED
      BY <1>0, <3>1, <3>2, <3>3, <3>4 DEF SentInOrder
  <2>8. Trails(i)'
    <3> SUFFICES ASSUME NEW e \in Sequenced, SentOrInHand(i, e)
                 PROVE  /\ 1 <= e.seq /\ e.seq < cursor'[i].next /\ e.ev <= emitted'
                        /\ \A k \in DOMAIN bus'[i] : e.ev < bus'[i][k]
      BY <2>6 DEF Trails
    <3>1. /\ 1 <= e.seq /\ e.seq < cursor[i].next /\ e.ev <= emitted
          /\ \A k \in DOMAIN bus[i] : e.ev < bus[i][k]
      BY <2>2 DEF Line, Trails
    <3>2. e.ev \in Nat
      BY DEF Sequenced
    <3>3. e.ev <= emitted' /\ e.ev < emitted + 1
      BY <1>0, <3>1, <3>2
    <3> QED
      BY <1>0, <2>5, <3>1, <3>3
  <2>9. Buffered(i)'
    BY <1>0, <2>2, <2>6 DEF Line, Buffered, InSequence
  <2>10. CountsOn(i)
    <3>1. \A k \in DOMAIN bus'[i] :
             bus'[i][k] > emitted \/ \E j \in DOMAIN bus[i] : bus[i][j] = bus'[i][k]
      BY <1>0, <2>5
    <3>2. \A e \in Sequenced : SentOrInHand(i, e)' <=> SentOrInHand(i, e)
      BY <2>6
    <3>3. emitted' >= emitted /\ cursor'[i].next >= cursor[i].next /\ Len(sent'[i]) >= Len(sent[i])
      BY <1>0, LoadTyped
    <3> QED
      BY <1>0, <3>1, <3>2, <3>3 DEF CountsOn
  <2> QED
    BY <1>0, <2>2, <2>7, <2>8, <2>9, <2>10 DEF Line
<1> QED
  BY <1>6, <1>7, <1>8

(* The entries of a load ascend by number and by event alike. *)
LEMMA EntriesAscend ==
    ASSUME Types, NEW i \in Loads, SentInOrder(i),
           NEW e \in Sequenced, NEW f \in Sequenced, SentOrInHand(i, e), SentOrInHand(i, f), e.seq < f.seq
    PROVE  e.ev < f.ev
<1>1. e.seq \in Nat /\ f.seq \in Nat
  BY DEF Sequenced
<1>2. ASSUME NEW m \in DOMAIN sent[i], NEW n \in DOMAIN sent[i], sent[i][m] = e, sent[i][n] = f
      PROVE  e.ev < f.ev
  <2>1. m \in Nat /\ n \in Nat
    BY LoadTyped
  <2>2. ~(n < m) /\ n # m
    BY <1>1, <1>2 DEF SentInOrder, InSequence
  <2>3. m < n
    BY <2>1, <2>2
  <2> QED
    BY <1>2, <2>3 DEF SentInOrder, InSequence
<1>3. ASSUME NEW m \in DOMAIN sent[i], sent[i][m] = e, sequencer[i].pc = "send", f = InHand(i)
      PROVE  e.ev < f.ev
  BY <1>3 DEF SentInOrder, InHand
<1>4. ASSUME sequencer[i].pc = "send", e = InHand(i), NEW n \in DOMAIN sent[i], sent[i][n] = f
      PROVE  FALSE
  <2>1. f.seq < e.seq
    BY <1>4 DEF SentInOrder, InHand
  <2> QED
    BY <1>1, <2>1
<1> QED
  BY <1>1, <1>2, <1>3, <1>4 DEF SentOrInHand

LEMMA NumberStep ==
    ASSUME Types, \A i \in Loads : Line(i), NEW i \in Loads, Number(i)
    PROVE  Types' /\ \A j \in Loads : Line(j)' /\ CountsOn(j)
<1> DEFINE item == [seq |-> cursor[i].next, ev |-> Head(bus[i])]
           buffer == cursor[i].buffer
           pushed == Push(buffer, item)
<1>1. /\ bus[i] # <<>> /\ Head(bus[i]) = bus[i][1] /\ Head(bus[i]) \in Nat /\ 1 \in DOMAIN bus[i]
      /\ Tail(bus[i]) \in Seq(Nat) /\ DOMAIN Tail(bus[i]) = 1..(Len(bus[i]) - 1)
      /\ \A k \in DOMAIN Tail(bus[i]) :
            k + 1 \in DOMAIN bus[i] /\ k + 1 > 1 /\ Tail(bus[i])[k] = bus[i][k + 1]
  <2>1. bus[i] \in Seq(Nat) /\ bus[i] # <<>>
    BY LoadTyped DEF Number
  <2> QED
    BY <2>1
<1>2. item \in Sequenced /\ item.seq = cursor[i].next /\ item.ev = bus[i][1]
  BY <1>1, LoadTyped DEF Sequenced
<1>3. pushed \in Seq(Sequenced)
  BY <1>2, LoadTyped, PushTyped
<1>4. /\ bus' = [bus EXCEPT ![i] = Tail(@)]
      /\ sequencer' = [sequencer EXCEPT ![i] = [pc |-> "send", ev |-> item.ev, seq |-> item.seq]]
      /\ cursor' = [cursor EXCEPT ![i] = [cursor[i] EXCEPT !.buffer = pushed,
                                                           !.next = cursor[i].next + 1]]
      /\ sequencer[i].pc = "recv" /\ emitted' = emitted /\ sent' = sent
      /\ disk' = disk /\ loads' = loads /\ loaded' = loaded /\ durable_seq' = durable_seq
      /\ client' = client /\ view' = view
  BY DEF Number
<1> HIDE DEF pushed
<1>5. cursor'[i] = [buffer |-> pushed, next |-> cursor[i].next + 1, durable |-> cursor[i].durable]
  <2>1. cursor'[i] = [cursor[i] EXCEPT !.buffer = pushed, !.next = cursor[i].next + 1]
    BY <1>4 DEF Types
  <2>2. cursor[i] \in CursorType
    BY LoadTyped
  <2> QED
    BY <2>1, <2>2 DEF CursorType
<1>6. cursor'[i] \in CursorType
  <2>1. cursor[i].next + 1 \in Nat /\ cursor[i].durable \in Nat
    BY LoadTyped
  <2> QED
    BY <1>3, <1>5, <2>1 DEF CursorType
<1>7. /\ bus'[i] = Tail(bus[i]) /\ cursor' \in [Loads -> CursorType]
      /\ bus' \in [Loads -> Seq(Nat)]
      /\ \A j \in Loads \ {i} : bus'[j] = bus[j] /\ cursor'[j] = cursor[j]
  BY <1>1, <1>4, <1>6 DEF Types
<1>8. /\ sequencer'[i] = [pc |-> "send", ev |-> item.ev, seq |-> item.seq]
      /\ sequencer' \in [Loads -> SequencerType]
      /\ \A j \in Loads \ {i} : sequencer'[j] = sequencer[j]
  <2>1. [pc |-> "send", ev |-> item.ev, seq |-> item.seq] \in SequencerType
    BY <1>2 DEF SequencerType, Sequenced
  <2> HIDE DEF item
  <2> QED
    BY <1>4, <2>1 DEF Types
<1>9. Types'
  BY <1>4, <1>7, <1>8 DEF Types
<1>10. ASSUME NEW j \in Loads, j # i PROVE Line(j)' /\ CountsOn(j)
  <2>1. /\ emitted' = emitted /\ sequencer'[j] = sequencer[j] /\ sent'[j] = sent[j]
        /\ bus'[j] = bus[j] /\ cursor'[j] = cursor[j]
    BY <1>4, <1>7, <1>8, <1>10
  <2>2. emitted \in Nat /\ emitted' \in Nat /\ emitted' >= emitted
    BY <2>1, LoadTyped
  <2>3. Line(j)
    OBVIOUS
  <2> QED
    BY <2>1, <2>2, <2>3, LineSame
<1>11. Line(i)' /\ CountsOn(i)
  <2>1. /\ cursor'[i].next = cursor[i].next + 1 /\ cursor'[i].buffer = pushed
        /\ sequencer'[i].pc = "send" /\ sequencer'[i].ev = item.ev /\ sequencer'[i].seq = item.seq
    BY <1>5, <1>8
  <2>2. InHand(i)' = item
    BY <1>2, <2>1 DEF InHand, Sequenced
  <2> HIDE DEF item
  <2>3. \A e : SentOrInHand(i, e)' <=> SentOrInHand(i, e) \/ e = item
    BY <1>4, <2>1, <2>2 DEF SentOrInHand
  <2>4. ASSUME NEW e \in Sequenced, SentOrInHand(i, e)
        PROVE  /\ e.seq \in Nat /\ e.ev \in Nat /\ 1 <= e.seq /\ e.ev <= emitted
               /\ e.seq < item.seq /\ e.ev < item.ev
               /\ \A k \in DOMAIN bus[i] : e.ev < bus[i][k]
    BY <1>1, <1>2, <2>4 DEF Line, Trails, Sequenced
  <2>5. item.seq \in Nat /\ item.ev \in Nat /\ item.seq >= 1 /\ item.ev <= emitted
    BY <1>1, <1>2, LoadTyped DEF Sequenced, Line, SentInOrder
  <2>6. \A k \in DOMAIN bus'[i] : k + 1 \in DOMAIN bus[i] /\ bus'[i][k] = bus[i][k + 1]
                                  /\ item.ev < bus[i][k + 1]
    BY <1>1, <1>2, <1>7 DEF Line, SentInOrder
  <2>7. SentInOrder(i)'
    <3>1. InSequence(sent[i])'
      BY <1>4 DEF Line, SentInOrder
    <3>2. \A n \in DOMAIN sent[i] : sent[i][n].seq < item.seq /\ sent[i][n].ev < item.ev
      BY <2>4, LoadTyped DEF SentOrInHand
    <3>3. ASSUME NEW j \in DOMAIN bus'[i], NEW k \in DOMAIN bus'[i], j < k
          PROVE  bus'[i][j] < bus'[i][k]
      <4>1. j + 1 < k + 1
        BY <1>1, <1>7, <3>3, LoadTyped
      <4> QED
        BY <2>6, <4>1 DEF Line, SentInOrder
    <3>4. \A k \in DOMAIN bus'[i] : bus'[i][k] <= emitted
      BY <2>6 DEF Line, SentInOrder
    <3> QED
      BY <1>4, <2>1, <3>1, <3>2, <3>3, <3>4 DEF SentInOrder
  <2>8. Trails(i)'
    <3> SUFFICES ASSUME NEW e \in Sequenced, SentOrInHand(i, e) \/ e = item
                 PROVE  /\ 1 <= e.seq /\ e.seq < cursor[i].next + 1 /\ e.ev <= emitted
                        /\ \A k \in DOMAIN bus'[i] : e.ev < bus'[i][k]
      BY <1>4, <2>1, <2>3 DEF Trails
    <3>1. CASE e = item
      BY <1>2, <2>5, <2>6, <3>1
    <3>2. CASE SentOrInHand(i, e)
      BY <1>2, <2>4, <2>5, <2>6, <3>2
    <3> QED
      BY <3>1, <3>2
  <2>9. PICK d \in {0, 1} :
           /\ DOMAIN pushed = 1..(Len(buffer) - d + 1)
           /\ Len(buffer) - d \in Nat
           /\ pushed[Len(buffer) - d + 1] = item
           /\ \A n \in 1..(Len(buffer) - d) : n + d \in DOMAIN buffer /\ pushed[n] = buffer[n + d]
    <3>1. buffer \in Seq(Sequenced) /\ Len(buffer) \in Nat /\ Capacity \in Nat
      BY LoadTyped, SseAssumption
    <3>2. CASE Len(buffer) < Capacity
      <4>1. pushed = Append(buffer, item)
        BY <1>2, <3>1, <3>2, PushTyped DEF pushed
      <4>2. /\ DOMAIN pushed = 1..(Len(buffer) - 0 + 1) /\ Len(buffer) - 0 \in Nat
            /\ pushed[Len(buffer) - 0 + 1] = item
            /\ \A n \in 1..(Len(buffer) - 0) : n + 0 \in DOMAIN buffer /\ pushed[n] = buffer[n + 0]
        BY <1>2, <3>1, <4>1
      <4> QED
        BY <4>2
    <3>3. CASE Len(buffer) >= Capacity
      <4>1. buffer # <<>> /\ pushed = Append(Tail(buffer), item)
        BY <1>2, <3>1, <3>3, PushTyped DEF pushed
      <4>2. /\ Tail(buffer) \in Seq(Sequenced) /\ Len(Tail(buffer)) = Len(buffer) - 1
            /\ \A n \in 1..(Len(buffer) - 1) : n + 1 \in DOMAIN buffer
                                               /\ Tail(buffer)[n] = buffer[n + 1]
        BY <3>1, <4>1
      <4>3. /\ DOMAIN pushed = 1..(Len(buffer) - 1 + 1) /\ Len(buffer) - 1 \in Nat
            /\ pushed[Len(buffer) - 1 + 1] = item
            /\ \A n \in 1..(Len(buffer) - 1) : pushed[n] = Tail(buffer)[n]
        BY <1>2, <3>1, <4>1, <4>2
      <4> QED
        BY <4>2, <4>3
    <3> QED
      BY <3>1, <3>2, <3>3
  <2>10. /\ InSequence(buffer) /\ DOMAIN buffer = 1..Len(buffer) /\ Len(buffer) \in Nat
         /\ \A n \in DOMAIN buffer : buffer[n] \in Sequenced /\ SentOrInHand(i, buffer[n])
         /\ \A e \in Sequenced : SentOrInHand(i, e) =>
               /\ buffer # <<>>
               /\ e.seq >= buffer[1].seq => \E n \in DOMAIN buffer : buffer[n] = e
    BY LoadTyped DEF Line, Buffered
  <2>11. Buffered(i)'
    <3>1. InSequence(pushed)
      <4> SUFFICES ASSUME NEW m \in DOMAIN pushed, NEW n \in DOMAIN pushed, m < n
                   PROVE  pushed[m].seq < pushed[n].seq /\ pushed[m].ev < pushed[n].ev
        BY DEF InSequence
      <4>1. m \in 1..(Len(buffer) - d)
        BY <2>9
      <4>2. CASE n = Len(buffer) - d + 1
        <5>1. m + d \in DOMAIN buffer /\ pushed[m] = buffer[m + d] /\ pushed[n] = item
          BY <2>9, <4>1, <4>2
        <5>2. buffer[m + d] \in Sequenced /\ SentOrInHand(i, buffer[m + d])
          BY <2>10, <5>1
        <5>3. buffer[m + d].seq < item.seq /\ buffer[m + d].ev < item.ev
          <6> HIDE DEF buffer
          <6> QED
            BY <2>4, <5>2
        <5> QED
          BY <5>1, <5>3
      <4>3. CASE n \in 1..(Len(buffer) - d)
        <5>1. m + d < n + d
          BY <2>9, <4>1, <4>3
        <5> QED
          BY <2>9, <2>10, <4>1, <4>3, <5>1 DEF InSequence
      <4> HIDE DEF buffer, item
      <4>4. n = Len(buffer) - d + 1 \/ n \in 1..(Len(buffer) - d)
        <5>1. n \in 1..(Len(buffer) - d + 1) /\ Len(buffer) - d \in Nat
          BY <2>9
        <5> QED
          BY <5>1
      <4> QED
        BY <4>2, <4>3, <4>4
    <3>2. \A n \in DOMAIN pushed : SentOrInHand(i, pushed[n]) \/ pushed[n] = item
      BY <2>9, <2>10
    <3>3. pushed # <<>>
      <4> HIDE DEF buffer, item
      <4>1. Len(buffer) - d + 1 \in DOMAIN pushed
        BY <2>9
      <4> QED
        BY <1>3, <4>1
    <3>4. ASSUME NEW e \in Sequenced, SentOrInHand(i, e) \/ e = item, e.seq >= pushed[1].seq
          PROVE  \E n \in DOMAIN pushed : pushed[n] = e
      <4>1. Len(buffer) - d + 1 \in DOMAIN pushed
        BY <2>9
      <4>2. CASE e = item
        BY <2>9, <4>1, <4>2
      <4>3. CASE SentOrInHand(i, e)
        <5>1. Len(buffer) - d # 0
          <6>1. SUFFICES ASSUME Len(buffer) - d = 0 PROVE FALSE
            OBVIOUS
          <6>2. pushed[1] = item
            BY <2>9, <6>1
          <6> QED
            BY <2>4, <2>5, <3>4, <4>3, <6>2
        <5>2. 1 \in 1..(Len(buffer) - d) /\ pushed[1] = buffer[1 + d] /\ 1 + d \in DOMAIN buffer
          BY <2>9, <5>1
        <5>3. buffer[1].seq <= buffer[1 + d].seq
          <6>1. 1 \in DOMAIN buffer /\ buffer[1].seq \in Nat
            BY <2>10, <5>2 DEF Sequenced
          <6>2. CASE d = 0
            BY <6>1, <6>2
          <6>3. CASE d = 1
            <7>1. 1 < 1 + d
              BY <6>3
            <7>2. buffer[1].seq < buffer[1 + d].seq
              BY <2>10, <5>2, <6>1, <7>1 DEF InSequence
            <7>3. buffer[1 + d].seq \in Nat
              BY <2>10, <5>2 DEF Sequenced
            <7> QED
              BY <6>1, <7>2, <7>3
          <6> QED
            BY <6>2, <6>3
        <5>4. /\ e.seq \in Nat /\ buffer[1].seq \in Nat /\ buffer[1 + d].seq \in Nat
              /\ e.seq >= buffer[1].seq
          <6>1. 1 \in DOMAIN buffer
            BY <2>10, <5>2
          <6>2. e.seq \in Nat /\ buffer[1].seq \in Nat /\ buffer[1 + d].seq \in Nat
            BY <2>10, <5>2, <6>1 DEF Sequenced
          <6> QED
            BY <3>4, <5>2, <5>3, <6>2
        <5>5. PICK n \in DOMAIN buffer : buffer[n] = e
          BY <2>10, <4>3, <5>4
        <5>6. n >= 1 + d
          <6>1. SUFFICES ASSUME n < 1 + d PROVE FALSE
            BY <2>10, <5>2
          <6>2. e.seq < buffer[1 + d].seq
            BY <2>10, <5>2, <5>5, <6>1 DEF InSequence
          <6> QED
            BY <3>4, <5>2, <5>4, <6>2
        <5>7. n - d \in 1..(Len(buffer) - d) /\ (n - d) + d = n
          BY <2>9, <2>10, <5>5, <5>6
        <5>8. n - d \in DOMAIN pushed /\ pushed[n - d] = e
          BY <2>9, <5>5, <5>7
        <5> QED
          BY <5>8
      <4> QED
        BY <3>4, <4>2, <4>3
    <3> QED
      BY <2>1, <2>3, <3>1, <3>2, <3>3, <3>4 DEF Buffered
  <2>12. CountsOn(i)
    <3>1. /\ emitted' >= emitted /\ cursor'[i].next >= cursor[i].next
          /\ Len(sent'[i]) >= Len(sent[i])
      BY <1>4, <2>1, LoadTyped
    <3>2. cursor'[i].buffer # <<>>
      BY <1>3, <2>1, <2>9, <2>10
    <3>3. \A e \in Sequenced : SentOrInHand(i, e)' =>
             \/ SentOrInHand(i, e)
             \/ e.seq >= cursor[i].next /\ \E j \in DOMAIN bus[i] : bus[i][j] = e.ev
      BY <1>1, <1>2, <2>3, LoadTyped
    <3>4. \A e \in Sequenced : SentOrInHand(i, e) => SentOrInHand(i, e)'
      BY <2>3
    <3> QED
      BY <1>4, <2>6, <3>1, <3>2, <3>3, <3>4 DEF CountsOn
  <2> QED
    BY <2>1, <2>7, <2>8, <2>11, <2>12, LoadTyped DEF Line
<1> QED
  BY <1>9, <1>10, <1>11

LEMMA SendOnStep ==
    ASSUME Types, \A i \in Loads : Line(i), NEW i \in Loads, SendOn(i)
    PROVE  Types' /\ \A j \in Loads : Line(j)' /\ CountsOn(j)
<1> DEFINE durable == durable_seq[i]
           last == Len(sent[i]) + 1
<1>1. /\ sequencer[i].pc = "send" /\ InHand(i) \in Sequenced
      /\ cursor' = [cursor EXCEPT ![i] = [cursor[i] EXCEPT !.durable = durable]]
      /\ sent' = [sent EXCEPT ![i] = Append(sent[i], InHand(i))]
      /\ sequencer' = [sequencer EXCEPT ![i] = Resting]
      /\ emitted' = emitted /\ disk' = disk /\ loads' = loads /\ loaded' = loaded
      /\ durable_seq' = durable_seq /\ bus' = bus /\ client' = client /\ view' = view
  BY LoadTyped DEF SendOn, InHand
<1>2. cursor'[i] = [buffer |-> cursor[i].buffer, next |-> cursor[i].next, durable |-> durable]
  <2>1. cursor'[i] = [cursor[i] EXCEPT !.durable = durable]
    BY <1>1 DEF Types
  <2>2. cursor[i] \in CursorType
    BY LoadTyped
  <2> QED
    BY <2>1, <2>2 DEF CursorType
<1>3. cursor' \in [Loads -> CursorType] /\ \A j \in Loads \ {i} : cursor'[j] = cursor[j]
  <2>1. cursor'[i] \in CursorType
    BY <1>2, LoadTyped DEF CursorType
  <2> QED
    BY <1>1, <2>1 DEF Types
<1>4. /\ sequencer' \in [Loads -> SequencerType] /\ sequencer'[i].pc = "recv"
      /\ \A j \in Loads \ {i} : sequencer'[j] = sequencer[j]
  <2>1. Resting \in SequencerType /\ Resting.pc = "recv"
    BY DEF Resting, SequencerType
  <2> QED
    BY <1>1, <2>1 DEF Types
<1>5. /\ Append(sent[i], InHand(i)) \in Seq(Sequenced)
      /\ DOMAIN Append(sent[i], InHand(i)) = 1..last /\ Len(Append(sent[i], InHand(i))) = last
      /\ Append(sent[i], InHand(i))[last] = InHand(i)
      /\ DOMAIN sent[i] = 1..(last - 1) /\ last \in Nat
      /\ \A n \in DOMAIN sent[i] : n \in 1..last /\ n # last /\ n < last
                                   /\ Append(sent[i], InHand(i))[n] = sent[i][n]
  BY <1>1, LoadTyped
<1>6. /\ sent' \in [Loads -> Seq(Sequenced)] /\ sent'[i] = Append(sent[i], InHand(i))
      /\ \A j \in Loads \ {i} : sent'[j] = sent[j]
  BY <1>1, <1>5 DEF Types
<1>7. Types'
  BY <1>1, <1>3, <1>4, <1>6 DEF Types
<1>8. ASSUME NEW j \in Loads, j # i PROVE Line(j)' /\ CountsOn(j)
  <2>1. /\ emitted' = emitted /\ sequencer'[j] = sequencer[j] /\ sent'[j] = sent[j]
        /\ bus'[j] = bus[j] /\ cursor'[j] = cursor[j]
    BY <1>1, <1>3, <1>4, <1>6, <1>8
  <2>2. emitted \in Nat /\ emitted' \in Nat /\ emitted' >= emitted
    BY <2>1, LoadTyped
  <2>3. Line(j)
    OBVIOUS
  <2> QED
    BY <2>1, <2>2, <2>3, LineSame
<1>9. Line(i)' /\ CountsOn(i)
  <2> HIDE DEF last
  <2>1. /\ cursor'[i].buffer = cursor[i].buffer /\ cursor'[i].next = cursor[i].next
        /\ sequencer'[i].pc = "recv" /\ bus'[i] = bus[i]
    BY <1>1, <1>2, <1>4
  <2>2. /\ DOMAIN sent'[i] = 1..last /\ sent'[i][last] = InHand(i) /\ last \in 1..last
        /\ \A n \in 1..last : n = last \/ n \in DOMAIN sent[i]
        /\ \A n \in DOMAIN sent[i] : n \in 1..last /\ n < last /\ sent'[i][n] = sent[i][n]
    BY <1>5, <1>6
  <2>3. \A e : SentOrInHand(i, e)' <=> SentOrInHand(i, e)
    <3>1. ASSUME NEW e, SentOrInHand(i, e) PROVE SentOrInHand(i, e)'
      BY <2>2, <3>1 DEF SentOrInHand
    <3>2. ASSUME NEW e, SentOrInHand(i, e)' PROVE SentOrInHand(i, e)
      <4>1. PICK n \in DOMAIN sent'[i] : sent'[i][n] = e
        BY <2>1, <3>2 DEF SentOrInHand
      <4>2. CASE n = last
        BY <1>1, <2>2, <4>1, <4>2 DEF SentOrInHand
      <4>3. CASE n \in DOMAIN sent[i]
        BY <2>2, <4>1, <4>3 DEF SentOrInHand
      <4> QED
        BY <2>2, <4>1, <4>2, <4>3
    <3> QED
      BY <3>1, <3>2
  <2>4. SentInOrder(i)'
    <3>1. ASSUME NEW m \in DOMAIN sent'[i], NEW n \in DOMAIN sent'[i], m < n
          PROVE  sent'[i][m].seq < sent'[i][n].seq /\ sent'[i][m].ev < sent'[i][n].ev
      <4>1. m \in DOMAIN sent[i]
        BY <1>5, <2>2, <3>1
      <4>2. CASE n = last
        <5>1. /\ sent[i][m].seq < sequencer[i].seq /\ sent[i][m].ev < sequencer[i].ev
              /\ sent'[i][m] = sent[i][m] /\ sent'[i][n] = InHand(i)
          BY <1>1, <2>2, <4>1, <4>2 DEF Line, SentInOrder
        <5> QED
          BY <5>1 DEF InHand
      <4>3. CASE n \in DOMAIN sent[i]
        BY <2>2, <3>1, <4>1, <4>3 DEF Line, SentInOrder, InSequence
      <4> QED
        BY <2>2, <4>2, <4>3
    <3>2. InSequence(sent[i])'
      BY <3>1 DEF InSequence
    <3> QED
      BY <1>1, <2>1, <3>2 DEF Line, SentInOrder
  <2>5. Trails(i)'
    BY <1>1, <2>1, <2>3 DEF Line, Trails
  <2>6. Buffered(i)'
    BY <2>1, <2>3 DEF Line, Buffered, InSequence
  <2>7. CountsOn(i)
    <3>1. /\ emitted' >= emitted /\ cursor'[i].next >= cursor[i].next
          /\ Len(sent'[i]) >= Len(sent[i])
      BY <1>1, <1>5, <1>6, <2>1, LoadTyped DEF last
    <3>2. \A e \in Sequenced : SentOrInHand(i, e)' <=> SentOrInHand(i, e)
      BY <2>3
    <3> QED
      BY <2>1, <2>2, <3>1, <3>2 DEF CountsOn
  <2> QED
    BY <2>1, <2>4, <2>5, <2>6, <2>7 DEF Line
<1> QED
  BY <1>7, <1>8, <1>9

(* The steps that seed a cursor, and those that only move the table. *)
LEMMA SeedStep ==
    ASSUME Types, \A i \in Loads : Line(i),
           StartTurn \/ DropSession \/ Restore \/ SeedRestored
    PROVE  Types' /\ \A i \in Loads : Line(i)' /\ CountsOn(i)
<1>1. /\ disk' = disk /\ emitted' = emitted /\ sequencer' = sequencer /\ sent' = sent
      /\ bus' = bus /\ client' = client /\ view' = view
  BY DEF StartTurn, DropSession, Restore, SeedRestored
<1>2. ASSUME NEW i \in Loads, cursor' = [cursor EXCEPT ![i] = Seed(@, Len(disk))]
      PROVE  /\ cursor' \in [Loads -> CursorType]
             /\ \A j \in Loads : cursor'[j].buffer = cursor[j].buffer
                                 /\ cursor'[j].next >= cursor[j].next
  <2>1. /\ Seed(cursor[i], Len(disk)) \in CursorType
        /\ Seed(cursor[i], Len(disk)).buffer = cursor[i].buffer
        /\ Seed(cursor[i], Len(disk)).next >= cursor[i].next
    <3>1. Len(disk) \in Nat /\ cursor[i] \in CursorType
      BY DEF Types
    <3> QED
      BY <3>1, SeedTyped
  <2>2. \A j \in Loads : cursor[j].next >= cursor[j].next
    BY LoadTyped
  <2> QED
    BY <1>2, <2>1, <2>2 DEF Types
<1>3. ASSUME NEW i \in Loads, ReadDurable(i)
      PROVE  durable_seq' \in [Loads -> Nat]
  <2>1. SnapshotAt \in Nat /\ Len(disk) \in Nat
    BY SnapshotAtTyped DEF Types
  <2>2. (IF SnapshotAt = 0 THEN Len(disk) ELSE SnapshotAt) \in Nat
    BY <2>1
  <2> QED
    BY <1>3, <2>2 DEF ReadDurable, Types
<1>4. /\ cursor' \in [Loads -> CursorType]
      /\ \A j \in Loads : cursor'[j].buffer = cursor[j].buffer
                          /\ cursor'[j].next >= cursor[j].next
      /\ durable_seq' \in [Loads -> Nat]
      /\ loads' \in Loads /\ loaded' \in {0, loads'}
  <2>0. \A j \in Loads : cursor[j].next >= cursor[j].next
    BY LoadTyped
  <2>1. CASE StartTurn
    <3>1. loaded \in Loads /\ loads' = loads /\ loaded' = loaded
      BY <2>1, LoadsSoFar DEF StartTurn
    <3> QED
      BY <1>2, <1>3, <2>1, <3>1 DEF StartTurn, Types
  <2>2. CASE DropSession
    BY <2>0, <2>2 DEF DropSession, Types
  <2>3. CASE Restore
    <3>1. loads + 1 \in Loads
      BY <2>3, SseAssumption DEF Restore, Types, Loads
    <3> QED
      BY <1>3, <2>0, <2>3, <3>1 DEF Restore, Types
  <2>4. CASE SeedRestored
    <3>1. loaded \in Loads /\ loads' = loads /\ loaded' = loaded
      <4>1. loaded # 0
        BY <2>4 DEF SeedRestored
      <4> QED
        BY <2>4, <4>1, LoadsSoFar DEF SeedRestored
    <3> QED
      BY <1>2, <2>4, <3>1 DEF SeedRestored, Types
  <2> QED
    BY <2>1, <2>2, <2>3, <2>4
<1>5. Types'
  BY <1>1, <1>4 DEF Types
<1>6. ASSUME NEW i \in Loads PROVE Line(i)' /\ CountsOn(i)
  <2>1. emitted' \in Nat /\ emitted' >= emitted /\ cursor'[i] \in CursorType
    BY <1>1, <1>4 DEF Types
  <2> QED
    BY <1>1, <1>4, <2>1, LineKept
<1> QED
  BY <1>5, <1>6

LEMMA RestartStep ==
    ASSUME Types, ServerRestart
    PROVE  /\ Types' /\ \A i \in Loads : Line(i)'
           /\ \A c \in Clients : client'[c] = CutOff(c)
<1>1. /\ emitted' = emitted /\ disk' = disk /\ loads' = loads /\ view' = view /\ loaded' = 0
      /\ durable_seq' = [i \in Loads |-> 0] /\ cursor' = [i \in Loads |-> NewCursor]
      /\ bus' = [i \in Loads |-> <<>>] /\ sequencer' = [i \in Loads |-> Resting]
      /\ sent' = [i \in Loads |-> <<>>] /\ client' = [c \in Clients |-> CutOff(c)]
  BY DEF ServerRestart
<1>2. /\ NewCursor \in CursorType /\ Resting \in SequencerType
      /\ NewCursor.buffer = <<>> /\ NewCursor.next = 1 /\ Resting.pc = "recv"
  BY DEF NewCursor, CursorType, Resting, SequencerType
<1>3. Types'
  BY <1>1, <1>2, CutOffTyped DEF Types
<1>4. ASSUME NEW i \in Loads PROVE Line(i)'
  <2>1. /\ sent'[i] = <<>> /\ bus'[i] = <<>> /\ cursor'[i].buffer = <<>> /\ cursor'[i].next = 1
        /\ sequencer'[i].pc = "recv" /\ DOMAIN <<>> = {}
    BY <1>1, <1>2
  <2> QED
    BY <2>1 DEF Line, SentInOrder, Trails, Buffered, InSequence, SentOrInHand
<1> QED
  BY <1>1, <1>3, <1>4

LEMMA InitLine ==
    ASSUME SseInit PROVE \A i \in Loads : Line(i)
<1> SUFFICES ASSUME NEW i \in Loads PROVE Line(i)
  OBVIOUS
<1>1. NewCursor \in CursorType /\ NewCursor.buffer = <<>> /\ NewCursor.next = 1
  BY DEF NewCursor, CursorType
<1>2. Seed(NewCursor, 1).buffer = <<>> /\ Seed(NewCursor, 1).next >= 1
  BY <1>1, SeedTyped
<1>3. /\ sent[i] = <<>> /\ bus[i] = <<>> /\ sequencer[i] = Resting /\ DOMAIN <<>> = {}
      /\ cursor[i].buffer = <<>> /\ cursor[i].next >= 1
  BY <1>1, <1>2 DEF SseInit
<1>4. sequencer[i].pc = "recv"
  BY <1>3 DEF Resting
<1> QED
  BY <1>3, <1>4 DEF Line, SentInOrder, Trails, Buffered, InSequence, SentOrInHand

--------------------------------------------------------------------------------
(***************************************************************************)
(* What holds of a client is not disturbed by a step that is not its own.  *)
(***************************************************************************)
ClientTyped(c) ==
    /\ client[c] \in ClientType /\ view[c] \in ViewType
    /\ client[c].last \in Int /\ client[c].floor \in Nat /\ client[c].at \in Nat
    /\ client[c].on \in Nat /\ client[c].from \in Nat
    /\ client[c].todo \in Seq(Sequenced)
    /\ \A m \in DOMAIN client[c].todo : client[c].todo[m] \in Sequenced
    /\ view[c].since \in Nat
    /\ \A x \in view[c].seen : x \in Nat

LEMMA ClientIsTyped ==
    ASSUME Types, NEW c \in Clients
    PROVE  ClientTyped(c)
<1>1. client[c] \in ClientType /\ view[c] \in ViewType
  BY DEF Types
<1>2. view[c].seen \in SUBSET Nat /\ view[c].since \in Nat
  BY <1>1, ViewFields
<1> QED
  BY <1>1, <1>2, ClientFields DEF ClientTyped

LEMMA EntryNumbers ==
    ASSUME Types, NEW i \in Loads, Line(i), NEW e \in Sequenced, SentOrInHand(i, e)
    PROVE  /\ e.seq \in Nat /\ e.ev \in Nat /\ 1 <= e.seq /\ e.seq < cursor[i].next
           /\ e.ev <= emitted /\ cursor[i].buffer # <<>> /\ cursor[i].next >= 2
           /\ e.seq >= cursor[i].buffer[1].seq =>
                 \E n \in DOMAIN cursor[i].buffer : cursor[i].buffer[n] = e
<1>1. e.seq \in Nat /\ e.ev \in Nat /\ cursor[i].next \in Nat
  BY LoadTyped DEF Sequenced
<1>2. 1 <= e.seq /\ e.seq < cursor[i].next /\ e.ev <= emitted
  BY DEF Line, Trails
<1> QED
  BY <1>1, <1>2 DEF Line, Buffered

LEMMA SentIsEntry ==
    ASSUME Types, NEW i \in Loads, NEW n \in 1..Len(sent[i])
    PROVE  n \in DOMAIN sent[i] /\ sent[i][n] \in Sequenced /\ SentOrInHand(i, sent[i][n])
BY LoadTyped DEF SentOrInHand

LEMMA AnchorKept ==
    ASSUME Types, Types', NEW i \in Loads, Line(i), Line(i)', CountsOn(i),
           NEW c \in Clients, client'[c] = client[c], view'[c] = view[c], Anchored(c, i)
    PROVE  Anchored(c, i)'
<1>1. /\ ClientTyped(c) /\ emitted \in Nat /\ emitted' \in Nat /\ emitted' >= emitted
      /\ cursor[i].next \in Nat /\ cursor'[i].next \in Nat /\ cursor'[i].next >= cursor[i].next
  BY ClientIsTyped, LoadTyped DEF CountsOn, Types, CursorType
<1>2. client'[c].last < cursor'[i].next
  BY <1>1 DEF Anchored, ClientTyped
<1>3. ASSUME NEW e \in Sequenced, SentOrInHand(i, e)'
      PROVE  /\ e.seq \in Nat /\ e.ev \in Nat
             /\ \/ SentOrInHand(i, e)
                \/ e.seq > client[c].last /\ \E j \in DOMAIN bus[i] : bus[i][j] = e.ev
  <2>1. e.seq \in Nat /\ e.ev \in Nat
    BY DEF Sequenced
  <2>2. CASE e.seq >= cursor[i].next /\ \E j \in DOMAIN bus[i] : bus[i][j] = e.ev
    BY <1>1, <2>1, <2>2 DEF Anchored, ClientTyped
  <2> QED
    BY <1>3, <2>1, <2>2 DEF CountsOn
<1>4. ASSUME NEW e \in Sequenced, SentOrInHand(i, e)', e.seq <= client[c].last
      PROVE  Covered(c, e)'
  <2>1. SentOrInHand(i, e)
    BY <1>1, <1>3, <1>4 DEF ClientTyped
  <2>2. Covered(c, e)
    BY <1>4, <2>1 DEF Anchored
  <2> QED
    BY <2>2 DEF Covered
<1>5. ASSUME ~view[c].told PROVE NotSeen(c, i)'
  <2> SUFFICES ASSUME NEW x \in view[c].seen
               PROVE  /\ x <= emitted'
                      /\ \A e \in Sequenced : SentOrInHand(i, e)' /\ e.seq > client[c].last => x < e.ev
                      /\ \A k \in DOMAIN bus'[i] : x < bus'[i][k]
    BY DEF NotSeen
  <2>1. /\ x \in Nat /\ x <= emitted
        /\ \A e \in Sequenced : SentOrInHand(i, e) /\ e.seq > client[c].last => x < e.ev
        /\ \A k \in DOMAIN bus[i] : x < bus[i][k]
    BY <1>1, <1>5 DEF Anchored, NotSeen, ClientTyped
  <2>2. x <= emitted'
    BY <1>1, <2>1
  <2>3. ASSUME NEW e \in Sequenced, SentOrInHand(i, e)', e.seq > client[c].last PROVE x < e.ev
    BY <1>3, <2>1, <2>3
  <2>4. ASSUME NEW k \in DOMAIN bus'[i] PROVE x < bus'[i][k]
    <3>1. bus'[i][k] \in Nat
      <4>1. bus'[i] \in Seq(Nat)
        BY DEF Types
      <4> QED
        BY <4>1
    <3>2. CASE bus'[i][k] > emitted
      BY <1>1, <2>1, <3>1, <3>2
    <3> QED
      BY <2>1, <3>2 DEF CountsOn
  <2> QED
    BY <2>2, <2>3, <2>4
<1> QED
  BY <1>2, <1>4, <1>5 DEF Anchored

LEMMA FollowingKept ==
    ASSUME Types, Types', NEW c \in Clients, NEW i \in Loads, Line(i), CountsOn(i),
           client'[c] = client[c], view'[c] = view[c], Following(c, i),
           client[c].at <= Len(sent[i])
    PROVE  Following(c, i)'
<1> DEFINE k == client[c]
           Due(e) == \E m \in DOMAIN k.todo : k.todo[m] = e
<1>1. /\ ClientTyped(c) /\ cursor[i].next \in Nat /\ cursor'[i].next \in Nat
      /\ cursor'[i].next >= cursor[i].next
  BY ClientIsTyped, LoadTyped DEF CountsOn, Types, CursorType
<1>2. /\ InSequence(k.todo) /\ k.floor < cursor[i].next
      /\ \A m \in DOMAIN k.todo : SentOrInHand(i, k.todo[m]) /\ k.todo[m].seq > k.floor
      /\ \A e \in Sequenced : SentOrInHand(i, e) /\ e.seq <= k.floor => Covered(c, e)
      /\ \A e \in Sequenced, m \in DOMAIN k.todo :
            SentOrInHand(i, e) /\ e.seq <= k.todo[m].seq => Covered(c, e) \/ Due(e)
      /\ \A n \in 1..k.at : Covered(c, sent[i][n]) \/ Due(sent[i][n])
      /\ k.todo # <<>> => k.last = k.floor
      /\ k.last # NoId /\ ~view[c].told => k.last <= k.floor
  BY DEF Following
<1>3. \A e : Covered(c, e)' <=> Covered(c, e)
  BY DEF Covered
<1>4. ASSUME NEW e \in Sequenced, SentOrInHand(i, e)', ~SentOrInHand(i, e)
      PROVE  e.seq \in Nat /\ e.seq >= cursor[i].next
  BY <1>4 DEF CountsOn, Sequenced
<1>5. k.floor < cursor'[i].next
  BY <1>1, <1>2 DEF ClientTyped
<1>6. \A m \in DOMAIN k.todo : SentOrInHand(i, k.todo[m])' /\ k.todo[m].seq > k.floor
  BY <1>1, <1>2 DEF CountsOn, ClientTyped
<1>7. ASSUME NEW e \in Sequenced, SentOrInHand(i, e)', e.seq <= k.floor PROVE Covered(c, e)
  <2>1. SentOrInHand(i, e)
    BY <1>1, <1>2, <1>4, <1>7 DEF ClientTyped
  <2> QED
    BY <1>2, <1>7, <2>1
<1>8. ASSUME NEW e \in Sequenced, NEW m \in DOMAIN k.todo, SentOrInHand(i, e)', e.seq <= k.todo[m].seq
      PROVE  Covered(c, e) \/ Due(e)
  <2>1. k.todo[m] \in Sequenced /\ SentOrInHand(i, k.todo[m])
    BY <1>1, <1>2 DEF ClientTyped
  <2>2. k.todo[m].seq \in Nat /\ k.todo[m].seq < cursor[i].next
    BY <2>1, EntryNumbers
  <2>3. SentOrInHand(i, e)
    BY <1>1, <1>4, <1>8, <2>2
  <2> QED
    BY <1>2, <1>8, <2>3
<1>9. \A n \in 1..k.at : Covered(c, sent'[i][n]) \/ Due(sent'[i][n])
  <2>1. \A n \in 1..k.at : n \in DOMAIN sent[i]
    BY <1>1, LoadTyped DEF ClientTyped
  <2> QED
    BY <1>2, <2>1 DEF CountsOn
<1> QED
  BY <1>2, <1>3, <1>5, <1>6, <1>7, <1>8, <1>9 DEF Following

(* A load named by a variable is the load it stands for. *)
LEMMA AnchorAt ==
    ASSUME NEW c, NEW i, Anchored(c, i)'
    PROVE  /\ loaded' = i => Anchored(c, loaded)'
           /\ client'[c].on = i => Anchored(c, client[c].on)'
<1>1. ASSUME loaded' = i PROVE Anchored(c, loaded)'
  BY <1>1 DEF Anchored, NotSeen, Covered, SentOrInHand, InHand
<1>2. ASSUME client'[c].on = i PROVE Anchored(c, client[c].on)'
  BY <1>2 DEF Anchored, NotSeen, Covered, SentOrInHand, InHand
<1> QED
  BY <1>1, <1>2

LEMMA FollowingAt ==
    ASSUME NEW c, NEW i, Following(c, i)', client'[c].on = i
    PROVE  Following(c, client[c].on)'
BY DEF Following, Covered, SentOrInHand, InHand

LEMMA ClientKept ==
    ASSUME Types, Types', \A i \in Loads : Line(i) /\ Line(i)' /\ CountsOn(i),
           NEW c \in Clients, client'[c] = client[c], view'[c] = view[c], Client(c),
           loads' >= loads, loaded' = loaded \/ loaded' = 0 \/ loaded' > loads
    PROVE  Client(c)'
<1> DEFINE k == client[c]
<1>0. /\ loads \in Nat /\ loads' \in Nat /\ emitted \in Nat /\ emitted' \in Nat
      /\ ClientTyped(c) /\ emitted' >= emitted
  <2>1. 1 \in Loads
    BY SseAssumption DEF Loads
  <2>2. loads' \in Nat
    BY SseAssumption DEF Types, Loads
  <2>3. emitted \in Nat /\ emitted' \in Nat /\ emitted' >= emitted
    BY <2>1 DEF Types, CountsOn
  <2> QED
    BY <2>2, <2>3, LoadsSoFar, ClientIsTyped
<1>1. Connected(c)'
  <2>1. k.pc # "off" => /\ k.on \in 1..loads' /\ k.on \in 1..loads /\ k.on \in Loads
                        /\ k.at <= Len(sent'[k.on])
                        /\ (cursor[k.on].buffer # <<>> => cursor'[k.on].buffer # <<>>)
    <3> SUFFICES ASSUME k.pc # "off"
                 PROVE  /\ k.on \in 1..loads' /\ k.on \in 1..loads /\ k.on \in Loads
                        /\ k.at <= Len(sent'[k.on])
                        /\ (cursor[k.on].buffer # <<>> => cursor'[k.on].buffer # <<>>)
      OBVIOUS
    <3>1. k.on \in 1..loads /\ k.at <= Len(sent[k.on]) /\ k.on \in Loads
      BY LoadsSoFar DEF Client, Connected
    <3>2. CountsOn(k.on) /\ Len(sent[k.on]) \in Nat /\ sent'[k.on] \in Seq(Sequenced) /\ k.at \in Nat
      BY <1>0, <3>1, LoadTyped DEF Types, ClientTyped
    <3>3. /\ Len(sent'[k.on]) >= Len(sent[k.on])
          /\ (cursor[k.on].buffer # <<>> => cursor'[k.on].buffer # <<>>)
      BY <3>2 DEF CountsOn
    <3>4. k.on \in 1..loads'
      BY <1>0, <3>1
    <3>5. k.at <= Len(sent'[k.on])
      <4>1. Len(sent'[k.on]) \in Nat
        BY <3>2
      <4> QED
        BY <3>1, <3>2, <3>3, <4>1
    <3> QED
      BY <3>1, <3>3, <3>4, <3>5
  <2>2. k.on <= loads' /\ k.from <= loads' /\ view[c].since <= emitted'
    <3>1. k.on \in Nat /\ k.from \in Nat /\ view[c].since \in Nat
      BY <1>0 DEF ClientTyped
    <3>2. k.on <= loads /\ k.from <= loads /\ view[c].since <= emitted
      BY DEF Client, Connected
    <3> QED
      BY <1>0, <3>1, <3>2
  <2> QED
    BY <2>1, <2>2 DEF Client, Connected
<1>2. ASSUME view[c].scars = {} PROVE Unscarred(c)'
  <2>1. Unscarred(c) /\ Connected(c)
    BY <1>2 DEF Client
  <2>2. ASSUME k.pc = "off", k.last # NoId, k.from = loaded' PROVE Anchored(c, loaded)'
    <3>1. k.from >= 1 /\ k.from <= loads /\ k.from \in Nat
      BY <1>0, <2>1, <2>2 DEF Connected, ClientTyped
    <3>2. loaded' = loaded /\ k.from = loaded /\ loaded \in Loads
      BY <1>0, <2>2, <3>1, LoadsSoFar
    <3>3. Anchored(c, k.from) /\ k.from \in Loads
      BY <2>1, <2>2, <3>2 DEF Unscarred
    <3>4. ASSUME NEW i \in Loads, i = k.from PROVE Anchored(c, i)'
      BY <3>3, <3>4, AnchorKept
    <3>5. PICK i \in Loads : i = k.from /\ Anchored(c, i)'
      BY <3>3, <3>4
    <3> QED
      BY <2>2, <3>5, AnchorAt
  <2>3. ASSUME k.pc # "off" PROVE k.on \in Loads
    BY <2>1, <2>3, LoadsSoFar DEF Connected
  <2>4. ASSUME k.pc # "off", k.last # NoId PROVE k.from = k.on /\ Anchored(c, client[c].on)'
    <3>1. k.from = k.on /\ Anchored(c, k.on) /\ k.on \in Loads
      BY <2>1, <2>3, <2>4 DEF Unscarred
    <3>2. ASSUME NEW i \in Loads, i = k.on PROVE Anchored(c, i)'
      BY <3>1, <3>2, AnchorKept
    <3>3. PICK i \in Loads : i = k.on /\ Anchored(c, i)'
      BY <3>1, <3>2
    <3>4. client'[c].on = i
      BY <3>3
    <3> QED
      BY <3>1, <3>3, <3>4, AnchorAt
  <2>5. ASSUME k.pc = "live" PROVE Following(c, client[c].on)'
    <3>1. Following(c, k.on) /\ k.on \in Loads /\ k.at <= Len(sent[k.on])
      BY <2>1, <2>3, <2>5 DEF Unscarred, Connected
    <3>2. ASSUME NEW i \in Loads, i = k.on PROVE Following(c, i)'
      BY <3>1, <3>2, FollowingKept
    <3>3. PICK i \in Loads : i = k.on /\ Following(c, i)'
      BY <3>1, <3>2
    <3> QED
      BY <3>3, FollowingAt
  <2> QED
    BY <2>1, <2>2, <2>4, <2>5 DEF Unscarred
<1> QED
  BY <1>1, <1>2 DEF Client

--------------------------------------------------------------------------------
(***************************************************************************)
(* A client's own steps leave the server and the other clients alone.      *)
(***************************************************************************)
Aside == UNCHANGED <<emitted, disk, serving>>

LEMMA AsideFrame ==
    ASSUME Types, \A i \in Loads : Line(i), \A d \in Clients : Client(d),
           NEW c \in Clients, Aside, ClientsTyped, Others(c)
    PROVE  /\ Types' /\ \A i \in Loads : Line(i)'
           /\ \A d \in Clients \ {c} : Client(d)'
           /\ emitted' = emitted /\ loads' = loads /\ loaded' = loaded /\ cursor' = cursor
           /\ sent' = sent /\ bus' = bus
           /\ \A i, e : SentOrInHand(i, e)' <=> SentOrInHand(i, e)
<1>1. /\ emitted' = emitted /\ disk' = disk /\ loads' = loads /\ loaded' = loaded
      /\ durable_seq' = durable_seq /\ cursor' = cursor /\ bus' = bus
      /\ sequencer' = sequencer /\ sent' = sent
  BY DEF Aside, serving
<1>2. Types'
  BY <1>1 DEF Types, ClientsTyped
<1>3. ASSUME NEW i \in Loads PROVE Line(i)' /\ CountsOn(i)
  <2>1. emitted' \in Nat /\ emitted' >= emitted /\ cursor'[i].next >= cursor[i].next
        /\ cursor'[i] \in CursorType
    BY <1>1, LoadTyped
  <2> QED
    BY <1>1, <2>1, LineKept
<1>4. ASSUME NEW d \in Clients \ {c} PROVE Client(d)'
  <2>1. client'[d] = client[d] /\ view'[d] = view[d] /\ loads' >= loads
    BY <1>1, LoadsSoFar DEF Others
  <2> QED
    BY <1>1, <1>2, <1>3, <2>1, ClientKept
<1>5. \A i, e : SentOrInHand(i, e)' <=> SentOrInHand(i, e)
  BY <1>1 DEF SentOrInHand, InHand
<1> QED
  BY <1>1, <1>2, <1>3, <1>4, <1>5

LEMMA ConnectClient ==
    ASSUME Types, \A i \in Loads : Line(i), \A d \in Clients : Client(d),
           NEW c \in Clients, Connect(c)
    PROVE  Types' /\ (\A i \in Loads : Line(i)') /\ \A d \in Clients : Client(d)'
<1>1. /\ ClientsTyped /\ Others(c)
      /\ client'[c].pc = IF client[c].last = NoId THEN "live" ELSE "replay"
      /\ client'[c].on = loaded /\ client'[c].at = Len(sent[loaded])
      /\ client'[c].connects = client[c].connects + 1
      /\ client'[c].last = client[c].last /\ client'[c].from = client[c].from
      /\ client'[c].floor = client[c].floor /\ client'[c].todo = client[c].todo
      /\ view'[c].seen = view[c].seen /\ view'[c].twice = view[c].twice
      /\ view'[c].told = view[c].told
      /\ view'[c].since = IF client[c].connects = 0 THEN emitted ELSE view[c].since
      /\ view'[c].scars = {} =>
            /\ view[c].scars = {}
            /\ client[c].connects # 0 => client[c].last # NoId /\ client[c].from = loaded
  BY ConnectStep
<1>2. /\ Types' /\ \A i \in Loads : Line(i)'
      /\ \A d \in Clients \ {c} : Client(d)'
      /\ emitted' = emitted /\ loads' = loads /\ loaded' = loaded /\ cursor' = cursor
      /\ sent' = sent /\ bus' = bus
      /\ \A i, e : SentOrInHand(i, e)' <=> SentOrInHand(i, e)
  BY <1>1, AsideFrame DEF Connect, Aside
<1>3. PICK i \in Loads : i = loaded
  BY LoadsSoFar DEF Connect
<1>4. /\ i \in 1..loads /\ i \in Nat /\ loads \in Nat /\ emitted \in Nat
      /\ Len(sent[i]) \in Nat /\ cursor[i].next \in Nat /\ cursor[i].next >= 1
      /\ client[c].connects \in Nat /\ client[c].pc = "off" /\ ClientTyped(c)
      /\ client[c].todo = <<>> /\ client[c].floor = 0 /\ Connected(c)
  <2>1. Connected(c) /\ client[c].pc = "off" /\ Line(i)
    BY DEF Client, Connect
  <2>2. client[c].connects \in Nat
    BY ClientFields DEF Types
  <2>3. i = loads /\ i \in Nat /\ loads >= 1
    BY <1>3, LoadsSoFar DEF Loads
  <2> QED
    BY <2>1, <2>2, <2>3, LoadTyped, ClientIsTyped DEF Connected, Line
<1>5. Connected(c)'
  <2>1. view'[c].since <= emitted
    BY <1>1, <1>4 DEF Connected, ClientTyped
  <2>2. /\ client'[c].on = i /\ client'[c].at = Len(sent[i])
        /\ client'[c].at <= Len(sent'[client'[c].on])
    BY <1>1, <1>2, <1>3, <1>4
  <2>3. client'[c].connects # 0 /\ client'[c].pc \in {"live", "replay"}
    BY <1>1, <1>4
  <2>4. client'[c].pc = "replay" => client'[c].last # NoId
    BY <1>1
  <2> QED
    BY <1>1, <1>2, <1>4, <2>1, <2>2, <2>3, <2>4 DEF Connected
<1>6. ASSUME view'[c].scars = {} PROVE Unscarred(c)'
  <2>1. Unscarred(c)
    BY <1>1, <1>6 DEF Client
  <2>2. client'[c].on = i /\ client'[c].pc # "off"
    BY <1>1, <1>3
  <2>3. ~view'[c].told =>
           ~view'[c].twice /\ (client'[c].last = NoId => view'[c].seen = {})
    BY <1>1, <2>1 DEF Unscarred
  <2>4. ASSUME client'[c].last # NoId
        PROVE  client'[c].from = i /\ Anchored(c, client[c].on)'
    <3>1. client[c].connects # 0 /\ client[c].last # NoId /\ client[c].from = i
      BY <1>1, <1>3, <1>4, <1>6, <2>4 DEF Connected
    <3>2. Anchored(c, loaded)
      BY <1>3, <1>4, <2>1, <3>1 DEF Unscarred
    <3>3. Anchored(c, i)
      BY <1>3, <3>2
    <3>4. view'[c].since = view[c].since
      BY <1>1, <3>1
    <3>5. \A e : Covered(c, e)' <=> Covered(c, e)
      BY <1>1, <3>4 DEF Covered
    <3>6. Anchored(c, i)'
      BY <1>1, <1>2, <3>3, <3>5 DEF Anchored, NotSeen
    <3> QED
      BY <1>1, <2>2, <3>1, <3>6, AnchorAt
  <2>5. ASSUME client'[c].pc = "live"
        PROVE  Following(c, client[c].on)'
    <3>1. client[c].last = NoId /\ client[c].connects = 0
      BY <1>1, <1>6, <2>5
    <3>2. view'[c].since = emitted
      BY <1>1, <3>1
    <3>3. \A e \in Sequenced : ~(SentOrInHand(i, e) /\ e.seq <= 0)
      <4>1. \A e \in Sequenced : SentOrInHand(i, e) => 1 <= e.seq /\ e.seq \in Nat
        BY EntryNumbers
      <4> QED
        BY <4>1
    <3>4. \A n \in 1..Len(sent[i]) : Covered(c, sent[i][n])'
      <4> SUFFICES ASSUME NEW n \in 1..Len(sent[i]) PROVE Covered(c, sent[i][n])'
        OBVIOUS
      <4>1. sent[i][n].ev <= emitted
        BY SentIsEntry, EntryNumbers
      <4> QED
        BY <1>2, <3>2, <4>1 DEF Covered
    <3>5. /\ client'[c].todo = <<>> /\ client'[c].floor = 0 /\ client'[c].last = NoId
          /\ client'[c].at = Len(sent[i]) /\ DOMAIN <<>> = {}
      BY <1>1, <1>3, <1>4, <3>1
    <3>6. Following(c, i)'
      BY <1>2, <1>4, <3>3, <3>4, <3>5 DEF Following, InSequence
    <3> QED
      BY <2>2, <3>6, FollowingAt
  <2> QED
    BY <2>2, <2>3, <2>4, <2>5 DEF Unscarred
<1> QED
  BY <1>2, <1>5, <1>6 DEF Client

LEMMA ReplayClient ==
    ASSUME Types, \A i \in Loads : Line(i), \A d \in Clients : Client(d),
           NEW c \in Clients, Replay(c)
    PROVE  Types' /\ (\A i \in Loads : Line(i)') /\ \A d \in Clients : Client(d)'
<1>0. Connected(c)
  BY DEF Client
<1>1. /\ ClientsTyped /\ Others(c) /\ view' = view
      /\ client[c].on \in Loads /\ client[c].last # NoId
  BY <1>0, ReplayStep
<1>2. PICK pc, todo :
         /\ client'[c] = [pc |-> pc, on |-> client[c].on, last |-> client[c].last,
                          from |-> client[c].from, floor |-> client[c].last,
                          at |-> client[c].at, todo |-> todo, connects |-> client[c].connects]
         /\ \/ /\ ~Evicted(cursor[client[c].on], client[c].last)
               /\ pc = "live" /\ todo = Later(cursor[client[c].on].buffer, client[c].last)
            \/ /\ Evicted(cursor[client[c].on], client[c].last)
               /\ pc \in {"load", "reload"} /\ todo = <<>>
  BY <1>0, ReplayStep
<1>3. /\ Types' /\ \A i \in Loads : Line(i)'
      /\ \A d \in Clients \ {c} : Client(d)'
      /\ emitted' = emitted /\ loads' = loads /\ loaded' = loaded /\ cursor' = cursor
      /\ sent' = sent /\ bus' = bus
      /\ \A i, e : SentOrInHand(i, e)' <=> SentOrInHand(i, e)
  BY <1>1, AsideFrame DEF Replay, Aside
<1>4. PICK i \in Loads : i = client[c].on
  BY <1>1
<1> DEFINE buffer == cursor[i].buffer
           last == client[c].last
<1>5. /\ client'[c].pc = pc /\ client'[c].on = i /\ client'[c].last = last
      /\ client'[c].from = client[c].from /\ client'[c].floor = last
      /\ client'[c].at = client[c].at /\ client'[c].todo = todo
      /\ client'[c].connects = client[c].connects
  BY <1>2, <1>4
<1>6. /\ buffer \in Seq(Sequenced) /\ InSequence(buffer) /\ last \in Nat /\ last # 0 /\ last \in Int
      /\ client[c].pc = "replay" /\ client[c].at <= Len(sent[i]) /\ client[c].at \in Nat
      /\ client[c].connects # 0 /\ Len(sent[i]) \in Nat
  <2>1. last \in Nat /\ client[c].at \in Nat /\ last \in Int
    BY <1>1, ClientFields DEF Types
  <2> QED
    BY <1>0, <1>4, <2>1, LoadTyped DEF Replay, Connected, Line, Buffered
<1>7. \/ ~Evicted(cursor[i], last) /\ pc = "live" /\ todo = Later(buffer, last)
      \/ Evicted(cursor[i], last) /\ pc \in {"load", "reload"} /\ todo = <<>>
  BY <1>2, <1>4
<1>8. \A m \in DOMAIN buffer : buffer[m] \in Sequenced /\ SentOrInHand(i, buffer[m]) /\ buffer[m].seq >= 1
  BY <1>6, EntryNumbers DEF Line, Buffered
<1> HIDE DEF buffer, last
<1>9. /\ todo \in Seq(Sequenced) /\ InSequence(todo)
      /\ \A n \in DOMAIN todo : todo[n].seq > last /\ \E m \in DOMAIN buffer : buffer[m] = todo[n]
      /\ \A n \in DOMAIN todo : SentOrInHand(i, todo[n]) /\ todo[n].seq >= 1 /\ todo[n] \in Sequenced
      /\ pc = "live" => \A m \in DOMAIN buffer : buffer[m].seq > last =>
                           \E n \in DOMAIN todo : todo[n] = buffer[m]
  <2>1. CASE todo = <<>> /\ pc # "live"
    <3>1. <<>> \in Seq(Sequenced) /\ DOMAIN <<>> = {}
      OBVIOUS
    <3> QED
      BY <2>1, <3>1 DEF InSequence
  <2>2. CASE pc = "live" /\ todo = Later(buffer, last)
    <3>1. /\ todo \in Seq(Sequenced) /\ InSequence(todo)
          /\ \A n \in DOMAIN todo : todo[n].seq > last /\ \E m \in DOMAIN buffer : buffer[m] = todo[n]
          /\ \A m \in DOMAIN buffer : buffer[m].seq > last =>
                \E n \in DOMAIN todo : todo[n] = buffer[m]
      BY <1>6, <2>2, OrderedByNumber, LaterFilters
    <3> QED
      BY <1>8, <3>1
  <2> QED
    BY <1>7, <2>1, <2>2
<1>10. Connected(c)'
  <2>1. pc \in {"load", "reload"} => buffer # <<>>
    BY <1>7 DEF Evicted, buffer
  <2>2. pc \in {"live", "load", "reload"} /\ pc # "off"
    BY <1>7
  <2> QED
    BY <1>0, <1>1, <1>3, <1>4, <1>5, <1>6, <1>9, <2>1, <2>2 DEF Connected, buffer, last
<1>11. ASSUME view[c].scars = {} PROVE Unscarred(c)'
  <2>1. Unscarred(c) /\ client[c].pc # "off" /\ last # NoId
    BY <1>1, <1>6, <1>11 DEF Client, last
  <2>2. client[c].from = i /\ Anchored(c, i)
    BY <1>4, <2>1 DEF Unscarred, last
  <2>3. \A e : Covered(c, e)' <=> Covered(c, e)
    BY <1>1 DEF Covered
  <2>4. Anchored(c, i)'
    BY <1>1, <1>3, <1>5, <2>2, <2>3 DEF Anchored, NotSeen, last
  <2>5. ASSUME pc = "live" PROVE Following(c, i)'
    <3>1. ~Evicted(cursor[i], last)
      BY <1>7, <2>5
    <3>2. /\ \A e \in Sequenced : SentOrInHand(i, e) /\ e.seq <= last => Covered(c, e)
          /\ last < cursor[i].next
      BY <2>2 DEF Anchored, last
    <3>3. ASSUME NEW e \in Sequenced, SentOrInHand(i, e)
          PROVE  Covered(c, e) \/ \E n \in DOMAIN todo : todo[n] = e
      <4>1. /\ e.seq \in Nat /\ buffer # <<>>
            /\ e.seq >= buffer[1].seq => \E m \in DOMAIN buffer : buffer[m] = e
        BY <3>3, EntryNumbers DEF buffer
      <4>2. CASE e.seq <= last
        BY <3>2, <3>3, <4>2
      <4>3. CASE e.seq > last
        <5>1. ~(last < buffer[1].seq) /\ 1 \in DOMAIN buffer
          BY <1>6, <3>1, <4>1 DEF Evicted, buffer
        <5>2. buffer[1].seq \in Nat
          BY <1>8, <5>1 DEF Sequenced
        <5>3. e.seq >= buffer[1].seq
          BY <1>6, <4>1, <4>3, <5>1, <5>2
        <5> QED
          BY <1>9, <2>5, <4>1, <4>3, <5>3
      <4> QED
        BY <1>6, <4>1, <4>2, <4>3
    <3>4. \A n \in 1..client[c].at :
             Covered(c, sent[i][n]) \/ \E m \in DOMAIN todo : todo[m] = sent[i][n]
      <4>1. \A n \in 1..client[c].at : n \in 1..Len(sent[i])
        BY <1>6
      <4> QED
        BY <3>3, <4>1, SentIsEntry
    <3>5. last <= last
      BY <1>6
    <3> QED
      BY <1>3, <1>5, <1>9, <2>3, <3>2, <3>3, <3>4, <3>5 DEF Following
  <2>6. pc # "off" /\ client'[c].pc = pc /\ client'[c].on = i
    BY <1>5, <1>7
  <2>7. ~view[c].told => ~view[c].twice
    BY <2>1 DEF Unscarred
  <2> QED
    BY <1>1, <1>5, <2>1, <2>2, <2>4, <2>5, <2>6, <2>7, AnchorAt, FollowingAt DEF Unscarred
<1> QED
  BY <1>1, <1>3, <1>10, <1>11 DEF Client

LEMMA LoadAfterClient ==
    ASSUME Types, \A i \in Loads : Line(i), \A d \in Clients : Client(d),
           NEW c \in Clients, LoadAfter(c)
    PROVE  Types' /\ (\A i \in Loads : Line(i)') /\ \A d \in Clients : Client(d)'
<1>0. Connected(c) /\ client[c].pc = "load"
  BY DEF Client, LoadAfter
<1>1. /\ ClientsTyped /\ Others(c) /\ client[c].on \in Loads
      /\ "from store" \in view'[c].scars /\ view'[c].since = view[c].since
  BY <1>0, LoadAfterStep
<1>2. PICK pc, todo :
         /\ client'[c] = [pc |-> pc, on |-> client[c].on, last |-> client[c].last,
                          from |-> client[c].from, floor |-> client[c].floor,
                          at |-> client[c].at, todo |-> todo, connects |-> client[c].connects]
         /\ pc \in {"live", "reload"}
         /\ \A m \in DOMAIN todo : todo[m].seq >= 1
  BY <1>0, LoadAfterStep
<1>3. /\ Types' /\ \A i \in Loads : Line(i)'
      /\ \A d \in Clients \ {c} : Client(d)'
      /\ emitted' = emitted /\ loads' = loads /\ cursor' = cursor /\ sent' = sent
  BY <1>1, AsideFrame DEF LoadAfter, Aside
<1>4. /\ client'[c].pc = pc /\ client'[c].on = client[c].on /\ client'[c].last = client[c].last
      /\ client'[c].from = client[c].from /\ client'[c].floor = client[c].floor
      /\ client'[c].at = client[c].at /\ client'[c].todo = todo
      /\ client'[c].connects = client[c].connects
  BY <1>2
<1>5. Connected(c)'
  BY <1>0, <1>1, <1>2, <1>3, <1>4 DEF Connected
<1>6. view'[c].scars # {}
  BY <1>1
<1> QED
  BY <1>3, <1>5, <1>6 DEF Client

(* A full fetch covers all the client's load has sent. *)
LEMMA FetchCovers ==
    ASSUME Types, Types', NEW i \in Loads, Line(i), Aside, NEW c \in Clients,
           view'[c].since = emitted, view'[c].told, client'[c].last = Current(cursor[i])
    PROVE  /\ Anchored(c, i)'
           /\ \A e \in Sequenced : SentOrInHand(i, e) => Covered(c, e)'
           /\ cursor[i].buffer # <<>> => client'[c].last >= 1
<1>1. /\ emitted' = emitted /\ cursor' = cursor
      /\ \A e : SentOrInHand(i, e)' <=> SentOrInHand(i, e)
  BY DEF Aside, serving, SentOrInHand, InHand
<1>2. \A e \in Sequenced : SentOrInHand(i, e) => Covered(c, e)'
  BY EntryNumbers DEF Covered
<1>3. /\ client'[c].last < cursor[i].next
      /\ cursor[i].buffer # <<>> => client'[c].last >= 1
  <2>1. cursor[i].next \in Nat
    BY LoadTyped
  <2>2. ASSUME cursor[i].buffer # <<>> PROVE cursor[i].next >= 2
    <3>1. 1 \in DOMAIN cursor[i].buffer
      BY <2>2, LoadTyped
    <3>2. cursor[i].buffer[1] \in Sequenced /\ SentOrInHand(i, cursor[i].buffer[1])
      BY <3>1, LoadTyped DEF Line, Buffered
    <3> QED
      BY <3>2, EntryNumbers
  <2> QED
    BY <2>1, <2>2 DEF Current
<1> QED
  BY <1>1, <1>2, <1>3 DEF Anchored

LEMMA ReloadClient ==
    ASSUME Types, \A i \in Loads : Line(i), \A d \in Clients : Client(d),
           NEW c \in Clients, Reload(c)
    PROVE  Types' /\ (\A i \in Loads : Line(i)') /\ \A d \in Clients : Client(d)'
<1>0. /\ Connected(c) /\ client[c].pc = "reload" /\ client[c].on \in 1..loads
      /\ client[c].on \in Loads
  BY LoadsSoFar DEF Client, Reload, Connected
<1>1. PICK i \in Loads : i = client[c].on
  BY <1>0
<1>2. /\ ClientsTyped /\ Others(c)
      /\ client'[c] = [pc |-> "off", on |-> 0, last |-> Current(cursor[i]), from |-> i,
                       floor |-> 0, at |-> 0, todo |-> <<>>, connects |-> client[c].connects]
      /\ view'[c] = [seen |-> view[c].seen, twice |-> view[c].twice, since |-> emitted,
                     told |-> TRUE, scars |-> {}]
  BY <1>0, <1>1, ReloadStep
<1>3. /\ Types' /\ \A j \in Loads : Line(j)'
      /\ \A d \in Clients \ {c} : Client(d)'
      /\ emitted' = emitted /\ loads' = loads /\ loaded' = loaded /\ cursor' = cursor
  BY <1>2, AsideFrame DEF Reload, Aside
<1>4. /\ client'[c].pc = "off" /\ client'[c].on = 0 /\ client'[c].last = Current(cursor[i])
      /\ client'[c].from = i /\ client'[c].floor = 0 /\ client'[c].todo = <<>>
      /\ client'[c].connects = client[c].connects
      /\ view'[c].since = emitted /\ view'[c].told
  BY <1>2
<1>5. Anchored(c, i)' /\ client'[c].last >= 1 /\ client'[c].last \in Int
  <2>1. cursor[i].buffer # <<>>
    BY <1>0, <1>1 DEF Connected
  <2>2. client'[c] \in ClientType
    BY <1>3 DEF Types
  <2> QED
    BY <1>3, <1>4, <2>1, <2>2, FetchCovers, ClientFields DEF Reload, Aside
<1>6. Connected(c)'
  <2>1. i >= 1 /\ i <= loads /\ 0 <= loads /\ emitted <= emitted
    BY <1>0, <1>1, LoadsSoFar DEF Types
  <2>2. client[c].connects # 0 /\ DOMAIN <<>> = {}
    BY <1>0 DEF Connected
  <2>3. client'[c].last # 0
    BY <1>5
  <2> QED
    BY <1>3, <1>4, <2>1, <2>2, <2>3 DEF Connected
<1>7. Unscarred(c)'
  <2>1. client'[c].last # NoId
    BY <1>5 DEF NoId
  <2>2. loaded' = i => Anchored(c, loaded)'
    BY <1>5, AnchorAt
  <2> QED
    BY <1>4, <2>1, <2>2 DEF Unscarred
<1> QED
  BY <1>3, <1>6, <1>7 DEF Client

(* An event is given to a client: the next one it is to have. *)
LEMMA GivesClient ==
    ASSUME Types, \A i \in Loads : Line(i), \A d \in Clients : Client(d), Aside,
           NEW c \in Clients, NEW e \in Sequenced, NEW i \in Loads,
           client[c].pc = "live", client[c].on = i, Gives(c, e), e.seq >= 1,
           client[c].todo # <<>> => e = Head(client[c].todo),
           client[c].todo = <<>> => client[c].at + 1 <= Len(sent[i])
                                    /\ e = sent[i][client[c].at + 1],
           view[c].scars = {} =>
              /\ SentOrInHand(i, e) /\ e.seq > client[c].floor
              /\ \A f \in Sequenced : SentOrInHand(i, f) /\ f.seq <= e.seq => Covered(c, f) \/ f = e
    PROVE  Types' /\ (\A j \in Loads : Line(j)') /\ \A d \in Clients : Client(d)'
<1> DEFINE todo == client[c].todo
           rest == IF todo # <<>> THEN Tail(todo) ELSE todo
           at == IF todo = <<>> THEN client[c].at + 1 ELSE client[c].at
           floor == IF e.seq > client[c].floor THEN e.seq ELSE client[c].floor
<1>1. /\ ClientsTyped /\ Others(c)
      /\ client'[c] = [pc |-> client[c].pc, on |-> client[c].on, last |-> e.seq,
                       from |-> client[c].on, floor |-> floor, at |-> at, todo |-> rest,
                       connects |-> client[c].connects]
      /\ view'[c].seen = view[c].seen \union {e.ev}
      /\ view'[c].twice = (view[c].twice \/ e.ev \in view[c].seen)
      /\ view'[c].since = view[c].since /\ view'[c].told = view[c].told
      /\ view'[c].scars = view[c].scars
  BY GivesStep
<1>2. /\ Types' /\ \A j \in Loads : Line(j)'
      /\ \A d \in Clients \ {c} : Client(d)'
      /\ emitted' = emitted /\ loads' = loads /\ loaded' = loaded /\ cursor' = cursor
      /\ sent' = sent /\ bus' = bus
      /\ \A j, f : SentOrInHand(j, f)' <=> SentOrInHand(j, f)
  BY <1>1, AsideFrame
<1>3. /\ client'[c].pc = "live" /\ client'[c].on = i /\ client'[c].last = e.seq
      /\ client'[c].from = i /\ client'[c].floor = floor /\ client'[c].at = at
      /\ client'[c].todo = rest /\ client'[c].connects = client[c].connects
  BY <1>1
<1>4. /\ Connected(c) /\ ClientTyped(c) /\ Line(i)
      /\ e.seq \in Nat /\ e.ev \in Nat /\ Len(sent[i]) \in Nat
      /\ todo \in Seq(Sequenced) /\ client[c].at \in Nat /\ client[c].floor \in Nat
  BY ClientIsTyped, LoadTyped DEF Client, ClientTyped, Sequenced
<1>5. /\ todo # <<>> => 1 \in DOMAIN todo /\ todo[1] = e
      /\ \A m \in DOMAIN rest : m + 1 \in DOMAIN todo /\ 1 < m + 1 /\ rest[m] = todo[m + 1]
      /\ \A n \in DOMAIN todo : n = 1 \/ (n - 1 \in DOMAIN rest /\ rest[n - 1] = todo[n])
      /\ \A m, n \in DOMAIN rest : m < n => m + 1 < n + 1
      /\ \A m \in DOMAIN todo : todo[m] \in Sequenced
  <2>1. CASE todo = <<>>
    <3>1. DOMAIN todo = {} /\ rest = todo
      BY <2>1
    <3> HIDE DEF rest
    <3> QED
      BY <2>1, <3>1
  <2>2. CASE todo # <<>>
    <3>1. /\ 1 \in DOMAIN todo /\ todo[1] = Head(todo) /\ DOMAIN todo = 1..Len(todo)
          /\ DOMAIN Tail(todo) = 1..(Len(todo) - 1) /\ Len(todo) \in Nat
          /\ \A m \in 1..(Len(todo) - 1) : Tail(todo)[m] = todo[m + 1]
      BY <1>4, <2>2
    <3>2. rest = Tail(todo)
      BY <2>2
    <3> HIDE DEF rest
    <3>3. \A m \in DOMAIN rest : m + 1 \in DOMAIN todo /\ 1 < m + 1 /\ rest[m] = todo[m + 1]
      BY <3>1, <3>2
    <3>4. ASSUME NEW n \in DOMAIN todo, n # 1
          PROVE  n - 1 \in DOMAIN rest /\ rest[n - 1] = todo[n]
      <4>1. n - 1 \in 1..(Len(todo) - 1) /\ n - 1 + 1 = n
        BY <3>1, <3>4
      <4> QED
        BY <3>1, <3>2, <4>1
    <3>5. \A m, n \in DOMAIN rest : m < n => m + 1 < n + 1
      BY <3>1, <3>2
    <3> QED
      BY <1>4, <2>2, <3>1, <3>3, <3>4, <3>5
  <2> QED
    BY <2>1, <2>2
<1>6. /\ at \in Nat /\ at <= Len(sent[i])
      /\ \A n \in 1..at : n \in 1..client[c].at \/ (todo = <<>> /\ sent[i][n] = e)
  <2>1. client[c].at <= Len(sent[i])
    BY <1>4 DEF Connected
  <2>2. CASE todo = <<>>
    <3>1. at = client[c].at + 1 /\ at <= Len(sent[i]) /\ sent[i][at] = e
      BY <2>2
    <3> QED
      BY <1>4, <2>2, <3>1
  <2>3. CASE todo # <<>>
    BY <1>4, <2>1, <2>3
  <2> QED
    BY <2>2, <2>3
<1> HIDE DEF rest, at, floor
<1>7. Connected(c)'
  <2>1. \A m \in DOMAIN rest : rest[m].seq >= 1
    BY <1>4, <1>5 DEF Connected
  <2>2. e.seq # 0 /\ i >= 1 /\ i <= loads /\ i \in 1..loads
    BY <1>4, LoadsSoFar DEF Connected
  <2> QED
    BY <1>1, <1>2, <1>3, <1>4, <1>6, <2>1, <2>2 DEF Connected
<1>8. ASSUME view[c].scars = {} PROVE Unscarred(c)'
  <2>1. /\ Unscarred(c) /\ SentOrInHand(i, e) /\ e.seq > client[c].floor
        /\ \A f \in Sequenced : SentOrInHand(i, f) /\ f.seq <= e.seq => Covered(c, f) \/ f = e
    BY <1>8 DEF Client
  <2>2. floor = e.seq
    BY <2>1 DEF floor
  <2>3. \A f \in Sequenced : Covered(c, f) \/ f = e => Covered(c, f)'
    BY <1>1 DEF Covered
  <2>4. /\ e.seq < cursor[i].next /\ e.ev <= emitted
        /\ \A k \in DOMAIN bus[i] : e.ev < bus[i][k]
    BY <1>4, <2>1 DEF Line, Trails
  <2>5. Following(c, i)
    BY <2>1 DEF Unscarred
  <2>6. ASSUME ~view[c].told
        PROVE  /\ ~view'[c].twice /\ NotSeen(c, i)'
    <3>1. \A x \in view[c].seen :
             /\ x \in Nat /\ x <= emitted /\ x < e.ev
             /\ \A f \in Sequenced : SentOrInHand(i, f) /\ f.seq > e.seq => x < f.ev
             /\ \A k \in DOMAIN bus[i] : x < bus[i][k]
      <4>1. CASE client[c].last = NoId
        BY <2>1, <2>6, <4>1 DEF Unscarred
      <4>2. CASE client[c].last # NoId
        <5>1. NotSeen(c, i) /\ client[c].last <= client[c].floor /\ client[c].last \in Int
          BY <1>4, <2>1, <2>5, <2>6, <4>2 DEF Unscarred, Anchored, Following, ClientTyped
        <5>2. e.seq > client[c].last
          BY <1>4, <2>1, <5>1
        <5>3. \A f \in Sequenced : f.seq > e.seq => f.seq > client[c].last
          BY <1>4, <5>1, <5>2 DEF Sequenced
        <5> QED
          BY <1>4, <2>1, <5>1, <5>2, <5>3 DEF NotSeen, ClientTyped
      <4> QED
        BY <4>1, <4>2
    <3>2. \A f \in Sequenced : SentOrInHand(i, f) /\ f.seq > e.seq => e.ev < f.ev
      BY <1>4, <2>1, EntriesAscend DEF Line
    <3>3. e.ev \notin view[c].seen
      BY <1>4, <3>1
    <3>4. ~view'[c].twice
      BY <1>1, <2>1, <2>6, <3>3 DEF Unscarred
    <3>5. NotSeen(c, i)'
      BY <1>1, <1>2, <1>3, <2>4, <3>1, <3>2 DEF NotSeen
    <3> QED
      BY <3>4, <3>5
  <2>7. Anchored(c, i)'
    <3>1. \A f \in Sequenced : SentOrInHand(i, f) /\ f.seq <= e.seq => Covered(c, f)'
      BY <2>1, <2>3
    <3> QED
      BY <1>1, <1>2, <1>3, <2>4, <2>6, <3>1 DEF Anchored
  <2>8. Following(c, i)'
    <3>1. /\ InSequence(todo)
          /\ \A m \in DOMAIN todo : SentOrInHand(i, todo[m])
          /\ \A f \in Sequenced, m \in DOMAIN todo :
                SentOrInHand(i, f) /\ f.seq <= todo[m].seq =>
                   Covered(c, f) \/ \E n \in DOMAIN todo : todo[n] = f
          /\ \A n \in 1..client[c].at :
                Covered(c, sent[i][n]) \/ \E m \in DOMAIN todo : todo[m] = sent[i][n]
      BY <2>5 DEF Following
    <3>2. InSequence(rest)
      BY <1>5, <3>1 DEF InSequence
    <3>3. \A m \in DOMAIN rest : SentOrInHand(i, rest[m]) /\ rest[m].seq > e.seq
      <4> SUFFICES ASSUME NEW m \in DOMAIN rest
                   PROVE  SentOrInHand(i, rest[m]) /\ rest[m].seq > e.seq
        OBVIOUS
      <4>1. m + 1 \in DOMAIN todo /\ 1 < m + 1 /\ rest[m] = todo[m + 1]
        BY <1>5
      <4>2. 1 \in DOMAIN todo /\ todo[1] = e
        <5>1. DOMAIN <<>> = {}
          OBVIOUS
        <5> QED
          BY <1>5, <4>1, <5>1
      <4>3. e.seq < rest[m].seq /\ rest[m] \in Sequenced
        BY <1>5, <3>1, <4>1, <4>2 DEF InSequence
      <4> QED
        BY <1>4, <3>1, <4>1, <4>3 DEF Sequenced
    <3>4. \A f : (\E n \in DOMAIN todo : todo[n] = f) => f = e \/ \E n \in DOMAIN rest : rest[n] = f
      <4> SUFFICES ASSUME NEW n \in DOMAIN todo
                   PROVE  todo[n] = e \/ \E m \in DOMAIN rest : rest[m] = todo[n]
        OBVIOUS
      <4>1. CASE n = 1
        <5>1. DOMAIN <<>> = {}
          OBVIOUS
        <5> QED
          BY <1>5, <4>1, <5>1
      <4>2. CASE n # 1
        BY <1>5, <4>2
      <4> QED
        BY <4>1, <4>2
    <3>5. ASSUME NEW f \in Sequenced, NEW m \in DOMAIN rest, SentOrInHand(i, f), f.seq <= rest[m].seq
          PROVE  Covered(c, f)' \/ \E n \in DOMAIN rest : rest[n] = f
      <4>1. m + 1 \in DOMAIN todo /\ rest[m] = todo[m + 1]
        BY <1>5
      <4>2. Covered(c, f) \/ \E n \in DOMAIN todo : todo[n] = f
        BY <3>1, <3>5, <4>1
      <4> QED
        BY <2>3, <3>4, <4>2
    <3>6. ASSUME NEW n \in 1..at
          PROVE  \/ sent[i][n].ev \in view'[c].seen \/ sent[i][n].ev <= view'[c].since
                 \/ \E m \in DOMAIN rest : rest[m] = sent[i][n]
      <4>1. sent[i][n] \in Sequenced
        <5>1. n \in 1..Len(sent[i])
          BY <1>4, <1>6
        <5> QED
          BY <5>1, SentIsEntry
      <4>2. CASE sent[i][n] = e
        BY <1>1, <4>2
      <4>3. CASE n \in 1..client[c].at
        BY <1>1, <3>1, <3>4, <4>1, <4>3 DEF Covered
      <4> QED
        BY <1>6, <4>2, <4>3
    <3>7. ASSUME NEW f \in Sequenced, SentOrInHand(i, f), f.seq <= e.seq PROVE Covered(c, f)'
      BY <2>1, <2>3, <3>7
    <3>8. e.seq <= e.seq
      BY <1>4
    <3> QED
      BY <1>2, <1>3, <2>2, <2>4, <3>2, <3>3, <3>5, <3>6, <3>7, <3>8 DEF Following, Covered
  <2>9. client'[c].last # NoId
    BY <1>3, <1>4 DEF NoId
  <2> QED
    BY <1>1, <1>3, <2>6, <2>7, <2>8, <2>9, AnchorAt, FollowingAt DEF Unscarred
<1> QED
  BY <1>1, <1>2, <1>7, <1>8 DEF Client

LEMMA ForwardReplayedClient ==
    ASSUME Types, \A i \in Loads : Line(i), \A d \in Clients : Client(d),
           NEW c \in Clients, ForwardReplayed(c)
    PROVE  Types' /\ (\A i \in Loads : Line(i)') /\ \A d \in Clients : Client(d)'
<1> DEFINE e == Head(client[c].todo)
<1>1. /\ client[c].pc = "live" /\ client[c].todo # <<>> /\ Gives(c, e) /\ Aside
      /\ Connected(c) /\ ClientTyped(c)
  BY ClientIsTyped DEF ForwardReplayed, Aside, Client
<1>2. /\ 1 \in DOMAIN client[c].todo /\ e = client[c].todo[1] /\ e \in Sequenced
      /\ \A m \in DOMAIN client[c].todo : m = 1 \/ 1 < m
  BY <1>1 DEF ClientTyped
<1> HIDE DEF e
<1>3. PICK i \in Loads : i = client[c].on
  BY <1>1, LoadsSoFar DEF Connected
<1>4. e.seq >= 1
  BY <1>1, <1>2 DEF Connected
<1>5. ASSUME view[c].scars = {}
      PROVE  /\ SentOrInHand(i, e) /\ e.seq > client[c].floor
             /\ \A f \in Sequenced : SentOrInHand(i, f) /\ f.seq <= e.seq => Covered(c, f) \/ f = e
  <2>1. Following(c, i)
    BY <1>1, <1>3, <1>5 DEF Client, Unscarred
  <2>2. SentOrInHand(i, e) /\ e.seq > client[c].floor
    BY <1>2, <2>1 DEF Following
  <2>3. ASSUME NEW f \in Sequenced, SentOrInHand(i, f), f.seq <= e.seq PROVE Covered(c, f) \/ f = e
    <3>1. Covered(c, f) \/ \E m \in DOMAIN client[c].todo : client[c].todo[m] = f
      BY <1>2, <2>1, <2>3 DEF Following
    <3>2. ASSUME NEW m \in DOMAIN client[c].todo, client[c].todo[m] = f PROVE f = e
      <4>1. CASE m = 1
        BY <1>2, <3>2, <4>1
      <4>2. CASE 1 < m
        <5>1. e.seq < f.seq
          BY <1>2, <2>1, <3>2, <4>2 DEF Following, InSequence
        <5>2. e.seq \in Nat /\ f.seq \in Nat
          BY <1>2 DEF Sequenced
        <5> QED
          BY <2>3, <5>1, <5>2
      <4> QED
        BY <1>2, <4>1, <4>2
    <3> QED
      BY <3>1, <3>2
  <2> QED
    BY <2>2, <2>3
<1> QED
  BY <1>1, <1>2, <1>3, <1>4, <1>5, GivesClient DEF e

(* A live event at or below the floor has been replayed: it is passed over. *)
LEMMA SkipClient ==
    ASSUME Types, \A i \in Loads : Line(i), \A d \in Clients : Client(d), Aside,
           NEW c \in Clients, NEW i \in Loads, client[c].pc = "live", client[c].on = i,
           client' = [client EXCEPT ![c].at = @ + 1], UNCHANGED view,
           client[c].at + 1 <= Len(sent[i]),
           sent[i][client[c].at + 1].seq <= client[c].floor
    PROVE  Types' /\ (\A j \in Loads : Line(j)') /\ \A d \in Clients : Client(d)'
<1>1. /\ ClientsTyped /\ Others(c)
      /\ client'[c] = [pc |-> client[c].pc, on |-> client[c].on, last |-> client[c].last,
                       from |-> client[c].from, floor |-> client[c].floor,
                       at |-> client[c].at + 1, todo |-> client[c].todo,
                       connects |-> client[c].connects]
      /\ view'[c] = view[c]
  BY SkipStep
<1>2. /\ Types' /\ \A j \in Loads : Line(j)'
      /\ \A d \in Clients \ {c} : Client(d)'
      /\ emitted' = emitted /\ loads' = loads /\ loaded' = loaded /\ cursor' = cursor
      /\ sent' = sent /\ bus' = bus
      /\ \A j, f : SentOrInHand(j, f)' <=> SentOrInHand(j, f)
  BY <1>1, AsideFrame
<1>3. /\ client'[c].pc = "live" /\ client'[c].on = i /\ client'[c].last = client[c].last
      /\ client'[c].from = client[c].from /\ client'[c].floor = client[c].floor
      /\ client'[c].at = client[c].at + 1
      /\ client'[c].todo = client[c].todo /\ client'[c].connects = client[c].connects
  BY <1>1
<1>4. /\ Connected(c) /\ ClientTyped(c) /\ Len(sent[i]) \in Nat
      /\ client[c].at + 1 \in 1..Len(sent[i])
      /\ \A n \in 1..(client[c].at + 1) : n \in 1..client[c].at \/ n = client[c].at + 1
  BY ClientIsTyped, LoadTyped DEF Client, ClientTyped
<1>5. Connected(c)'
  BY <1>1, <1>2, <1>3, <1>4 DEF Connected
<1>6. ASSUME view[c].scars = {} PROVE Unscarred(c)'
  <2>1. Unscarred(c)
    BY <1>6 DEF Client
  <2>2. \A f : Covered(c, f)' <=> Covered(c, f)
    BY <1>1 DEF Covered
  <2>3. ASSUME client[c].last # NoId PROVE client[c].from = i /\ Anchored(c, i)'
    <3>1. client[c].from = i /\ Anchored(c, i)
      BY <2>1, <2>3 DEF Unscarred
    <3>2. Anchored(c, i)'
      BY <1>1, <1>2, <1>3, <2>2, <3>1 DEF Anchored, NotSeen
    <3> QED
      BY <3>1, <3>2
  <2>4. Following(c, i)'
    <3>1. Following(c, i)
      BY <2>1 DEF Unscarred
    <3>2. Covered(c, sent[i][client[c].at + 1])
      BY <1>4, <3>1, SentIsEntry DEF Following
    <3>3. \A n \in 1..(client[c].at + 1) :
             \/ Covered(c, sent[i][n])
             \/ \E m \in DOMAIN client[c].todo : client[c].todo[m] = sent[i][n]
      BY <1>4, <3>1, <3>2 DEF Following
    <3> QED
      BY <1>1, <1>2, <1>3, <3>1, <3>3 DEF Following, Covered
  <2> QED
    BY <1>1, <1>3, <2>1, <2>3, <2>4, AnchorAt, FollowingAt DEF Unscarred
<1> QED
  BY <1>1, <1>2, <1>5, <1>6 DEF Client

LEMMA ForwardLiveClient ==
    ASSUME Types, \A i \in Loads : Line(i), \A d \in Clients : Client(d),
           NEW c \in Clients, ForwardLive(c)
    PROVE  Types' /\ (\A i \in Loads : Line(i)') /\ \A d \in Clients : Client(d)'
<1>1. /\ client[c].pc = "live" /\ client[c].todo = <<>> /\ Aside
      /\ Connected(c) /\ ClientTyped(c) /\ Unread(c) \in 1..LiveCapacity
  BY ClientIsTyped DEF ForwardLive, Waits, Aside, Client
<1>2. PICK i \in Loads : i = client[c].on
  BY <1>1, LoadsSoFar DEF Connected
<1> DEFINE at == client[c].at + 1
           e == sent[i][at]
<1>3. at \in 1..Len(sent[i]) /\ at <= Len(sent[i])
  <2>1. Len(sent[i]) \in Nat /\ client[c].at \in Nat /\ Len(sent[i]) - client[c].at >= 1
    BY <1>1, <1>2, LoadTyped, SseAssumption DEF ClientTyped, Unread
  <2> QED
    BY <2>1
<1>4. /\ e \in Sequenced /\ SentOrInHand(i, e) /\ e.seq \in Nat /\ 1 <= e.seq /\ client[c].floor \in Nat
  BY <1>1, <1>3, SentIsEntry, EntryNumbers DEF ClientTyped
<1>5. \/ /\ e.seq <= client[c].floor
         /\ client' = [client EXCEPT ![c].at = @ + 1] /\ UNCHANGED view
      \/ ~(e.seq <= client[c].floor) /\ Gives(c, e)
  BY <1>2 DEF ForwardLive
<1>6. CASE e.seq <= client[c].floor
  BY <1>1, <1>2, <1>3, <1>5, <1>6, SkipClient
<1>7. CASE ~(e.seq <= client[c].floor)
  <2>1. e.seq > client[c].floor
    BY <1>4, <1>7
  <2>2. ASSUME view[c].scars = {}, NEW f \in Sequenced, SentOrInHand(i, f), f.seq <= e.seq
        PROVE  Covered(c, f) \/ f = e
    <3>1. Following(c, i)
      BY <1>1, <1>2, <2>2 DEF Client, Unscarred
    <3>2. /\ \A n \in DOMAIN sent[i] : n \in Nat /\ sent[i][n].seq \in Nat
          /\ at \in DOMAIN sent[i] /\ client[c].at \in Nat /\ f.seq \in Nat
      <4>1. /\ \A n \in DOMAIN sent[i] : n \in Nat /\ sent[i][n] \in Sequenced
            /\ at \in DOMAIN sent[i]
        BY <1>3, LoadTyped
      <4>2. \A x \in Sequenced : x.seq \in Nat
        BY DEF Sequenced
      <4> QED
        BY <1>1, <4>1, <4>2 DEF ClientTyped
    <3>3. CASE sequencer[i].pc = "send" /\ f = InHand(i)
      <4>1. e.seq < f.seq
        BY <3>2, <3>3 DEF Line, SentInOrder, InHand
      <4> QED
        BY <1>4, <2>2, <3>2, <4>1
    <3>4. ASSUME NEW n \in DOMAIN sent[i], sent[i][n] = f PROVE Covered(c, f) \/ f = e
      <4>1. ~(at < n)
        <5>1. ASSUME at < n PROVE FALSE
          <6>1. e.seq < f.seq
            BY <3>2, <3>4, <5>1 DEF Line, SentInOrder, InSequence
          <6> QED
            BY <1>4, <2>2, <3>2, <6>1
        <5> QED
          BY <5>1
      <4>2. n = at \/ n \in 1..client[c].at
        BY <3>2, <4>1, LoadTyped
      <4>3. ASSUME n \in 1..client[c].at PROVE Covered(c, f)
        <5>1. \/ Covered(c, sent[i][n])
              \/ \E m \in DOMAIN client[c].todo : client[c].todo[m] = sent[i][n]
          BY <3>1, <4>3 DEF Following
        <5>2. DOMAIN client[c].todo = {}
          BY <1>1
        <5> QED
          BY <3>4, <5>1, <5>2
      <4> QED
        BY <3>4, <4>2, <4>3
    <3> QED
      BY <2>2, <3>3, <3>4 DEF SentOrInHand
  <2> HIDE DEF e
  <2> QED
    BY <1>1, <1>2, <1>3, <1>4, <1>5, <1>7, <2>1, <2>2, GivesClient DEF e
<1> QED
  BY <1>6, <1>7

LEMMA ForwardLaggedClient ==
    ASSUME Types, \A i \in Loads : Line(i), \A d \in Clients : Client(d),
           NEW c \in Clients, ForwardLagged(c)
    PROVE  Types' /\ (\A i \in Loads : Line(i)') /\ \A d \in Clients : Client(d)'
<1>0. /\ client[c].pc = "live" /\ client[c].todo = <<>> /\ Aside
      /\ Connected(c) /\ ClientTyped(c)
  BY ClientIsTyped DEF ForwardLagged, Waits, Aside, Client
<1>1. PICK i \in Loads : i = client[c].on
  BY <1>0, LoadsSoFar DEF Connected
<1> DEFINE at == Len(sent[i]) - LiveCapacity
<1>2. /\ ClientsTyped /\ Others(c) /\ at \in 1..Len(sent[i])
      /\ client'[c] = [pc |-> client[c].pc, on |-> client[c].on, last |-> Current(cursor[i]),
                       from |-> client[c].on, floor |-> client[c].floor, at |-> at,
                       todo |-> client[c].todo, connects |-> client[c].connects]
      /\ view'[c] = [seen |-> view[c].seen, twice |-> view[c].twice, since |-> emitted,
                     told |-> TRUE, scars |-> view[c].scars]
  BY <1>0, <1>1, LaggedStep
<1> HIDE DEF at
<1>3. /\ Types' /\ \A j \in Loads : Line(j)'
      /\ \A d \in Clients \ {c} : Client(d)'
      /\ emitted' = emitted /\ loads' = loads /\ loaded' = loaded /\ cursor' = cursor
      /\ sent' = sent /\ bus' = bus
      /\ \A j, f : SentOrInHand(j, f)' <=> SentOrInHand(j, f)
  BY <1>0, <1>2, AsideFrame
<1>4. /\ client'[c].pc = "live" /\ client'[c].on = i /\ client'[c].last = Current(cursor[i])
      /\ client'[c].from = i /\ client'[c].floor = client[c].floor
      /\ client'[c].at = at /\ client'[c].todo = <<>>
      /\ client'[c].connects = client[c].connects
      /\ view'[c].since = emitted /\ view'[c].told /\ view'[c].scars = view[c].scars
  BY <1>0, <1>1, <1>2
<1>5. /\ Len(sent[i]) \in Nat /\ at \in Nat /\ at <= Len(sent[i])
      /\ \A n \in 1..at : n \in 1..Len(sent[i])
  BY <1>2, LoadTyped
<1>6. cursor[i].buffer # <<>>
  BY <1>2, SentIsEntry, EntryNumbers
<1>7. /\ Anchored(c, i)' /\ client'[c].last >= 1 /\ client'[c].last \in Int
      /\ \A e \in Sequenced : SentOrInHand(i, e) => Covered(c, e)'
  <2>1. client'[c] \in ClientType
    BY <1>3 DEF Types
  <2> QED
    BY <1>0, <1>3, <1>4, <1>6, <2>1, FetchCovers, ClientFields
<1>8. Connected(c)'
  <2>1. i \in 1..loads /\ i >= 1 /\ i <= loads /\ emitted <= emitted
    BY <1>0, <1>1, LoadsSoFar DEF Connected, Types
  <2>2. client[c].connects # 0 /\ DOMAIN <<>> = {}
    BY <1>0 DEF Connected
  <2>3. client'[c].last # 0
    BY <1>7
  <2> QED
    BY <1>3, <1>4, <1>5, <2>1, <2>2, <2>3 DEF Connected
<1>9. ASSUME view[c].scars = {} PROVE Unscarred(c)'
  <2>1. Following(c, i)
    BY <1>0, <1>1, <1>9 DEF Client, Unscarred
  <2>2. Following(c, i)'
    <3>1. \A n \in 1..at : sent[i][n].ev <= view'[c].since
      <4> SUFFICES ASSUME NEW n \in 1..at PROVE sent[i][n].ev <= emitted
        BY <1>4
      <4> QED
        BY <1>5, SentIsEntry, EntryNumbers
    <3>2. DOMAIN <<>> = {}
      OBVIOUS
    <3> QED
      BY <1>3, <1>4, <1>7, <2>1, <3>1, <3>2 DEF Following, Covered, InSequence
  <2>3. client'[c].last # NoId
    BY <1>7 DEF NoId
  <2> QED
    BY <1>4, <1>7, <2>2, <2>3, AnchorAt, FollowingAt DEF Unscarred
<1> QED
  BY <1>3, <1>4, <1>8, <1>9 DEF Client

LEMMA DisconnectClient ==
    ASSUME Types, \A i \in Loads : Line(i), \A d \in Clients : Client(d),
           NEW c \in Clients, Disconnect(c)
    PROVE  Types' /\ (\A i \in Loads : Line(i)') /\ \A d \in Clients : Client(d)'
<1>0. client[c].pc # "off" /\ Aside /\ Connected(c) /\ ClientTyped(c)
  BY ClientIsTyped DEF Disconnect, Aside, Client
<1>1. ClientsTyped /\ Others(c) /\ view' = view /\ client'[c] = CutOff(c)
  BY DisconnectStep
<1>2. /\ Types' /\ \A j \in Loads : Line(j)'
      /\ \A d \in Clients \ {c} : Client(d)'
      /\ emitted' = emitted /\ loads' = loads /\ loaded' = loaded /\ cursor' = cursor
      /\ sent' = sent /\ bus' = bus
      /\ \A j, f : SentOrInHand(j, f)' <=> SentOrInHand(j, f)
  BY <1>0, <1>1, AsideFrame
<1>3. /\ client'[c].pc = "off" /\ client'[c].on = 0 /\ client'[c].last = client[c].last
      /\ client'[c].from = client[c].from /\ client'[c].floor = 0 /\ client'[c].todo = <<>>
      /\ client'[c].connects = client[c].connects
  BY <1>1, CutOffTyped
<1>4. Connected(c)'
  <2>1. 0 <= loads /\ DOMAIN <<>> = {}
    BY LoadsSoFar
  <2> QED
    BY <1>0, <1>1, <1>2, <1>3, <2>1 DEF Connected
<1>5. ASSUME view[c].scars = {} PROVE Unscarred(c)'
  <2>1. Unscarred(c)
    BY <1>5 DEF Client
  <2>2. ASSUME client[c].last # NoId, client[c].from = loaded' PROVE Anchored(c, loaded)'
    <3>1. PICK i \in Loads : i = client[c].on
      BY <1>0, LoadsSoFar DEF Connected
    <3>2. client[c].from = i /\ Anchored(c, i)
      BY <1>0, <2>1, <2>2, <3>1 DEF Unscarred
    <3>3. Anchored(c, i)'
      BY <1>1, <1>2, <1>3, <3>2 DEF Anchored, NotSeen, Covered
    <3> QED
      BY <2>2, <3>2, <3>3, AnchorAt
  <2> QED
    BY <1>1, <1>3, <2>1, <2>2 DEF Unscarred
<1> QED
  BY <1>1, <1>2, <1>4, <1>5 DEF Client

LEMMA RestartClients ==
    ASSUME Types, \A d \in Clients : Client(d), ServerRestart
    PROVE  Types' /\ (\A i \in Loads : Line(i)') /\ \A d \in Clients : Client(d)'
<1>1. /\ Types' /\ \A i \in Loads : Line(i)'
      /\ \A d \in Clients : client'[d] = CutOff(d)
      /\ loads' = loads /\ loaded' = 0 /\ emitted' = emitted /\ view' = view
  BY RestartStep DEF ServerRestart
<1>2. ASSUME NEW c \in Clients PROVE Client(c)'
  <2>1. /\ client'[c].pc = "off" /\ client'[c].on = 0 /\ client'[c].last = client[c].last
        /\ client'[c].from = client[c].from /\ client'[c].floor = 0 /\ client'[c].todo = <<>>
        /\ client'[c].connects = client[c].connects
    BY <1>1, CutOffTyped
  <2>2. Connected(c) /\ ClientTyped(c) /\ 0 <= loads /\ DOMAIN <<>> = {}
    BY ClientIsTyped, LoadsSoFar DEF Client
  <2>3. Connected(c)'
    BY <1>1, <2>1, <2>2 DEF Connected
  <2>4. client[c].last # NoId => client[c].from # 0
    BY <2>2 DEF Connected
  <2>5. view[c].scars = {} => Unscarred(c)'
    BY <1>1, <2>1, <2>4 DEF Client, Unscarred
  <2> QED
    BY <1>1, <2>3, <2>5 DEF Client
<1> QED
  BY <1>1, <1>2

--------------------------------------------------------------------------------
(***************************************************************************)
(* The inductive invariant and what it implies.                            *)
(***************************************************************************)
LEMMA InitSse == SseInit => SseInv
<1> SUFFICES ASSUME SseInit PROVE SseInv
  OBVIOUS
<1>1. Types /\ \A i \in Loads : Line(i)
  BY InitSseTypes, InitLine
<1>2. ASSUME NEW c \in Clients PROVE Client(c)
  <2>1. client[c] = Offline /\ view[c] = NewView /\ emitted = 0 /\ loads = 1
    BY DEF SseInit
  <2>2. /\ client[c].pc = "off" /\ client[c].on = 0 /\ client[c].last = NoId
        /\ client[c].from = 0 /\ client[c].floor = 0 /\ client[c].todo = <<>>
        /\ view[c].seen = {} /\ ~view[c].twice /\ view[c].since = 0 /\ DOMAIN <<>> = {}
    BY <2>1 DEF Offline, NewView
  <2>3. NoId # 0
    BY DEF NoId
  <2> QED
    BY <2>1, <2>2, <2>3 DEF Client, Connected, Unscarred
<1> QED
  BY <1>1, <1>2 DEF SseInv

LEMMA SseInvStep == SseInv /\ [SseNext]_sseVars => SseInv'
<1> SUFFICES ASSUME SseInv, [SseNext]_sseVars PROVE SseInv'
  OBVIOUS
<1>0. Types /\ (\A i \in Loads : Line(i)) /\ \A c \in Clients : Client(c)
  BY DEF SseInv
<1> DEFINE Kept == Types' /\ (\A i \in Loads : Line(i)') /\ \A c \in Clients : Client(c)'
<1> SUFFICES Kept
  BY DEF SseInv
<1>1. ASSUME Types', \A i \in Loads : Line(i)' /\ CountsOn(i), client' = client, view' = view,
             loads' >= loads, loaded' = loaded \/ loaded' = 0 \/ loaded' > loads
      PROVE  Kept
  BY <1>0, <1>1, ClientKept
<1>2. loads >= loads /\ loads + 1 > loads /\ loads + 1 >= loads
  BY <1>0, LoadsSoFar
<1>3. CASE Emit
  <2>1. Types' /\ \A i \in Loads : Line(i)' /\ CountsOn(i)
    BY <1>0, <1>3, EmitStep
  <2> QED
    BY <1>1, <1>2, <1>3, <2>1 DEF Emit
<1>4. ASSUME NEW i \in Loads, Number(i) PROVE Kept
  <2>1. Types' /\ \A j \in Loads : Line(j)' /\ CountsOn(j)
    BY <1>0, <1>4, NumberStep
  <2> QED
    BY <1>1, <1>2, <1>4, <2>1 DEF Number
<1>5. ASSUME NEW i \in Loads, SendOn(i) PROVE Kept
  <2>1. Types' /\ \A j \in Loads : Line(j)' /\ CountsOn(j)
    BY <1>0, <1>5, SendOnStep
  <2> QED
    BY <1>1, <1>2, <1>5, <2>1 DEF SendOn
<1>6. CASE StartTurn \/ DropSession \/ Restore \/ SeedRestored
  <2>1. Types' /\ \A j \in Loads : Line(j)' /\ CountsOn(j)
    BY <1>0, <1>6, SeedStep
  <2>2. /\ client' = client /\ view' = view /\ loads' >= loads
        /\ loaded' = loaded \/ loaded' = 0 \/ loaded' > loads
    BY <1>2, <1>6 DEF StartTurn, DropSession, Restore, SeedRestored
  <2> QED
    BY <1>1, <2>1, <2>2
<1>7. CASE ServerRestart
  BY <1>0, <1>7, RestartClients
<1>8. ASSUME NEW c \in Clients, Connect(c) PROVE Kept
  BY <1>0, <1>8, ConnectClient
<1>9. ASSUME NEW c \in Clients, Replay(c) PROVE Kept
  BY <1>0, <1>9, ReplayClient
<1>10. ASSUME NEW c \in Clients, LoadAfter(c) PROVE Kept
  BY <1>0, <1>10, LoadAfterClient
<1>11. ASSUME NEW c \in Clients, Reload(c) PROVE Kept
  BY <1>0, <1>11, ReloadClient
<1>12. ASSUME NEW c \in Clients, ForwardReplayed(c) PROVE Kept
  BY <1>0, <1>12, ForwardReplayedClient
<1>13. ASSUME NEW c \in Clients, ForwardLive(c) PROVE Kept
  BY <1>0, <1>13, ForwardLiveClient
<1>14. ASSUME NEW c \in Clients, ForwardLagged(c) PROVE Kept
  BY <1>0, <1>14, ForwardLaggedClient
<1>15. ASSUME NEW c \in Clients, Disconnect(c) PROVE Kept
  BY <1>0, <1>15, DisconnectClient
<1>16. CASE UNCHANGED sseVars
  <2>1. /\ emitted' = emitted /\ disk' = disk /\ loads' = loads /\ loaded' = loaded
        /\ durable_seq' = durable_seq /\ cursor' = cursor /\ bus' = bus
        /\ sequencer' = sequencer /\ sent' = sent /\ client' = client /\ view' = view
    BY <1>16 DEF sseVars, serving
  <2>2. Types'
    BY <1>0, <2>1 DEF Types
  <2>3. ASSUME NEW i \in Loads PROVE Line(i)' /\ CountsOn(i)
    <3>1. emitted' \in Nat /\ emitted' >= emitted /\ cursor'[i].next >= cursor[i].next
          /\ cursor'[i] \in CursorType
      BY <1>0, <2>1, LoadTyped
    <3> QED
      BY <1>0, <2>1, <3>1, LineKept
  <2> QED
    BY <1>1, <1>2, <2>1, <2>2, <2>3
<1> QED
  BY <1>3, <1>4, <1>5, <1>6, <1>7, <1>8, <1>9, <1>10, <1>11, <1>12, <1>13, <1>14, <1>15, <1>16
     DEF SseNext

(* The invariant that the theorems about clients rest on: the entries of a load  *)
(* and its buffer agree, and each client's id divides them.                      *)
THEOREM SseSafe == SseSpec => []SseInv
BY InitSse, SseInvStep, PTL DEF SseSpec

(* One writer numbers the events: on the live channel the numbers only rise, and *)
(* what has been sent can be replayed from the buffer unless it is evicted.      *)
THEOREM SentCanBeReplayed == SseSpec => []SentIsReplayable
<1>1. SseInv => SentIsReplayable
  <2> SUFFICES ASSUME SseInv, NEW i \in Loads
               PROVE  /\ \A m, n \in DOMAIN sent[i] : m < n => sent[i][m].seq < sent[i][n].seq
                      /\ \A n \in DOMAIN sent[i] :
                            /\ sent[i][n].seq <= Current(cursor[i])
                            /\ cursor[i].buffer # <<>> /\ sent[i][n].seq >= cursor[i].buffer[1].seq
                                  => sent[i][n] \in ToSet(cursor[i].buffer)
    BY DEF SentIsReplayable
  <2>1. Types /\ Line(i)
    BY DEF SseInv
  <2>2. \A m, n \in DOMAIN sent[i] : m < n => sent[i][m].seq < sent[i][n].seq
    BY <2>1 DEF Line, SentInOrder, InSequence
  <2>3. ASSUME NEW n \in DOMAIN sent[i]
        PROVE  /\ sent[i][n].seq <= Current(cursor[i])
               /\ sent[i][n].seq >= cursor[i].buffer[1].seq
                     => sent[i][n] \in ToSet(cursor[i].buffer)
    <3>1. sent[i][n] \in Sequenced /\ SentOrInHand(i, sent[i][n])
      BY <2>1, LoadTyped DEF SentOrInHand
    <3>2. /\ sent[i][n].seq \in Nat /\ sent[i][n].seq < cursor[i].next /\ cursor[i].next \in Nat
          /\ sent[i][n].seq >= cursor[i].buffer[1].seq =>
                \E m \in DOMAIN cursor[i].buffer : cursor[i].buffer[m] = sent[i][n]
      BY <2>1, <3>1, EntryNumbers, LoadTyped
    <3> QED
      BY <3>2 DEF Current, ToSet
  <2> QED
    BY <2>2, <2>3
<1> QED
  BY <1>1, SseSafe, PTL

(* A client that keeps to one load of the session and was not served from the    *)
(* store misses nothing the session has sent, however often it reconnects.       *)
THEOREM ClientsMissNothing == SseSpec => []NothingMissed
<1>1. SseInv => NothingMissed
  <2> SUFFICES ASSUME SseInv, NEW c \in Clients, client[c].pc = "live", view[c].scars = {},
                      NEW n \in 1..client[c].at
               PROVE  \/ sent[client[c].on][n].ev \in view[c].seen
                      \/ sent[client[c].on][n].ev <= view[c].since
                      \/ sent[client[c].on][n] \in ToSet(client[c].todo)
    BY DEF NothingMissed
  <2>1. Following(c, client[c].on)
    BY DEF SseInv, Client, Unscarred
  <2> QED
    BY <2>1 DEF Following, Covered, ToSet
<1> QED
  BY <1>1, SseSafe, PTL

(* Such a client is given no event twice, over all its connections, as long as   *)
(* it was never told to fetch the session anew.                                  *)
THEOREM ClientsSeeNothingTwice == SseSpec => []NothingTwice
<1>1. SseInv => NothingTwice
  BY DEF SseInv, Client, Unscarred, NothingTwice
<1> QED
  BY <1>1, SseSafe, PTL

--------------------------------------------------------------------------------
(***************************************************************************)
(* The bounds of the types.  A load numbers at most what was emitted, the  *)
(* records of the store and one for each event still on the bus; what a    *)
(* client has still to be given comes from the buffer or the store.        *)
(***************************************************************************)
LoadBounds(i) ==
    /\ durable_seq[i] <= Len(disk) /\ cursor[i].durable <= Len(disk)
    /\ Len(cursor[i].buffer) <= Capacity
    /\ Len(bus[i]) <= emitted /\ Len(bus[i]) <= BusCapacity
    /\ \A k \in DOMAIN bus[i] : bus[i][k] >= 1
    /\ cursor[i].next + Len(bus[i]) <= 2 * emitted + 2
    /\ sequencer[i].ev <= emitted

InBounds(e, n) == e.seq >= 1 /\ e.seq <= 2 * n + 1 /\ e.ev <= n
ClientBounds(c) ==
    /\ \A m \in DOMAIN client[c].todo : InBounds(client[c].todo[m], emitted)
    /\ \A x \in view[c].seen : x <= emitted

DiskBounds ==
    /\ emitted <= MaxEvents
    /\ Len(disk) \in 1..(emitted + 1)
    /\ \A n \in DOMAIN disk : disk[n] <= emitted

SseBounds ==
    /\ DiskBounds
    /\ \A i \in Loads : LoadBounds(i)
    /\ \A c \in Clients : ClientBounds(c)

LEMMA SeedFields ==
    ASSUME NEW k \in CursorType, NEW n \in Nat
    PROVE  /\ Seed(k, n).buffer = k.buffer
           /\ Seed(k, n).next = IF n + 1 > k.next THEN n + 1 ELSE k.next
           /\ Seed(k, n).durable = IF n > k.durable THEN n ELSE k.durable
<1> DEFINE next == IF n + 1 > k.next THEN n + 1 ELSE k.next
           durable == IF n > k.durable THEN n ELSE k.durable
<1>1. k = [buffer |-> k.buffer, next |-> k.next, durable |-> k.durable]
  BY DEF CursorType
<1>2. Seed(k, n) = [[k EXCEPT !.next = next] EXCEPT !.durable = durable]
  BY <1>1 DEF Seed
<1>3. ASSUME NEW a, NEW b
      PROVE  /\ [[k EXCEPT !.next = a] EXCEPT !.durable = b].buffer = k.buffer
             /\ [[k EXCEPT !.next = a] EXCEPT !.durable = b].next = a
             /\ [[k EXCEPT !.next = a] EXCEPT !.durable = b].durable = b
  BY <1>1
<1> HIDE DEF next, durable
<1>4. Seed(k, n).buffer = k.buffer /\ Seed(k, n).next = next /\ Seed(k, n).durable = durable
  BY <1>2, <1>3
<1> QED
  BY <1>4 DEF next, durable

LEMMA SnapshotBehindDisk ==
    ASSUME disk \in Seq(Nat)
    PROVE  SnapshotAt <= Len(disk)
<1>1. SnapshotEvery \in Nat \ {0} /\ Len(disk) \in Nat
  BY SseAssumption
<1>2. ASSUME NEW k \in Nat \ {0}, NEW n \in Nat PROVE k * (n \div k) <= n
  BY <1>2
<1> QED
  BY <1>1, <1>2 DEF SnapshotAt

LEMMA InitSseBounds == SseInit => SseBounds
<1> SUFFICES ASSUME SseInit PROVE SseBounds
  OBVIOUS
<1>1. /\ NewCursor \in CursorType /\ NewCursor.buffer = <<>> /\ NewCursor.next = 1
      /\ NewCursor.durable = 0
  BY DEF NewCursor, CursorType
<1>2. Seed(NewCursor, 1).buffer = <<>> /\ Seed(NewCursor, 1).next = 2 /\ Seed(NewCursor, 1).durable = 1
  BY <1>1, SeedFields
<1>3. emitted = 0 /\ disk = <<0>> /\ Len(disk) = 1 /\ DOMAIN disk = {1} /\ disk[1] = 0
      /\ MaxEvents \in Nat /\ Capacity \in Nat /\ BusCapacity \in Nat
  BY SseAssumption DEF SseInit
<1>4. DiskBounds
  BY <1>3 DEF DiskBounds
<1>5. ASSUME NEW i \in Loads PROVE LoadBounds(i)
  <2>1. bus[i] = <<>> /\ sequencer[i].ev = 0 /\ Len(bus[i]) = 0 /\ DOMAIN bus[i] = {}
    BY DEF SseInit, Resting
  <2>2. cursor[i].buffer = <<>> /\ cursor[i].next <= 2 /\ cursor[i].next \in Nat
        /\ cursor[i].durable <= 1 /\ durable_seq[i] <= 1
    BY <1>1, <1>2 DEF SseInit
  <2> QED
    BY <1>3, <2>1, <2>2 DEF LoadBounds
<1>6. ASSUME NEW c \in Clients PROVE ClientBounds(c)
  <2>1. client[c].todo = <<>> /\ view[c].seen = {} /\ DOMAIN <<>> = {}
    BY DEF SseInit, Offline, NewView
  <2> QED
    BY <2>1 DEF ClientBounds
<1> QED
  BY <1>4, <1>5, <1>6 DEF SseBounds

(* Bounds that rest on the number of events survive when it rises. *)
LEMMA ClientBoundsKept ==
    ASSUME Types, Types', NEW c \in Clients, ClientBounds(c), emitted' >= emitted,
           client'[c].todo \in {client[c].todo, <<>>}, view'[c].seen = view[c].seen
    PROVE  ClientBounds(c)'
<1>1. ClientTyped(c) /\ emitted \in Nat /\ emitted' \in Nat
  BY ClientIsTyped DEF Types
<1>2. ASSUME NEW m \in DOMAIN client[c].todo PROVE InBounds(client[c].todo[m], emitted')
  <2>1. InBounds(client[c].todo[m], emitted) /\ client[c].todo[m] \in Sequenced
    BY <1>1, <1>2 DEF ClientBounds, ClientTyped
  <2>2. client[c].todo[m].seq \in Nat /\ client[c].todo[m].ev \in Nat
    BY <2>1 DEF Sequenced
  <2>3. /\ client[c].todo[m].seq >= 1 /\ client[c].todo[m].seq <= 2 * emitted' + 1
        /\ client[c].todo[m].ev <= emitted'
    BY <1>1, <2>1, <2>2 DEF InBounds
  <2> QED
    BY <2>3 DEF InBounds
<1>3. \A x \in view[c].seen : x <= emitted'
  BY <1>1 DEF ClientBounds, ClientTyped
<1>4. \A m \in DOMAIN client'[c].todo : InBounds(client'[c].todo[m], emitted')
  <2>1. CASE client'[c].todo = <<>>
    BY <2>1
  <2>2. CASE client'[c].todo = client[c].todo
    BY <1>2, <2>2
  <2> QED
    BY <2>1, <2>2
<1>5. \A x \in view'[c].seen : x <= emitted'
  BY <1>3
<1> QED
  BY <1>4, <1>5 DEF ClientBounds

(* What the bounds say of the numbers of a load, with their types. *)
LEMMA LoadNumbers ==
    ASSUME Types, NEW i \in Loads
    PROVE  /\ durable_seq[i] \in Nat /\ cursor[i].durable \in Nat /\ cursor[i].next \in Nat
           /\ Len(cursor[i].buffer) \in Nat /\ Len(bus[i]) \in Nat /\ sequencer[i].ev \in Nat
           /\ emitted \in Nat /\ Len(disk) \in Nat /\ Capacity \in Nat \ {0}
           /\ BusCapacity \in Nat \ {0} /\ MaxEvents \in Nat
BY LoadTyped, SseAssumption DEF Types

LEMMA EmitBounds ==
    ASSUME SseInv, SseBounds, Emit PROVE SseBounds'
<1>0. /\ Types /\ Types' /\ loaded \in Loads /\ emitted \in Nat /\ emitted' = emitted + 1
      /\ emitted < MaxEvents /\ disk \in Seq(Nat) /\ MaxEvents \in Nat
      /\ cursor' = cursor /\ sequencer' = sequencer /\ client' = client /\ view' = view
  <2>1. Types /\ \A i \in Loads : Line(i)
    BY DEF SseInv
  <2> QED
    BY <2>1, EmitStep, LoadsSoFar, SseAssumption DEF Emit, Types
<1>1. DiskBounds /\ (\A i \in Loads : LoadBounds(i)) /\ \A c \in Clients : ClientBounds(c)
  BY DEF SseBounds
<1>2. /\ DiskBounds' /\ Len(disk') >= Len(disk) /\ durable_seq'[loaded] <= Len(disk')
      /\ \A i \in Loads \ {loaded} : durable_seq'[i] = durable_seq[i]
  <2>0. /\ durable_seq \in [Loads -> Nat] /\ durable_seq[loaded] <= Len(disk)
        /\ Len(disk) \in Nat /\ Len(disk) >= 1 /\ Len(disk) <= emitted + 1 /\ emitted <= MaxEvents
        /\ \A n \in DOMAIN disk : disk[n] <= emitted /\ disk[n] \in Nat
    <3>1. durable_seq \in [Loads -> Nat] /\ durable_seq[loaded] <= Len(disk)
      BY <1>0, <1>1 DEF Types, LoadBounds
    <3>2. Len(disk) \in 1..(emitted + 1) /\ emitted <= MaxEvents
          /\ \A n \in DOMAIN disk : disk[n] <= emitted
      BY <1>1 DEF DiskBounds
    <3>3. \A n \in DOMAIN disk : disk[n] \in Nat
      BY <1>0
    <3> QED
      BY <1>0, <3>1, <3>2, <3>3
  <2>1. CASE emitted + 1 \in Transient
    <3>1. disk' = disk /\ durable_seq' = durable_seq
      BY <2>1 DEF Emit
    <3>2. \A n \in DOMAIN disk : disk[n] <= emitted + 1
      BY <1>0, <2>0
    <3>3. emitted + 1 <= MaxEvents /\ Len(disk) \in 1..((emitted + 1) + 1)
      BY <1>0, <2>0
    <3>4. DiskBounds'
      BY <1>0, <3>1, <3>2, <3>3 DEF DiskBounds
    <3> QED
      BY <2>0, <3>1, <3>4
  <2>2. CASE emitted + 1 \notin Transient
    <3>1. /\ disk' = Append(disk, emitted + 1)
          /\ durable_seq' = [durable_seq EXCEPT ![loaded] = Len(disk) + 1]
      BY <2>2 DEF Emit
    <3>2. /\ Len(disk') = Len(disk) + 1 /\ DOMAIN disk' = 1..(Len(disk) + 1)
          /\ DOMAIN disk = 1..Len(disk)
          /\ disk'[Len(disk) + 1] = emitted + 1 /\ \A n \in DOMAIN disk : disk'[n] = disk[n]
      BY <1>0, <3>1
    <3>3. \A n \in DOMAIN disk' : disk'[n] <= emitted + 1
      <4> SUFFICES ASSUME NEW n \in DOMAIN disk' PROVE disk'[n] <= emitted + 1
        OBVIOUS
      <4>1. CASE n = Len(disk) + 1
        BY <1>0, <3>2, <4>1
      <4>2. CASE n # Len(disk) + 1
        <5>1. n \in DOMAIN disk
          BY <2>0, <3>2, <4>2
        <5> QED
          BY <1>0, <2>0, <3>2, <5>1
      <4> QED
        BY <4>1, <4>2
    <3>4. emitted + 1 <= MaxEvents /\ Len(disk') \in 1..((emitted + 1) + 1)
      BY <1>0, <2>0, <3>2
    <3>5. DiskBounds'
      BY <1>0, <3>3, <3>4 DEF DiskBounds
    <3>6. durable_seq'[loaded] = Len(disk) + 1
          /\ \A i \in Loads \ {loaded} : durable_seq'[i] = durable_seq[i]
      BY <1>0, <2>0, <3>1
    <3> QED
      BY <2>0, <3>2, <3>5, <3>6
  <2> QED
    BY <2>1, <2>2
<1>3. /\ \A i \in Loads \ {loaded} : bus'[i] = bus[i]
      /\ Len(bus'[loaded]) <= Len(bus[loaded]) + 1 /\ Len(bus'[loaded]) \in Nat
      /\ Len(bus'[loaded]) <= BusCapacity
      /\ \A k \in DOMAIN bus'[loaded] : bus'[loaded][k] >= 1
  <2> DEFINE rest == IF Len(bus[loaded]) >= BusCapacity THEN Tail(bus[loaded]) ELSE bus[loaded]
  <2>0. /\ bus[loaded] \in Seq(Nat) /\ Len(bus[loaded]) \in Nat /\ BusCapacity \in Nat \ {0}
        /\ Len(bus[loaded]) <= BusCapacity /\ \A k \in DOMAIN bus[loaded] : bus[loaded][k] >= 1
    BY <1>0, <1>1, LoadNumbers, LoadTyped DEF LoadBounds
  <2>1. /\ rest \in Seq(Nat) /\ Len(rest) \in Nat /\ Len(rest) <= Len(bus[loaded])
        /\ Len(rest) + 1 <= BusCapacity /\ \A k \in DOMAIN rest : rest[k] >= 1
    <3>1. CASE Len(bus[loaded]) >= BusCapacity
      <4>1. bus[loaded] # <<>>
        BY <2>0, <3>1
      <4>2. /\ Tail(bus[loaded]) \in Seq(Nat) /\ Len(Tail(bus[loaded])) = Len(bus[loaded]) - 1
            /\ \A k \in DOMAIN Tail(bus[loaded]) :
                  k + 1 \in DOMAIN bus[loaded] /\ Tail(bus[loaded])[k] = bus[loaded][k + 1]
        BY <2>0, <4>1
      <4> QED
        BY <2>0, <3>1, <4>2
    <3>2. CASE ~(Len(bus[loaded]) >= BusCapacity)
      BY <2>0, <3>2
    <3> QED
      BY <3>1, <3>2
  <2>2. bus' = [bus EXCEPT ![loaded] = Append(rest, emitted + 1)]
    BY DEF Emit, Broadcasts
  <2> HIDE DEF rest
  <2>3. bus'[loaded] = Append(rest, emitted + 1) /\ \A i \in Loads \ {loaded} : bus'[i] = bus[i]
    BY <1>0, <2>2 DEF Types
  <2>4. /\ Len(bus'[loaded]) = Len(rest) + 1 /\ DOMAIN bus'[loaded] = 1..(Len(rest) + 1)
        /\ bus'[loaded][Len(rest) + 1] = emitted + 1
        /\ \A k \in 1..Len(rest) : bus'[loaded][k] = rest[k] /\ k \in DOMAIN rest
    BY <1>0, <2>1, <2>3
  <2>5. \A k \in DOMAIN bus'[loaded] : bus'[loaded][k] >= 1
    <3> SUFFICES ASSUME NEW k \in 1..(Len(rest) + 1) PROVE bus'[loaded][k] >= 1
      BY <2>4
    <3>1. k = Len(rest) + 1 \/ k \in 1..Len(rest)
      BY <2>1
    <3> QED
      BY <1>0, <2>1, <2>4, <3>1
  <2> QED
    BY <2>0, <2>1, <2>3, <2>4, <2>5
<1>4. ASSUME NEW i \in Loads PROVE LoadBounds(i)'
  <2>1. LoadBounds(i)
    BY <1>1
  <2>2. Len(disk') \in Nat
    BY <1>0 DEF Types
  <2>3. Len(bus'[i]) \in Nat /\ Len(bus'[i]) <= Len(bus[i]) + 1 /\ Len(bus'[i]) <= BusCapacity
    <3>1. Len(bus[i]) \in Nat /\ Len(bus[i]) <= BusCapacity
      BY <1>0, <2>1, LoadNumbers DEF LoadBounds
    <3>2. i = loaded \/ bus'[i] = bus[i]
      BY <1>3
    <3> QED
      BY <1>3, <3>1, <3>2
  <2>4. \A k \in DOMAIN bus'[i] : bus'[i][k] >= 1
    BY <1>3, <2>1 DEF LoadBounds
  <2>5. durable_seq'[i] <= Len(disk')
    <3>1. durable_seq[i] \in Nat /\ durable_seq[i] <= Len(disk) /\ Len(disk) \in Nat
      BY <1>0, <2>1, LoadNumbers DEF LoadBounds
    <3>2. i = loaded \/ durable_seq'[i] = durable_seq[i]
      BY <1>2
    <3> QED
      BY <1>2, <2>2, <3>1, <3>2
  <2>6. /\ cursor'[i].durable <= Len(disk') /\ Len(cursor'[i].buffer) <= Capacity
        /\ Len(bus'[i]) <= emitted' /\ cursor'[i].next + Len(bus'[i]) <= 2 * emitted' + 2
        /\ sequencer'[i].ev <= emitted'
    <3>1. /\ cursor[i].durable <= Len(disk) /\ Len(cursor[i].buffer) <= Capacity
          /\ Len(bus[i]) <= emitted /\ cursor[i].next + Len(bus[i]) <= 2 * emitted + 2
          /\ sequencer[i].ev <= emitted
      BY <2>1 DEF LoadBounds
    <3>2. /\ emitted \in Nat /\ emitted' = emitted + 1 /\ Len(disk') >= Len(disk)
          /\ cursor' = cursor /\ sequencer' = sequencer
      BY <1>0, <1>2
    <3>3. /\ cursor[i].durable \in Nat /\ cursor[i].next \in Nat /\ Len(bus[i]) \in Nat
          /\ sequencer[i].ev \in Nat /\ Len(disk) \in Nat
      BY <1>0, LoadNumbers
    <3>a. \A next, old, new, n \in Nat : next + old <= 2 * n + 2 /\ new <= old + 1 =>
             next + new <= 2 * (n + 1) + 2
      OBVIOUS
    <3>b. cursor[i].next + Len(bus'[i]) <= 2 * (emitted + 1) + 2
      BY <2>3, <3>a, <3>1, <3>2, <3>3
    <3>c. Len(bus'[i]) <= emitted + 1
      BY <2>3, <3>1, <3>2, <3>3
    <3>4. cursor'[i].next + Len(bus'[i]) <= 2 * emitted' + 2 /\ Len(bus'[i]) <= emitted'
      BY <3>b, <3>c, <3>2
    <3> QED
      BY <2>2, <3>1, <3>2, <3>3, <3>4
  <2> QED
    BY <2>3, <2>4, <2>5, <2>6 DEF LoadBounds
<1>5. ASSUME NEW c \in Clients PROVE ClientBounds(c)'
  <2>1. emitted' >= emitted /\ client'[c].todo = client[c].todo /\ view'[c].seen = view[c].seen
    BY <1>0
  <2> QED
    BY <1>0, <1>1, <2>1, ClientBoundsKept
<1> QED
  BY <1>2, <1>4, <1>5 DEF SseBounds

(* A step that leaves the events and the store alone has to show the bounds of *)
(* the loads only.                                                             *)
LEMMA LoadsInBounds ==
    ASSUME Types, Types', SseBounds, UNCHANGED <<emitted, disk, view>>,
           \A c \in Clients : client'[c].todo \in {client[c].todo, <<>>},
           \A i \in Loads : LoadBounds(i)'
    PROVE  SseBounds'
<1>1. DiskBounds'
  BY DEF SseBounds, DiskBounds
<1>2. ASSUME NEW c \in Clients PROVE ClientBounds(c)'
  <2>1. ClientBounds(c) /\ emitted \in Nat /\ emitted' >= emitted /\ view'[c].seen = view[c].seen
    BY DEF SseBounds, Types
  <2> QED
    BY <2>1, ClientBoundsKept
<1> QED
  BY <1>1, <1>2 DEF SseBounds

LEMMA NumberBounds ==
    ASSUME SseInv, SseBounds, NEW i \in Loads, Number(i) PROVE SseBounds'
<1> DEFINE item == [seq |-> cursor[i].next, ev |-> Head(bus[i])]
           pushed == Push(cursor[i].buffer, item)
<1>0. Types /\ Types' /\ Line(i) /\ LoadBounds(i) /\ \A j \in Loads : LoadBounds(j)
  <2>1. Types /\ \A j \in Loads : Line(j)
    BY DEF SseInv
  <2> QED
    BY <2>1, NumberStep DEF SseBounds
<1>1. /\ bus' = [bus EXCEPT ![i] = Tail(@)]
      /\ sequencer' = [sequencer EXCEPT ![i] = [pc |-> "send", ev |-> item.ev, seq |-> item.seq]]
      /\ cursor' = [cursor EXCEPT ![i] = [cursor[i] EXCEPT !.buffer = pushed,
                                                           !.next = cursor[i].next + 1]]
      /\ emitted' = emitted /\ disk' = disk /\ durable_seq' = durable_seq
      /\ client' = client /\ view' = view
  BY DEF Number
<1>2. /\ bus[i] \in Seq(Nat) /\ bus[i] # <<>> /\ Len(bus[i]) \in Nat /\ Len(bus[i]) >= 1
      /\ Head(bus[i]) = bus[i][1] /\ 1 \in DOMAIN bus[i] /\ bus[i][1] \in Nat
      /\ Len(Tail(bus[i])) = Len(bus[i]) - 1
      /\ \A k \in DOMAIN Tail(bus[i]) : k + 1 \in DOMAIN bus[i] /\ Tail(bus[i])[k] = bus[i][k + 1]
  <2>1. bus[i] \in Seq(Nat) /\ bus[i] # <<>>
    BY <1>0, LoadTyped DEF Number
  <2> QED
    BY <2>1
<1>3. item \in Sequenced
  BY <1>0, <1>2, LoadTyped DEF Sequenced
<1>4. Len(pushed) <= Capacity
  <2>1. /\ cursor[i].buffer \in Seq(Sequenced) /\ Len(cursor[i].buffer) \in Nat
        /\ Len(cursor[i].buffer) <= Capacity /\ Capacity \in Nat \ {0}
    BY <1>0, LoadTyped, LoadNumbers DEF LoadBounds
  <2>2. CASE Len(cursor[i].buffer) < Capacity
    <3>1. pushed = Append(cursor[i].buffer, item)
      BY <1>3, <2>1, <2>2, PushTyped
    <3> QED
      BY <1>3, <2>1, <2>2, <3>1
  <2>3. CASE Len(cursor[i].buffer) >= Capacity
    <3>1. cursor[i].buffer # <<>> /\ pushed = Append(Tail(cursor[i].buffer), item)
      BY <1>3, <2>1, <2>3, PushTyped
    <3>2. /\ Tail(cursor[i].buffer) \in Seq(Sequenced)
          /\ Len(Tail(cursor[i].buffer)) = Len(cursor[i].buffer) - 1
      BY <2>1, <3>1
    <3> QED
      BY <1>3, <2>1, <3>1, <3>2
  <2> QED
    BY <2>1, <2>2, <2>3
<1> HIDE DEF pushed
<1>5. /\ cursor'[i].buffer = pushed /\ cursor'[i].next = cursor[i].next + 1
      /\ cursor'[i].durable = cursor[i].durable
      /\ \A j \in Loads \ {i} : cursor'[j] = cursor[j] /\ bus'[j] = bus[j]
                                /\ sequencer'[j] = sequencer[j]
      /\ bus'[i] = Tail(bus[i]) /\ sequencer'[i].ev = Head(bus[i])
  <2>1. cursor[i] \in CursorType /\ cursor \in [Loads -> CursorType]
    BY <1>0 DEF Types
  <2>2. cursor'[i] = [cursor[i] EXCEPT !.buffer = pushed, !.next = cursor[i].next + 1]
    BY <1>1, <2>1
  <2>3. /\ cursor'[i].buffer = pushed /\ cursor'[i].next = cursor[i].next + 1
        /\ cursor'[i].durable = cursor[i].durable
    BY <2>1, <2>2 DEF CursorType
  <2>4. bus'[i] = Tail(bus[i])
    BY <1>0, <1>1 DEF Types
  <2>5. sequencer'[i].ev = Head(bus[i])
    BY <1>0, <1>1 DEF Types
  <2>6. ASSUME NEW j \in Loads \ {i}
        PROVE  cursor'[j] = cursor[j] /\ bus'[j] = bus[j] /\ sequencer'[j] = sequencer[j]
    BY <1>0, <1>1, <2>6 DEF Types
  <2> QED
    BY <2>3, <2>4, <2>5, <2>6
<1>6. ASSUME NEW j \in Loads PROVE LoadBounds(j)'
  <2>1. CASE j # i
    <3>1. LoadBounds(j) /\ cursor'[j] = cursor[j] /\ bus'[j] = bus[j] /\ sequencer'[j] = sequencer[j]
      BY <1>0, <1>5, <2>1
    <3> QED
      BY <1>1, <3>1 DEF LoadBounds
  <2>2. CASE j = i
    <3>1. /\ durable_seq[i] <= Len(disk) /\ cursor[i].durable <= Len(disk)
          /\ Len(bus[i]) <= emitted /\ Len(bus[i]) <= BusCapacity
          /\ \A k \in DOMAIN bus[i] : bus[i][k] >= 1
          /\ cursor[i].next + Len(bus[i]) <= 2 * emitted + 2
      BY <1>0 DEF LoadBounds
    <3>2. /\ cursor[i].next \in Nat /\ emitted \in Nat /\ BusCapacity \in Nat
      BY <1>0, LoadNumbers
    <3>3. bus[i][1] <= emitted
      BY <1>0, <1>2 DEF Line, SentInOrder
    <3>4. /\ Len(bus'[i]) <= emitted /\ Len(bus'[i]) <= BusCapacity
          /\ \A k \in DOMAIN bus'[i] : bus'[i][k] >= 1
      BY <1>2, <1>5, <3>1, <3>2
    <3>5. cursor'[i].next + Len(bus'[i]) <= 2 * emitted + 2
      <4>1. \A n, l, e \in Nat : n + l <= 2 * e + 2 => (n + 1) + (l - 1) <= 2 * e + 2
        OBVIOUS
      <4>2. cursor[i].next \in Nat /\ Len(bus[i]) \in Nat /\ emitted \in Nat
        BY <1>2, <3>2
      <4>3. cursor[i].next + Len(bus[i]) <= 2 * emitted + 2
        BY <3>1
      <4>4. (cursor[i].next + 1) + (Len(bus[i]) - 1) <= 2 * emitted + 2
        BY <4>1, <4>2, <4>3
      <4>5. cursor'[i].next = cursor[i].next + 1 /\ Len(bus'[i]) = Len(bus[i]) - 1
        BY <1>2, <1>5
      <4> QED
        BY <4>4, <4>5
    <3>6. /\ durable_seq'[j] <= Len(disk)' /\ cursor'[j].durable <= Len(disk)'
          /\ Len(cursor'[j].buffer) <= Capacity
          /\ sequencer'[j].ev <= emitted'
      <4>1. durable_seq'[j] = durable_seq[i] /\ Len(disk)' = Len(disk) /\ emitted' = emitted
        BY <1>1, <2>2
      <4>2. cursor'[j].durable = cursor[i].durable /\ cursor'[j].buffer = pushed
        BY <1>5, <2>2
      <4>3. sequencer'[j].ev = bus[i][1]
        BY <1>2, <1>5, <2>2
      <4>4. Len(pushed) <= Capacity
        BY <1>4
      <4> QED
        BY <3>1, <3>3, <4>1, <4>2, <4>3, <4>4
    <3>7. /\ Len(bus'[j]) <= emitted' /\ Len(bus'[j]) <= BusCapacity
          /\ \A k \in DOMAIN bus'[j] : bus'[j][k] >= 1
      BY <1>1, <2>2, <3>4
    <3>8. cursor'[j].next + Len(bus'[j]) <= 2 * emitted' + 2
      BY <1>1, <2>2, <3>5
    <3> QED
      BY <3>6, <3>7, <3>8 DEF LoadBounds
  <2> QED
    BY <2>1, <2>2
<1> QED
  BY <1>0, <1>1, <1>6, LoadsInBounds

LEMMA SendOnBounds ==
    ASSUME SseInv, SseBounds, NEW i \in Loads, SendOn(i) PROVE SseBounds'
<1>0. Types /\ Types' /\ LoadBounds(i) /\ \A j \in Loads : LoadBounds(j)
  <2>1. Types /\ \A j \in Loads : Line(j)
    BY DEF SseInv
  <2> QED
    BY <2>1, SendOnStep DEF SseBounds
<1>1. /\ emitted' = emitted /\ disk' = disk /\ durable_seq' = durable_seq /\ bus' = bus
      /\ client' = client /\ view' = view
      /\ cursor' = [cursor EXCEPT ![i].durable = durable_seq[i]]
      /\ sequencer' = [sequencer EXCEPT ![i] = Resting]
  BY DEF SendOn
<1>2. /\ cursor'[i].buffer = cursor[i].buffer /\ cursor'[i].next = cursor[i].next
      /\ cursor'[i].durable = durable_seq[i]
      /\ \A j \in Loads \ {i} : cursor'[j] = cursor[j] /\ sequencer'[j] = sequencer[j]
      /\ sequencer'[i].ev = 0
  <2>1. cursor[i] \in CursorType /\ cursor \in [Loads -> CursorType]
    BY <1>0 DEF Types
  <2>2. cursor'[i] = [cursor[i] EXCEPT !.durable = durable_seq[i]]
    BY <1>1, <2>1
  <2>3. /\ cursor'[i].buffer = cursor[i].buffer /\ cursor'[i].next = cursor[i].next
        /\ cursor'[i].durable = durable_seq[i]
    BY <2>1, <2>2 DEF CursorType
  <2>4. sequencer'[i].ev = 0 /\ \A j \in Loads \ {i} : sequencer'[j] = sequencer[j]
    BY <1>0, <1>1 DEF Types, Resting
  <2>5. \A j \in Loads \ {i} : cursor'[j] = cursor[j]
    BY <1>1, <2>1
  <2> QED
    BY <2>3, <2>4, <2>5
<1>3. ASSUME NEW j \in Loads PROVE LoadBounds(j)'
  <2>1. LoadBounds(j) /\ emitted \in Nat
    BY <1>0, LoadNumbers
  <2>2. CASE j # i
    BY <1>1, <1>2, <2>1, <2>2 DEF LoadBounds
  <2>3. CASE j = i
    BY <1>1, <1>2, <2>1, <2>3 DEF LoadBounds
  <2> QED
    BY <2>2, <2>3
<1> QED
  BY <1>0, <1>1, <1>3, LoadsInBounds

LEMMA SeedBounds ==
    ASSUME SseInv, SseBounds, StartTurn \/ DropSession \/ Restore \/ SeedRestored
    PROVE  SseBounds'
<1>0. Types /\ Types' /\ \A j \in Loads : LoadBounds(j)
  <2>1. Types /\ \A j \in Loads : Line(j)
    BY DEF SseInv
  <2> QED
    BY <2>1, SeedStep DEF SseBounds
<1>1. /\ disk' = disk /\ emitted' = emitted /\ sequencer' = sequencer
      /\ bus' = bus /\ client' = client /\ view' = view
      /\ disk \in Seq(Nat) /\ Len(disk) \in Nat
  BY <1>0 DEF StartTurn, DropSession, Restore, SeedRestored, Types
<1>2. ASSUME NEW i \in Loads, cursor' = [cursor EXCEPT ![i] = Seed(@, Len(disk))]
      PROVE  \A j \in Loads :
                /\ cursor'[j].buffer = cursor[j].buffer
                /\ cursor'[j].next \in {cursor[j].next, Len(disk) + 1}
                /\ cursor'[j].durable \in {cursor[j].durable, Len(disk)}
  <2>1. /\ Seed(cursor[i], Len(disk)).buffer = cursor[i].buffer
        /\ Seed(cursor[i], Len(disk)).next \in {cursor[i].next, Len(disk) + 1}
        /\ Seed(cursor[i], Len(disk)).durable \in {cursor[i].durable, Len(disk)}
    <3>1. cursor[i] \in CursorType
      BY <1>0, LoadTyped
    <3> QED
      BY <1>1, <3>1, SeedFields
  <2> QED
    BY <1>0, <1>2, <2>1 DEF Types
<1>3. ASSUME NEW i \in Loads, ReadDurable(i)
      PROVE  \A j \in Loads : durable_seq'[j] = durable_seq[j] \/ durable_seq'[j] <= Len(disk)
  <2>1. SnapshotAt <= Len(disk) /\ durable_seq \in [Loads -> Nat]
    BY <1>0, <1>1, SnapshotBehindDisk DEF Types
  <2> QED
    BY <1>1, <1>3, <2>1 DEF ReadDurable
<1>4. \A j \in Loads :
         /\ cursor'[j].buffer = cursor[j].buffer
         /\ cursor'[j].next \in {cursor[j].next, Len(disk) + 1}
         /\ cursor'[j].durable \in {cursor[j].durable, Len(disk)}
         /\ durable_seq'[j] = durable_seq[j] \/ durable_seq'[j] <= Len(disk)
  <2>1. CASE StartTurn
    <3>1. loaded \in Loads
      BY <1>0, <2>1, LoadsSoFar DEF StartTurn
    <3> QED
      BY <1>2, <1>3, <2>1, <3>1 DEF StartTurn
  <2>2. CASE DropSession
    BY <2>2 DEF DropSession
  <2>3. CASE Restore
    <3>1. loads + 1 \in Loads
      BY <1>0, <2>3, SseAssumption DEF Restore, Types, Loads
    <3> QED
      BY <1>3, <2>3, <3>1 DEF Restore
  <2>4. CASE SeedRestored
    <3>1. loaded \in Loads /\ durable_seq' = durable_seq
      BY <1>0, <2>4, LoadsSoFar DEF SeedRestored
    <3> QED
      BY <1>2, <2>4, <3>1 DEF SeedRestored
  <2> QED
    BY <2>1, <2>2, <2>3, <2>4
<1>5. ASSUME NEW j \in Loads PROVE LoadBounds(j)'
  <2>1. LoadBounds(j)
    BY <1>0
  <2>2. /\ cursor[j].next \in Nat /\ Len(bus[j]) \in Nat /\ emitted \in Nat
        /\ cursor[j].durable <= Len(disk) /\ durable_seq[j] <= Len(disk)
        /\ Len(bus[j]) <= emitted /\ cursor[j].next + Len(bus[j]) <= 2 * emitted + 2
    BY <1>0, <2>1, LoadNumbers DEF LoadBounds
  <2>3. Len(disk) <= emitted + 1
    BY <1>1, <2>2 DEF SseBounds, DiskBounds
  <2>4. (Len(disk) + 1) + Len(bus[j]) <= 2 * emitted + 2
    <3>1. \A d, b, n \in Nat : d <= n + 1 /\ b <= n => (d + 1) + b <= 2 * n + 2
      OBVIOUS
    <3> QED
      BY <1>1, <2>2, <2>3, <3>1
  <2>5. cursor'[j].next + Len(bus[j]) <= 2 * emitted + 2
    <3>1. cursor'[j].next = cursor[j].next \/ cursor'[j].next = Len(disk) + 1
      BY <1>4
    <3> QED
      BY <2>2, <2>4, <3>1
  <2>6. cursor'[j].durable <= Len(disk) /\ durable_seq'[j] <= Len(disk)
    <3>1. cursor'[j].durable = cursor[j].durable \/ cursor'[j].durable = Len(disk)
      BY <1>4
    <3>2. durable_seq'[j] = durable_seq[j] \/ durable_seq'[j] <= Len(disk)
      BY <1>4
    <3> QED
      BY <1>1, <2>2, <3>1, <3>2
  <2>7. cursor'[j].buffer = cursor[j].buffer
    BY <1>4
  <2> QED
    BY <1>1, <2>1, <2>5, <2>6, <2>7 DEF LoadBounds
<1> QED
  BY <1>0, <1>1, <1>5, LoadsInBounds

LEMMA RestartBounds ==
    ASSUME SseInv, SseBounds, ServerRestart PROVE SseBounds'
<1>0. Types /\ Types' /\ emitted \in Nat /\ Len(disk) \in Nat
      /\ \A c \in Clients : client'[c] = CutOff(c)
  <2>1. Types
    BY DEF SseInv
  <2>2. emitted \in Nat /\ Len(disk) \in Nat
    BY <2>1 DEF Types
  <2> QED
    BY <2>1, <2>2, RestartStep
<1>1. ASSUME NEW i \in Loads PROVE LoadBounds(i)'
  <2>1. /\ durable_seq'[i] = 0 /\ cursor'[i].buffer = <<>> /\ cursor'[i].next = 1
        /\ cursor'[i].durable = 0 /\ bus'[i] = <<>> /\ sequencer'[i].ev = 0
        /\ emitted' = emitted /\ disk' = disk
    BY DEF ServerRestart, NewCursor, Resting
  <2>2. Len(<<>>) = 0 /\ DOMAIN <<>> = {} /\ Capacity \in Nat /\ BusCapacity \in Nat
    BY SseAssumption
  <2> QED
    BY <1>0, <2>1, <2>2 DEF LoadBounds
<1>2. \A c \in Clients : client'[c].todo = <<>>
  BY <1>0, CutOffTyped
<1>3. UNCHANGED <<emitted, disk, view>>
  BY DEF ServerRestart
<1> QED
  BY <1>0, <1>1, <1>2, <1>3, LoadsInBounds

(***************************************************************************)
(* A client's own step leaves the bounds of the server alone, and what it  *)
(* has still to be given comes from the buffer or the store.               *)
(***************************************************************************)
LEMMA ClientInBounds ==
    ASSUME Types, \A i \in Loads : Line(i), \A d \in Clients : Client(d), SseBounds,
           NEW c \in Clients, Aside, ClientsTyped, Others(c), ClientBounds(c)'
    PROVE  SseBounds'
<1>1. /\ emitted' = emitted /\ disk' = disk /\ durable_seq' = durable_seq /\ cursor' = cursor
      /\ bus' = bus /\ sequencer' = sequencer /\ Types'
  BY AsideFrame DEF Aside, serving
<1>2. DiskBounds' /\ \A i \in Loads : LoadBounds(i)'
  BY <1>1 DEF SseBounds, DiskBounds, LoadBounds
<1>3. ASSUME NEW d \in Clients \ {c} PROVE ClientBounds(d)'
  <2>1. ClientBounds(d) /\ emitted' >= emitted /\ client'[d] = client[d] /\ view'[d] = view[d]
    BY <1>1 DEF SseBounds, Others, Types
  <2> QED
    BY <1>1, <2>1, ClientBoundsKept
<1> QED
  BY <1>2, <1>3 DEF SseBounds

(* An entry of a load is in bounds, and so is what its buffer holds. *)
LEMMA EntryInBounds ==
    ASSUME Types, NEW i \in Loads, Line(i), LoadBounds(i), NEW e \in Sequenced, SentOrInHand(i, e)
    PROVE  InBounds(e, emitted)
<1>1. /\ e.seq \in Nat /\ e.ev \in Nat /\ 1 <= e.seq /\ e.seq < cursor[i].next /\ e.ev <= emitted
  BY EntryNumbers
<1>2. /\ cursor[i].next \in Nat /\ Len(bus[i]) \in Nat /\ emitted \in Nat
      /\ cursor[i].next + Len(bus[i]) <= 2 * emitted + 2
  BY LoadNumbers DEF LoadBounds
<1>3. \A s, n, b, m \in Nat : s < n /\ n + b <= 2 * m + 2 => s <= 2 * m + 1
  OBVIOUS
<1>4. e.seq <= 2 * emitted + 1
  BY <1>1, <1>2, <1>3
<1> QED
  BY <1>1, <1>4 DEF InBounds

LEMMA BufferInBounds ==
    ASSUME Types, NEW i \in Loads, Line(i), LoadBounds(i), NEW n \in DOMAIN cursor[i].buffer
    PROVE  InBounds(cursor[i].buffer[n], emitted)
<1>1. cursor[i].buffer[n] \in Sequenced /\ SentOrInHand(i, cursor[i].buffer[n])
  BY LoadTyped DEF Line, Buffered
<1> QED
  BY <1>1, EntryInBounds

LEMMA SentInBounds ==
    ASSUME Types, NEW i \in Loads, Line(i), LoadBounds(i), NEW n \in 1..Len(sent[i])
    PROVE  InBounds(sent[i][n], emitted)
BY SentIsEntry, EntryInBounds

LEMMA StoredInBounds ==
    ASSUME disk \in Seq(Nat), emitted \in Nat, DiskBounds, NEW n \in DOMAIN Stored
    PROVE  InBounds(Stored[n], emitted)
<1>1. n \in 1..Len(disk) /\ Len(disk) \in Nat /\ Stored[n] = [seq |-> n, ev |-> disk[n]]
      /\ disk[n] <= emitted /\ Len(disk) <= emitted + 1
  BY DEF Stored, DiskBounds
<1>2. n >= 1 /\ n <= 2 * emitted + 1
  BY <1>1
<1> QED
  BY <1>1, <1>2 DEF InBounds

LEMMA ReplayBounds ==
    ASSUME SseInv, SseBounds, NEW c \in Clients, Replay(c) PROVE SseBounds'
<1>0. Types /\ (\A i \in Loads : Line(i)) /\ (\A d \in Clients : Client(d)) /\ Connected(c)
  BY DEF SseInv, Client
<1>1. PICK pc, todo :
         /\ client'[c] = [pc |-> pc, on |-> client[c].on, last |-> client[c].last,
                          from |-> client[c].from, floor |-> client[c].last,
                          at |-> client[c].at, todo |-> todo, connects |-> client[c].connects]
         /\ todo = <<>> \/ todo = Later(cursor[client[c].on].buffer, client[c].last)
  BY <1>0, ReplayStep
<1>2. /\ ClientsTyped /\ Others(c) /\ view' = view /\ client[c].on \in Loads
      /\ client'[c].todo = todo
  BY <1>0, <1>1, ReplayStep
<1>3. Aside /\ emitted' = emitted
  BY DEF Replay, Aside
<1>4. \A m \in DOMAIN todo : InBounds(todo[m], emitted)
  <2>1. CASE todo = <<>>
    BY <2>1
  <2>2. CASE todo = Later(cursor[client[c].on].buffer, client[c].last)
    <3> DEFINE i == client[c].on
               s == cursor[i].buffer
    <3>1. Line(i) /\ LoadBounds(i) /\ s \in Seq(Sequenced) /\ client[c].last \in Int
      BY <1>0, <1>2, LoadTyped, ClientIsTyped DEF SseBounds, ClientTyped
    <3>2. ByNumber(s)
      BY <3>1, OrderedByNumber DEF Line, Buffered
    <3>3. ASSUME NEW m \in DOMAIN todo PROVE InBounds(todo[m], emitted)
      <4>1. PICK n \in DOMAIN s : s[n] = todo[m]
        BY <2>2, <3>1, <3>2, LaterFilters
      <4> QED
        BY <1>0, <1>2, <3>1, <4>1, BufferInBounds
    <3> QED
      BY <3>3
  <2> QED
    BY <1>1, <2>1, <2>2
<1>5. ClientBounds(c)'
  BY <1>2, <1>3, <1>4 DEF SseBounds, ClientBounds
<1> QED
  BY <1>0, <1>2, <1>3, <1>5, ClientInBounds

LEMMA LoadAfterBounds ==
    ASSUME SseInv, SseBounds, NEW c \in Clients, LoadAfter(c) PROVE SseBounds'
<1>0. /\ Types /\ (\A i \in Loads : Line(i)) /\ (\A d \in Clients : Client(d)) /\ Connected(c)
      /\ client[c] \in ClientType /\ view[c] \in ViewType /\ emitted \in Nat /\ disk \in Seq(Nat)
  BY DEF SseInv, Client, Types
<1>1. ClientsTyped /\ Others(c) /\ Aside /\ emitted' = emitted
  BY <1>0, LoadAfterStep DEF LoadAfter, Aside
<1> DEFINE records == IF client[c].last > durable_seq[client[c].on] THEN <<>>
                      ELSE Later(Stored, client[c].last)
           pc == IF records = <<>> THEN "reload" ELSE "live"
           scars == view[c].scars \union {"from store"}
<1>2. \A m \in DOMAIN records : InBounds(records[m], emitted)
  <2>1. CASE records = <<>>
    <3> HIDE DEF records
    <3> QED
      BY <2>1
  <2>2. CASE records = Later(Stored, client[c].last)
    <3>1. Stored \in Seq(Sequenced) /\ ByNumber(Stored) /\ client[c].last \in Int
      BY <1>0, StoredTyped, ClientFields
    <3>2. ASSUME NEW m \in DOMAIN records PROVE InBounds(records[m], emitted)
      <4>1. PICK n \in DOMAIN Stored : Stored[n] = records[m]
        BY <2>2, <3>1, LaterFilters
      <4>2. InBounds(Stored[n], emitted)
        BY <1>0, StoredInBounds DEF SseBounds
      <4> QED
        BY <4>1, <4>2
    <3> QED
      BY <3>2
  <2> QED
    BY <2>1, <2>2
<1>3. /\ client' = [client EXCEPT ![c] = [client[c] EXCEPT !.pc = pc, !.todo = records]]
      /\ view' = [view EXCEPT ![c] = [view[c] EXCEPT !.scars = scars]]
  BY DEF LoadAfter
<1> HIDE DEF records, pc, scars
<1>4. client'[c].todo = records
  <2>1. client'[c] = [client[c] EXCEPT !.pc = pc, !.todo = records]
    BY <1>0, <1>3 DEF Types
  <2> QED
    BY <1>0, <2>1 DEF ClientType
<1>5. view'[c].seen = view[c].seen
  <2>1. view'[c] = [view[c] EXCEPT !.scars = scars]
    BY <1>0, <1>3 DEF Types
  <2> QED
    BY <1>0, <2>1 DEF ViewType
<1>6. ClientBounds(c)'
  BY <1>1, <1>2, <1>4, <1>5 DEF SseBounds, ClientBounds
<1> QED
  BY <1>0, <1>1, <1>6, ClientInBounds

(* What a client is given is in bounds when the entry is. *)
LEMMA GivesBounds ==
    ASSUME SseInv, SseBounds, NEW c \in Clients, NEW e \in Sequenced, Gives(c, e), Aside,
           InBounds(e, emitted)
    PROVE  SseBounds'
<1>0. Types /\ (\A i \in Loads : Line(i)) /\ (\A d \in Clients : Client(d)) /\ ClientTyped(c)
  BY ClientIsTyped DEF SseInv
<1>1. /\ ClientsTyped /\ Others(c) /\ emitted' = emitted
      /\ client'[c].todo = IF client[c].todo # <<>> THEN Tail(client[c].todo) ELSE client[c].todo
      /\ view'[c].seen = view[c].seen \union {e.ev}
  <2> DEFINE todo == IF client[c].todo # <<>> THEN Tail(client[c].todo) ELSE client[c].todo
             floor == IF e.seq > client[c].floor THEN e.seq ELSE client[c].floor
             at == IF client[c].todo = <<>> THEN client[c].at + 1 ELSE client[c].at
  <2>1. /\ ClientsTyped /\ Others(c) /\ view'[c].seen = view[c].seen \union {e.ev}
    BY <1>0, GivesStep
  <2>2. client'[c] = [pc |-> client[c].pc, on |-> client[c].on, last |-> e.seq,
                      from |-> client[c].on, floor |-> floor, at |-> at, todo |-> todo,
                      connects |-> client[c].connects]
    BY <1>0, GivesStep
  <2> HIDE DEF todo, floor, at
  <2>3. client'[c].todo = todo
    BY <2>2
  <2> QED
    BY <2>1, <2>3 DEF Aside, todo
<1>2. /\ \A m \in DOMAIN client[c].todo : InBounds(client[c].todo[m], emitted)
      /\ \A x \in view[c].seen : x <= emitted
  BY DEF SseBounds, ClientBounds
<1>3. \A m \in DOMAIN client'[c].todo : InBounds(client'[c].todo[m], emitted)
  <2>1. CASE client[c].todo = <<>>
    BY <1>1, <1>2, <2>1
  <2>2. CASE client[c].todo # <<>>
    <3>1. /\ client'[c].todo = Tail(client[c].todo)
          /\ \A m \in DOMAIN Tail(client[c].todo) :
                m + 1 \in DOMAIN client[c].todo /\ Tail(client[c].todo)[m] = client[c].todo[m + 1]
      BY <1>0, <1>1, <2>2 DEF ClientTyped
    <3> QED
      BY <1>2, <3>1
  <2> QED
    BY <2>1, <2>2
<1>4. \A x \in view'[c].seen : x <= emitted
  BY <1>1, <1>2 DEF InBounds
<1>5. ClientBounds(c)'
  BY <1>1, <1>3, <1>4 DEF ClientBounds
<1> QED
  BY <1>0, <1>1, <1>5, ClientInBounds

LEMMA ClientSteps ==
    ASSUME SseInv, SseBounds, NEW c \in Clients,
           \/ Connect(c) \/ Reload(c) \/ ForwardReplayed(c) \/ ForwardLive(c)
           \/ ForwardLagged(c) \/ Disconnect(c)
    PROVE  SseBounds'
<1>0. /\ Types /\ (\A i \in Loads : Line(i)) /\ (\A d \in Clients : Client(d)) /\ ClientTyped(c)
      /\ Connected(c) /\ ClientBounds(c) /\ \A i \in Loads : LoadBounds(i)
  BY ClientIsTyped DEF SseInv, SseBounds, Client
<1>1. Aside /\ emitted' = emitted /\ emitted' >= emitted
  BY <1>0 DEF Connect, Reload, ForwardReplayed, ForwardLive, ForwardLagged, Disconnect, Aside, Types
<1>2. client[c].pc # "off" => client[c].on \in Loads /\ Line(client[c].on)
  BY <1>0, LoadsSoFar DEF Connected
<1>3. ASSUME ClientsTyped, Others(c), client'[c].todo \in {client[c].todo, <<>>},
             view'[c].seen = view[c].seen
      PROVE  SseBounds'
  <2>1. Types'
    BY <1>0, <1>1, <1>3, AsideFrame
  <2>2. ClientBounds(c)'
    BY <1>0, <1>1, <1>3, <2>1, ClientBoundsKept
  <2> QED
    BY <1>0, <1>1, <1>3, <2>2, ClientInBounds
<1>4. CASE Connect(c)
  <2>1. /\ ClientsTyped /\ Others(c) /\ client'[c].todo = client[c].todo
        /\ view'[c].seen = view[c].seen
    BY <1>0, <1>4, ConnectStep
  <2> QED
    BY <1>3, <2>1
<1>5. CASE Reload(c)
  <2>0. Line(client[c].on)
    BY <1>2, <1>5 DEF Reload
  <2>1. /\ ClientsTyped /\ Others(c) /\ client'[c].todo = <<>> /\ view'[c].seen = view[c].seen
    <3>1. /\ ClientsTyped /\ Others(c)
          /\ client'[c] = [pc |-> "off", on |-> 0, last |-> Current(cursor[client[c].on]),
                           from |-> client[c].on, floor |-> 0, at |-> 0, todo |-> <<>>,
                           connects |-> client[c].connects]
      BY <1>0, <1>5, <2>0, ReloadStep
    <3>2. view'[c] = [seen |-> view[c].seen, twice |-> view[c].twice, since |-> emitted,
                      told |-> TRUE, scars |-> {}]
      BY <1>0, <1>5, <2>0, ReloadStep
    <3>3. client'[c].todo = <<>>
      BY <3>1
    <3>4. view'[c].seen = view[c].seen
      BY <3>2
    <3> QED
      BY <3>1, <3>3, <3>4
  <2> QED
    BY <1>3, <2>1
<1>6. CASE ForwardReplayed(c)
  <2>1. client[c].todo # <<>> /\ Gives(c, Head(client[c].todo))
    BY <1>6 DEF ForwardReplayed
  <2>2. /\ 1 \in DOMAIN client[c].todo /\ Head(client[c].todo) = client[c].todo[1]
        /\ Head(client[c].todo) \in Sequenced
    BY <1>0, <2>1 DEF ClientTyped
  <2>3. InBounds(Head(client[c].todo), emitted)
    BY <1>0, <2>2 DEF ClientBounds
  <2> QED
    BY <1>1, <2>1, <2>2, <2>3, GivesBounds
<1>7. CASE ForwardLive(c)
  <2> DEFINE e == sent[client[c].on][client[c].at + 1]
  <2>1. /\ client[c].on \in Loads /\ Line(client[c].on) /\ Unread(c) \in 1..LiveCapacity
        /\ client[c].todo = <<>>
    BY <1>2, <1>7 DEF ForwardLive, Waits
  <2>2. client[c].at + 1 \in 1..Len(sent[client[c].on])
    <3>1. Len(sent[client[c].on]) \in Nat /\ client[c].at \in Nat /\ LiveCapacity \in Nat
      BY <1>0, <2>1, LoadTyped, SseAssumption DEF ClientTyped
    <3> QED
      BY <2>1, <3>1 DEF Unread
  <2>3. e \in Sequenced /\ InBounds(e, emitted)
    BY <1>0, <2>1, <2>2, SentIsEntry, SentInBounds
  <2>4. CASE e.seq <= client[c].floor
    <3>1. client' = [client EXCEPT ![c].at = @ + 1] /\ UNCHANGED view
      BY <1>7, <2>4 DEF ForwardLive
    <3>2. ClientsTyped /\ Others(c) /\ client'[c].todo = client[c].todo /\ view' = view
      <4>1. ClientTyped(c) /\ client[c] \in ClientType /\ client \in [Clients -> ClientType]
        BY <1>0 DEF Types
      <4>2. client'[c] = [client[c] EXCEPT !.at = @ + 1]
        BY <3>1, <4>1
      <4>3. client'[c].todo = client[c].todo
        BY <4>1, <4>2 DEF ClientType
      <4>4. ClientsTyped /\ Others(c)
        BY <1>0, <3>1, SkipStep
      <4> QED
        BY <3>1, <4>3, <4>4
    <3> QED
      BY <1>3, <3>2
  <2>5. CASE ~(e.seq <= client[c].floor)
    <3>1. Gives(c, e)
      BY <1>7, <2>5 DEF ForwardLive
    <3> QED
      BY <1>1, <2>3, <3>1, GivesBounds
  <2> QED
    BY <2>4, <2>5
<1>8. CASE ForwardLagged(c)
  <2>0. Line(client[c].on)
    BY <1>2, <1>8 DEF ForwardLagged, Waits
  <2>1. /\ ClientsTyped /\ Others(c) /\ client'[c].todo = client[c].todo
        /\ view'[c].seen = view[c].seen
    <3>1. /\ ClientsTyped /\ Others(c)
          /\ client'[c] = [pc |-> client[c].pc, on |-> client[c].on,
                           last |-> Current(cursor[client[c].on]), from |-> client[c].on,
                           floor |-> client[c].floor,
                           at |-> Len(sent[client[c].on]) - LiveCapacity,
                           todo |-> client[c].todo, connects |-> client[c].connects]
      BY <1>0, <1>8, <2>0, LaggedStep
    <3>2. view'[c] = [seen |-> view[c].seen, twice |-> view[c].twice, since |-> emitted,
                      told |-> TRUE, scars |-> view[c].scars]
      BY <1>0, <1>8, <2>0, LaggedStep
    <3>3. client'[c].todo = client[c].todo
      BY <3>1
    <3>4. view'[c].seen = view[c].seen
      BY <3>2
    <3> QED
      BY <3>1, <3>3, <3>4
  <2> QED
    BY <1>3, <2>1
<1>9. CASE Disconnect(c)
  <2>1. ClientsTyped /\ Others(c) /\ client'[c].todo = <<>> /\ view' = view
    BY <1>0, <1>9, DisconnectStep, CutOffTyped
  <2> QED
    BY <1>3, <2>1
<1> QED
  BY <1>4, <1>5, <1>6, <1>7, <1>8, <1>9

LEMMA SseBoundsStep ==
    ASSUME SseInv, SseBounds, [SseNext]_sseVars PROVE SseBounds'
<1>1. CASE Emit
  BY <1>1, EmitBounds
<1>2. ASSUME NEW i \in Loads, Number(i) \/ SendOn(i) PROVE SseBounds'
  BY <1>2, NumberBounds, SendOnBounds
<1>3. CASE StartTurn \/ DropSession \/ Restore \/ SeedRestored
  BY <1>3, SeedBounds
<1>4. CASE ServerRestart
  BY <1>4, RestartBounds
<1>5. ASSUME NEW c \in Clients, Replay(c) \/ LoadAfter(c) PROVE SseBounds'
  BY <1>5, ReplayBounds, LoadAfterBounds
<1>6. ASSUME NEW c \in Clients,
             \/ Connect(c) \/ Reload(c) \/ ForwardReplayed(c) \/ ForwardLive(c)
             \/ ForwardLagged(c) \/ Disconnect(c)
      PROVE  SseBounds'
  BY <1>6, ClientSteps
<1>7. CASE UNCHANGED sseVars
  BY <1>7 DEF sseVars, serving, SseBounds, DiskBounds, LoadBounds, ClientBounds
<1> QED
  BY <1>1, <1>2, <1>3, <1>4, <1>5, <1>6, <1>7 DEF SseNext

LEMMA NarrowSeq ==
    ASSUME NEW s \in Seq(Nat), NEW S, \A n \in 1..Len(s) : s[n] \in S
    PROVE  s \in Seq(S)
OBVIOUS

(* The types of Sse, the bounds of its numbers and buffers among them. *)
THEOREM SseTyped == SseSpec => []SseTypeOK
<1>1. ASSUME SseInv, SseBounds PROVE SseTypeOK
  <2>0. /\ Types /\ (\A i \in Loads : Line(i)) /\ DiskBounds
        /\ (\A i \in Loads : LoadBounds(i)) /\ MaxEvents \in Nat
        /\ emitted \in Nat /\ emitted <= MaxEvents
    BY <1>1, SseAssumption DEF SseInv, SseBounds, DiskBounds, Types
  <2>1. \A e \in Sequenced : InBounds(e, emitted) => e \in Numbered
    <3> SUFFICES ASSUME NEW e \in Sequenced, InBounds(e, emitted) PROVE e \in Numbered
      OBVIOUS
    <3>1. e = [seq |-> e.seq, ev |-> e.ev] /\ e.seq \in Nat /\ e.ev \in Nat
      BY DEF Sequenced
    <3>2. e.seq \in 1..(2 * MaxEvents + 1) /\ e.ev \in 0..MaxEvents
      BY <2>0, <3>1 DEF InBounds
    <3> QED
      BY <3>1, <3>2 DEF Numbered
  <2>2. ASSUME NEW s \in Seq(Sequenced), \A n \in DOMAIN s : InBounds(s[n], emitted)
        PROVE  s \in Entries
    <3>1. \A n \in 1..Len(s) : s[n] \in Numbered
      BY <2>1, <2>2
    <3> QED
      BY <3>1 DEF Entries
  <2>3. /\ emitted \in 0..MaxEvents /\ disk \in Seq(0..MaxEvents)
        /\ Len(disk) \in 1..(MaxEvents + 1) /\ loads \in Loads /\ loaded \in 0..loads
    <3>1. /\ disk \in Seq(Nat) /\ Len(disk) \in 1..(emitted + 1)
          /\ \A n \in DOMAIN disk : disk[n] <= emitted
      BY <2>0 DEF Types, DiskBounds
    <3>2. \A n \in 1..Len(disk) : disk[n] \in 0..MaxEvents
      <4>1. \A n \in 1..Len(disk) : disk[n] \in Nat /\ disk[n] <= emitted
        BY <3>1
      <4> QED
        BY <2>0, <4>1
    <3>3. disk \in Seq(0..MaxEvents)
      BY <3>1, <3>2, NarrowSeq
    <3>4. loads \in Loads /\ loaded \in 0..loads
      BY <2>0, LoadsSoFar DEF Types
    <3> QED
      BY <2>0, <3>1, <3>3, <3>4
  <2>4. durable_seq \in [Loads -> 0..(MaxEvents + 1)]
    <3>1. ASSUME NEW i \in Loads PROVE durable_seq[i] \in 0..(MaxEvents + 1)
      <4>1. durable_seq[i] \in Nat /\ durable_seq[i] <= Len(disk)
        BY <2>0, LoadNumbers DEF LoadBounds
      <4> QED
        BY <2>0, <2>3, <4>1
    <3> QED
      BY <2>0, <3>1 DEF Types
  <2>5. ASSUME NEW i \in Loads
        PROVE  /\ cursor[i].buffer \in Entries /\ Len(cursor[i].buffer) <= Capacity
               /\ cursor[i].next \in Nat \ {0} /\ cursor[i].durable \in 0..(MaxEvents + 1)
               /\ bus[i] \in Seq(1..MaxEvents) /\ Len(bus[i]) <= BusCapacity
               /\ sequencer[i] \in [pc : {"recv", "send"}, ev : 0..MaxEvents, seq : Nat]
               /\ sent[i] \in Entries
    <3>0. Line(i) /\ LoadBounds(i)
      BY <2>0
    <3>1. cursor[i].buffer \in Entries
      BY <2>0, <2>2, <3>0, LoadTyped, BufferInBounds
    <3>2. sent[i] \in Entries
      <4>1. sent[i] \in Seq(Sequenced) /\ DOMAIN sent[i] = 1..Len(sent[i])
        BY <2>0, LoadTyped
      <4> QED
        BY <2>0, <2>2, <3>0, <4>1, SentInBounds
    <3>3. cursor[i].next \in Nat \ {0}
      BY <2>0, <3>0, LoadNumbers DEF Line
    <3>4. cursor[i].durable \in 0..(MaxEvents + 1)
      <4>1. cursor[i].durable \in Nat /\ cursor[i].durable <= Len(disk)
        BY <2>0, <3>0, LoadNumbers DEF LoadBounds
      <4> QED
        BY <2>0, <2>3, <4>1
    <3>5. bus[i] \in Seq(1..MaxEvents)
      <4>1. bus[i] \in Seq(Nat) /\ \A k \in DOMAIN bus[i] : bus[i][k] >= 1 /\ bus[i][k] <= emitted
        BY <2>0, <3>0, LoadTyped DEF LoadBounds, Line, SentInOrder
      <4>2. \A k \in 1..Len(bus[i]) : bus[i][k] \in 1..MaxEvents
        <5>1. \A k \in 1..Len(bus[i]) : bus[i][k] \in Nat /\ bus[i][k] >= 1 /\ bus[i][k] <= emitted
          BY <4>1
        <5> QED
          BY <2>0, <5>1
      <4> QED
        BY <4>1, <4>2, NarrowSeq
    <3>6. sequencer[i] \in [pc : {"recv", "send"}, ev : 0..MaxEvents, seq : Nat]
      <4>1. sequencer[i] \in SequencerType /\ sequencer[i].ev \in 0..MaxEvents
        BY <2>0, <3>0, LoadTyped DEF LoadBounds
      <4> QED
        BY <4>1 DEF SequencerType
    <3> QED
      BY <3>0, <3>1, <3>2, <3>3, <3>4, <3>5, <3>6 DEF LoadBounds
  <2>6. ASSUME NEW c \in Clients
        PROVE  /\ client[c].pc \in {"off", "replay", "load", "reload", "live"}
               /\ client[c].on \in 0..loads /\ client[c].from \in 0..loads
               /\ client[c].last \in {NoId} \union Nat /\ client[c].todo \in Entries
               /\ client[c].at \in Nat /\ client[c].floor \in Nat
               /\ view[c].seen \subseteq 0..MaxEvents /\ view[c].since \in 0..emitted
    <3>0. Connected(c) /\ ClientBounds(c) /\ ClientTyped(c) /\ loads \in Nat
      BY <1>1, <2>0, ClientIsTyped, LoadsSoFar DEF SseInv, SseBounds, Client
    <3>1. client[c].todo \in Entries
      BY <2>2, <3>0 DEF ClientBounds, ClientTyped
    <3>2. client[c].on \in 0..loads /\ client[c].from \in 0..loads /\ view[c].since \in 0..emitted
      BY <2>0, <3>0 DEF Connected, ClientTyped
    <3>3. view[c].seen \subseteq 0..MaxEvents
      <4>1. \A x \in view[c].seen : x \in Nat /\ x <= emitted
        BY <3>0 DEF ClientBounds, ClientTyped
      <4> QED
        BY <2>0, <4>1
    <3>4. /\ client[c].pc \in {"off", "replay", "load", "reload", "live"}
          /\ client[c].last \in {NoId} \union Nat /\ client[c].at \in Nat /\ client[c].floor \in Nat
      BY <3>0, ClientFields DEF ClientTyped
    <3> QED
      BY <3>1, <3>2, <3>3, <3>4
  <2> QED
    BY <2>3, <2>4, <2>5, <2>6 DEF SseTypeOK
<1> QED
  BY <1>1, InitSse, InitSseBounds, SseInvStep, SseBoundsStep, PTL DEF SseSpec

--------------------------------------------------------------------------------
(* Stdio: the invariant and what each step does to it.                      *)

Event == [what : {"event"}, of : Prompts, n : Nat]
Telling == [what : {"event", "completed", "error"}, of : Prompts, n : Nat]
StdioMessage == [do : {"prompt", "cancel", "broken", "other"}, p : Nat]
Stages == {"unsent", "read", "waiting", "forwarding", "draining", "answering", "answered",
           "refused", "abandoned"}

StdioTypes ==
    /\ stage \in [Prompts -> Stages]
    /\ turn \in [Prompts -> {"none", "queued", "running", "completed", "error"}]
    /\ rx \in [Prompts -> Nat] /\ emitted_on \in [Prompts -> Nat]
    /\ sequenced \in Seq(Event) /\ upcoming \in Seq(Event)
    /\ told \in Seq(Telling) /\ stdin \in Seq(StdioMessage)
    /\ \A i \in DOMAIN stdin : stdin[i].do = "prompt" => stdin[i].p \in Prompts

(* Prompts are served one at a time and in the order in which they were sent. *)
StageInv ==
    /\ \A p \in Prompts :
          /\ stage[p] \in {"unsent", "read", "waiting", "refused"} => turn[p] = "none"
          /\ stage[p] \in {"draining", "answering", "answered"} => TurnIsOver(p)
    /\ \A p, q \in Subscribed : p = q
    /\ \A p, q \in Prompts :
          /\ stage[p] # "unsent" /\ stage[q] = "unsent" => p < q
          /\ turn[p] # "none" /\ stage[q] \in {"read", "waiting"} => p < q
          /\ stage[p] = "waiting" /\ stage[q] = "read" => p < q
          /\ turn[p] # "none" /\ q \in Subscribed /\ p # q => p < q

StdinInv ==
    /\ ~Serial => stdin = <<>>
    /\ \A i \in DOMAIN stdin : stdin[i].do = "prompt" => stage[stdin[i].p] = "read"
    /\ \A i, j \in DOMAIN stdin :
          i < j /\ stdin[i].do = "prompt" /\ stdin[j].do = "prompt" => stdin[i].p < stdin[j].p
    /\ \A p \in Prompts : stage[p] = "read" =>
          \E i \in DOMAIN stdin : stdin[i].do = "prompt" /\ stdin[i].p = p

(* All events, sent on or not: the work of each turn in order, then its TurnEnd. *)
Log == sequenced \o upcoming
LogInv ==
    /\ \A i \in DOMAIN Log :
          /\ turn[Log[i].of] \notin {"none", "queued"} /\ Log[i].n \in 0..emitted_on[Log[i].of]
          /\ Log[i].n = TurnEnd => TurnIsOver(Log[i].of)
    /\ \A i, j \in DOMAIN Log : i < j /\ Log[i].of = Log[j].of =>
          Log[i].n # TurnEnd /\ (Log[j].n = TurnEnd \/ Log[i].n < Log[j].n)
    /\ \A p \in Prompts : \A n \in 0..emitted_on[p] :
          n # TurnEnd \/ turn[p] = "completed" => \E i \in DOMAIN Log : Log[i] = Ev(p, n)

(* What is told is told in the order of sequenced, and lies behind the prompt served. *)
ToldInv ==
    /\ \A p \in Prompts : rx[p] <= Len(sequenced)
    /\ \A a \in DOMAIN told :
          IF told[a].what = "event" THEN \E i \in DOMAIN sequenced : told[a] = sequenced[i]
          ELSE stage[told[a].of] = "answered"
    /\ \A a, b \in DOMAIN told :
          told[a].what # "event" /\ told[b].what # "event" /\ told[a].of = told[b].of => a = b
    /\ \A p \in Subscribed : \A a \in DOMAIN told, i \in DOMAIN sequenced :
          told[a] = sequenced[i] => i <= rx[p]
    /\ \A a, b \in DOMAIN told : \A i, j \in DOMAIN sequenced :
          a < b /\ told[a] = sequenced[i] /\ told[b] = sequenced[j] => i < j

(* No prompt up to this one has left events behind: what lies before this one *)
(* then is its own, and what lies behind it has been told.                    *)
Clean(p) == \A q \in 1..p : q \notin hasty /\ stage[q] # "abandoned"
UnderWay(p) == stage[p] \in {"forwarding", "draining"}
WasServed(p) == stage[p] \in {"answering", "answered"}
CleanInv ==
    \A p \in Prompts : Clean(p) => \A i \in DOMAIN Log :
        /\ i > rx[p] /\ UnderWay(p) => Log[i].of = p
        /\ Log[i].of = p /\ WasServed(p) => i <= rx[p]
        /\ Log[i].of = p /\ i <= rx[p] /\ p \notin lagged /\ (UnderWay(p) \/ WasServed(p))
              => \E a \in DOMAIN told : told[a] = Log[i]

CompletedInv ==
    \A a \in DOMAIN told : told[a].what = "completed" =>
        /\ turn[told[a].of] = "completed"
        /\ told[a].of \notin lagged /\ Clean(told[a].of) =>
              \A n \in 0..emitted_on[told[a].of] :
                  \E k \in 1..(a - 1) : told[k] = Ev(told[a].of, n)

StdioInv ==
    StdioTypes /\ StageInv /\ StdinInv /\ LogInv /\ ToldInv /\ CleanInv /\ CompletedInv

--------------------------------------------------------------------------------
LEMMA LogFacts ==
    ASSUME StdioTypes
    PROVE  /\ Log \in Seq(Event) /\ DOMAIN Log = 1..Len(Log) /\ Len(sequenced) \in Nat
           /\ Len(Log) \in Nat /\ Len(Log) = Len(sequenced) + Len(upcoming)
           /\ DOMAIN sequenced = 1..Len(sequenced) /\ Len(sequenced) <= Len(Log)
           /\ \A i \in DOMAIN sequenced : i \in DOMAIN Log /\ Log[i] = sequenced[i]
           /\ \A i \in DOMAIN Log : Log[i].of \in Prompts /\ Log[i].n \in Nat /\ Log[i].what = "event"
           /\ \A i \in DOMAIN Log : Log[i] = Ev(Log[i].of, Log[i].n)
<1>1. sequenced \in Seq(Event) /\ upcoming \in Seq(Event)
  BY DEF StdioTypes
<1>2. /\ Log \in Seq(Event) /\ Len(Log) = Len(sequenced) + Len(upcoming)
      /\ \A i \in 1..(Len(sequenced) + Len(upcoming)) :
            Log[i] = IF i <= Len(sequenced) THEN sequenced[i] ELSE upcoming[i - Len(sequenced)]
  BY <1>1, ConcatProperties DEF Log
<1>3. /\ Len(sequenced) \in Nat /\ Len(upcoming) \in Nat /\ DOMAIN sequenced = 1..Len(sequenced)
      /\ DOMAIN Log = 1..Len(Log)
  BY <1>1, <1>2
<1>4. \A i \in DOMAIN sequenced : i \in DOMAIN Log /\ Log[i] = sequenced[i]
  BY <1>2, <1>3
<1>5. \A i \in DOMAIN Log : Log[i] \in Event
  BY <1>2
<1>6. /\ \A i \in DOMAIN Log : Log[i].of \in Prompts /\ Log[i].n \in Nat /\ Log[i].what = "event"
      /\ \A i \in DOMAIN Log : Log[i] = Ev(Log[i].of, Log[i].n)
  BY <1>5 DEF Event, Ev
<1> QED
  BY <1>2, <1>3, <1>4, <1>6

(* An event is in the log once. *)
LEMMA LogDistinct ==
    ASSUME StdioTypes, LogInv, NEW i \in DOMAIN Log, NEW j \in DOMAIN Log, Log[i] = Log[j]
    PROVE  i = j
<1>1. i \in Nat /\ j \in Nat /\ Log[i].n \in Nat
  BY LogFacts
<1>2. ~(i < j) /\ ~(j < i)
  BY <1>1 DEF LogInv
<1> QED
  BY <1>1, <1>2

LEMMA ToldTyped ==
    ASSUME StdioTypes
    PROVE  /\ \A a \in DOMAIN told : /\ told[a] \in Telling /\ told[a].of \in Prompts
                                   /\ told[a].what \in {"event", "completed", "error"}
           /\ DOMAIN told = 1..Len(told) /\ Len(told) \in Nat
<1>1. told \in Seq(Telling)
  BY DEF StdioTypes
<1>2. \A a \in DOMAIN told : told[a] \in Telling
  BY <1>1
<1> QED
  BY <1>1, <1>2 DEF Telling

LEMMA PromptsAreNumbers ==
    /\ MaxPrompts \in Nat /\ Prompts \subseteq Nat
    /\ \A p \in Prompts : 1..p \subseteq Prompts /\ p \in 1..p
BY StdioAssumption DEF Prompts

(* The parts of the invariant that a step leaves alone. *)
LEMMA StdinKept ==
    ASSUME StdinInv, stdin' = stdin, protocol' = protocol,
           \A p \in Prompts : stage'[p] = "read" <=> stage[p] = "read",
           \A i \in DOMAIN stdin : stdin[i].do = "prompt" => stdin[i].p \in Prompts
    PROVE  StdinInv'
BY DEF StdinInv, Serial

LEMMA LogKept ==
    ASSUME StdioTypes, LogInv, Log' = Log, emitted_on' = emitted_on,
           \A p \in Prompts : /\ turn[p] \notin {"none", "queued"} => turn'[p] \notin {"none", "queued"}
                              /\ TurnIsOver(p) => TurnIsOver(p)'
                              /\ turn'[p] = "completed" => turn[p] = "completed"
    PROVE  LogInv'
<1>1. \A i \in DOMAIN Log : Log[i].of \in Prompts
  BY LogFacts
<1> QED
  BY <1>1 DEF LogInv, TurnIsOver

LEMMA ToldKept ==
    ASSUME StdioTypes, ToldInv, told' = told, sequenced' = sequenced, rx' = rx, Subscribed' \subseteq Subscribed,
           \A p \in Prompts : stage[p] = "answered" => stage'[p] = "answered"
    PROVE  ToldInv'
<1>1. \A a \in DOMAIN told : told[a].of \in Prompts
  BY ToldTyped
<1> HIDE DEF Subscribed
<1> QED
  BY <1>1 DEF ToldInv

LEMMA CleanStays ==
    ASSUME NEW p \in Prompts, hasty \subseteq hasty', Clean(p)',
           \A q \in Prompts : stage[q] = "abandoned" => stage'[q] = "abandoned"
    PROVE  Clean(p)
<1>1. 1..p \subseteq Prompts
  BY PromptsAreNumbers
<1> QED
  BY <1>1 DEF Clean

LEMMA CleanKept ==
    ASSUME StdioTypes, CleanInv, told' = told, Log' = Log, rx' = rx, lagged' = lagged,
           hasty \subseteq hasty',
           \A q \in Prompts : /\ stage[q] = "abandoned" => stage'[q] = "abandoned"
                              /\ UnderWay(q)' => UnderWay(q)
                              /\ WasServed(q)' => WasServed(q)
    PROVE  CleanInv'
<1> SUFFICES ASSUME NEW p \in Prompts, Clean(p)', NEW i \in DOMAIN Log
             PROVE  /\ i > rx[p] /\ UnderWay(p)' => Log[i].of = p
                    /\ Log[i].of = p /\ WasServed(p)' => i <= rx[p]
                    /\ Log[i].of = p /\ i <= rx[p] /\ p \notin lagged /\ (UnderWay(p)' \/ WasServed(p)')
                          => \E a \in DOMAIN told : told[a] = Log[i]
  BY DEF CleanInv
<1>1. Clean(p)
  BY CleanStays
<1> QED
  BY <1>1 DEF CleanInv

LEMMA CompletedKept ==
    ASSUME StdioTypes, CompletedInv, told' = told, lagged \subseteq lagged', hasty \subseteq hasty',
           \A q \in Prompts : /\ stage[q] = "abandoned" => stage'[q] = "abandoned"
                              /\ turn[q] = "completed" =>
                                    turn'[q] = "completed" /\ emitted_on'[q] = emitted_on[q]
    PROVE  CompletedInv'
<1>1. \A a \in DOMAIN told : told[a].of \in Prompts
  BY ToldTyped
<1>2. \A p \in Prompts : Clean(p)' => Clean(p)
  BY CleanStays
<1> QED
  BY <1>1, <1>2 DEF CompletedInv

--------------------------------------------------------------------------------
LEMMA StdioStart == StdioInit => StdioInv
<1> SUFFICES ASSUME StdioInit PROVE StdioInv
  OBVIOUS
<1>1. /\ stdin = <<>> /\ sequenced = <<>> /\ upcoming = <<>> /\ told = <<>> /\ Log = <<>>
      /\ DOMAIN <<>> = {} /\ Len(<<>>) = 0
      /\ stage = [p \in Prompts |-> "unsent"] /\ turn = [p \in Prompts |-> "none"]
      /\ rx = [p \in Prompts |-> 0] /\ emitted_on = [p \in Prompts |-> 0]
  BY DEF StdioInit, Log
<1>2. StdioTypes
  BY <1>1 DEF StdioTypes, Stages
<1>3. Subscribed = {}
  BY <1>1 DEF Subscribed
<1>4. StageInv
  BY <1>1, <1>3 DEF StageInv, TurnIsOver
<1>5. StdinInv
  BY <1>1 DEF StdinInv, Serial
<1>6. LogInv
  BY <1>1 DEF LogInv, TurnEnd
<1>7. ToldInv
  BY <1>1, <1>3 DEF ToldInv
<1>8. CleanInv /\ CompletedInv
  BY <1>1 DEF CleanInv, CompletedInv
<1> QED
  BY <1>2, <1>4, <1>5, <1>6, <1>7, <1>8 DEF StdioInv

(* A step of the client or of the loop: only stage and stdin change, and no  *)
(* prompt comes to be served.                                                *)
LEMMA OnlyStages ==
    ASSUME StdioInv, StdioTypes', StageInv', StdinInv',
           UNCHANGED <<rx, turn, emitted_on, upcoming, sequenced, told, lagged>>,
           hasty \subseteq hasty',
           \A q \in Prompts : /\ stage[q] = "abandoned" => stage'[q] = "abandoned"
                              /\ stage[q] = "answered" => stage'[q] = "answered"
                              /\ q \in Subscribed' => q \in Subscribed
                              /\ UnderWay(q)' => UnderWay(q)
                              /\ WasServed(q)' => WasServed(q)
    PROVE  StdioInv'
<1>1. Log' = Log
  BY DEF Log
<1>2. LogInv'
  BY <1>1, LogKept DEF StdioInv, TurnIsOver
<1>3. Subscribed' \subseteq Subscribed
  BY DEF Subscribed
<1>4. ToldInv'
  BY <1>3, ToldKept DEF StdioInv
<1>5. CleanInv'
  BY <1>1, CleanKept DEF StdioInv
<1>6. CompletedInv'
  BY CompletedKept DEF StdioInv
<1> QED
  BY <1>2, <1>4, <1>5, <1>6 DEF StdioInv

--------------------------------------------------------------------------------
(* The client.                                                              *)
LEMMA SentStages ==
    ASSUME StdioInv, StdioTypes', StdinInv', NEW p \in Prompts, stage[p] = "unsent",
           \A q \in 1..(p - 1) : stage[q] # "unsent", stage'[p] \in {"read", "waiting"},
           stage'[p] = "waiting" => (\A q \in Prompts : stage[q] # "read"),
           \A q \in Prompts : q # p => stage'[q] = stage[q],
           UNCHANGED <<rx, turn, emitted_on, upcoming, sequenced, told, lagged, hasty>>
    PROVE  StdioInv'
<1>1. \A q \in Prompts : stage[q] = "unsent" /\ q # p => p < q
  BY PromptsAreNumbers DEF Prompts
<1>2. \A q \in Prompts : q \in Subscribed' <=> q \in Subscribed
  BY DEF Subscribed
<1>3. Subscribed' = Subscribed
  BY <1>2 DEF Subscribed
<1> HIDE DEF Subscribed
<1>4. /\ \A q \in Prompts : stage[q] # "unsent" => q < p
      /\ \A q \in Prompts : turn[q] # "none" => q < p
  BY DEF StdioInv, StageInv
<1>5. StageInv'
  <2>1. \A q \in Prompts :
          /\ stage'[q] \in {"unsent", "read", "waiting", "refused"} => turn'[q] = "none"
          /\ stage'[q] \in {"draining", "answering", "answered"} => TurnIsOver(q)'
    BY DEF StdioInv, StageInv, TurnIsOver
  <2>2. \A q, r \in Prompts : stage'[q] # "unsent" /\ stage'[r] = "unsent" => q < r
    BY <1>1 DEF StdioInv, StageInv
  <2>3. \A q, r \in Prompts : turn'[q] # "none" /\ stage'[r] \in {"read", "waiting"} => q < r
    BY <1>4 DEF StdioInv, StageInv
  <2>4. \A q, r \in Prompts : stage'[q] = "waiting" /\ stage'[r] = "read" => q < r
    BY <1>4 DEF StdioInv, StageInv
  <2> QED
    BY <1>3, <2>1, <2>2, <2>3, <2>4 DEF StdioInv, StageInv
<1>6. \A q \in Prompts : /\ stage[q] = "abandoned" => stage'[q] = "abandoned"
                         /\ stage[q] = "answered" => stage'[q] = "answered"
                         /\ UnderWay(q)' => UnderWay(q)
                         /\ WasServed(q)' => WasServed(q)
  BY DEF UnderWay, WasServed
<1> QED
  BY <1>3, <1>5, <1>6, OnlyStages

LEMMA SentPromptStep == ASSUME StdioInv, NEW p \in Prompts, SendsPrompt(p) PROVE StdioInv'
<1>1. /\ stage[p] = "unsent" /\ \A q \in 1..(p - 1) : stage[q] # "unsent"
      /\ UNCHANGED <<protocol, rx, turn, emitted_on, upcoming, sequenced, told, lagged, hasty>>
      /\ \/ /\ Serial /\ stage' = [stage EXCEPT ![p] = "read"]
            /\ stdin' = Append(stdin, [do |-> "prompt", p |-> p])
         \/ ~Serial /\ stage' = [stage EXCEPT ![p] = "waiting"] /\ stdin' = stdin
  BY DEF SendsPrompt, turns, history
<1> DEFINE m == [do |-> "prompt", p |-> p]
           n == Len(stdin) + 1
<1>2. m \in StdioMessage /\ m.do = "prompt" /\ m.p = p
  BY PromptsAreNumbers DEF StdioMessage
<1>3. stdin \in Seq(StdioMessage) /\ DOMAIN stdin = 1..(n - 1) /\ n \in Nat \ {0} /\ stage \in [Prompts -> Stages]
  BY DEF StdioInv, StdioTypes
<1>4. /\ stage'[p] \in {"read", "waiting"} /\ \A q \in Prompts : q # p => stage'[q] = stage[q]
      /\ stage' \in [Prompts -> Stages]
  BY <1>1, <1>3 DEF Stages
<1>5. CASE Serial /\ stdin' = Append(stdin, m) /\ stage'[p] = "read"
  <2>1. /\ stdin' \in Seq(StdioMessage) /\ DOMAIN stdin' = 1..n /\ stdin'[n] = m
        /\ \A i \in 1..(n - 1) : stdin'[i] = stdin[i]
    BY <1>2, <1>3, <1>5
  <2> HIDE DEF m, n
  <2>2. \A i \in 1..n : i = n \/ i \in 1..(n - 1)
    BY <1>3
  <2>3. StdioTypes'
    <3>1. \A i \in DOMAIN stdin' : stdin'[i].do = "prompt" => stdin'[i].p \in Prompts
      BY <1>2, <1>3, <2>1, <2>2 DEF StdioInv, StdioTypes
    <3> QED
      BY <1>1, <1>4, <2>1, <3>1 DEF StdioInv, StdioTypes
  <2>4. StdinInv'
    <3>1. \A i \in DOMAIN stdin : stdin[i].do = "prompt" =>
             stdin[i].p \in Prompts /\ stage[stdin[i].p] = "read" /\ stdin[i].p < p
      <4>1. \A q \in Prompts : stage[q] = "read" => q < p
        BY <1>1 DEF StdioInv, StageInv
      <4> QED
        BY <4>1 DEF StdioInv, StdioTypes, StdinInv
    <3>2. \A i \in DOMAIN stdin' : stdin'[i].do = "prompt" => stage'[stdin'[i].p] = "read"
      BY <1>2, <1>3, <1>4, <1>5, <2>1, <2>2, <3>1
    <3>3. ASSUME NEW i \in DOMAIN stdin', NEW j \in DOMAIN stdin', i < j,
                 stdin'[i].do = "prompt", stdin'[j].do = "prompt"
          PROVE  stdin'[i].p < stdin'[j].p
      <4>1. i \in 1..(n - 1)
        BY <1>3, <2>1, <3>3
      <4>2. CASE j = n
        BY <1>2, <1>3, <2>1, <3>1, <3>3, <4>1, <4>2
      <4>3. CASE j \in 1..(n - 1)
        BY <1>3, <2>1, <3>3, <4>1, <4>3 DEF StdioInv, StdinInv
      <4> QED
        BY <2>1, <2>2, <4>2, <4>3
    <3>4. ASSUME NEW q \in Prompts, stage'[q] = "read"
          PROVE  \E i \in DOMAIN stdin' : stdin'[i].do = "prompt" /\ stdin'[i].p = q
      <4>1. CASE q = p
        <5>1. n \in 1..n
          BY <1>3
        <5> QED
          BY <1>2, <2>1, <4>1, <5>1
      <4>2. CASE q # p
        <5>1. PICK i \in DOMAIN stdin : stdin[i].do = "prompt" /\ stdin[i].p = q
          BY <1>4, <3>4, <4>2 DEF StdioInv, StdinInv
        <5>2. i \in 1..n /\ i \in 1..(n - 1)
          BY <1>3
        <5> QED
          BY <2>1, <5>1, <5>2
      <4> QED
        BY <4>1, <4>2
    <3> QED
      BY <1>1, <1>5, <3>2, <3>3, <3>4 DEF StdinInv, Serial
  <2> QED
    BY <1>1, <1>4, <1>5, <2>3, <2>4, SentStages
<1>6. CASE ~Serial /\ stdin' = stdin /\ stage'[p] = "waiting"
  <2>1. StdioTypes'
    BY <1>1, <1>4, <1>6 DEF StdioInv, StdioTypes
  <2>2. StdinInv'
    BY <1>1, <1>4, <1>6, StdinKept DEF StdioInv, StdioTypes
  <2>3. \A q \in Prompts : stage[q] # "read"
    <3>1. stdin = <<>> /\ DOMAIN <<>> = {}
      BY <1>6 DEF StdioInv, StdinInv
    <3> QED
      BY <3>1 DEF StdioInv, StdinInv
  <2> QED
    BY <1>1, <1>4, <1>6, <2>1, <2>2, <2>3, SentStages
<1> QED
  BY <1>1, <1>3, <1>5, <1>6

LEMMA SentMessageStep ==
    ASSUME StdioInv, NEW what \in {"cancel", "broken", "other"}, SendsMessage(what) PROVE StdioInv'
<1> DEFINE m == [do |-> what, p |-> 0]
           n == Len(stdin) + 1
<1>1. /\ Serial /\ stdin' = Append(stdin, m)
      /\ UNCHANGED <<protocol, stage, rx, turn, emitted_on, upcoming, sequenced, told, lagged, hasty>>
  BY DEF SendsMessage, turns, history
<1>2. m \in StdioMessage /\ m.do # "prompt"
  BY DEF StdioMessage
<1>3. stdin \in Seq(StdioMessage) /\ DOMAIN stdin = 1..(n - 1) /\ n \in Nat \ {0}
  BY DEF StdioInv, StdioTypes
<1>4. /\ stdin' \in Seq(StdioMessage) /\ DOMAIN stdin' = 1..n /\ stdin'[n] = m
      /\ \A i \in 1..(n - 1) : stdin'[i] = stdin[i]
  BY <1>1, <1>2, <1>3
<1> HIDE DEF m, n
<1>5. /\ \A i \in 1..n : i = n \/ i \in DOMAIN stdin
      /\ \A i \in DOMAIN stdin : i \in DOMAIN stdin'
  BY <1>3, <1>4
<1>6. \A i \in DOMAIN stdin' : stdin'[i].do = "prompt" => i \in DOMAIN stdin /\ stdin'[i] = stdin[i]
  BY <1>2, <1>3, <1>4, <1>5
<1>7. StdioTypes'
  BY <1>1, <1>4, <1>6 DEF StdioInv, StdioTypes
<1>8. StdinInv'
  <2>1. ASSUME NEW q \in Prompts, stage[q] = "read"
        PROVE  \E i \in DOMAIN stdin' : stdin'[i].do = "prompt" /\ stdin'[i].p = q
    <3>1. PICK i \in DOMAIN stdin : stdin[i].do = "prompt" /\ stdin[i].p = q
      BY <2>1 DEF StdioInv, StdinInv
    <3> QED
      BY <1>3, <1>4, <1>5, <3>1
  <2> QED
    BY <1>1, <1>6, <2>1 DEF StdioInv, StdinInv, Serial
<1>9. Subscribed' = Subscribed
  BY <1>1 DEF Subscribed
<1>10. StageInv'
  BY <1>1, <1>9 DEF StdioInv, StageInv, TurnIsOver
<1> QED
  BY <1>1, <1>7, <1>8, <1>9, <1>10, OnlyStages DEF UnderWay, WasServed

(* Steps that change nothing but stage, of one prompt that gives way. *)
LEMMA GivesWay ==
    ASSUME StdioInv, NEW p \in Prompts, NEW to \in {"abandoned", "draining"},
           stage' = [stage EXCEPT ![p] = to],
           stage[p] \in {"waiting", "forwarding", "draining", "answering"},
           to = "draining" => stage[p] = "forwarding" /\ TurnIsOver(p),
           UNCHANGED <<protocol, stdin, rx, turn, emitted_on, upcoming, sequenced, told, lagged, hasty>>
    PROVE  StdioInv'
<1>1. /\ stage' \in [Prompts -> Stages] /\ stage'[p] = to
      /\ \A q \in Prompts : q # p => stage'[q] = stage[q]
  BY DEF StdioInv, StdioTypes, Stages
<1>2. StdioTypes'
  BY <1>1 DEF StdioInv, StdioTypes
<1>3. StdinInv'
  BY <1>1, StdinKept DEF StdioInv, StdioTypes
<1>4. \A q \in Prompts : q \in Subscribed' => q \in Subscribed
  BY <1>1 DEF Subscribed
<1>5. Subscribed' \subseteq Subscribed
  BY <1>4 DEF Subscribed
<1> HIDE DEF Subscribed
<1>6. StageInv'
  <2>1. \A q \in Prompts :
          /\ stage'[q] \in {"unsent", "read", "waiting", "refused"} => turn'[q] = "none"
          /\ stage'[q] \in {"draining", "answering", "answered"} => TurnIsOver(q)'
    BY <1>1 DEF StdioInv, StageInv, TurnIsOver
  <2>2. \A q, r \in Prompts :
          /\ stage'[q] # "unsent" /\ stage'[r] = "unsent" => q < r
          /\ turn'[q] # "none" /\ stage'[r] \in {"read", "waiting"} => q < r
          /\ stage'[q] = "waiting" /\ stage'[r] = "read" => q < r
    BY <1>1 DEF StdioInv, StageInv
  <2> QED
    BY <1>5, <2>1, <2>2 DEF StdioInv, StageInv
<1>7. \A q \in Prompts : /\ stage[q] = "abandoned" => stage'[q] = "abandoned"
                         /\ stage[q] = "answered" => stage'[q] = "answered"
                         /\ UnderWay(q)' => UnderWay(q)
                         /\ WasServed(q)' => WasServed(q)
  BY <1>1 DEF UnderWay, WasServed
<1> QED
  BY <1>2, <1>3, <1>4, <1>6, <1>7, OnlyStages

(* A message is taken from stdin, and the prompt that it may be is not "read" any more. *)
LEMMA TakenFromStdin ==
    ASSUME StdioTypes, StdinInv, stdin # <<>>, stdin' = Tail(stdin), protocol' = protocol,
           Head(stdin).do = "prompt" => stage'[Head(stdin).p] # "read",
           \A q \in Prompts : (Head(stdin).do = "prompt" => q # Head(stdin).p) =>
              (stage'[q] = "read" <=> stage[q] = "read")
    PROVE  /\ StdinInv' /\ stdin' \in Seq(StdioMessage) /\ Head(stdin) \in StdioMessage
           /\ \A i \in DOMAIN stdin' : stdin'[i].do = "prompt" => stdin'[i].p \in Prompts
           /\ Head(stdin).do = "prompt" => /\ Head(stdin).p \in Prompts
                                           /\ stage[Head(stdin).p] = "read"
                                           /\ \A q \in Prompts : stage[q] = "read" => Head(stdin).p <= q
<1> DEFINE m == Head(stdin)
           n == Len(stdin)
<1>1. stdin \in Seq(StdioMessage)
  BY DEF StdioTypes
<1>2. /\ m \in StdioMessage /\ Tail(stdin) \in Seq(StdioMessage) /\ Len(Tail(stdin)) = n - 1
      /\ \A i \in 1..Len(Tail(stdin)) : Tail(stdin)[i] = stdin[i + 1]
  BY <1>1, HeadTailProperties
<1>3. n \in Nat \ {0} /\ DOMAIN stdin = 1..n /\ m = stdin[1]
  BY <1>1, EmptySeq
<1>4. DOMAIN stdin' = 1..(n - 1) /\ \A i \in 1..(n - 1) : stdin'[i] = stdin[i + 1]
  BY <1>2
<1> HIDE DEF m, n
<1>5. \A i \in 1..(n - 1) : i + 1 \in 1..n /\ 1 < i + 1
  BY <1>3
<1>6. \A i \in 1..n : i = 1 \/ (i - 1 \in 1..(n - 1) /\ (i - 1) + 1 = i /\ 1 < i)
  BY <1>3
<1>0. /\ \A i \in 1..n : stdin[i].do = "prompt" =>
              stdin[i].p \in Prompts /\ stdin[i].p \in Nat /\ stage[stdin[i].p] = "read"
      /\ \A i, j \in 1..n :
            i < j /\ stdin[i].do = "prompt" /\ stdin[j].do = "prompt" =>
               stdin[i].p < stdin[j].p /\ stdin[i].p # stdin[j].p /\ stdin[i].p <= stdin[j].p
  <2>1. \A i \in 1..n : stdin[i].do = "prompt" =>
           stdin[i].p \in Prompts /\ stage[stdin[i].p] = "read"
    BY <1>3 DEF StdioTypes, StdinInv
  <2>2. \A i \in 1..n : stdin[i].do = "prompt" => stdin[i].p \in Nat
    BY <2>1, PromptsAreNumbers
  <2>3. ASSUME NEW i \in 1..n, NEW j \in 1..n, i < j, stdin[i].do = "prompt", stdin[j].do = "prompt"
        PROVE  stdin[i].p < stdin[j].p /\ stdin[i].p # stdin[j].p /\ stdin[i].p <= stdin[j].p
    <3>1. stdin[i].p < stdin[j].p
      BY <1>3, <2>3 DEF StdinInv
    <3>2. stdin[i].p \in Nat /\ stdin[j].p \in Nat
      BY <2>2, <2>3
    <3>3. \A x, y \in Nat : x < y => x # y /\ x <= y
      OBVIOUS
    <3> QED
      BY <3>1, <3>2, <3>3
  <2> QED
    BY <2>1, <2>2, <2>3
<1>7. m.do = "prompt" => m.p \in Prompts /\ m.p \in Nat /\ stage[m.p] = "read"
  BY <1>0, <1>3
<1>8. ASSUME NEW i \in 1..(n - 1), stdin'[i].do = "prompt"
      PROVE  /\ stdin'[i].p \in Prompts /\ stdin'[i].p \in Nat /\ stage[stdin'[i].p] = "read"
             /\ m.do = "prompt" => m.p # stdin'[i].p /\ m.p <= stdin'[i].p
  <2>1. i + 1 \in 1..n /\ 1 < i + 1 /\ 1 \in 1..n /\ stdin'[i] = stdin[i + 1]
    BY <1>3, <1>4, <1>5
  <2>2. stdin[i + 1].do = "prompt"
    BY <1>8, <2>1
  <2>3. m.do = "prompt" => m.p # stdin[i + 1].p /\ m.p <= stdin[i + 1].p
    BY <1>0, <1>3, <2>1, <2>2
  <2> QED
    BY <1>0, <2>1, <2>2, <2>3
<1>9. ASSUME NEW q \in Prompts, stage[q] = "read"
      PROVE  \/ m.do = "prompt" /\ q = m.p
             \/ \E i \in 1..(n - 1) : stdin'[i].do = "prompt" /\ stdin'[i].p = q
  <2>1. PICK i \in 1..n : stdin[i].do = "prompt" /\ stdin[i].p = q
    BY <1>3, <1>9 DEF StdinInv
  <2>2. CASE i = 1
    BY <1>3, <2>1, <2>2
  <2>3. CASE i # 1
    BY <1>4, <1>6, <2>1, <2>3
  <2> QED
    BY <2>2, <2>3
<1>10. ASSUME m.do = "prompt", NEW q \in Prompts, stage[q] = "read" PROVE m.p <= q
  <2>1. m.p \in Nat /\ q \in Nat
    BY <1>7, <1>10, PromptsAreNumbers
  <2>2. CASE q = m.p
    BY <2>1, <2>2
  <2>3. CASE \E i \in 1..(n - 1) : stdin'[i].do = "prompt" /\ stdin'[i].p = q
    <3>1. PICK i \in 1..(n - 1) : stdin'[i].do = "prompt" /\ stdin'[i].p = q
      BY <2>3
    <3> QED
      BY <1>8, <1>10, <3>1
  <2> QED
    BY <1>9, <1>10, <2>2, <2>3
<1>11. \A i \in DOMAIN stdin' : stdin'[i].do = "prompt" => stage'[stdin'[i].p] = "read"
  <2> SUFFICES ASSUME NEW i \in 1..(n - 1), stdin'[i].do = "prompt" PROVE stage'[stdin'[i].p] = "read"
    BY <1>4
  <2>1. /\ stdin'[i].p \in Prompts /\ stdin'[i].p \in Nat /\ stage[stdin'[i].p] = "read"
        /\ m.do = "prompt" => m.p # stdin'[i].p
    BY <1>8
  <2> QED
    BY <2>1 DEF m
<1>12. \A i, j \in DOMAIN stdin' :
          i < j /\ stdin'[i].do = "prompt" /\ stdin'[j].do = "prompt" => stdin'[i].p < stdin'[j].p
  <2> SUFFICES ASSUME NEW i \in 1..(n - 1), NEW j \in 1..(n - 1), i < j,
                      stdin'[i].do = "prompt", stdin'[j].do = "prompt"
               PROVE  stdin'[i].p < stdin'[j].p
    BY <1>4
  <2>1. i + 1 \in DOMAIN stdin /\ j + 1 \in DOMAIN stdin /\ i + 1 < j + 1
    BY <1>3, <1>5
  <2> QED
    BY <1>4, <2>1 DEF StdinInv
<1>13. ASSUME NEW q \in Prompts, stage'[q] = "read"
       PROVE  \E i \in DOMAIN stdin' : stdin'[i].do = "prompt" /\ stdin'[i].p = q
  <2>1. m.do = "prompt" => q # m.p
    BY <1>13 DEF m
  <2>2. stage[q] = "read"
    BY <1>13, <2>1 DEF m
  <2> QED
    BY <1>4, <1>9, <2>1, <2>2
<1>14. Serial
  BY DEF StdinInv
<1>15. StdinInv'
  BY <1>11, <1>12, <1>13, <1>14 DEF StdinInv, Serial
<1>16. \A i \in DOMAIN stdin' : stdin'[i].do = "prompt" => stdin'[i].p \in Prompts
  BY <1>4, <1>8
<1> QED
  BY <1>2, <1>7, <1>10, <1>15, <1>16 DEF m

(* The prompt at the head of stdin comes to wait, when no other does, or is refused. *)
LEMMA HeadPromptMoves ==
    ASSUME StdioInv, stdin # <<>>, stdin' = Tail(stdin), Head(stdin).do = "prompt",
           NEW to \in {"waiting", "refused"}, to = "waiting" => Waiting = {},
           stage' = [stage EXCEPT ![Head(stdin).p] = to],
           UNCHANGED <<protocol, rx, turn, emitted_on, upcoming, sequenced, told, lagged, hasty>>
    PROVE  StdioInv'
<1> DEFINE p == Head(stdin).p
<1>1. StdioTypes /\ StdinInv /\ StageInv
  BY DEF StdioInv
<1>2. stage \in [Prompts -> Stages] /\ to # "read"
  BY <1>1 DEF StdioTypes
<1>3. p \in Prompts
  <2>1. Head(stdin) \in StdioMessage /\ Head(stdin) = stdin[1] /\ 1 \in DOMAIN stdin
    <3>1. stdin \in Seq(StdioMessage)
      BY <1>1 DEF StdioTypes
    <3> QED
      BY <3>1, HeadTailProperties, EmptySeq
  <2> QED
    BY <1>1, <2>1 DEF StdioTypes
<1>4. /\ stage' \in [Prompts -> Stages] /\ stage'[p] = to
      /\ \A q \in Prompts : q # p => stage'[q] = stage[q]
  BY <1>2, <1>3 DEF Stages
<1>5. /\ StdinInv' /\ stdin' \in Seq(StdioMessage) /\ stage[p] = "read"
      /\ \A i \in DOMAIN stdin' : stdin'[i].do = "prompt" => stdin'[i].p \in Prompts
      /\ \A q \in Prompts : stage[q] = "read" => p <= q
  BY <1>1, <1>2, <1>4, TakenFromStdin
<1> HIDE DEF p
<1>6. StdioTypes'
  BY <1>4, <1>5 DEF StdioInv, StdioTypes
<1>7. \A q \in Prompts : q \in Subscribed' <=> q \in Subscribed
  BY <1>3, <1>4, <1>5 DEF Subscribed
<1>8. Subscribed' = Subscribed
  BY <1>7 DEF Subscribed
<1> HIDE DEF Subscribed
<1>9. \A q \in Prompts : stage'[q] = "waiting" => q = p \/ to # "waiting"
  BY <1>4 DEF Waiting
<1>10. \A q \in Prompts : stage[q] = "read" /\ q # p => p < q
  <2>1. p \in Nat /\ \A q \in Prompts : q \in Nat
    BY <1>3, PromptsAreNumbers
  <2> QED
    BY <1>5, <2>1
<1>11. StageInv'
  <2>1. \A q \in Prompts :
          /\ stage'[q] \in {"unsent", "read", "waiting", "refused"} => turn'[q] = "none"
          /\ stage'[q] \in {"draining", "answering", "answered"} => TurnIsOver(q)'
    BY <1>1, <1>3, <1>4, <1>5 DEF StageInv, TurnIsOver
  <2>2. \A q, r \in Prompts : stage'[q] # "unsent" /\ stage'[r] = "unsent" => q < r
    BY <1>1, <1>3, <1>4, <1>5 DEF StageInv
  <2>3. \A q, r \in Prompts : turn'[q] # "none" /\ stage'[r] \in {"read", "waiting"} => q < r
    BY <1>1, <1>3, <1>4, <1>5 DEF StageInv
  <2>4. ASSUME NEW q \in Prompts, NEW r \in Prompts, stage'[q] = "waiting", stage'[r] = "read"
        PROVE  q < r
    <3>1. r # p /\ stage[r] = "read"
      BY <1>2, <1>4, <2>4
    <3>2. CASE q = p
      BY <1>10, <3>1, <3>2
    <3>3. CASE q # p
      BY <1>1, <1>4, <2>4, <3>1, <3>3 DEF StageInv
    <3> QED
      BY <3>2, <3>3
  <2> QED
    BY <1>1, <1>8, <2>1, <2>2, <2>3, <2>4 DEF StageInv
<1>12. \A q \in Prompts : /\ stage[q] = "abandoned" => stage'[q] = "abandoned"
                          /\ stage[q] = "answered" => stage'[q] = "answered"
                          /\ UnderWay(q)' => UnderWay(q)
                          /\ WasServed(q)' => WasServed(q)
  BY <1>3, <1>4, <1>5 DEF UnderWay, WasServed
<1> QED
  BY <1>5, <1>6, <1>8, <1>11, <1>12, OnlyStages

(* A message that is no prompt is taken. *)
LEMMA HeadMessageGone ==
    ASSUME StdioInv, stdin # <<>>, stdin' = Tail(stdin), Head(stdin).do # "prompt",
           UNCHANGED <<protocol, stage, rx, turn, emitted_on, upcoming, sequenced, told, lagged, hasty>>
    PROVE  StdioInv'
<1>1. StdioTypes /\ StdinInv /\ StageInv
  BY DEF StdioInv
<1>2. /\ StdinInv' /\ stdin' \in Seq(StdioMessage)
      /\ \A i \in DOMAIN stdin' : stdin'[i].do = "prompt" => stdin'[i].p \in Prompts
  BY <1>1, TakenFromStdin
<1>3. StdioTypes'
  BY <1>1, <1>2 DEF StdioTypes
<1>4. Subscribed' = Subscribed
  BY DEF Subscribed
<1>5. StageInv'
  BY <1>1, <1>4 DEF StageInv, TurnIsOver
<1> QED
  BY <1>2, <1>3, <1>4, <1>5, OnlyStages DEF UnderWay, WasServed

LEMMA TakesKeeps == ASSUME StdioInv, Takes PROVE StdioInv'
<1>1. /\ stdin # <<>> /\ stdin' = Tail(stdin) /\ Waiting = {}
      /\ stage' = IF Head(stdin).do = "prompt" THEN [stage EXCEPT ![Head(stdin).p] = "waiting"] ELSE stage
      /\ UNCHANGED <<protocol, rx, turn, emitted_on, upcoming, sequenced, told, lagged, hasty>>
  BY DEF Takes, history
<1>2. CASE Head(stdin).do = "prompt"
  BY <1>1, <1>2, HeadPromptMoves
<1>3. CASE Head(stdin).do # "prompt"
  BY <1>1, <1>3, HeadMessageGone
<1> QED
  BY <1>2, <1>3

(* Like GivesWay, with the message gone that the loop could not read. *)
LEMMA TakesInTurnStep == ASSUME StdioInv, NEW p \in Prompts, TakesInTurn(p) PROVE StdioInv'
<1>1. /\ stdin # <<>> /\ stdin' = Tail(stdin) /\ stage[p] = "forwarding"
      /\ stage' = CASE Head(stdin).do = "prompt" -> [stage EXCEPT ![Head(stdin).p] = "refused"]
                    [] Head(stdin).do = "broken" -> [stage EXCEPT ![p] = "abandoned"]
                    [] OTHER -> stage
      /\ UNCHANGED <<protocol, rx, turn, emitted_on, upcoming, sequenced, told, lagged, hasty>>
  BY DEF TakesInTurn, history
<1>2. CASE Head(stdin).do = "prompt"
  <2>1. stage' = [stage EXCEPT ![Head(stdin).p] = "refused"]
    BY <1>1, <1>2
  <2> QED
    BY <1>1, <1>2, <2>1, HeadPromptMoves
<1>3. CASE Head(stdin).do = "broken"
  <2>1. stage' = [stage EXCEPT ![p] = "abandoned"]
    BY <1>1, <1>3
  <2>2. StdioTypes /\ StdinInv /\ StageInv
    BY DEF StdioInv
  <2>3. /\ stage' \in [Prompts -> Stages] /\ stage'[p] = "abandoned"
        /\ \A q \in Prompts : q # p => stage'[q] = stage[q]
    BY <2>1, <2>2 DEF StdioTypes, Stages
  <2>4. /\ StdinInv' /\ stdin' \in Seq(StdioMessage)
        /\ \A i \in DOMAIN stdin' : stdin'[i].do = "prompt" => stdin'[i].p \in Prompts
    BY <1>1, <1>3, <2>2, <2>3, TakenFromStdin
  <2>5. StdioTypes'
    BY <1>1, <2>2, <2>3, <2>4 DEF StdioTypes
  <2>6. \A q \in Prompts : q \in Subscribed' => q \in Subscribed
    BY <2>3 DEF Subscribed
  <2>7. Subscribed' \subseteq Subscribed
    BY <2>6 DEF Subscribed
  <2> HIDE DEF Subscribed
  <2>8. StageInv'
    <3>1. \A q \in Prompts :
            /\ stage'[q] \in {"unsent", "read", "waiting", "refused"} => turn'[q] = "none"
            /\ stage'[q] \in {"draining", "answering", "answered"} => TurnIsOver(q)'
      BY <1>1, <2>2, <2>3 DEF StageInv, TurnIsOver
    <3>2. \A q, r \in Prompts :
            /\ stage'[q] # "unsent" /\ stage'[r] = "unsent" => q < r
            /\ turn'[q] # "none" /\ stage'[r] \in {"read", "waiting"} => q < r
            /\ stage'[q] = "waiting" /\ stage'[r] = "read" => q < r
      BY <1>1, <2>2, <2>3 DEF StageInv
    <3> QED
      BY <1>1, <2>2, <2>7, <3>1, <3>2 DEF StageInv
  <2>9. \A q \in Prompts : /\ stage[q] = "abandoned" => stage'[q] = "abandoned"
                           /\ stage[q] = "answered" => stage'[q] = "answered"
                           /\ UnderWay(q)' => UnderWay(q)
                           /\ WasServed(q)' => WasServed(q)
    BY <1>1, <2>3 DEF UnderWay, WasServed
  <2> QED
    BY <1>1, <2>4, <2>5, <2>6, <2>8, <2>9, OnlyStages
<1>4. CASE Head(stdin).do \notin {"prompt", "broken"}
  <2>1. stage' = stage
    BY <1>1, <1>4
  <2> QED
    BY <1>1, <1>4, <2>1, HeadMessageGone
<1> QED
  BY <1>2, <1>3, <1>4

--------------------------------------------------------------------------------
(* The turn.                                                                *)
LEMMA TurnMoves ==
    ASSUME StdioInv, NEW p \in Prompts, NEW to \in {"running", "error"},
           turn[p] \in {"queued", "running"}, turn' = [turn EXCEPT ![p] = to],
           UNCHANGED <<protocol, stdin, stage, rx, emitted_on, upcoming, sequenced, told, lagged, hasty>>
    PROVE  StdioInv'
<1>1. /\ turn' \in [Prompts -> {"none", "queued", "running", "completed", "error"}]
      /\ turn'[p] = to /\ \A q \in Prompts : q # p => turn'[q] = turn[q]
  BY DEF StdioInv, StdioTypes
<1>2. StdioTypes'
  BY <1>1 DEF StdioInv, StdioTypes
<1>3. Subscribed' = Subscribed /\ Log' = Log
  BY DEF Subscribed, Log
<1>4. StageInv'
  BY <1>1, <1>3 DEF StdioInv, StageInv, TurnIsOver
<1>5. StdinInv'
  BY StdinKept DEF StdioInv, StdioTypes
<1>6. LogInv'
  BY <1>1, <1>3, LogKept DEF StdioInv, TurnIsOver
<1>7. ToldInv'
  BY <1>3, ToldKept DEF StdioInv
<1>8. CleanInv'
  BY <1>3, CleanKept DEF StdioInv, UnderWay, WasServed
<1>9. CompletedInv'
  BY <1>1, CompletedKept DEF StdioInv
<1> QED
  BY <1>2, <1>4, <1>5, <1>6, <1>7, <1>8, <1>9 DEF StdioInv

(* Whose turn has come before that of the one that is served is done with it. *)
LEMMA EarlierAreServed ==
    ASSUME StdioInv, NEW p \in Prompts, NEW q \in Prompts, turn[q] # "none", q < p, Clean(p),
           q \notin Subscribed
    PROVE  stage[q] = "answered" /\ Clean(q) /\ TurnIsOver(q)
<1>1. q \in 1..p /\ 1..q \subseteq 1..p
  BY PromptsAreNumbers DEF Prompts
<1>2. Clean(q) /\ stage[q] # "abandoned"
  BY <1>1 DEF Clean
<1>3. stage[q] \notin {"unsent", "read", "waiting", "refused"}
  BY DEF StdioInv, StageInv
<1>4. stage[q] \notin {"forwarding", "draining", "answering"}
  BY DEF Subscribed
<1>5. stage[q] \in Stages
  BY DEF StdioInv, StdioTypes
<1>6. stage[q] = "answered"
  BY <1>2, <1>3, <1>4, <1>5 DEF Stages
<1> QED
  BY <1>2, <1>6 DEF StdioInv, StageInv

LEMMA BeginsStep == ASSUME StdioInv, NEW p \in Prompts, Begins(p) PROVE StdioInv'
<1>1. /\ stage[p] = "waiting" /\ p = Min(Waiting) /\ Subscribed = {}
      /\ stage' = [stage EXCEPT ![p] = "forwarding"] /\ rx' = [rx EXCEPT ![p] = Len(sequenced)]
      /\ turn' = [turn EXCEPT ![p] = "queued"]
      /\ UNCHANGED <<protocol, stdin, emitted_on, upcoming, sequenced, told, lagged, hasty>>
  BY DEF Begins, input, history, Waiting
<1>2. \A q \in Prompts : stage[q] = "waiting" => p <= q
  <2>1. Waiting \subseteq Nat /\ Waiting # {}
    BY <1>1, PromptsAreNumbers DEF Waiting
  <2>2. \E x \in Waiting : \A y \in Waiting : x <= y
    BY <2>1, LeastNatural
  <2>3. \A y \in Waiting : Min(Waiting) <= y
    BY <2>2 DEF Min
  <2> QED
    BY <1>1, <2>3 DEF Waiting
<1>3. /\ stage' \in [Prompts -> Stages] /\ stage'[p] = "forwarding"
      /\ turn' \in [Prompts -> {"none", "queued", "running", "completed", "error"}]
      /\ turn'[p] = "queued" /\ rx' \in [Prompts -> Nat] /\ rx'[p] = Len(sequenced)
      /\ Len(sequenced) \in Nat
      /\ \A q \in Prompts : q # p => stage'[q] = stage[q] /\ turn'[q] = turn[q] /\ rx'[q] = rx[q]
  BY <1>1 DEF StdioInv, StdioTypes, Stages
<1>4. StdioTypes'
  BY <1>1, <1>3 DEF StdioInv, StdioTypes
<1>5. \A q \in Prompts : q \in Subscribed' <=> q = p
  BY <1>1, <1>3 DEF Subscribed
<1>6. Subscribed' = {p} /\ Log' = Log
  BY <1>1, <1>5 DEF Subscribed, Log
<1>7. turn[p] = "none" /\ \A q \in Prompts : turn[q] # "none" => q < p
  BY <1>1 DEF StdioInv, StageInv
<1>8. \A q \in Prompts : stage[q] \in {"read", "waiting"} /\ q # p => p < q
  <2>1. p \in Nat /\ \A q \in Prompts : q \in Nat
    BY PromptsAreNumbers
  <2> QED
    BY <1>1, <1>2, <2>1 DEF StdioInv, StageInv
<1>9. StageInv'
  <2>1. \A q \in Prompts :
          /\ stage'[q] \in {"unsent", "read", "waiting", "refused"} => turn'[q] = "none"
          /\ stage'[q] \in {"draining", "answering", "answered"} => TurnIsOver(q)'
    BY <1>3 DEF StdioInv, StageInv, TurnIsOver
  <2>2. \A q, r \in Prompts :
          /\ stage'[q] # "unsent" /\ stage'[r] = "unsent" => q < r
          /\ stage'[q] = "waiting" /\ stage'[r] = "read" => q < r
    BY <1>1, <1>3 DEF StdioInv, StageInv
  <2>3. \A q, r \in Prompts : turn'[q] # "none" /\ stage'[r] \in {"read", "waiting"} => q < r
    BY <1>3, <1>8 DEF StdioInv, StageInv
  <2>4. \A q \in Prompts : turn'[q] # "none" /\ q # p => q < p
    BY <1>3, <1>7
  <2> QED
    BY <1>6, <2>1, <2>2, <2>3, <2>4 DEF StageInv
<1>10. StdinInv'
  BY <1>1, <1>3, StdinKept DEF StdioInv, StdioTypes
<1>11. LogInv'
  BY <1>1, <1>3, <1>6, <1>7, LogKept DEF StdioInv, TurnIsOver
<1>12. \A a \in DOMAIN told : told[a].of \in Prompts
  BY ToldTyped DEF StdioInv
<1>13. ToldInv'
  <2>1. \A q \in Prompts : rx'[q] <= Len(sequenced)
    BY <1>3 DEF StdioInv, ToldInv
  <2>2. \A i \in DOMAIN sequenced : i <= Len(sequenced)
    BY LogFacts DEF StdioInv
  <2>3. \A a \in DOMAIN told : IF told[a].what = "event" THEN \E i \in DOMAIN sequenced : told[a] = sequenced[i]
                               ELSE stage'[told[a].of] = "answered"
    BY <1>1, <1>3, <1>12 DEF StdioInv, ToldInv
  <2> QED
    BY <1>1, <1>3, <1>6, <2>1, <2>2, <2>3 DEF StdioInv, ToldInv
<1>14. CleanInv'
  <2> SUFFICES ASSUME NEW r \in Prompts, Clean(r)', NEW i \in DOMAIN Log
               PROVE  /\ i > rx'[r] /\ UnderWay(r)' => Log[i].of = r
                      /\ Log[i].of = r /\ WasServed(r)' => i <= rx'[r]
                      /\ Log[i].of = r /\ i <= rx'[r] /\ r \notin lagged /\ (UnderWay(r)' \/ WasServed(r)')
                            => \E a \in DOMAIN told : told[a] = Log[i]
    BY <1>1, <1>6 DEF CleanInv
  <2>1. Clean(r)
    BY <1>1, <1>3, CleanStays
  <2>2. /\ Log[i].of \in Prompts /\ turn[Log[i].of] # "none" /\ i \in Nat
    BY LogFacts DEF StdioInv, LogInv
  <2>3. CASE r = p
    <3>1. Log[i].of # p /\ Log[i].of < p
      BY <1>7, <2>2
    <3>2. Log[i].of \notin Subscribed
      BY <1>1
    <3>3. stage[Log[i].of] = "answered" /\ Clean(Log[i].of)
      BY <2>1, <2>2, <2>3, <3>1, <3>2, EarlierAreServed
    <3>4. i <= rx[Log[i].of] /\ rx[Log[i].of] <= Len(sequenced) /\ rx[Log[i].of] \in Nat
      BY <2>2, <3>3 DEF StdioInv, StdioTypes, CleanInv, ToldInv, WasServed
    <3>5. ~(i > rx'[r])
      BY <1>3, <2>2, <2>3, <3>4
    <3> QED
      BY <1>3, <2>3, <3>1, <3>5
  <2>4. CASE r # p
    BY <1>3, <2>1, <2>4 DEF StdioInv, CleanInv, UnderWay, WasServed
  <2> QED
    BY <2>3, <2>4
<1>15. CompletedInv'
  BY <1>1, <1>3, <1>7, CompletedKept DEF StdioInv
<1> QED
  BY <1>4, <1>9, <1>10, <1>11, <1>13, <1>14, <1>15 DEF StdioInv

(* An event of the turn that runs comes to the end of the log: no prompt but  *)
(* its own can be the clean one that is served.                               *)
LEMMA LogGrows ==
    ASSUME StdioTypes, NEW e \in Event, upcoming' = Append(upcoming, e), sequenced' = sequenced
    PROVE  /\ upcoming' \in Seq(Event) /\ Len(Log) + 1 \in DOMAIN Log'
           /\ DOMAIN Log' = 1..(Len(Log) + 1) /\ Log'[Len(Log) + 1] = e
           /\ \A i \in DOMAIN Log : i \in DOMAIN Log' /\ Log'[i] = Log[i] /\ i < Len(Log) + 1
           /\ \A i \in DOMAIN Log' : i = Len(Log) + 1 \/ i \in DOMAIN Log
<1>1. sequenced \in Seq(Event) /\ upcoming \in Seq(Event)
  BY DEF StdioTypes
<1>2. /\ upcoming' \in Seq(Event) /\ Len(upcoming') = Len(upcoming) + 1
      /\ upcoming'[Len(upcoming) + 1] = e
      /\ \A i \in 1..Len(upcoming) : upcoming'[i] = upcoming[i]
  BY <1>1
<1> DEFINE k == Len(sequenced)
           n == Len(upcoming)
<1>3. /\ Log' \in Seq(Event) /\ Len(Log') = k + Len(upcoming')
      /\ \A i \in 1..(k + Len(upcoming')) :
            Log'[i] = IF i <= k THEN sequenced[i] ELSE upcoming'[i - k]
  BY <1>1, <1>2, ConcatProperties DEF Log
<1>4. /\ Log \in Seq(Event) /\ Len(Log) = k + n
      /\ \A i \in 1..(k + n) : Log[i] = IF i <= k THEN sequenced[i] ELSE upcoming[i - k]
  BY <1>1, ConcatProperties DEF Log
<1>5. k \in Nat /\ n \in Nat /\ DOMAIN Log = 1..(k + n) /\ Len(upcoming') = n + 1
      /\ DOMAIN Log' = 1..(k + (n + 1))
  BY <1>1, <1>2, <1>3, <1>4
<1> HIDE DEF k, n
<1>6. /\ k + (n + 1) = (k + n) + 1 /\ (k + n) + 1 \in 1..((k + n) + 1)
      /\ ~((k + n) + 1 <= k) /\ (k + n) + 1 - k = n + 1
      /\ \A i \in 1..(k + n) : i \in 1..((k + n) + 1) /\ i < (k + n) + 1
      /\ \A i \in 1..((k + n) + 1) : i = (k + n) + 1 \/ i \in 1..(k + n)
  BY <1>5
<1>7. Log'[(k + n) + 1] = e
  BY <1>2, <1>3, <1>5, <1>6 DEF n
<1>8. ASSUME NEW i \in 1..(k + n) PROVE Log'[i] = Log[i]
  <2>1. Log'[i] = IF i <= k THEN sequenced[i] ELSE upcoming'[i - k]
    BY <1>3, <1>5, <1>6
  <2>2. CASE i <= k
    BY <1>4, <2>1, <2>2
  <2>3. CASE ~(i <= k)
    <3>1. i - k \in 1..n
      BY <1>5, <2>3
    <3> QED
      BY <1>2, <1>4, <2>1, <2>3, <3>1 DEF n
  <2> QED
    BY <2>2, <2>3
<1> QED
  BY <1>2, <1>4, <1>5, <1>6, <1>7, <1>8

LEMMA EmitsKeeps ==
    ASSUME StdioInv, NEW p \in Prompts, turn[p] = "running", NEW n \in Nat,
           upcoming' = Append(upcoming, Ev(p, n)),
           UNCHANGED <<protocol, stdin, stage, rx, sequenced, told, lagged, hasty>>
    PROVE  ToldInv' /\ CleanInv' /\ StdinInv' /\ Subscribed' = Subscribed
<1>0. Ev(p, n) \in Event
  BY DEF Ev, Event
<1> DEFINE m == Len(Log) + 1
<1>1. /\ m \in DOMAIN Log' /\ Log'[m] = Ev(p, n)
      /\ \A i \in DOMAIN Log : i \in DOMAIN Log' /\ Log'[i] = Log[i] /\ i < m
      /\ \A i \in DOMAIN Log' : i = m \/ i \in DOMAIN Log
  BY <1>0, LogGrows DEF StdioInv
<1>2. m > Len(sequenced) /\ Len(sequenced) \in Nat /\ m \in Nat
  BY LogFacts DEF StdioInv
<1> HIDE DEF m
<1>3. Subscribed' = Subscribed
  BY DEF Subscribed
<1>4. ToldInv'
  BY <1>3, ToldKept DEF StdioInv
<1>5. StdinInv'
  BY StdinKept DEF StdioInv, StdioTypes
<1>6. ~TurnIsOver(p) /\ turn[p] # "none"
  BY DEF TurnIsOver
<1>7. CleanInv'
  <2> SUFFICES ASSUME NEW r \in Prompts, Clean(r), NEW i \in DOMAIN Log'
               PROVE  /\ i > rx[r] /\ UnderWay(r) => Log'[i].of = r
                      /\ Log'[i].of = r /\ WasServed(r) => i <= rx[r]
                      /\ Log'[i].of = r /\ i <= rx[r] /\ r \notin lagged /\ (UnderWay(r) \/ WasServed(r))
                            => \E a \in DOMAIN told : told[a] = Log'[i]
    BY DEF CleanInv, Clean, UnderWay, WasServed
  <2>1. CASE i \in DOMAIN Log
    BY <1>1, <2>1 DEF StdioInv, CleanInv
  <2>2. CASE i = m
    <3>1. Log'[i].of = p
      BY <1>1, <2>2 DEF Ev
    <3>2. ~(i <= rx[r])
      <4>1. rx[r] \in Nat /\ rx[r] <= Len(sequenced)
        BY DEF StdioInv, StdioTypes, ToldInv
      <4> QED
        BY <1>2, <2>2, <4>1
    <3>3. WasServed(r) => r # p
      BY <1>6 DEF WasServed, StdioInv, StageInv
    <3>4. ASSUME UnderWay(r), r # p PROVE FALSE
      <4>1. r \in Subscribed
        BY <3>4 DEF UnderWay, Subscribed
      <4>2. p < r /\ p \notin Subscribed
        BY <1>6, <3>4, <4>1 DEF StdioInv, StageInv
      <4> QED
        BY <1>6, <4>2, EarlierAreServed
    <3> QED
      BY <3>1, <3>2, <3>3, <3>4
  <2> QED
    BY <1>1, <2>1, <2>2
<1> QED
  BY <1>3, <1>4, <1>5, <1>7

LEMMA WorksStep == ASSUME StdioInv, NEW p \in Prompts, TurnWorks(p) PROVE StdioInv'
<1> DEFINE n == emitted_on[p] + 1
           m == Len(Log) + 1
<1>1. /\ turn[p] = "running" /\ emitted_on \in [Prompts -> Nat] /\ n \in Nat /\ n # 0
      /\ emitted_on' = [emitted_on EXCEPT ![p] = n]
      /\ UNCHANGED <<protocol, stdin, stage, rx, turn, sequenced, told, lagged, hasty>>
  BY DEF TurnWorks, input, history, StdioInv, StdioTypes
<1>2. /\ emitted_on' \in [Prompts -> Nat] /\ emitted_on'[p] = n
      /\ \A q \in Prompts : q # p => emitted_on'[q] = emitted_on[q]
  BY <1>1
<1>3. upcoming' = Append(upcoming, Ev(p, n))
  BY <1>2 DEF TurnWorks
<1>4. Ev(p, n) \in Event /\ Ev(p, n).of = p /\ Ev(p, n).n = n
  BY <1>1 DEF Ev, Event
<1>5. ToldInv' /\ CleanInv' /\ StdinInv' /\ Subscribed' = Subscribed
  BY <1>1, <1>3, EmitsKeeps
<1>6. /\ upcoming' \in Seq(Event) /\ m \in DOMAIN Log' /\ Log'[m] = Ev(p, n)
      /\ \A i \in DOMAIN Log : i \in DOMAIN Log' /\ Log'[i] = Log[i] /\ i < m
      /\ \A i \in DOMAIN Log' : i = m \/ i \in DOMAIN Log
  BY <1>1, <1>3, <1>4, LogGrows DEF StdioInv
<1>7. m \in Nat /\ \A i \in DOMAIN Log : Log[i].of \in Prompts /\ Log[i].n \in Nat /\ i \in Nat
  BY LogFacts DEF StdioInv
<1>8. \A x \in 0..n : x = n \/ x \in 0..emitted_on[p]
  BY <1>1
<1>8a. \A x \in 0..emitted_on[p] : x \in 0..n /\ x < n
  BY <1>1
<1> HIDE DEF m, n
<1>9. StdioTypes'
  BY <1>1, <1>2, <1>6 DEF StdioInv, StdioTypes
<1>10. StageInv'
  BY <1>1, <1>5 DEF StdioInv, StageInv, TurnIsOver
<1>11. LogInv'
  <2>1. ASSUME NEW i \in DOMAIN Log'
        PROVE  /\ turn[Log'[i].of] \notin {"none", "queued"} /\ Log'[i].n \in 0..emitted_on'[Log'[i].of]
               /\ Log'[i].n = TurnEnd => TurnIsOver(Log'[i].of)
    <3>1. CASE i = m
      BY <1>1, <1>2, <1>4, <1>6, <3>1 DEF TurnEnd
    <3>2. CASE i \in DOMAIN Log
      <4>1. /\ Log'[i] = Log[i] /\ Log[i].of \in Prompts
            /\ turn[Log[i].of] \notin {"none", "queued"} /\ Log[i].n \in 0..emitted_on[Log[i].of]
            /\ Log[i].n = TurnEnd => TurnIsOver(Log[i].of)
        BY <1>6, <1>7, <3>2 DEF StdioInv, LogInv
      <4> QED
        BY <1>2, <1>8a, <4>1
    <3> QED
      BY <1>6, <3>1, <3>2
  <2>2. ASSUME NEW i \in DOMAIN Log', NEW j \in DOMAIN Log', i < j, Log'[i].of = Log'[j].of
        PROVE  Log'[i].n # TurnEnd /\ (Log'[j].n = TurnEnd \/ Log'[i].n < Log'[j].n)
    <3>1. i \in DOMAIN Log
      <4>1. j <= m /\ i \in Nat /\ j \in Nat
        BY <1>6, <1>7, <2>2
      <4> QED
        BY <1>6, <1>7, <2>2, <4>1
    <3>2. CASE j \in DOMAIN Log
      BY <1>6, <2>2, <3>1, <3>2 DEF StdioInv, LogInv
    <3>3. CASE j = m
      <4>1. Log[i].of = p /\ Log'[i] = Log[i] /\ Log'[j].n = n
        BY <1>4, <1>6, <2>2, <3>1, <3>3
      <4>2. Log[i].n \in 0..emitted_on[p] /\ Log[i].n # TurnEnd
        BY <1>1, <3>1, <4>1 DEF StdioInv, LogInv, TurnIsOver
      <4> QED
        BY <1>8a, <4>1, <4>2
    <3> QED
      BY <1>6, <3>2, <3>3
  <2>3. ASSUME NEW q \in Prompts, NEW x \in 0..emitted_on'[q], x # TurnEnd \/ turn[q] = "completed"
        PROVE  \E i \in DOMAIN Log' : Log'[i] = Ev(q, x)
    <3>1. CASE q = p /\ x = n
      BY <1>6, <3>1
    <3>2. CASE x \in 0..emitted_on[q]
      <4>1. PICK i \in DOMAIN Log : Log[i] = Ev(q, x)
        BY <2>3, <3>2 DEF StdioInv, LogInv
      <4> QED
        BY <1>6, <4>1
    <3> QED
      BY <1>2, <1>8, <3>1, <3>2
  <2>4. turn' = turn
    BY <1>1
  <2> QED
    BY <2>1, <2>2, <2>3, <2>4 DEF LogInv, TurnIsOver
<1>12. CompletedInv'
  BY <1>1, <1>2, CompletedKept DEF StdioInv
<1> QED
  BY <1>5, <1>9, <1>10, <1>11, <1>12 DEF StdioInv

LEMMA EndsTurnStep == ASSUME StdioInv, NEW p \in Prompts, TurnEnds(p) PROVE StdioInv'
<1> DEFINE m == Len(Log) + 1
<1>1. /\ turn[p] = "running" /\ upcoming' = Append(upcoming, Ev(p, 0))
      /\ turn' \in {[turn EXCEPT ![p] = how] : how \in {"completed", "error"}}
      /\ UNCHANGED <<protocol, stdin, stage, rx, emitted_on, sequenced, told, lagged, hasty>>
  BY DEF TurnEnds, input, history, TurnEnd
<1>2. /\ turn' \in [Prompts -> {"none", "queued", "running", "completed", "error"}]
      /\ turn'[p] \in {"completed", "error"} /\ \A q \in Prompts : q # p => turn'[q] = turn[q]
  BY <1>1 DEF StdioInv, StdioTypes
<1>4. Ev(p, 0) \in Event /\ Ev(p, 0).of = p /\ Ev(p, 0).n = 0
  BY DEF Ev, Event
<1>5. ToldInv' /\ CleanInv' /\ StdinInv' /\ Subscribed' = Subscribed
  BY <1>1, EmitsKeeps
<1>6. /\ upcoming' \in Seq(Event) /\ m \in DOMAIN Log' /\ Log'[m] = Ev(p, 0)
      /\ \A i \in DOMAIN Log : i \in DOMAIN Log' /\ Log'[i] = Log[i] /\ i < m
      /\ \A i \in DOMAIN Log' : i = m \/ i \in DOMAIN Log
  BY <1>1, <1>4, LogGrows DEF StdioInv
<1>7. m \in Nat /\ \A i \in DOMAIN Log : Log[i].of \in Prompts /\ Log[i].n \in Nat /\ i \in Nat
  BY LogFacts DEF StdioInv
<1> HIDE DEF m
<1>8. 0 \in 0..emitted_on[p]
  BY DEF StdioInv, StdioTypes
<1>9. StdioTypes'
  BY <1>1, <1>2, <1>6 DEF StdioInv, StdioTypes
<1>10. StageInv'
  BY <1>1, <1>2, <1>5 DEF StdioInv, StageInv, TurnIsOver
<1>11. LogInv'
  <2>1. ASSUME NEW i \in DOMAIN Log'
        PROVE  /\ turn'[Log'[i].of] \notin {"none", "queued"} /\ Log'[i].n \in 0..emitted_on[Log'[i].of]
               /\ Log'[i].n = TurnEnd => turn'[Log'[i].of] \in {"completed", "error"}
    <3>1. CASE i = m
      BY <1>2, <1>4, <1>6, <1>8, <3>1
    <3>2. CASE i \in DOMAIN Log
      BY <1>2, <1>6, <1>7, <3>2 DEF StdioInv, LogInv, TurnIsOver
    <3> QED
      BY <1>6, <3>1, <3>2
  <2>2. ASSUME NEW i \in DOMAIN Log', NEW j \in DOMAIN Log', i < j, Log'[i].of = Log'[j].of
        PROVE  Log'[i].n # TurnEnd /\ (Log'[j].n = TurnEnd \/ Log'[i].n < Log'[j].n)
    <3>1. i \in DOMAIN Log
      <4>1. j <= m /\ i \in Nat /\ j \in Nat
        BY <1>6, <1>7, <2>2
      <4> QED
        BY <1>6, <1>7, <2>2, <4>1
    <3>2. CASE j \in DOMAIN Log
      BY <1>6, <2>2, <3>1, <3>2 DEF StdioInv, LogInv
    <3>3. CASE j = m
      <4>1. Log[i].of = p /\ Log'[i] = Log[i] /\ Log'[j].n = TurnEnd
        BY <1>4, <1>6, <2>2, <3>1, <3>3 DEF TurnEnd
      <4>2. Log[i].n # TurnEnd
        BY <1>1, <3>1, <4>1 DEF StdioInv, LogInv, TurnIsOver
      <4> QED
        BY <4>1, <4>2
    <3> QED
      BY <1>6, <3>2, <3>3
  <2>3. ASSUME NEW q \in Prompts, NEW x \in 0..emitted_on[q], x # TurnEnd \/ turn'[q] = "completed"
        PROVE  \E i \in DOMAIN Log' : Log'[i] = Ev(q, x)
    <3>1. CASE q = p /\ x = TurnEnd
      BY <1>6, <3>1 DEF TurnEnd
    <3>2. CASE ~(q = p /\ x = TurnEnd)
      <4>1. PICK i \in DOMAIN Log : Log[i] = Ev(q, x)
        BY <1>2, <2>3, <3>2 DEF StdioInv, LogInv
      <4> QED
        BY <1>6, <4>1
    <3> QED
      BY <3>1, <3>2
  <2>4. emitted_on' = emitted_on
    BY <1>1
  <2> QED
    BY <2>1, <2>2, <2>3, <2>4 DEF LogInv, TurnIsOver
<1>12. CompletedInv'
  BY <1>1, <1>2, CompletedKept DEF StdioInv
<1> QED
  BY <1>5, <1>9, <1>10, <1>11, <1>12 DEF StdioInv

(* An event that has been told has been sent on. *)
LEMMA ToldWasSent ==
    ASSUME StdioTypes, LogInv, ToldInv, NEW a \in DOMAIN told, NEW i \in DOMAIN Log, told[a] = Log[i]
    PROVE  i \in DOMAIN sequenced /\ told[a] = sequenced[i]
<1>1. told[a].what = "event"
  BY LogFacts
<1>2. PICK j \in DOMAIN sequenced : told[a] = sequenced[j]
  BY <1>1 DEF ToldInv
<1>3. j \in DOMAIN Log /\ Log[j] = Log[i]
  BY <1>2, LogFacts
<1>4. j = i
  BY <1>3, LogDistinct
<1> QED
  BY <1>2, <1>4

LEMMA SentOn ==
    ASSUME StdioTypes, upcoming # <<>>, upcoming' = Tail(upcoming),
           sequenced' = Append(sequenced, Head(upcoming))
    PROVE  /\ Log' = Log /\ sequenced' \in Seq(Event) /\ upcoming' \in Seq(Event)
           /\ Len(sequenced') = Len(sequenced) + 1
           /\ \A i \in DOMAIN sequenced : i \in DOMAIN sequenced' /\ sequenced'[i] = sequenced[i]
           /\ \A i \in DOMAIN sequenced' : i \in DOMAIN Log' /\ Log'[i] = sequenced'[i]
<1> DEFINE e == Head(upcoming)
           k == Len(sequenced)
           n == Len(upcoming)
<1>1. sequenced \in Seq(Event) /\ upcoming \in Seq(Event)
  BY DEF StdioTypes
<1>2. /\ e \in Event /\ upcoming' \in Seq(Event) /\ Len(upcoming') = n - 1
      /\ \A i \in 1..Len(upcoming') : upcoming'[i] = upcoming[i + 1]
  BY <1>1, HeadTailProperties
<1>3. n \in Nat \ {0} /\ k \in Nat /\ e = upcoming[1] /\ DOMAIN sequenced = 1..k
  BY <1>1, EmptySeq
<1>4. /\ sequenced' \in Seq(Event) /\ Len(sequenced') = k + 1 /\ sequenced'[k + 1] = e
      /\ \A i \in 1..k : sequenced'[i] = sequenced[i]
  BY <1>1, <1>2
<1>5. /\ Log' \in Seq(Event) /\ Len(Log') = (k + 1) + (n - 1)
      /\ \A i \in 1..((k + 1) + (n - 1)) :
            Log'[i] = IF i <= k + 1 THEN sequenced'[i] ELSE upcoming'[i - (k + 1)]
  BY <1>2, <1>4, ConcatProperties DEF Log
<1>6. /\ Log \in Seq(Event) /\ Len(Log) = k + n
      /\ \A i \in 1..(k + n) : Log[i] = IF i <= k THEN sequenced[i] ELSE upcoming[i - k]
  BY <1>1, ConcatProperties DEF Log
<1>7. DOMAIN sequenced' = 1..(k + 1)
  BY <1>4
<1> HIDE DEF e, k, n
<1>8. (k + 1) + (n - 1) = k + n
  BY <1>3
<1>9. ASSUME NEW i \in 1..(k + n) PROVE Log'[i] = Log[i]
  <2>1. /\ Log'[i] = IF i <= k + 1 THEN sequenced'[i] ELSE upcoming'[i - (k + 1)]
        /\ Log[i] = IF i <= k THEN sequenced[i] ELSE upcoming[i - k]
    BY <1>5, <1>6, <1>8
  <2>2. CASE i <= k
    <3>1. i \in 1..k /\ i <= k + 1
      BY <1>3, <2>2
    <3> QED
      BY <1>4, <2>1, <2>2, <3>1
  <2>3. CASE i = k + 1
    <3>1. ~(i <= k) /\ i - k = 1 /\ i <= k + 1
      BY <1>3, <2>3
    <3> QED
      BY <1>3, <1>4, <2>1, <2>3, <3>1
  <2>4. CASE i > k + 1
    <3>1. /\ ~(i <= k) /\ ~(i <= k + 1) /\ i - (k + 1) \in 1..(n - 1)
          /\ (i - (k + 1)) + 1 = i - k
      BY <1>3, <2>4
    <3> QED
      BY <1>2, <2>1, <3>1
  <2> QED
    BY <1>3, <2>2, <2>3, <2>4
<1>10. Log' = Log
  <2>1. Len(Log') = Len(Log)
    BY <1>5, <1>6, <1>8
  <2> QED
    BY <1>5, <1>6, <1>9, <2>1, SeqEqual
<1>11. \A i \in 1..k : i \in 1..(k + 1)
  BY <1>3
<1>12. \A i \in 1..(k + 1) : i \in 1..(k + n) /\ i <= k + 1
  BY <1>3
<1>13. \A i \in DOMAIN sequenced' : i \in DOMAIN Log' /\ Log'[i] = sequenced'[i]
  <2>1. DOMAIN Log' = 1..Len(Log')
    BY <1>5
  <2> QED
    BY <1>5, <1>7, <1>8, <1>12, <2>1
<1> QED
  BY <1>2, <1>3, <1>4, <1>7, <1>10, <1>11, <1>13 DEF k

LEMMA SequencerStep == ASSUME StdioInv, SequencerSends PROVE StdioInv'
<1>1. /\ upcoming # <<>> /\ upcoming' = Tail(upcoming) /\ sequenced' = Append(sequenced, Head(upcoming))
      /\ UNCHANGED <<protocol, stdin, stage, rx, turn, emitted_on, told, lagged, hasty>>
  BY DEF SequencerSends, input, history
<1>2. /\ Log' = Log /\ sequenced' \in Seq(Event) /\ upcoming' \in Seq(Event)
      /\ Len(sequenced') = Len(sequenced) + 1
      /\ \A i \in DOMAIN sequenced : i \in DOMAIN sequenced' /\ sequenced'[i] = sequenced[i]
      /\ \A i \in DOMAIN sequenced' : i \in DOMAIN Log' /\ Log'[i] = sequenced'[i]
  BY <1>1, SentOn DEF StdioInv
<1>3. Subscribed' = Subscribed
  BY <1>1 DEF Subscribed
<1>4. StdioTypes'
  BY <1>1, <1>2 DEF StdioInv, StdioTypes
<1>5. StageInv' /\ StdinInv'
  BY <1>1, <1>3 DEF StdioInv, StageInv, StdinInv, TurnIsOver, Serial
<1>6. LogInv'
  BY <1>1, <1>2, LogKept DEF StdioInv, TurnIsOver
<1>7. ToldInv'
  <2>1. \A i \in DOMAIN sequenced' : i \in DOMAIN Log /\ sequenced'[i] = Log[i]
    BY <1>2, <1>4, LogFacts
  <2>2. ASSUME NEW a \in DOMAIN told, NEW i \in DOMAIN sequenced', told[a] = sequenced'[i]
        PROVE  i \in DOMAIN sequenced /\ told[a] = sequenced[i]
    BY <2>1, <2>2, ToldWasSent DEF StdioInv
  <2>3. \A p \in Prompts : rx[p] <= Len(sequenced')
    <3>1. \A p \in Prompts : rx[p] \in Nat /\ rx[p] <= Len(sequenced)
      BY DEF StdioInv, StdioTypes, ToldInv
    <3>2. Len(sequenced) \in Nat
      BY LogFacts DEF StdioInv
    <3> QED
      BY <1>2, <3>1, <3>2
  <2>4. \A a \in DOMAIN told : IF told[a].what = "event" THEN \E i \in DOMAIN sequenced' : told[a] = sequenced'[i]
                               ELSE stage[told[a].of] = "answered"
    BY <1>2 DEF StdioInv, ToldInv
  <2> QED
    BY <1>1, <1>3, <2>2, <2>3, <2>4 DEF StdioInv, ToldInv
<1>8. CleanInv'
  BY <1>1, <1>2, CleanKept DEF StdioInv, UnderWay, WasServed
<1>9. CompletedInv'
  BY <1>1, CompletedKept DEF StdioInv
<1> QED
  BY <1>4, <1>5, <1>6, <1>7, <1>8, <1>9 DEF StdioInv

--------------------------------------------------------------------------------
(* What is told grows by one event or answer.                               *)
LEMMA ToldGrows ==
    ASSUME StdioTypes, NEW e \in Telling, told' = Append(told, e)
    PROVE  /\ told' \in Seq(Telling) /\ Len(told) + 1 \in DOMAIN told' /\ told'[Len(told) + 1] = e
           /\ \A a \in DOMAIN told : /\ a \in DOMAIN told' /\ told'[a] = told[a] /\ a < Len(told) + 1
                                     /\ a \in Nat
           /\ \A a \in DOMAIN told' : a = Len(told) + 1 \/ a \in DOMAIN told
           /\ Len(told) + 1 \in Nat
           /\ \A a \in DOMAIN told : \A k \in 1..(a - 1) : told'[k] = told[k]
           /\ \A a \in DOMAIN told' : \A b \in DOMAIN told' : a < b => a \in DOMAIN told
           /\ \A k \in 1..((Len(told) + 1) - 1) : k \in DOMAIN told
<1>1. told \in Seq(Telling) /\ DOMAIN told = 1..Len(told) /\ Len(told) \in Nat
  BY DEF StdioTypes
<1>2. /\ told' \in Seq(Telling) /\ DOMAIN told' = 1..(Len(told) + 1) /\ told'[Len(told) + 1] = e
      /\ \A a \in 1..Len(told) : told'[a] = told[a]
  BY <1>1
<1>3. /\ \A a \in 1..Len(told) : a \in 1..(Len(told) + 1) /\ a < Len(told) + 1 /\ a \in Nat
      /\ \A a \in 1..(Len(told) + 1) : a = Len(told) + 1 \/ a \in 1..Len(told)
      /\ \A a \in 1..Len(told) : \A k \in 1..(a - 1) : k \in 1..Len(told)
      /\ \A a \in 1..(Len(told) + 1) : \A b \in 1..(Len(told) + 1) : a < b => a \in 1..Len(told)
      /\ \A k \in 1..((Len(told) + 1) - 1) : k \in 1..Len(told)
      /\ Len(told) + 1 \in 1..(Len(told) + 1) /\ Len(told) + 1 \in Nat
  BY <1>1
<1> QED
  BY <1>1, <1>2, <1>3

LEMMA CompletedGrows ==
    ASSUME StdioTypes, CompletedInv, NEW e \in Telling, told' = Append(told, e),
           UNCHANGED <<turn, emitted_on, lagged, hasty>>,
           \A q \in Prompts : stage[q] = "abandoned" => stage'[q] = "abandoned",
           e.what = "completed" =>
              /\ turn[e.of] = "completed"
              /\ e.of \notin lagged /\ Clean(e.of)' =>
                    \A n \in 0..emitted_on[e.of] : \E a \in DOMAIN told : told[a] = Ev(e.of, n)
    PROVE  CompletedInv'
<1> DEFINE m == Len(told) + 1
<1>1. /\ m \in DOMAIN told' /\ told'[m] = e
      /\ \A a \in DOMAIN told : a \in DOMAIN told' /\ told'[a] = told[a]
      /\ \A a \in DOMAIN told' : a = m \/ a \in DOMAIN told
      /\ \A a \in DOMAIN told : \A k \in 1..(a - 1) : told'[k] = told[k]
  BY ToldGrows
<1>2. m - 1 = Len(told) /\ DOMAIN told = 1..Len(told)
  BY ToldTyped
<1>3. \A p \in Prompts : Clean(p)' => Clean(p)
  BY CleanStays
<1> HIDE DEF m
<1>4. ASSUME NEW a \in DOMAIN told', told'[a].what = "completed", NEW q, q = told'[a].of
      PROVE  /\ turn[q] = "completed"
             /\ q \notin lagged /\ Clean(q)' =>
                   \A n \in 0..emitted_on[q] : \E k \in 1..(a - 1) : told'[k] = Ev(q, n)
  <2>1. CASE a \in DOMAIN told
    <3>1. told[a] = told'[a] /\ q \in Prompts
      BY <1>1, <1>4, <2>1, ToldTyped
    <3>2. /\ turn[q] = "completed"
          /\ q \notin lagged /\ Clean(q) =>
                \A n \in 0..emitted_on[q] : \E k \in 1..(a - 1) : told[k] = Ev(q, n)
      BY <1>4, <2>1, <3>1 DEF CompletedInv
    <3> QED
      BY <1>1, <1>3, <2>1, <3>1, <3>2
  <2>2. CASE a = m
    <3>1. q = e.of /\ e.what = "completed"
      BY <1>1, <1>4, <2>2
    <3> QED
      BY <1>1, <1>2, <2>2, <3>1
  <2> QED
    BY <1>1, <2>1, <2>2
<1> QED
  BY <1>4 DEF CompletedInv, Clean

(* The prompt that is served tells the next event, and may see the end of its turn in it. *)
LEMMA DeliversStep ==
    ASSUME StdioInv, NEW p \in Prompts, UnderWay(p), HasEvent(p),
           told' = Append(told, Received(p)), rx' = [rx EXCEPT ![p] = @ + 1],
           UNCHANGED <<protocol, stdin, turn, emitted_on, upcoming, sequenced, lagged, hasty>>,
           \/ stage' = stage
           \/ stage[p] = "draining" /\ Received(p).n = TurnEnd /\ stage' = [stage EXCEPT ![p] = "answering"]
    PROVE  StdioInv'
<1> DEFINE r == rx[p] + 1
           m == Len(told) + 1
<1>1. StdioTypes /\ StageInv /\ StdinInv /\ LogInv /\ ToldInv /\ CleanInv /\ CompletedInv
  BY DEF StdioInv
<1>2. /\ rx[p] \in Nat /\ r \in DOMAIN sequenced /\ Len(sequenced) \in Nat /\ r <= Len(sequenced)
      /\ r \in Nat /\ rx[p] < r
  <2>1. rx[p] \in Nat /\ Len(sequenced) \in Nat /\ DOMAIN sequenced = 1..Len(sequenced)
    BY <1>1, LogFacts DEF StdioTypes
  <2> QED
    BY <2>1 DEF HasEvent
<1>3. /\ r \in DOMAIN Log /\ Log[r] = sequenced[r] /\ Received(p) = sequenced[r]
      /\ sequenced[r].what = "event" /\ sequenced[r] \in Event
  <2>1. sequenced \in Seq(Event)
    BY <1>1 DEF StdioTypes
  <2> QED
    BY <1>1, <1>2, <2>1, LogFacts DEF Received
<1>4. sequenced[r] \in Telling
  BY <1>3 DEF Event, Telling
<1>5. /\ rx' \in [Prompts -> Nat] /\ rx'[p] = r /\ \A q \in Prompts : q # p => rx'[q] = rx[q]
  BY <1>1, <1>2 DEF StdioTypes
<1>6. /\ told' \in Seq(Telling) /\ m \in DOMAIN told' /\ told'[m] = sequenced[r] /\ m \in Nat
      /\ \A a \in DOMAIN told : a \in DOMAIN told' /\ told'[a] = told[a] /\ a < m /\ a \in Nat
      /\ \A a \in DOMAIN told' : a = m \/ a \in DOMAIN told
      /\ \A a \in DOMAIN told' : \A b \in DOMAIN told' : a < b => a \in DOMAIN told
  BY <1>1, <1>3, <1>4, ToldGrows
<1>7. /\ stage' \in [Prompts -> Stages] /\ \A q \in Prompts : q # p => stage'[q] = stage[q]
      /\ \/ stage'[p] = stage[p]
         \/ stage[p] = "draining" /\ sequenced[r].n = TurnEnd /\ stage'[p] = "answering"
  BY <1>1, <1>3 DEF StdioTypes, Stages
<1> HIDE DEF r, m
<1>8. stage[p] \in {"forwarding", "draining"} /\ p \in Subscribed
  BY DEF UnderWay, Subscribed
<1>9. \A q \in Prompts : q \in Subscribed' <=> q \in Subscribed
  BY <1>7, <1>8 DEF Subscribed
<1>10. Subscribed' = Subscribed /\ Log' = Log
  BY <1>9 DEF Subscribed, Log
<1>11. StdioTypes'
  BY <1>1, <1>5, <1>6, <1>7 DEF StdioTypes
<1>12. StageInv'
  <2>1. \A q \in Prompts :
          /\ stage'[q] \in {"unsent", "read", "waiting", "refused"} => turn'[q] = "none"
          /\ stage'[q] \in {"draining", "answering", "answered"} => TurnIsOver(q)'
    BY <1>1, <1>7, <1>8 DEF StageInv, TurnIsOver
  <2>2. \A q, s \in Prompts :
          /\ stage'[q] # "unsent" /\ stage'[s] = "unsent" => q < s
          /\ turn'[q] # "none" /\ stage'[s] \in {"read", "waiting"} => q < s
          /\ stage'[q] = "waiting" /\ stage'[s] = "read" => q < s
    BY <1>1, <1>7, <1>8 DEF StageInv
  <2> QED
    BY <1>1, <1>10, <2>1, <2>2 DEF StageInv
<1>13. StdinInv'
  <2>1. \A q \in Prompts : stage'[q] = "read" <=> stage[q] = "read"
    BY <1>7, <1>8
  <2> QED
    BY <1>1, <2>1, StdinKept DEF StdioTypes
<1>14. LogInv'
  BY <1>1, <1>10, LogKept DEF TurnIsOver
<1>15. ASSUME NEW i \in DOMAIN sequenced, sequenced[i] = sequenced[r] PROVE i = r
  <2>1. i \in DOMAIN Log /\ Log[i] = Log[r]
    BY <1>1, <1>3, <1>15, LogFacts
  <2> QED
    BY <1>1, <1>3, <2>1, LogDistinct
<1>16. ToldInv'
  <2>1. \A q \in Prompts : rx'[q] <= Len(sequenced)
    BY <1>1, <1>2, <1>5 DEF ToldInv
  <2>2. \A a \in DOMAIN told' : IF told'[a].what = "event" THEN \E i \in DOMAIN sequenced : told'[a] = sequenced[i]
                                ELSE a \in DOMAIN told /\ stage'[told'[a].of] = "answered"
    <3>1. \A a \in DOMAIN told : told[a].of \in Prompts
      BY <1>1, ToldTyped
    <3>2. \A q \in Prompts : stage[q] = "answered" => stage'[q] = "answered"
      BY <1>7, <1>8
    <3>3. ASSUME NEW a \in DOMAIN told
          PROVE  IF told'[a].what = "event" THEN \E i \in DOMAIN sequenced : told'[a] = sequenced[i]
                 ELSE a \in DOMAIN told /\ stage'[told'[a].of] = "answered"
      BY <1>1, <1>6, <3>1, <3>2 DEF ToldInv
    <3> QED
      BY <1>2, <1>3, <1>6, <3>3
  <2>3. \A a, b \in DOMAIN told' :
          told'[a].what # "event" /\ told'[b].what # "event" /\ told'[a].of = told'[b].of => a = b
    BY <1>1, <1>6, <2>2 DEF ToldInv
  <2>4. ASSUME NEW q \in Subscribed, NEW a \in DOMAIN told', NEW i \in DOMAIN sequenced,
               told'[a] = sequenced[i]
        PROVE  i <= rx'[q]
    <3>1. q = p
      BY <1>1, <1>8 DEF StageInv
    <3>2. CASE a = m
      BY <1>2, <1>5, <1>6, <1>15, <2>4, <3>1, <3>2
    <3>3. CASE a \in DOMAIN told
      <4>1. i <= rx[p] /\ i \in Nat
        BY <1>1, <1>6, <1>8, <2>4, <3>3, LogFacts DEF ToldInv
      <4> QED
        BY <1>2, <1>5, <3>1, <4>1
    <3> QED
      BY <1>6, <3>2, <3>3
  <2>5. ASSUME NEW a \in DOMAIN told', NEW b \in DOMAIN told', NEW i \in DOMAIN sequenced,
               NEW j \in DOMAIN sequenced, a < b, told'[a] = sequenced[i], told'[b] = sequenced[j]
        PROVE  i < j
    <3>1. a \in DOMAIN told /\ told[a] = sequenced[i]
      BY <1>6, <2>5
    <3>2. CASE b = m
      <4>1. j = r
        BY <1>6, <1>15, <2>5, <3>2
      <4>2. i <= rx[p] /\ i \in Nat
        BY <1>1, <1>8, <3>1, LogFacts DEF ToldInv
      <4> QED
        BY <1>2, <4>1, <4>2
    <3>3. CASE b \in DOMAIN told
      BY <1>1, <1>6, <2>5, <3>1, <3>3 DEF ToldInv
    <3> QED
      BY <1>6, <3>2, <3>3
  <2> QED
    BY <1>10, <2>1, <2>2, <2>3, <2>4, <2>5 DEF ToldInv
<1>17. CleanInv'
  <2> SUFFICES ASSUME NEW q \in Prompts, Clean(q)', NEW i \in DOMAIN Log
               PROVE  /\ i > rx'[q] /\ UnderWay(q)' => Log[i].of = q
                      /\ Log[i].of = q /\ WasServed(q)' => i <= rx'[q]
                      /\ Log[i].of = q /\ i <= rx'[q] /\ q \notin lagged /\ (UnderWay(q)' \/ WasServed(q)')
                            => \E a \in DOMAIN told' : told'[a] = Log[i]
    BY <1>10 DEF CleanInv
  <2>1. Clean(q)
    <3>1. \A s \in Prompts : stage[s] = "abandoned" => stage'[s] = "abandoned"
      BY <1>7, <1>8
    <3> QED
      BY <3>1, CleanStays
  <2>2. i \in Nat
    BY <1>1, LogFacts
  <2>3. CASE q # p
    <3>1. /\ UnderWay(q)' <=> UnderWay(q)
          /\ WasServed(q)' <=> WasServed(q)
          /\ rx'[q] = rx[q]
      BY <1>5, <1>7, <2>3 DEF UnderWay, WasServed
    <3>2. (\E a \in DOMAIN told : told[a] = Log[i]) => \E a \in DOMAIN told' : told'[a] = Log[i]
      BY <1>6
    <3> QED
      BY <1>1, <2>1, <3>1, <3>2 DEF CleanInv
  <2>4. CASE q = p
    <3>1. \A j \in DOMAIN Log : j > rx[p] => Log[j].of = p
      BY <1>1, <2>1, <2>4 DEF CleanInv
    <3>2. i > r => i > rx[p]
      BY <1>2, <2>2
    <3>3. ASSUME Log[i].of = p, WasServed(p)' PROVE i <= r
      <4>1. sequenced[r].n = TurnEnd
        BY <1>7, <1>8, <3>3 DEF WasServed
      <4>2. Log[r].of = p /\ Log[r].n = TurnEnd
        BY <1>2, <1>3, <3>1, <4>1
      <4>3. ~(r < i)
        BY <1>1, <1>3, <3>3, <4>2 DEF LogInv
      <4> QED
        BY <1>2, <2>2, <4>3
    <3>4. ASSUME Log[i].of = p, i <= r, p \notin lagged
          PROVE  \E a \in DOMAIN told' : told'[a] = Log[i]
      <4>1. CASE i = r
        BY <1>3, <1>6, <4>1
      <4>2. CASE i <= rx[p]
        <5>1. PICK a \in DOMAIN told : told[a] = Log[i]
          BY <1>1, <2>1, <2>4, <3>4, <4>2 DEF CleanInv
        <5> QED
          BY <1>6, <5>1
      <4>3. i = r \/ i <= rx[p]
        BY <1>2, <2>2, <3>4 DEF r
      <4> QED
        BY <4>1, <4>2, <4>3
    <3> QED
      BY <1>5, <2>4, <3>1, <3>2, <3>3, <3>4
  <2> QED
    BY <2>3, <2>4
<1>18. CompletedInv'
  <2>1. \A q \in Prompts : stage[q] = "abandoned" => stage'[q] = "abandoned"
    BY <1>7, <1>8
  <2>2. told' = Append(told, sequenced[r]) /\ sequenced[r].what # "completed"
    BY <1>3
  <2> QED
    BY <1>1, <1>4, <2>1, <2>2, CompletedGrows
<1> QED
  BY <1>11, <1>12, <1>13, <1>14, <1>16, <1>17, <1>18 DEF StdioInv

(* Its subscription has lost events, and goes on with the oldest that is left. *)
LEMMA SkipsStep ==
    ASSUME StdioInv, NEW p \in Prompts, UnderWay(p), Behind(p), SkipsToOldest(p),
           UNCHANGED <<protocol, stdin, stage, turn, emitted_on, upcoming, sequenced, told, hasty>>
    PROVE  StdioInv'
<1> DEFINE r == Len(sequenced) - LiveEvents
<1>1. StdioTypes /\ StageInv /\ StdinInv /\ LogInv /\ ToldInv /\ CleanInv /\ CompletedInv
  BY DEF StdioInv
<1>2. /\ rx[p] \in Nat /\ Len(sequenced) \in Nat /\ r \in Nat /\ rx[p] <= r /\ r <= Len(sequenced)
      /\ rx' = [rx EXCEPT ![p] = r] /\ lagged' = lagged \union {p}
  <2>1. rx[p] \in Nat /\ Len(sequenced) \in Nat
    BY <1>1, LogFacts DEF StdioTypes
  <2>2. Len(sequenced) - rx[p] > LiveEvents /\ LiveEvents \in Nat
    BY StdioAssumption DEF Behind
  <2> QED
    BY <2>1, <2>2 DEF SkipsToOldest
<1> HIDE DEF r
<1>3. rx' \in [Prompts -> Nat] /\ rx'[p] = r /\ \A q \in Prompts : q # p => rx'[q] = rx[q]
  BY <1>1, <1>2 DEF StdioTypes
<1>4. StdioTypes'
  BY <1>1, <1>3 DEF StdioTypes
<1>5. Subscribed' = Subscribed /\ Log' = Log
  BY DEF Subscribed, Log
<1>6. StageInv' /\ StdinInv'
  BY <1>1, <1>5 DEF StageInv, StdinInv, TurnIsOver, Serial
<1>7. LogInv'
  BY <1>1, <1>5, LogKept DEF TurnIsOver
<1>8. ToldInv'
  <2>1. \A q \in Prompts : rx'[q] <= Len(sequenced)
    BY <1>1, <1>2, <1>3 DEF ToldInv
  <2>2. ASSUME NEW q \in Subscribed, NEW a \in DOMAIN told, NEW i \in DOMAIN sequenced,
               told[a] = sequenced[i]
        PROVE  i <= rx'[q]
    <3>1. i <= rx[q] /\ i \in Nat /\ q \in Prompts
      BY <1>1, <2>2, LogFacts DEF ToldInv, Subscribed
    <3> QED
      BY <1>2, <1>3, <3>1
  <2> QED
    BY <1>1, <1>5, <2>1, <2>2 DEF ToldInv
<1>9. CleanInv'
  <2> SUFFICES ASSUME NEW q \in Prompts, Clean(q), NEW i \in DOMAIN Log
               PROVE  /\ i > rx'[q] /\ UnderWay(q) => Log[i].of = q
                      /\ Log[i].of = q /\ WasServed(q) => i <= rx'[q]
                      /\ Log[i].of = q /\ i <= rx'[q] /\ q \notin lagged' /\ (UnderWay(q) \/ WasServed(q))
                            => \E a \in DOMAIN told : told[a] = Log[i]
    BY <1>5 DEF CleanInv, Clean, UnderWay, WasServed
  <2>1. CASE q # p
    BY <1>1, <1>2, <1>3, <2>1 DEF CleanInv
  <2>2. CASE q = p
    <3>1. ~WasServed(p) /\ p \in lagged'
      BY <1>2 DEF UnderWay, WasServed
    <3>2. i > r => i > rx[p]
      BY <1>1, <1>2, LogFacts
    <3> QED
      BY <1>1, <1>3, <2>2, <3>1, <3>2 DEF CleanInv
  <2> QED
    BY <2>1, <2>2
<1>10. CompletedInv'
  BY <1>1, <1>2, CompletedKept
<1> QED
  BY <1>4, <1>6, <1>7, <1>8, <1>9, <1>10 DEF StdioInv

(* The grace is over.  Unless the prompt is marked hasty, nothing was left to tell. *)
LEMMA GraceStep == ASSUME StdioInv, NEW p \in Prompts, GraceExpires(p) PROVE StdioInv'
<1>1. /\ stage[p] = "draining" /\ stage' = [stage EXCEPT ![p] = "answering"]
      /\ hasty' = IF upcoming # <<>> \/ HasEvent(p) THEN hasty \union {p} ELSE hasty
      /\ UNCHANGED <<protocol, stdin, rx, turn, emitted_on, upcoming, sequenced, told, lagged>>
  BY DEF GraceExpires, input, turns
<1>2. StdioTypes /\ StageInv /\ StdinInv /\ LogInv /\ ToldInv /\ CleanInv /\ CompletedInv
  BY DEF StdioInv
<1>3. /\ stage' \in [Prompts -> Stages] /\ stage'[p] = "answering"
      /\ \A q \in Prompts : q # p => stage'[q] = stage[q]
  BY <1>1, <1>2 DEF StdioTypes, Stages
<1>4. \A q \in Prompts : q \in Subscribed' <=> q \in Subscribed
  BY <1>1, <1>3 DEF Subscribed
<1>5. Subscribed' = Subscribed /\ Log' = Log /\ hasty \subseteq hasty'
  BY <1>1, <1>4 DEF Subscribed, Log
<1>6. StdioTypes'
  BY <1>1, <1>2, <1>3 DEF StdioTypes
<1>7. StageInv'
  <2>1. \A q \in Prompts :
          /\ stage'[q] \in {"unsent", "read", "waiting", "refused"} => turn'[q] = "none"
          /\ stage'[q] \in {"draining", "answering", "answered"} => TurnIsOver(q)'
    BY <1>1, <1>2, <1>3 DEF StageInv, TurnIsOver
  <2>2. \A q, s \in Prompts :
          /\ stage'[q] # "unsent" /\ stage'[s] = "unsent" => q < s
          /\ turn'[q] # "none" /\ stage'[s] \in {"read", "waiting"} => q < s
          /\ stage'[q] = "waiting" /\ stage'[s] = "read" => q < s
    BY <1>1, <1>2, <1>3 DEF StageInv
  <2> QED
    BY <1>1, <1>2, <1>5, <2>1, <2>2 DEF StageInv
<1>8. StdinInv'
  BY <1>1, <1>2, <1>3, StdinKept DEF StdioTypes
<1>9. LogInv'
  BY <1>1, <1>2, <1>5, LogKept DEF TurnIsOver
<1>10. ToldInv'
  <2>1. \A q \in Prompts : stage[q] = "answered" => stage'[q] = "answered"
    BY <1>1, <1>3
  <2> QED
    BY <1>1, <1>2, <1>5, <2>1, ToldKept
<1>11. \A q \in Prompts : stage[q] = "abandoned" => stage'[q] = "abandoned"
  BY <1>1, <1>3
<1>12. CleanInv'
  <2> SUFFICES ASSUME NEW q \in Prompts, Clean(q)', NEW i \in DOMAIN Log
               PROVE  /\ i > rx[q] /\ UnderWay(q)' => Log[i].of = q
                      /\ Log[i].of = q /\ WasServed(q)' => i <= rx[q]
                      /\ Log[i].of = q /\ i <= rx[q] /\ q \notin lagged /\ (UnderWay(q)' \/ WasServed(q)')
                            => \E a \in DOMAIN told : told[a] = Log[i]
    BY <1>1, <1>5 DEF CleanInv
  <2>1. Clean(q)
    BY <1>5, <1>11, CleanStays
  <2>2. CASE q # p
    <3>1. /\ UnderWay(q)' <=> UnderWay(q)
          /\ WasServed(q)' <=> WasServed(q)
      BY <1>3, <2>2 DEF UnderWay, WasServed
    <3> QED
      BY <1>2, <2>1, <3>1 DEF CleanInv
  <2>3. CASE q = p
    <3>1. UnderWay(p) /\ ~UnderWay(p)'
      BY <1>1, <1>3 DEF UnderWay
    <3>2. p \notin hasty'
      BY <2>3, PromptsAreNumbers DEF Clean
    <3>3. upcoming = <<>> /\ ~HasEvent(p)
      BY <1>1, <3>2
    <3>4. i <= rx[p]
      <4>1. i \in 1..Len(Log) /\ Len(Log) = Len(sequenced) + Len(upcoming) /\ Len(sequenced) \in Nat
        BY <1>2, LogFacts
      <4>2. Len(upcoming) = 0 /\ rx[p] \in Nat
        BY <1>2, <3>3 DEF StdioTypes
      <4> QED
        BY <3>3, <4>1, <4>2 DEF HasEvent
    <3> QED
      BY <1>2, <2>1, <2>3, <3>1, <3>4 DEF CleanInv
  <2> QED
    BY <2>2, <2>3
<1>13. CompletedInv'
  BY <1>1, <1>2, <1>5, <1>11, CompletedKept
<1> QED
  BY <1>6, <1>7, <1>8, <1>9, <1>10, <1>12, <1>13 DEF StdioInv

LEMMA AnswersStep == ASSUME StdioInv, NEW p \in Prompts, Answers(p) PROVE StdioInv'
<1> DEFINE e == Reply(p, turn[p])
           m == Len(told) + 1
<1>1. /\ stage[p] = "answering" /\ stage' = [stage EXCEPT ![p] = "answered"] /\ told' = Append(told, e)
      /\ UNCHANGED <<protocol, stdin, rx, turn, emitted_on, upcoming, sequenced, lagged, hasty>>
  BY DEF Answers, input, turns, history
<1>2. StdioTypes /\ StageInv /\ StdinInv /\ LogInv /\ ToldInv /\ CleanInv /\ CompletedInv
  BY DEF StdioInv
<1>3. e \in Telling /\ e.of = p /\ e.what = turn[p] /\ e.what # "event"
  <2>1. turn[p] \in {"completed", "error"}
    BY <1>1, <1>2 DEF StageInv, TurnIsOver
  <2> QED
    BY <2>1 DEF Reply, Telling
<1>4. /\ stage' \in [Prompts -> Stages] /\ stage'[p] = "answered"
      /\ \A q \in Prompts : q # p => stage'[q] = stage[q]
  BY <1>1, <1>2 DEF StdioTypes, Stages
<1>5. /\ told' \in Seq(Telling) /\ m \in DOMAIN told' /\ told'[m] = e
      /\ \A a \in DOMAIN told : a \in DOMAIN told' /\ told'[a] = told[a]
      /\ \A a \in DOMAIN told' : a = m \/ a \in DOMAIN told
  BY <1>1, <1>2, <1>3, ToldGrows
<1> HIDE DEF e, m
<1>6. \A q \in Prompts : q \in Subscribed' => q \in Subscribed
  BY <1>4 DEF Subscribed
<1>7. Subscribed' \subseteq Subscribed /\ Log' = Log
  BY <1>1, <1>6 DEF Subscribed, Log
<1>8. StdioTypes'
  BY <1>1, <1>2, <1>4, <1>5 DEF StdioTypes
<1>9. StageInv'
  <2>1. \A q \in Prompts :
          /\ stage'[q] \in {"unsent", "read", "waiting", "refused"} => turn'[q] = "none"
          /\ stage'[q] \in {"draining", "answering", "answered"} => TurnIsOver(q)'
    BY <1>1, <1>2, <1>4 DEF StageInv, TurnIsOver
  <2>2. \A q, s \in Prompts :
          /\ stage'[q] # "unsent" /\ stage'[s] = "unsent" => q < s
          /\ turn'[q] # "none" /\ stage'[s] \in {"read", "waiting"} => q < s
          /\ stage'[q] = "waiting" /\ stage'[s] = "read" => q < s
    BY <1>1, <1>2, <1>4 DEF StageInv
  <2> HIDE DEF Subscribed
  <2> QED
    BY <1>1, <1>2, <1>7, <2>1, <2>2 DEF StageInv
<1>10. StdinInv'
  BY <1>1, <1>2, <1>4, StdinKept DEF StdioTypes
<1>11. LogInv'
  BY <1>1, <1>2, <1>7, LogKept DEF TurnIsOver
<1>12. \A i \in DOMAIN sequenced : told'[m] # sequenced[i]
  BY <1>2, <1>3, <1>5, LogFacts
<1>13. ToldInv'
  <2>1. \A q \in Prompts : stage[q] = "answered" => stage'[q] = "answered"
    BY <1>1, <1>4
  <2>2. \A a \in DOMAIN told : told[a].of \in Prompts
    BY <1>2, ToldTyped
  <2>3. ASSUME NEW a \in DOMAIN told'
        PROVE  IF told'[a].what = "event" THEN \E i \in DOMAIN sequenced : told'[a] = sequenced[i]
               ELSE stage'[told'[a].of] = "answered"
    <3>1. CASE a = m
      BY <1>3, <1>4, <1>5, <3>1
    <3>2. CASE a \in DOMAIN told
      BY <1>2, <1>5, <2>1, <2>2, <3>2 DEF ToldInv
    <3> QED
      BY <1>5, <3>1, <3>2
  <2>4. ASSUME NEW a \in DOMAIN told', NEW b \in DOMAIN told', told'[a].what # "event",
               told'[b].what # "event", told'[a].of = told'[b].of
        PROVE  a = b
    <3>1. \A c \in DOMAIN told : told[c].what # "event" => told[c].of # p
      BY <1>1, <1>2 DEF ToldInv
    <3> QED
      BY <1>2, <1>3, <1>5, <2>4, <3>1 DEF ToldInv
  <2>5. \A q \in Subscribed' : \A a \in DOMAIN told', i \in DOMAIN sequenced :
          told'[a] = sequenced[i] => i <= rx[q]
    <3> HIDE DEF Subscribed
    <3> QED
      BY <1>2, <1>5, <1>7, <1>12 DEF ToldInv
  <2>6. ASSUME NEW a \in DOMAIN told', NEW b \in DOMAIN told', NEW i \in DOMAIN sequenced,
               NEW j \in DOMAIN sequenced, a < b, told'[a] = sequenced[i], told'[b] = sequenced[j]
        PROVE  i < j
    <3>1. a \in DOMAIN told /\ b \in DOMAIN told
      BY <1>5, <1>12, <2>6
    <3> QED
      BY <1>2, <1>5, <2>6, <3>1 DEF ToldInv
  <2> HIDE DEF Subscribed
  <2> QED
    BY <1>1, <1>2, <2>3, <2>4, <2>5, <2>6 DEF ToldInv
<1>14. \A q \in Prompts : stage[q] = "abandoned" => stage'[q] = "abandoned"
  BY <1>1, <1>4
<1>15. CleanInv'
  <2> SUFFICES ASSUME NEW q \in Prompts, Clean(q)', NEW i \in DOMAIN Log
               PROVE  /\ i > rx[q] /\ UnderWay(q)' => Log[i].of = q
                      /\ Log[i].of = q /\ WasServed(q)' => i <= rx[q]
                      /\ Log[i].of = q /\ i <= rx[q] /\ q \notin lagged /\ (UnderWay(q)' \/ WasServed(q)')
                            => \E a \in DOMAIN told' : told'[a] = Log[i]
    BY <1>1, <1>7 DEF CleanInv
  <2>1. Clean(q)
    BY <1>1, <1>14, CleanStays
  <2>2. /\ UnderWay(q)' <=> UnderWay(q)
        /\ WasServed(q)' <=> WasServed(q)
    BY <1>1, <1>4 DEF UnderWay, WasServed
  <2>3. (\E a \in DOMAIN told : told[a] = Log[i]) => \E a \in DOMAIN told' : told'[a] = Log[i]
    BY <1>5
  <2> QED
    BY <1>2, <2>1, <2>2, <2>3 DEF CleanInv
<1>16. CompletedInv'
  <2>1. ASSUME turn[p] = "completed", p \notin lagged, Clean(p)', NEW n \in 0..emitted_on[p]
        PROVE  \E a \in DOMAIN told : told[a] = Ev(p, n)
    <3>1. Clean(p) /\ WasServed(p)
      BY <1>1, <1>14, <2>1, CleanStays DEF WasServed
    <3>2. PICK i \in DOMAIN Log : Log[i] = Ev(p, n)
      BY <1>2, <2>1 DEF LogInv
    <3>3. Log[i].of = p
      BY <3>2 DEF Ev
    <3>4. \E a \in DOMAIN told : told[a] = Log[i]
      BY <1>2, <2>1, <3>1, <3>3 DEF CleanInv
    <3> QED
      BY <3>2, <3>4
  <2> QED
    BY <1>1, <1>2, <1>3, <1>14, <2>1, CompletedGrows
<1> QED
  BY <1>8, <1>9, <1>10, <1>11, <1>13, <1>15, <1>16 DEF StdioInv

LEMMA StdioStep == StdioInv /\ [StdioNext]_stdioVars => StdioInv'
<1> SUFFICES ASSUME StdioInv, [StdioNext]_stdioVars PROVE StdioInv'
  OBVIOUS
<1> USE DEF input, turns, history
<1>1. ASSUME NEW p \in Prompts, SendsPrompt(p) PROVE StdioInv'
  BY <1>1, SentPromptStep
<1>2. ASSUME NEW p \in Prompts, LspRequestCancelled(p) PROVE StdioInv'
  <2>1. stage[p] \in {"waiting", "forwarding", "draining", "answering"}
    BY <1>2 DEF LspRequestCancelled, Waiting, Subscribed
  <2> QED
    BY <1>2, <2>1, GivesWay DEF LspRequestCancelled
<1>3. ASSUME NEW p \in Prompts, Begins(p) PROVE StdioInv'
  BY <1>3, BeginsStep
<1>4. ASSUME NEW p \in Prompts, TurnRuns(p) PROVE StdioInv'
  BY <1>4, TurnMoves DEF TurnRuns
<1>5. ASSUME NEW p \in Prompts, TurnRefused(p) PROVE StdioInv'
  BY <1>5, TurnMoves DEF TurnRefused
<1>6. ASSUME NEW p \in Prompts, TurnWorks(p) PROVE StdioInv'
  BY <1>6, WorksStep
<1>7. ASSUME NEW p \in Prompts, TurnEnds(p) PROVE StdioInv'
  BY <1>7, EndsTurnStep
<1>8. ASSUME NEW p \in Prompts, SeesTurnOver(p) PROVE StdioInv'
  BY <1>8, GivesWay DEF SeesTurnOver
<1>9. ASSUME NEW p \in Prompts, Forwards(p) PROVE StdioInv'
  <2>1. UnderWay(p)
    BY <1>9 DEF Forwards, UnderWay
  <2>2. CASE Behind(p)
    BY <1>9, <2>1, <2>2, SkipsStep DEF Forwards
  <2>3. CASE ~Behind(p)
    BY <1>9, <2>1, <2>3, DeliversStep DEF Forwards
  <2> QED
    BY <2>2, <2>3
<1>10. ASSUME NEW p \in Prompts, TakesInTurn(p) PROVE StdioInv'
  BY <1>10, TakesInTurnStep
<1>11. ASSUME NEW p \in Prompts, InputEndsInTurn(p) PROVE StdioInv'
  BY <1>11, GivesWay DEF InputEndsInTurn
<1>12. ASSUME NEW p \in Prompts, Drains(p) PROVE StdioInv'
  <2>1. UnderWay(p) /\ stage[p] = "draining"
    BY <1>12 DEF Drains, UnderWay
  <2>2. CASE Behind(p)
    BY <1>12, <2>1, <2>2, SkipsStep DEF Drains
  <2>3. CASE ~Behind(p)
    BY <1>12, <2>1, <2>3, DeliversStep DEF Drains
  <2> QED
    BY <2>2, <2>3
<1>13. ASSUME NEW p \in Prompts, GraceExpires(p) PROVE StdioInv'
  BY <1>13, GraceStep
<1>14. ASSUME NEW p \in Prompts, Answers(p) PROVE StdioInv'
  BY <1>14, AnswersStep
<1>15. ASSUME NEW what \in {"cancel", "broken", "other"}, SendsMessage(what) PROVE StdioInv'
  BY <1>15, SentMessageStep
<1>16. CASE Takes
  BY <1>16, TakesKeeps
<1>17. CASE SequencerSends
  BY <1>17, SequencerStep
<1>18. CASE Closes \/ LspCancels \/ UNCHANGED stdioVars
  <2>1. UNCHANGED <<protocol, stdin, stage, rx, turn, emitted_on, upcoming, sequenced, told, lagged, hasty>>
    BY <1>18 DEF Closes, LspCancels, stdioVars
  <2>2. Subscribed' = Subscribed
    BY <2>1 DEF Subscribed
  <2>3. StdioTypes' /\ StageInv' /\ StdinInv'
    BY <2>1, <2>2 DEF StdioInv, StdioTypes, StageInv, StdinInv, TurnIsOver, Serial
  <2> QED
    BY <2>1, <2>2, <2>3, OnlyStages DEF UnderWay, WasServed
<1> QED
  BY <1>1, <1>2, <1>3, <1>4, <1>5, <1>6, <1>7, <1>8, <1>9, <1>10, <1>11, <1>12, <1>13, <1>14,
     <1>15, <1>16, <1>17, <1>18 DEF StdioNext

LEMMA StdioAlways == StdioSpec => []StdioInv
BY StdioStart, StdioStep, PTL DEF StdioSpec

--------------------------------------------------------------------------------
LEMMA ToldFromLog ==
    ASSUME StdioTypes, LogInv, ToldInv, NEW a \in DOMAIN told, told[a].what = "event"
    PROVE  \E x \in DOMAIN sequenced : x \in DOMAIN Log /\ told[a] = sequenced[x] /\ told[a] = Log[x]
BY LogFacts DEF ToldInv

(* Whatever the prompts, the messages and the capacity: no client is told an event *)
(* or an answer twice; and the answer that a prompt completed comes after all      *)
(* events of its turn, in order and with the TurnEnd, unless its subscription      *)
(* lagged, or a prompt up to it was answered early or given up.                    *)
THEOREM TurnsAreTold == StdioSpec => []TurnIsTold
<1> SUFFICES ASSUME StdioInv PROVE TurnIsTold
  BY StdioAlways, PTL
<1>1. StdioTypes /\ LogInv /\ ToldInv /\ CompletedInv
  BY DEF StdioInv
<1>2. /\ DOMAIN told = 1..Len(told) /\ Len(told) \in Nat
      /\ \A a \in DOMAIN told : told[a].of \in Prompts
  BY <1>1, ToldTyped
<1>3. ASSUME NEW i \in DOMAIN told, NEW j \in DOMAIN told, told[i] = told[j] PROVE i = j
  <2>1. CASE told[i].what # "event"
    BY <1>1, <1>3, <2>1 DEF ToldInv
  <2>2. CASE told[i].what = "event"
    <3>1. PICK x \in DOMAIN sequenced : x \in DOMAIN Log /\ told[i] = sequenced[x]
      BY <1>1, <2>2, ToldFromLog
    <3>2. x \in Nat /\ i \in Nat /\ j \in Nat
      BY <1>1, <1>2, <3>1, LogFacts
    <3>3. \A a, b \in DOMAIN told : \A y \in DOMAIN sequenced :
             told[a] = sequenced[y] /\ told[b] = sequenced[y] /\ a < b => y < y
      BY <1>1 DEF ToldInv
    <3>4. told[j] = sequenced[x] /\ ~(x < x)
      BY <1>3, <3>1, <3>2
    <3>5. ~(i < j) /\ ~(j < i)
      BY <3>1, <3>3, <3>4
    <3> QED
      BY <3>2, <3>5
  <2> QED
    BY <2>1, <2>2
<1>4. ASSUME NEW i \in DOMAIN told, told[i].what = "completed", NEW p \in Prompts, p = told[i].of,
             p \notin lagged, Clean(p), NEW before, before = {k \in 1..(i - 1) : told[k].of = p}
      PROVE  /\ {told[k] : k \in before} = {Ev(p, n) : n \in 1..emitted_on[p] \union {TurnEnd}}
             /\ \A j, k \in before : j < k =>
                   told[j].n # TurnEnd /\ (told[k].n = TurnEnd \/ told[j].n < told[k].n)
  <2>1. \A k \in before : k \in DOMAIN told /\ k # i /\ k \in 1..(i - 1) /\ told[k].of = p
    BY <1>2, <1>4
  <2>2. ASSUME NEW k \in before
        PROVE  \E x \in DOMAIN sequenced : x \in DOMAIN Log /\ told[k] = sequenced[x] /\ told[k] = Log[x]
    <3>1. told[k].what = "event"
      BY <1>1, <1>4, <2>1 DEF ToldInv
    <3> QED
      BY <1>1, <2>1, <3>1, ToldFromLog
  <2>3. \A n : n \in 1..emitted_on[p] \union {TurnEnd} <=> n \in 0..emitted_on[p]
    <3>1. emitted_on[p] \in Nat
      BY <1>1 DEF StdioTypes
    <3> QED
      BY <3>1 DEF TurnEnd
  <2>4. ASSUME NEW k \in before
        PROVE  \E n \in 1..emitted_on[p] \union {TurnEnd} : told[k] = Ev(p, n)
    <3>1. PICK x \in DOMAIN Log : told[k] = Log[x]
      BY <2>2
    <3>2. Log[x] = Ev(Log[x].of, Log[x].n) /\ Log[x].of = p
      BY <1>1, <2>1, <3>1, LogFacts
    <3>3. Log[x].n \in 0..emitted_on[p]
      BY <1>1, <3>2 DEF LogInv
    <3> QED
      BY <2>3, <3>1, <3>2, <3>3
  <2>5. ASSUME NEW n \in 1..emitted_on[p] \union {TurnEnd}
        PROVE  \E k \in before : told[k] = Ev(p, n)
    <3>1. n \in 0..emitted_on[p]
      BY <2>3
    <3>2. PICK k \in 1..(i - 1) : told[k] = Ev(p, n)
      BY <1>1, <1>4, <3>1 DEF CompletedInv
    <3>3. told[k].of = p
      BY <3>2 DEF Ev
    <3> QED
      BY <1>4, <3>2, <3>3
  <2>6. {told[k] : k \in before} = {Ev(p, n) : n \in 1..emitted_on[p] \union {TurnEnd}}
    BY <2>4, <2>5
  <2>7. ASSUME NEW j \in before, NEW k \in before, j < k
        PROVE  told[j].n # TurnEnd /\ (told[k].n = TurnEnd \/ told[j].n < told[k].n)
    <3>1. PICK x \in DOMAIN sequenced : x \in DOMAIN Log /\ told[j] = sequenced[x] /\ told[j] = Log[x]
      BY <2>2
    <3>2. PICK y \in DOMAIN sequenced : y \in DOMAIN Log /\ told[k] = sequenced[y] /\ told[k] = Log[y]
      BY <2>2
    <3>3. x < y
      BY <1>1, <2>1, <2>7, <3>1, <3>2 DEF ToldInv
    <3>4. Log[x].of = Log[y].of
      BY <2>1, <3>1, <3>2
    <3> QED
      BY <1>1, <3>1, <3>2, <3>3, <3>4 DEF LogInv
  <2> QED
    BY <2>6, <2>7
<1>5. \A i, j \in 1..Len(told) : i # j => told[i] # told[j]
  BY <1>2, <1>3
<1>6. ASSUME NEW i \in 1..Len(told), told[i].what = "completed",
             told[i].of \notin lagged,
             \A q \in 1..told[i].of : q \notin hasty /\ stage[q] # "abandoned"
      PROVE  LET before == {k \in 1..(i - 1) : told[k].of = told[i].of}
             IN  /\ {told[k] : k \in before} = {Ev(told[i].of, n) : n \in 1..emitted_on[told[i].of] \union {TurnEnd}}
                 /\ \A j, k \in before : j < k =>
                       told[j].n # TurnEnd /\ (told[k].n = TurnEnd \/ told[j].n < told[k].n)
  <2>1. i \in DOMAIN told /\ told[i].of \in Prompts /\ Clean(told[i].of)
    BY <1>2, <1>6 DEF Clean
  <2> QED
    BY <1>4, <1>6, <2>1
<1> QED
  BY <1>5, <1>6 DEF TurnIsTold

--------------------------------------------------------------------------------
(* The rest of the types of Stdio: its inputs, its bounds and its histories. *)
StdioBounds ==
    /\ protocol \in Protocols /\ sent_messages \in 0..MaxMessages /\ eof \in BOOLEAN
    /\ emitted_on \in [Prompts -> 0..MaxWork]
    /\ cancelled \subseteq Prompts /\ lagged \subseteq Prompts /\ hasty \subseteq Prompts

LEMMA StdioBoundsStep ==
    ASSUME StdioBounds, [StdioNext]_stdioVars PROVE StdioBounds'
<1> USE StdioAssumption DEF StdioBounds
<1>0. RunningTurn \subseteq Prompts
  BY DEF RunningTurn
<1>1. ASSUME NEW p \in Prompts, SendsPrompt(p) PROVE StdioBounds'
  BY <1>1 DEF SendsPrompt, turns, history
<1>2. ASSUME NEW p \in Prompts, LspRequestCancelled(p) PROVE StdioBounds'
  BY <1>2 DEF LspRequestCancelled, turns, history
<1>3. ASSUME NEW p \in Prompts, Begins(p) \/ TurnRuns(p) \/ TurnRefused(p) \/ TurnEnds(p)
      PROVE  StdioBounds'
  BY <1>3 DEF Begins, TurnRuns, TurnRefused, TurnEnds, input, history
<1>4. ASSUME NEW p \in Prompts, TurnWorks(p) PROVE StdioBounds'
  <2>1. emitted_on' \in [Prompts -> 0..MaxWork]
    <3>1. emitted_on[p] + 1 \in 0..MaxWork /\ emitted_on' = [emitted_on EXCEPT ![p] = emitted_on[p] + 1]
      BY <1>4 DEF TurnWorks
    <3> QED
      BY <3>1
  <2> QED
    BY <1>4, <2>1 DEF TurnWorks, input, history
<1>5. ASSUME NEW p \in Prompts, SeesTurnOver(p) \/ GraceExpires(p) \/ Answers(p)
      PROVE  StdioBounds'
  BY <1>5 DEF SeesTurnOver, GraceExpires, Answers, input, turns, history
<1>6. ASSUME NEW p \in Prompts, Forwards(p) \/ Drains(p) PROVE StdioBounds'
  BY <1>6 DEF Forwards, Drains, SkipsToOldest, input, turns
<1>7. ASSUME NEW p \in Prompts, TakesInTurn(p) \/ InputEndsInTurn(p) PROVE StdioBounds'
  BY <1>0, <1>7 DEF TakesInTurn, InputEndsInTurn, input, history
<1>8. ASSUME NEW what \in {"cancel", "broken", "other"}, SendsMessage(what) PROVE StdioBounds'
  BY <1>8 DEF SendsMessage, turns, history
<1>9. CASE Closes
  BY <1>9 DEF Closes, turns, history
<1>10. CASE LspCancels \/ Takes
  BY <1>0, <1>10 DEF LspCancels, Takes, history
<1>11. CASE SequencerSends
  BY <1>11 DEF SequencerSends, input, history
<1>12. CASE UNCHANGED stdioVars
  BY <1>12 DEF stdioVars
<1> QED
  BY <1>1, <1>2, <1>3, <1>4, <1>5, <1>6, <1>7, <1>8, <1>9, <1>10, <1>11, <1>12 DEF StdioNext

(* The types of Stdio. *)
THEOREM StdioTyped == StdioSpec => []StdioTypeOK
<1>1. StdioInit => StdioBounds
  <2>1. 0 \in 0..MaxWork /\ 0 \in 0..MaxMessages /\ FALSE \in BOOLEAN
    BY StdioAssumption
  <2> QED
    BY <2>1 DEF StdioInit, StdioBounds
<1>2. ASSUME StdioInv, StdioBounds PROVE StdioTypeOK
  <2>1. StdioTypes /\ ToldInv
    BY <1>2 DEF StdioInv
  <2>2. \A m \in ToSet(stdin) : m.do \in {"prompt", "cancel", "broken", "other"}
    <3>1. \A i \in DOMAIN stdin : stdin[i] \in StdioMessage
      BY <2>1 DEF StdioTypes
    <3> QED
      BY <3>1 DEF ToSet, StdioMessage
  <2>3. rx \in [Prompts -> 0..Len(sequenced)]
    <3>1. /\ rx \in [Prompts -> Nat] /\ Len(sequenced) \in Nat
          /\ \A p \in Prompts : rx[p] <= Len(sequenced)
      BY <2>1 DEF StdioTypes, ToldInv
    <3>2. \A p \in Prompts : rx[p] \in 0..Len(sequenced)
      BY <3>1
    <3> QED
      BY <3>1, <3>2
  <2> QED
    BY <1>2, <2>1, <2>2, <2>3 DEF StdioTypes, Stages, StdioBounds, StdioTypeOK
<1> QED
  BY <1>1, <1>2, StdioStart, StdioStep, StdioBoundsStep, PTL DEF StdioSpec
================================================================================
