-------------------------------- MODULE Streams --------------------------------
(***************************************************************************)
(* An answer of the model on its way (minicoding-providers, and stream_llm *)
(* of the runtime): the request is tried until a stream stands, the bytes  *)
(* of the stream are cut into frames, the frames parsed into deltas the    *)
(* way each provider writes them, and the deltas gathered into a message   *)
(* while the clients are shown the text.                                   *)
(*                                                                         *)
(* "openai" and "anthropic" send server-sent events, "ollama" sends lines. *)
(* A byte is one half of a frame, or the mark that ends a frame.  A text   *)
(* is its place in the answer; an argument is the parts of its JSON that   *)
(* came together, each with the call that it was sent for.                 *)
(***************************************************************************)
EXTENDS Integers, FiniteSets, Sequences, SequencesExt, FiniteSetsExt

CONSTANTS
    Providers,      \* the providers configured
    MaxRetries,     \* RetryConfig.max_retries
    MaxBuffer,      \* MAX_BUFFER_BYTES and MAX_LINE_BYTES, in bytes of the model
    ChunkSizes,     \* bound: bytes that one read of the connection brings
    MaxTexts,       \* bound: texts of one answer
    MaxUses,        \* bound: tool calls of one answer
    MaxNoise,       \* bound: heartbeats and blank lines of one answer
    InFlight        \* bound: a provider sends on when no more bytes are on their way

ASSUME StreamsAssumption ==
    /\ Providers \subseteq {"openai", "anthropic", "ollama"}
    /\ {MaxRetries, MaxTexts, MaxUses, MaxNoise, InFlight} \subseteq Nat
    /\ {MaxBuffer} \union ChunkSizes \subseteq Nat \ {0}

VARIABLES
    provider,   \* who answers
    attempt,    \* the counter of RetryProvider::chat_stream
    streaming,  \* where stream_llm stands
    said,       \* all that the provider has sent
    wire,       \* the connection: bytes on their way, and how it ends
    reader,     \* SseStream or NdjsonStream; pull: it must read before it cuts
    gathered,   \* DeltaAccumulator, and the next_index of Ollama's parser
    shown,      \* the texts that Token events have brought to the clients
    reply       \* what stream_llm has returned

strmVars == <<provider, attempt, streaming, said, wire, reader, gathered, shown, reply>>

NothingSaid == [texts |-> 0, blocks |-> 0, uses |-> <<>>, noise |-> 0, part |-> "opening"]
NoReply == [texts |-> <<>>, calls |-> <<>>, usage |-> <<0, 0>>]
Spent == <<3, 7>>               \* the tokens of an answer: its input's, its output's

NothingRead == [buffer |-> <<>>, done |-> FALSE, pull |-> FALSE]
NoneGathered == [texts |-> <<>>, calls |-> <<>>, usage |-> <<0, 0>>, next |-> 0]

StrmInit ==
    /\ provider \in Providers /\ attempt = 0 /\ streaming = "asking"
    /\ said = NothingSaid
    /\ wire = [bytes |-> <<>>, end |-> "open"]
    /\ reader = NothingRead /\ gathered = NoneGathered
    /\ shown = <<>> /\ reply = NoReply

--------------------------------------------------------------------------------
(***************************************************************************)
(* RetryProvider: an attempt that brings no stream is repeated when its    *)
(* error may pass; once there is a stream, nothing is.                     *)
(***************************************************************************)
Established ==
    /\ streaming = "asking"
    /\ streaming' = "reading"
    /\ said' = NothingSaid /\ wire' = [bytes |-> <<>>, end |-> "open"]
    /\ reader' = NothingRead /\ gathered' = NoneGathered
    /\ UNCHANGED <<provider, attempt, shown, reply>>

Retryable == {"RateLimited", "Server", "Network", "Timeout"}
Refused(e) ==
    /\ streaming = "asking"
    /\ IF e \in Retryable /\ attempt < MaxRetries
       THEN attempt' = attempt + 1 /\ UNCHANGED streaming
       ELSE streaming' = "failed" /\ UNCHANGED attempt
    /\ UNCHANGED <<provider, said, wire, reader, gathered, shown, reply>>

--------------------------------------------------------------------------------
(***************************************************************************)
(* What a provider sends: a frame is the items that its parser finds in    *)
(* it.  OpenAI numbers the calls and may mix parts of several in a chunk;  *)
(* Anthropic numbers all blocks and sends one after the other; Ollama      *)
(* sends whole calls, without a number and without an id.                  *)
(***************************************************************************)
None == 0
Text(n) == [kind |-> "text", text |-> n]
Use(index, id, args) == [kind |-> "use", index |-> index, id |-> id, args |-> args]
Stop == [kind |-> "stop"]
Usage(input, output) == [kind |-> "usage", input |-> input, output |-> output]
Part(k, n) == [of |-> k, part |-> n]
Whole(k) == <<Part(k, 1), Part(k, 2)>>

Frame(items, next) == [items |-> items, next |-> next]
If(cond, frames) == IF cond THEN frames ELSE {}

Fresh == Len(said.uses) + 1
Room == MaxUses - Len(said.uses)
Unfinished == {k \in DOMAIN said.uses : Len(said.uses[k].args) = 1}
FirstPart(k) == <<Part(k, 1)>>
NextPart(k) == <<Part(k, Len(said.uses[k].args) + 1)>>

OpenedUse(k, args) == [index |-> k - 1, args |-> args]
Reaches(part) == [said EXCEPT !.part = part]
OpensUses(uses) == [said EXCEPT !.uses = @ \o uses, !.blocks = @ + 1, !.part = "body"]
Saying(k) == [said EXCEPT !.uses[k].args = @ \o NextPart(k)]
SaysText ==
    If(said.texts < MaxTexts,
       {Frame(<<Text(said.texts + 1)>>,
              [said EXCEPT !.texts = @ + 1, !.blocks = @ + 1, !.part = "body"])})

OpenAiBody ==
    LET k == Fresh
    IN SaysText
       \union If(Room > 0, {Frame(<<Use(k - 1, k, a)>>, OpensUses(<<OpenedUse(k, a)>>)) :
                              a \in {<<>>, FirstPart(k)}})
       \union If(Room > 1, {Frame(<<Use(k - 1, k, FirstPart(k)), Use(k, k + 1, <<>>)>>,
                                  OpensUses(<<OpenedUse(k, FirstPart(k)), OpenedUse(k + 1, <<>>)>>))})
       \union {Frame(<<Use(j - 1, None, NextPart(j))>>, Saying(j)) :
                 j \in {n \in DOMAIN said.uses : Len(said.uses[n].args) < 2}}
       \union If(Unfinished = {}, {Frame(<<Stop>>, Reaches("usage"))})
OpenAi ==
    CASE said.part \in {"opening", "body"} -> OpenAiBody
      [] said.part = "usage" -> {Frame(<<Usage(Spent[1], Spent[2])>>, Reaches("sentinel"))}
      [] said.part = "sentinel" -> {Frame(<<[kind |-> "[DONE]"]>>, Reaches("complete"))}
      [] OTHER -> {}

AnthropicBody ==
    LET last == Len(said.uses)
        block == said.blocks
        inUse == last > 0 /\ said.uses[last].index = block - 1 /\ Len(said.uses[last].args) < 2
    IN If(inUse, {Frame(<<Use(block - 1, None, NextPart(last))>>, Saying(last))})
       \union If(Unfinished = {},
                 SaysText
                 \union If(Room > 0, {Frame(<<Use(block, Fresh, <<>>)>>,
                                            OpensUses(<<[index |-> block, args |-> <<>>]>>))})
                 \union {Frame(<<Stop, Usage(0, Spent[2])>>, Reaches("message_stop"))})
Anthropic ==
    CASE said.part = "opening" -> {Frame(<<Usage(Spent[1], 1)>>, Reaches("body"))}
      [] said.part = "body" -> AnthropicBody
      [] said.part = "message_stop" -> {Frame(<<>>, Reaches("complete"))}
      [] OTHER -> {}

Ollama ==
    LET ids(m) == [n \in 1..m |-> Fresh + n - 1]
        use(k) == Use(None, None, Whole(k))
        opened(k) == OpenedUse(k, Whole(k))
    IN If(said.part \in {"opening", "body"},
          SaysText
          \union {Frame([n \in 1..m |-> use(ids(m)[n])], OpensUses([n \in 1..m |-> opened(ids(m)[n])])) :
                    m \in {n \in 1..2 : n <= Room}}
          \union {Frame(<<Stop, Usage(Spent[1], Spent[2])>>, Reaches("complete"))})

Frames ==
    CASE provider = "openai" -> OpenAi [] provider = "anthropic" -> Anthropic [] OTHER -> Ollama

Mark == [half |-> 0, items |-> <<>>]
Halves(items) == <<[half |-> 1, items |-> items], [half |-> 2, items |-> items]>>

(* The mark behind the last frame may be missing. *)
ProviderSends ==
    /\ streaming = "reading" /\ wire.end = "open" /\ Len(wire.bytes) <= InFlight
    /\ \E f \in Frames :
          /\ said' = f.next
          /\ \E mark \in {<<Mark>>} \union If(f.next.part = "complete", {<<>>}) :
                wire' = [wire EXCEPT !.bytes = @ \o Halves(f.items) \o mark]
    /\ UNCHANGED <<provider, attempt, streaming, reader, gathered, shown, reply>>

(* A comment between two events, or a blank line between two lines. *)
Idle == IF provider = "ollama" THEN <<Mark>> ELSE Halves(<<[kind |-> "comment"]>>) \o <<Mark>>
ProviderIdles ==
    /\ streaming = "reading" /\ wire.end = "open"
    /\ said.part # "complete" /\ said.noise < MaxNoise /\ Len(wire.bytes) <= InFlight
    /\ said' = [said EXCEPT !.noise = @ + 1]
    /\ wire' = [wire EXCEPT !.bytes = @ \o Idle]
    /\ UNCHANGED <<provider, attempt, streaming, reader, gathered, shown, reply>>

(* The connection ends: when all is sent, or cut, and then as if it were the end or not. *)
ConnectionEnds ==
    /\ streaming = "reading" /\ wire.end = "open"
    /\ \E end \in {"closed", "broken"}, n \in 0..Len(wire.bytes) :
          /\ end = "closed" /\ said.part = "complete" => n = Len(wire.bytes)
          /\ wire' = [bytes |-> SubSeq(wire.bytes, 1, n), end |-> end]
    /\ UNCHANGED <<provider, attempt, streaming, said, reader, gathered, shown, reply>>

--------------------------------------------------------------------------------
(***************************************************************************)
(* parse_chunk or parse_event, and DeltaAccumulator::push.                 *)
(***************************************************************************)
PushToolCall(g, item) ==
    LET old == IF item.index \in DOMAIN g.calls THEN g.calls[item.index]
               ELSE [id |-> None, args |-> <<>>]
        new == [id |-> IF item.id = None THEN old.id ELSE item.id, args |-> old.args \o item.args]
    IN [g EXCEPT !.calls = [i \in DOMAIN @ \union {item.index} |->
                              IF i = item.index THEN new ELSE @[i]]]

MergeIncremental(old, new) == <<IF new[1] > 0 THEN new[1] ELSE old[1], Max({old[2], new[2]})>>

(* The calls of Ollama are numbered, and given an id, across the lines. *)
NumberedInLine(g, item, pos) == [item EXCEPT !.index = pos - 1, !.id = pos]   \* defect
NumberedOn(g, item, pos) == [item EXCEPT !.index = g.next, !.id = g.next + 1]

Pushed(g, items, pos) ==
    LET item == items[pos]
    IN CASE item.kind = "text" -> [g EXCEPT !.texts = Append(@, item.text)]
         [] item.kind = "use" /\ provider # "ollama" -> PushToolCall(g, item)
         [] item.kind = "use" /\ provider = "ollama" ->
              [PushToolCall(g, NumberedOn(g, item, pos)) EXCEPT !.next = @ + 1]
         [] item.kind = "usage" ->
              [g EXCEPT !.usage = MergeIncremental(@, <<item.input, item.output>>)]
         [] OTHER -> g
Gathers(g, items) ==
    LET got[n \in 0..Len(items)] == IF n = 0 THEN g ELSE Pushed(got[n - 1], items, n)
    IN got[Len(items)]

(* finalize: no argument is an empty object, and one that does not parse is null. *)
Null == <<Part(None, None)>>
Input(args) == IF args = <<>> \/ [n \in DOMAIN args |-> args[n].part] = <<1, 2>> THEN args ELSE Null
ByIndex(calls) ==
    [n \in 1..Cardinality(DOMAIN calls) |->
       calls[CHOOSE i \in DOMAIN calls : Cardinality({j \in DOMAIN calls : j <= i}) = n]]
CallOf(acc) == [id |-> acc.id, input |-> Input(acc.args)]
Finalized(g) ==
    LET inOrder == ByIndex(g.calls)
    IN [texts |-> g.texts, usage |-> g.usage,
        calls |-> [n \in DOMAIN inOrder |-> CallOf(inOrder[n])]]

--------------------------------------------------------------------------------
(***************************************************************************)
(* stream_llm: what it has gathered of a stream that fails is the answer   *)
(* when it is text and nothing else.                                       *)
(***************************************************************************)
FailsAndAsks ==                    \* defect: asks again in the middle of an answer
    IF attempt < MaxRetries
    THEN streaming' = "asking" /\ attempt' = attempt + 1 /\ UNCHANGED reply
    ELSE streaming' = "failed" /\ UNCHANGED <<attempt, reply>>
Fails ==
    /\ IF gathered.texts # <<>> /\ DOMAIN gathered.calls = {}
       THEN streaming' = "salvaged" /\ reply' = Finalized(gathered)
       ELSE streaming' = "failed" /\ UNCHANGED reply
    /\ UNCHANGED attempt

(* A payload is parsed as one JSON value; two frames, or half of one, are none. *)
IsFrame(bytes) == bytes = Halves(bytes[1].items)
Handles(bytes) ==
    IF IsFrame(bytes)
    THEN /\ gathered' = Gathers(gathered, bytes[1].items)
         /\ shown' = shown \o SubSeq(gathered'.texts, Len(gathered.texts) + 1, Len(gathered'.texts))
         /\ UNCHANGED <<attempt, streaming, reply>>
    ELSE Fails /\ UNCHANGED <<gathered, shown>>

(***************************************************************************)
(* poll_next: cut what is in the buffer, or read, or hand out what is left *)
(* when the connection has ended.  An event without data is passed over.   *)
(* A blank line is no line, and the reader of lines then reads first even  *)
(* when there are more of them in the buffer.                              *)
(***************************************************************************)
FrameEnds == {n \in DOMAIN reader.buffer : reader.buffer[n] = Mark}
Cuts == FrameEnds # {} /\ ~reader.pull
HasData(bytes) == bytes # <<>> /\ bytes[1].items # <<[kind |-> "comment"]>>

Cut ==
    /\ streaming = "reading" /\ Cuts
    /\ LET bytes == SubSeq(reader.buffer, 1, Min(FrameEnds) - 1)
       IN /\ reader' = [reader EXCEPT !.buffer = SubSeq(@, Min(FrameEnds) + 1, Len(@)),
                                      !.pull = bytes = <<>>]
          /\ IF HasData(bytes) THEN Handles(bytes)
             ELSE UNCHANGED <<attempt, streaming, gathered, shown, reply>>
    /\ UNCHANGED <<provider, said, wire>>

Read(n) ==
    /\ streaming = "reading" /\ ~Cuts /\ ~reader.done /\ n <= Len(wire.bytes)
    /\ IF Len(reader.buffer) + n > MaxBuffer
       THEN Fails /\ UNCHANGED <<wire, reader>>
       ELSE /\ reader' = [reader EXCEPT !.buffer = @ \o SubSeq(wire.bytes, 1, n), !.pull = FALSE]
            /\ wire' = [wire EXCEPT !.bytes = SubSeq(@, n + 1, Len(@))]
            /\ UNCHANGED <<attempt, streaming, reply>>
    /\ UNCHANGED <<provider, said, gathered, shown>>

ReadEnd ==
    /\ streaming = "reading" /\ ~Cuts /\ ~reader.done
    /\ wire.bytes = <<>> /\ wire.end # "open"
    /\ IF wire.end = "broken"
       THEN Fails /\ UNCHANGED reader
       ELSE reader' = [reader EXCEPT !.done = TRUE, !.pull = FALSE]
            /\ UNCHANGED <<attempt, streaming, reply>>
    /\ UNCHANGED <<provider, said, wire, gathered, shown>>

Trimmed(bytes) ==
    LET data == {n \in DOMAIN bytes : bytes[n] # Mark}
    IN IF data = {} THEN <<>> ELSE SubSeq(bytes, Min(data), Max(data))
Flush ==
    /\ streaming = "reading" /\ ~Cuts /\ reader.done
    /\ LET bytes == Trimmed(reader.buffer)
       IN IF HasData(bytes)
          THEN reader' = [reader EXCEPT !.buffer = <<>>] /\ Handles(bytes)
          ELSE /\ streaming' = "finished" /\ reply' = Finalized(gathered)
               /\ UNCHANGED <<reader, attempt, gathered, shown>>
    /\ UNCHANGED <<provider, said, wire>>

StrmNext ==
    \/ Established \/ \E e \in Retryable \union {"Client"} : Refused(e)
    \/ ProviderSends \/ ProviderIdles \/ ConnectionEnds
    \/ Cut \/ \E n \in ChunkSizes : Read(n)
    \/ ReadEnd \/ Flush

StrmSpec == StrmInit /\ [][StrmNext]_strmVars

--------------------------------------------------------------------------------
StrmTypeOK ==
    /\ provider \in Providers /\ attempt \in 0..MaxRetries
    /\ streaming \in {"asking", "reading", "finished", "salvaged", "failed"}
    /\ said.texts \in 0..MaxTexts /\ Len(said.uses) <= MaxUses /\ said.noise \in 0..MaxNoise
    /\ wire.end \in {"open", "closed", "broken"}
    /\ Len(reader.buffer) <= MaxBuffer
    /\ shown \in Seq(Nat) /\ reply.texts \in Seq(Nat) /\ reply.usage \in Seq(Nat)

(* Whatever the provider, the reads and the end of the connection, the message   *)
(* of a turn is what was said, in its order: all of it when the answer came to   *)
(* its end, with each call's own argument.  Of an answer that was cut a call may *)
(* stand with none or a null argument, never with a part of one or another's,    *)
(* and what is saved of a broken stream has no calls.                            *)
ReplyIsWhatWasSaid ==
    streaming \in {"finished", "salvaged"} =>
      LET all == streaming = "finished" /\ said.part = "complete" /\ wire.end = "closed"
      IN /\ \A n \in DOMAIN reply.texts : reply.texts[n] = n
         /\ Len(reply.texts) <= said.texts /\ Len(reply.calls) <= Len(said.uses)
         /\ \A k \in DOMAIN reply.calls :
               /\ reply.calls[k].id = k
               /\ reply.calls[k].input \in {Whole(k)} \union (IF all THEN {said.uses[k].args}
                                                             ELSE {<<>>, Null})
         /\ all => /\ Len(reply.texts) = said.texts /\ Len(reply.calls) = Len(said.uses)
                   /\ reply.usage = Spent
         /\ streaming = "salvaged" => reply.calls = <<>>

(* No text is shown twice or out of its place, however often the request was *)
(* tried, and the message that is kept has the text that the clients were shown. *)
ShownOnce ==
    /\ \A n \in DOMAIN shown : shown[n] = n
    /\ streaming \in {"finished", "salvaged"} => reply.texts = shown
================================================================================
