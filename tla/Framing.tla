------------------------------ MODULE Framing ------------------------------
(***************************************************************************)
(* One QNL message on its way over a connection: QNLRequest and            *)
(* QNLResponse, whose setters add up the frame size, encode and decode, the *)
(* decoders that hand on whatever bytes the network has delivered, and the  *)
(* handlers that read the next chunk when they are done with one.  Every    *)
(* message travels on a connection of its own.                              *)
(*                                                                          *)
(* A message is the sequence of its fields; of a field only the width and   *)
(* the place matter.  Widths are those of the wire, in bytes.               *)
(***************************************************************************)
EXTENDS Integers, Sequences, FiniteSets, SequencesExt

CONSTANTS
    NameLens,       \* lengths of the site names
    Blocks,         \* block sizes in bytes the sites may be configured with
    FrontendBytes,  \* size the router's handler asks for its request (1024 * 32)
    Slack,          \* bytes of a payload buffer beyond that size (128)
    MaxRelays       \* bound: times a response is passed on

ASSUME FramingAssumption ==
    /\ NameLens \subseteq Nat \ {0} /\ Blocks \subseteq Nat \ {0}
    /\ FrontendBytes \in Nat /\ Slack \in Nat /\ MaxRelays \in Nat

VARIABLES
    msg,        \* the message on the connection, with the frame size it claims
    arrived,    \* bytes of it that the receiver has been given
    rx,         \* the receiver's QNLRequest or QNLResponse
    status,     \* "none" (nothing sent), "reading", "processed", "failed"
    relays      \* times the message has been passed on

vars == <<msg, arrived, rx, status, relays>>

-----------------------------------------------------------------------------
(* Messages.                                                               *)

Requests == {"REQ_GET_ALLOC", "REQ_GET_INDEX", "REQ_POST_INDEX", "REQ_POST_ALLOC", "REQ_POST_PEER"}
Responses == {"RESP_GET_ALLOC", "RESP_GET_INDEX", "RESP_POST_INDEX", "RESP_POST_ALLOC", "RESP_POST_PEER"}
WithPayload == {"REQ_POST_ALLOC", "REQ_POST_PEER", "RESP_GET_ALLOC"}

\* encode: the fields before the payload, in the order they are written.
Written(op) ==
    <<"frameSz", "opId", "src", "dst">> \o
    (CASE op \in {"REQ_GET_ALLOC", "REQ_GET_INDEX"} -> <<>>
       [] op \in {"REQ_POST_ALLOC", "RESP_POST_ALLOC"} -> <<"uuid", "index", "respOpId">>
       [] op = "RESP_GET_ALLOC" -> <<"uuid">>
       [] OTHER -> <<"uuid", "index">>)

\* decode: the fields read from the first chunk, in the order they are read.
IndexAfterRespOpId(op) ==                        \* mutant: two fields swapped
    <<"frameSz", "opId", "src", "dst">> \o
    (CASE op \in {"REQ_GET_ALLOC", "REQ_GET_INDEX"} -> <<>>
       [] op \in {"REQ_POST_ALLOC", "RESP_POST_ALLOC"} -> <<"uuid", "respOpId", "index">>
       [] op = "RESP_GET_ALLOC" -> <<"uuid">>
       [] OTHER -> <<"uuid", "index">>)

Parsed(op) ==
    <<"frameSz", "opId", "src", "dst">> \o
    (CASE op \in {"REQ_GET_ALLOC", "REQ_GET_INDEX"} -> <<>>
       [] op \in {"REQ_POST_ALLOC", "RESP_POST_ALLOC"} -> <<"uuid", "index", "respOpId">>
       [] op = "RESP_GET_ALLOC" -> <<"uuid">>
       [] OTHER -> <<"uuid", "index">>)

\* Bytes of a field on the wire; names and the uuid have a length before them.
Width(m, f) ==
    CASE f = "frameSz" -> 4
      [] f \in {"opId", "respOpId"} -> 2
      [] f = "src" -> m.src + 2
      [] f = "dst" -> m.dst + 2
      [] f = "uuid" -> 36 + 2
      [] f = "index" -> 8

\* What the setter of a field adds to frameSz: setSiteIds of a request adds
\* the length of the source name for the destination name too.
SourceTwice(m, f) ==                             \* mutant: in responses too
    CASE f = "frameSz" -> 0
      [] f = "dst" -> Width(m, "src")
      [] OTHER -> Width(m, f)

SetterBytes(m, f) ==
    CASE f = "frameSz" -> 0
      [] f = "dst" /\ m.op \in Requests -> Width(m, "src")
      [] OTHER -> Width(m, f)

\* The sum over the fields; none occurs twice in a message.
Total(W(_, _), m, fields) ==
    LET Of(f) == IF f \in Range(fields) THEN W(m, f) ELSE 0
    IN  Of("frameSz") + Of("opId") + Of("src") + Of("dst")
        + Of("uuid") + Of("index") + Of("respOpId")
HeaderBytes(m) == Total(Width, m, Written(m.op))
TotalBytes(m) == HeaderBytes(m) + m.payload

\* The frame size encode writes: what the setters added, and the payload.
Claim(m) == Total(SetterBytes, m, Written(m.op)) + m.payload

\* A payload is one block, or nothing where the pad of the link could not be
\* had (setPayLoad is in the same try block).
MayCarry(op, block) ==
    CASE op \in {"REQ_POST_ALLOC", "REQ_POST_PEER"} -> {0, block}
      [] op = "RESP_GET_ALLOC" -> {block}
      [] OTHER -> {0}

Messages ==
    {m \in [op : Requests \cup Responses, src : NameLens, dst : NameLens,
            block : Blocks, payload : Blocks \cup {0}] : m.payload \in MayCarry(m.op, m.block)}

Fresh == [frameSz |-> 0, payLoadMode |-> FALSE, got |-> 0, stored |-> {}]

-----------------------------------------------------------------------------
(* The sender.                                                             *)

Init ==
    /\ msg = [op |-> "none", claim |-> 0]
    /\ arrived = 0 /\ rx = Fresh /\ status = "none" /\ relays = 0

\* encode, by a handler that has set the fields of a new message.
Send(m) ==
    /\ status = "none"
    /\ msg' = [op |-> m.op, src |-> m.src, dst |-> m.dst, block |-> m.block,
               payload |-> m.payload, claim |-> Claim(m)]
    /\ status' = "reading"
    /\ UNCHANGED <<arrived, rx, relays>>

\* KeyRouterBackendHandler passes a RESP_POST_PEER_ALLOC_KP_BLOCK on as the
\* object it decoded: its frameSz is what decode left of it.
Relay ==
    /\ status = "processed" /\ msg.op = "RESP_POST_PEER" /\ relays < MaxRelays
    /\ msg' = [msg EXCEPT !.claim = rx.frameSz]
    /\ relays' = relays + 1
    /\ arrived' = 0 /\ rx' = Fresh /\ status' = "reading"

-----------------------------------------------------------------------------
(* The receiver.                                                           *)

\* Capacity of the payload buffer: the router's handler does not ask for the
\* configured block size.
Room(m) == (IF m.op = "REQ_POST_PEER" THEN FrontendBytes ELSE m.block) + Slack

\* decode from the payload on: k bytes go to the payload buffer, and the frame
\* is complete when exactly nothing is left of its size.
TakeTwice(r, k) ==                               \* mutant: bytes put twice
    [r EXCEPT !.frameSz = @ - k, !.got = @ + k + k, !.payLoadMode = (r.frameSz - k # 0)]
Take(r, k) ==
    [r EXCEPT !.frameSz = @ - k, !.got = @ + k, !.payLoadMode = (r.frameSz - k # 0)]

\* decode of the first chunk: each field is taken from its place in the message,
\* and all but the size itself are subtracted from frameSz.
ParsedBytes == Total(Width, msg, Parsed(msg.op))
DecodeHeader ==
    [frameSz |-> msg.claim - (ParsedBytes - Width(msg, "frameSz")),
     payLoadMode |-> FALSE, got |-> 0,
     stored |-> {<<Parsed(msg.op)[k], Written(msg.op)[k]>> : k \in DOMAIN Parsed(msg.op)}]

\* decode of a chunk of n bytes, and the bytes of it that are payload.
PayloadOf(n) == IF rx.payLoadMode THEN n ELSE n - ParsedBytes
Decode(n) ==
    LET r == IF rx.payLoadMode THEN rx ELSE DecodeHeader
    IN  IF msg.op \in WithPayload THEN Take(r, PayloadOf(n)) ELSE r

\* An exception: the header is not whole in the first chunk, or the payload
\* buffer has no room.  The handler does not read again.
Throws(n) == PayloadOf(n) < 0 \/ (msg.op \in WithPayload /\ rx.got + PayloadOf(n) > Room(msg))

\* processReq and processResp take one block out of the payload buffer first;
\* with less than a block in it that is an exception too.
Outcome(r) ==
    CASE r.payLoadMode -> "reading"
      [] ~r.payLoadMode /\ msg.op \in WithPayload /\ r.got < msg.block -> "failed"
      [] OTHER -> "processed"

\* channelRead with the next n bytes of the message.
Read(n) ==
    /\ status = "reading"
    /\ arrived' = arrived + n
    /\ IF Throws(n)
       THEN status' = "failed" /\ UNCHANGED rx
       ELSE rx' = Decode(n) /\ status' = Outcome(Decode(n))
    /\ UNCHANGED <<msg, relays>>

ReadOnce ==                                      \* mutant: no read after the first
    status = "reading" /\ arrived = 0 /\ \E n \in 1 .. TotalBytes(msg) : Read(n)
ReadSome == status = "reading" /\ \E n \in 1 .. TotalBytes(msg) - arrived : Read(n)

Next == (\E m \in Messages : Send(m)) \/ Relay \/ ReadSome

\* TCP delivers what was written, and the event loop reads it.
Spec == Init /\ [][Next]_vars /\ WF_vars(ReadSome)

-----------------------------------------------------------------------------
(* Properties.                                                             *)

\* The state is of the expected shape, and the payload buffer of
\* QNLRequest and QNLResponse never holds more than the message carried.
TypeOK ==
    /\ status \in {"none", "reading", "processed", "failed"}
    /\ status = "none" \/ [op |-> msg.op, src |-> msg.src, dst |-> msg.dst,
                           block |-> msg.block, payload |-> msg.payload] \in Messages
    /\ arrived \in Nat /\ msg.claim \in Int /\ relays \in 0 .. MaxRelays
    /\ rx.frameSz \in Int /\ rx.payLoadMode \in BOOLEAN
    /\ rx.got \in 0 .. (IF status = "none" THEN 0 ELSE msg.payload)

\* A message is acted on (processReq, processResp) only when every field of it
\* was read from the place encode wrote it to and every byte of it has arrived,
\* the whole block included, however the network cut it into chunks.
ProcessedWhole ==
    status = "processed" =>
        /\ rx.stored = {<<f, f>> : f \in Range(Written(msg.op))}
        /\ arrived = TotalBytes(msg)
        /\ msg.op \in WithPayload => rx.got = msg.block

\* What the format can carry: a request with a payload needs names of equal
\* length (setSiteIds), every payload a block in it and a buffer that holds it.
Acceptable(m) ==
    m.op \in WithPayload =>
        /\ m.op \in Requests => m.src = m.dst
        /\ m.payload = m.block /\ m.payload <= Room(m)

HeaderSplit == status = "failed" /\ arrived < HeaderBytes(msg)

\* A message that the format can carry is never given up for another reason,
\* and a receiver that waits for more of it still has bytes to come: the frame
\* size that setters added up and decode counts down comes out at nothing.
NeverStuck ==
    status # "none" /\ Acceptable(msg) =>
        /\ status = "reading" => arrived < TotalBytes(msg)
        /\ status = "failed" => HeaderSplit

\* Such a message is acted on, whatever the chunks, passed on or not: unless the
\* first chunk ends inside the header, decode neither gives up nor waits for
\* bytes that never come.
Delivered ==
    (status = "reading" /\ Acceptable(msg)) ~> (status = "processed" \/ HeaderSplit)
=============================================================================
