--------------------------- MODULE Framing_proofs ---------------------------
(***************************************************************************)
(* Proofs about Framing, for names, blocks and buffers of any size and     *)
(* every way to cut a message into chunks.                                 *)
(*                                                                         *)
(* The idea: between two chunks the bytes that have arrived are the header *)
(* and the payload bytes that are in the buffer, and for a message whose   *)
(* frame size is right what is left of that size is the payload still to   *)
(* come.                                                                   *)
(***************************************************************************)
EXTENDS Framing, SequenceTheorems, TLAPS

IsReceiver(r) ==
    r = [frameSz |-> r.frameSz, payLoadMode |-> r.payLoadMode, got |-> r.got, stored |-> r.stored]

\* What is known of a message on a connection: it is one of Messages, with a
\* frame size, which is the right one unless the message is passed on.
MsgOK ==
    /\ msg = [op |-> msg.op, src |-> msg.src, dst |-> msg.dst, block |-> msg.block,
              payload |-> msg.payload, claim |-> msg.claim]
    /\ msg.op \in Requests \cup Responses
    /\ msg.src \in NameLens /\ msg.dst \in NameLens /\ msg.block \in Blocks
    /\ msg.payload \in Blocks \cup {0} /\ msg.payload \in MayCarry(msg.op, msg.block)
    /\ msg.claim \in Int
    /\ msg.op \in WithPayload => msg.claim = Claim(msg)

\* Nothing has arrived, or the header and a part of the payload.
Awaiting ==
    \/ arrived = 0 /\ rx = Fresh
    \/ /\ rx.payLoadMode = TRUE /\ msg.op \in WithPayload
       /\ arrived = HeaderBytes(msg) + rx.got
       /\ rx.frameSz = msg.claim - (arrived - 4) /\ rx.frameSz # 0
       /\ rx.stored = {<<f, f>> : f \in Range(Written(msg.op))}

FramingInv ==
    /\ status \in {"none", "reading", "processed", "failed"} /\ relays \in 0 .. MaxRelays
    /\ status = "none" => msg = [op |-> "none", claim |-> 0] /\ arrived = 0 /\ rx = Fresh
    /\ status # "none" =>
         /\ MsgOK /\ arrived \in 0 .. TotalBytes(msg)
         /\ rx.frameSz \in Int /\ rx.payLoadMode \in BOOLEAN
         /\ rx.got \in 0 .. msg.payload
    /\ IsReceiver(rx)
    /\ status = "reading" => Awaiting
    /\ ProcessedWhole
    /\ status = "failed" /\ Acceptable(msg) => HeaderSplit

-----------------------------------------------------------------------------
(* Sizes of a message.                                                      *)

\* Every message begins with its size, its code and the two names.
LEMMA CommonFields ==
  ASSUME NEW op
  PROVE  {"frameSz", "opId", "src", "dst"} \subseteq Range(Written(op)) /\ Parsed(op) = Written(op)
  <1> DEFINE head == <<"frameSz", "opId", "src", "dst">>
             tail == CASE op \in {"REQ_GET_ALLOC", "REQ_GET_INDEX"} -> <<>>
                       [] op \in {"REQ_POST_ALLOC", "RESP_POST_ALLOC"} -> <<"uuid", "index", "respOpId">>
                       [] op = "RESP_GET_ALLOC" -> <<"uuid">>
                       [] OTHER -> <<"uuid", "index">>
             names == {"frameSz", "opId", "src", "dst", "uuid", "index", "respOpId"}
  <1>1. head \in Seq(names) /\ Len(head) = 4
    OBVIOUS
  <1>2. tail \in Seq(names)
    <2>1. /\ <<>> \in Seq(names) /\ <<"uuid", "index", "respOpId">> \in Seq(names)
          /\ <<"uuid">> \in Seq(names) /\ <<"uuid", "index">> \in Seq(names)
      OBVIOUS
    <2> HIDE DEF names
    <2> QED BY <2>1, Zenon
  <1>3. head[1] = "frameSz" /\ head[2] = "opId" /\ head[3] = "src" /\ head[4] = "dst"
    OBVIOUS
  <1>4. Written(op) = head \o tail /\ Parsed(op) = head \o tail
    BY DEF Written, Parsed
  <1> HIDE DEF head, tail, names
  <1>5. \A i \in 1 .. 4 : i \in DOMAIN (head \o tail) /\ (head \o tail)[i] = head[i]
    <2>1. /\ head \o tail \in Seq(names) /\ Len(head \o tail) = 4 + Len(tail)
          /\ \A i \in 1 .. 4 + Len(tail) : (head \o tail)[i] = IF i <= 4 THEN head[i] ELSE tail[i - 4]
      <3>1. /\ Len(head \o tail) = Len(head) + Len(tail) /\ head \o tail \in Seq(names)
            /\ \A i \in 1 .. Len(head) + Len(tail) :
                 (head \o tail)[i] = IF i <= Len(head) THEN head[i] ELSE tail[i - Len(head)]
        BY <1>1, <1>2, ConcatProperties, Zenon
      <3> QED BY <1>1, <3>1
    <2>2. Len(tail) \in Nat /\ DOMAIN (head \o tail) = 1 .. 4 + Len(tail)
      BY <1>2, <2>1, LenProperties
    <2> QED BY <2>1, <2>2
  <1>6. \A i \in 1 .. 4 : head[i] \in Range(head \o tail)
    BY <1>5 DEF Range
  <1>7. 1 \in 1 .. 4 /\ 2 \in 1 .. 4 /\ 3 \in 1 .. 4 /\ 4 \in 1 .. 4
    OBVIOUS
  <1> QED BY <1>3, <1>4, <1>6, <1>7

\* The length of the header, and what the setters make of it.
LEMMA HeaderSize ==
  ASSUME NEW m, m.src \in Nat, m.dst \in Nat, m.payload \in Nat
  PROVE  /\ HeaderBytes(m) \in Nat /\ HeaderBytes(m) > 4
         /\ TotalBytes(m) = HeaderBytes(m) + m.payload /\ Claim(m) \in Int
         /\ (m.op \in Requests => m.src = m.dst) => Claim(m) = HeaderBytes(m) - 4 + m.payload
  <1> DEFINE In(f) == f \in Range(Written(m.op))
             Part(f, w) == IF In(f) THEN w ELSE 0
             rest == Part("uuid", 38) + Part("index", 8) + Part("respOpId", 2)
  <1>1. In("frameSz") /\ In("opId") /\ In("src") /\ In("dst")
    BY CommonFields
  <1>2. /\ HeaderBytes(m) = 4 + 2 + (m.src + 2) + (m.dst + 2)
                            + Part("uuid", 38) + Part("index", 8) + Part("respOpId", 2)
    BY <1>1 DEF HeaderBytes, Total, Width
  <1>3. Claim(m) = 0 + 2 + (m.src + 2) + (IF m.op \in Requests THEN m.src + 2 ELSE m.dst + 2)
                   + Part("uuid", 38) + Part("index", 8) + Part("respOpId", 2) + m.payload
    <2>1. /\ SetterBytes(m, "frameSz") = 0 /\ SetterBytes(m, "opId") = 2
          /\ SetterBytes(m, "src") = m.src + 2 /\ SetterBytes(m, "uuid") = 38
          /\ SetterBytes(m, "index") = 8 /\ SetterBytes(m, "respOpId") = 2
      <3>1. /\ Width(m, "opId") = 2 /\ Width(m, "src") = m.src + 2 /\ Width(m, "uuid") = 38
            /\ Width(m, "index") = 8 /\ Width(m, "respOpId") = 2
        BY DEF Width
      <3>2. \A f : f # "frameSz" /\ f # "dst" => SetterBytes(m, f) = Width(m, f)
        BY Zenon DEF SetterBytes
      <3>3. SetterBytes(m, "frameSz") = 0
        BY DEF SetterBytes
      <3> QED BY <3>1, <3>2, <3>3
    <2>2. SetterBytes(m, "dst") = IF m.op \in Requests THEN m.src + 2 ELSE m.dst + 2
      BY DEF SetterBytes, Width
    <2> QED BY <1>1, <2>1, <2>2 DEF Claim, Total
  <1>4. Part("uuid", 38) \in Nat /\ Part("index", 8) \in Nat /\ Part("respOpId", 2) \in Nat
    OBVIOUS
  <1> HIDE DEF Part
  <1> QED BY <1>2, <1>3, <1>4 DEF TotalBytes

-----------------------------------------------------------------------------
(* The receiver.                                                            *)

\* What decode does with bytes of a payload.
LEMMA TakeFields ==
  ASSUME NEW r, IsReceiver(r), NEW k
  PROVE  /\ IsReceiver(Take(r, k))
         /\ Take(r, k).frameSz = r.frameSz - k /\ Take(r, k).got = r.got + k
         /\ Take(r, k).payLoadMode = (r.frameSz - k # 0) /\ Take(r, k).stored = r.stored
  <1>1. PICK a, b, c, d : r = [frameSz |-> a, payLoadMode |-> b, got |-> c, stored |-> d]
    BY DEF IsReceiver
  <1>2. PICK p : p = (r.frameSz - k # 0)
    BY Zenon
  <1>3. Take(r, k) = [r EXCEPT !.frameSz = @ - k, !.got = @ + k, !.payLoadMode = p]
    BY <1>2, Zenon DEF Take
  <1>4. Take(r, k) = [frameSz |-> a - k, payLoadMode |-> p, got |-> c + k, stored |-> d]
    BY <1>1, <1>3
  <1>5. /\ IsReceiver(Take(r, k)) /\ Take(r, k).frameSz = a - k /\ Take(r, k).got = c + k
        /\ Take(r, k).payLoadMode = p /\ Take(r, k).stored = d
    BY <1>4 DEF IsReceiver
  <1>6. r.frameSz = a /\ r.got = c /\ r.stored = d
    BY <1>1
  <1>7. Take(r, k).payLoadMode = (r.frameSz - k # 0)
    BY <1>2, <1>5, Zenon
  <1> QED BY <1>5, <1>6, <1>7, Zenon

\* Numbers of a message on a connection.
LEMMA MsgFacts ==
  ASSUME MsgOK
  PROVE  /\ HeaderBytes(msg) \in Nat /\ HeaderBytes(msg) > 4 /\ ParsedBytes = HeaderBytes(msg)
         /\ TotalBytes(msg) = HeaderBytes(msg) + msg.payload /\ TotalBytes(msg) \in Nat
         /\ Width(msg, "frameSz") = 4 /\ msg.claim \in Int
         /\ msg.payload \in Nat /\ msg.block \in Nat /\ msg.block > 0 /\ Room(msg) \in Nat
         /\ msg.op \in WithPayload => msg.payload \in {0, msg.block}
         /\ msg.op \notin WithPayload => msg.payload = 0
         /\ msg.op \in WithPayload /\ Acceptable(msg) =>
               /\ msg.claim = HeaderBytes(msg) - 4 + msg.payload
               /\ msg.payload = msg.block /\ msg.payload <= Room(msg)
  <1>1. /\ msg.src \in Nat /\ msg.dst \in Nat /\ msg.block \in Nat /\ msg.block > 0
        /\ msg.payload \in Nat /\ msg.claim \in Int
    BY FramingAssumption DEF MsgOK
  <1>2. /\ HeaderBytes(msg) \in Nat /\ HeaderBytes(msg) > 4
        /\ TotalBytes(msg) = HeaderBytes(msg) + msg.payload
        /\ (msg.op \in Requests => msg.src = msg.dst) => Claim(msg) = HeaderBytes(msg) - 4 + msg.payload
    BY <1>1, HeaderSize
  <1>3. ParsedBytes = HeaderBytes(msg)
    <2>1. Parsed(msg.op) = Written(msg.op)
      BY CommonFields
    <2> QED BY <2>1 DEF ParsedBytes, HeaderBytes, Total
  <1>4. Width(msg, "frameSz") = 4
    BY DEF Width
  <1>5. Room(msg) \in Nat
    BY <1>1, FramingAssumption DEF Room
  <1>6. msg.payload \in IF msg.op \in {"REQ_POST_ALLOC", "REQ_POST_PEER"} THEN {0, msg.block}
                        ELSE IF msg.op = "RESP_GET_ALLOC" THEN {msg.block} ELSE {0}
    BY DEF MsgOK, MayCarry
  <1>7. /\ msg.op \in WithPayload => msg.payload \in {0, msg.block}
        /\ msg.op \notin WithPayload => msg.payload = 0
    BY <1>6 DEF WithPayload
  <1>8. msg.op \in WithPayload /\ Acceptable(msg) =>
               /\ msg.claim = HeaderBytes(msg) - 4 + msg.payload
               /\ msg.payload = msg.block /\ msg.payload <= Room(msg)
    BY <1>2 DEF Acceptable, MsgOK
  <1> QED BY <1>1, <1>2, <1>3, <1>4, <1>5, <1>7, <1>8

\* decode of a chunk, first or later, of n bytes when it throws nothing: the
\* bytes that have arrived are accounted for.
LEMMA DecodeFacts ==
  ASSUME MsgOK, Awaiting, IsReceiver(rx), rx.got \in 0 .. msg.payload, arrived \in Nat,
         rx.frameSz \in Int,
         NEW n \in Nat, n > 0, arrived + n <= TotalBytes(msg)
  PROVE  LET r == Decode(n)
             h == HeaderBytes(msg)
         IN  /\ PayloadOf(n) < 0 => arrived + n < h
             /\ PayloadOf(n) >= 0 =>
                  /\ IsReceiver(r) /\ r.frameSz \in Int
                  /\ r.stored = {<<f, f>> : f \in Range(Written(msg.op))}
                  /\ msg.op \notin WithPayload =>
                       /\ r.payLoadMode = FALSE /\ r.got = 0
                       /\ arrived + n = TotalBytes(msg)
                  /\ msg.op \in WithPayload =>
                       /\ arrived + n = h + r.got /\ r.got \in 0 .. msg.payload
                       /\ rx.got + PayloadOf(n) = r.got
                       /\ r.frameSz = msg.claim - (arrived + n - 4)
                       /\ r.payLoadMode = (r.frameSz # 0)
  <1> DEFINE h == HeaderBytes(msg)
             d == DecodeHeader
             stored == {<<f, f>> : f \in Range(Written(msg.op))}
  <1>1. /\ h \in Nat /\ h > 4 /\ ParsedBytes = h /\ TotalBytes(msg) = h + msg.payload
        /\ Width(msg, "frameSz") = 4 /\ msg.claim \in Int /\ msg.payload \in Nat
        /\ msg.op \notin WithPayload => msg.payload = 0
    BY MsgFacts
  <1>2. d.stored = stored
    <2>1. Parsed(msg.op) = Written(msg.op)
      BY CommonFields
    <2>2. d.stored = {<<Parsed(msg.op)[k], Written(msg.op)[k]>> : k \in DOMAIN Parsed(msg.op)}
      BY DEF DecodeHeader
    <2> QED BY <2>1, <2>2 DEF Range
  <1>3. IsReceiver(d) /\ d.frameSz = msg.claim - (h - 4) /\ d.payLoadMode = FALSE /\ d.got = 0
    BY <1>1 DEF DecodeHeader, IsReceiver
  <1> HIDE DEF h, d, stored
  <1>4. CASE arrived = 0 /\ rx = Fresh
    <2>1. PayloadOf(n) = n - h /\ rx.got = 0
      BY <1>1, <1>4 DEF Fresh, PayloadOf
    <2>2. Decode(n) = IF msg.op \in WithPayload THEN Take(d, n - h) ELSE d
      BY <1>4, <2>1 DEF Decode, Fresh, d
    <2>3. CASE msg.op \in WithPayload
      <3>1. PICK r : r = Decode(n) /\ r = Take(d, n - h)
        BY <2>2, <2>3
      <3>2. /\ IsReceiver(r) /\ r.frameSz = d.frameSz - (n - h) /\ r.got = d.got + (n - h)
            /\ r.payLoadMode = (d.frameSz - (n - h) # 0) /\ r.stored = d.stored
        BY <1>3, <3>1, TakeFields
      <3>3. r.frameSz = msg.claim - (arrived + n - 4) /\ r.got = n - h /\ r.frameSz \in Int
        BY <1>1, <1>3, <1>4, <3>2
      <3>4. r.payLoadMode = (r.frameSz # 0)
        BY <3>2
      <3>5. PayloadOf(n) < 0 => arrived + n < h
        BY <1>1, <1>4, <2>1
      <3>6. PayloadOf(n) >= 0 =>
              /\ arrived + n = h + r.got /\ r.got \in 0 .. msg.payload /\ rx.got + PayloadOf(n) = r.got
        BY <1>1, <1>4, <2>1, <3>3
      <3> QED BY <1>2, <2>3, <3>1, <3>2, <3>3, <3>4, <3>5, <3>6 DEF h, stored
    <2>4. CASE msg.op \notin WithPayload
      <3>1. Decode(n) = d
        BY <2>2, <2>4
      <3>2. d.frameSz \in Int
        BY <1>1, <1>3
      <3>3. n - h >= 0 => arrived + n = TotalBytes(msg)
        BY <1>1, <1>4, <2>4
      <3>4. n - h < 0 => arrived + n < h
        BY <1>1, <1>4
      <3> QED BY <1>2, <1>3, <2>1, <2>4, <3>1, <3>2, <3>3, <3>4 DEF h, stored
    <2> QED BY <2>3, <2>4
  <1>5. CASE /\ rx.payLoadMode = TRUE /\ msg.op \in WithPayload
             /\ arrived = h + rx.got
             /\ rx.frameSz = msg.claim - (arrived - 4) /\ rx.stored = stored
    <2>1. PayloadOf(n) = n
      BY <1>5 DEF PayloadOf
    <2>2. PICK r : r = Decode(n) /\ r = Take(rx, n)
      BY <1>5, <2>1 DEF Decode
    <2>3. /\ IsReceiver(r) /\ r.frameSz = rx.frameSz - n /\ r.got = rx.got + n
          /\ r.payLoadMode = (rx.frameSz - n # 0) /\ r.stored = rx.stored
      BY <2>2, TakeFields
    <2>4. r.frameSz = msg.claim - (arrived + n - 4) /\ r.frameSz \in Int
      BY <1>1, <1>5, <2>3
    <2>5. arrived + n = h + r.got /\ r.got \in 0 .. msg.payload
      BY <1>1, <1>5, <2>3
    <2>6. r.payLoadMode = (r.frameSz # 0)
      BY <2>3
    <2> QED BY <1>5, <2>1, <2>2, <2>3, <2>4, <2>5, <2>6 DEF h, stored
  <1> QED BY <1>4, <1>5 DEF Awaiting, h, stored

-----------------------------------------------------------------------------
(* The invariant is inductive.                                              *)

LEMMA FramingInit == Init => FramingInv
  <1> SUFFICES ASSUME Init PROVE FramingInv
    OBVIOUS
  <1>1. /\ msg = [op |-> "none", claim |-> 0] /\ arrived = 0 /\ rx = Fresh /\ status = "none"
        /\ relays = 0
    BY DEF Init
  <1>2. IsReceiver(rx)
    BY <1>1 DEF Fresh, IsReceiver
  <1>3. relays \in 0 .. MaxRelays
    BY <1>1, FramingAssumption
  <1> QED BY <1>1, <1>2, <1>3 DEF FramingInv, ProcessedWhole

\* Sending a message, new or passed on, makes nothing but a fresh receiver.
LEMMA SendInv ==
  ASSUME FramingInv, MsgOK', arrived' = 0, rx' = Fresh, status' = "reading",
         relays' \in 0 .. MaxRelays
  PROVE  FramingInv'
  <1>1. IsReceiver(Fresh) /\ Fresh.frameSz \in Int /\ Fresh.payLoadMode \in BOOLEAN /\ Fresh.got = 0
    BY DEF Fresh, IsReceiver
  <1>2. (TotalBytes(msg) \in Nat /\ msg.payload \in Nat)'
    BY MsgFacts, PTL
  <1> HIDE DEF Fresh
  <1>3. IsReceiver(rx)' /\ rx'.got \in 0 .. msg'.payload /\ arrived' \in 0 .. TotalBytes(msg)'
    BY <1>1, <1>2 DEF IsReceiver
  <1>4. Awaiting'
    BY DEF Awaiting
  <1> QED BY <1>1, <1>3, <1>4 DEF FramingInv, ProcessedWhole

LEMMA FramingStep == FramingInv /\ [Next]_vars => FramingInv'
  <1> SUFFICES ASSUME FramingInv, [Next]_vars PROVE FramingInv'
    OBVIOUS
  <1>1. ASSUME NEW m \in Messages, Send(m) PROVE FramingInv'
    <2>1. /\ status = "none" /\ status' = "reading" /\ UNCHANGED <<arrived, rx, relays>>
          /\ msg' = [op |-> m.op, src |-> m.src, dst |-> m.dst, block |-> m.block,
                     payload |-> m.payload, claim |-> Claim(m)]
      BY <1>1 DEF Send
    <2>2. arrived' = 0 /\ rx' = Fresh /\ relays' \in 0 .. MaxRelays
      BY <2>1 DEF FramingInv
    <2>3. /\ m.op \in Requests \cup Responses /\ m.src \in NameLens /\ m.dst \in NameLens
          /\ m.block \in Blocks /\ m.payload \in Blocks \cup {0} /\ m.payload \in MayCarry(m.op, m.block)
      BY DEF Messages
    <2>4. Claim(m) \in Int
      <3>1. m.src \in Nat /\ m.dst \in Nat /\ m.payload \in Nat
        <4>1. NameLens \subseteq Nat /\ Blocks \subseteq Nat /\ 0 \in Nat
          BY FramingAssumption
        <4> QED BY <2>3, <4>1, Zenon
      <3> QED BY <3>1, HeaderSize
    <2>5. Claim(msg)' = Claim(m)
      BY <2>1 DEF Claim, Total, SetterBytes, Width
    <2>6. MsgOK'
      BY <2>1, <2>3, <2>4, <2>5 DEF MsgOK
    <2> QED BY <2>1, <2>2, <2>6, SendInv
  <1>2. CASE Relay
    <2>1. /\ status = "processed" /\ msg.op = "RESP_POST_PEER" /\ relays < MaxRelays
          /\ msg' = [msg EXCEPT !.claim = rx.frameSz] /\ relays' = relays + 1
          /\ arrived' = 0 /\ rx' = Fresh /\ status' = "reading"
      BY <1>2 DEF Relay
    <2>2. MsgOK /\ rx.frameSz \in Int
      BY <2>1 DEF FramingInv
    <2>3. msg' = [op |-> msg.op, src |-> msg.src, dst |-> msg.dst, block |-> msg.block,
                  payload |-> msg.payload, claim |-> rx.frameSz]
      BY <2>1, <2>2 DEF MsgOK
    <2>4. MsgOK'
      BY <2>1, <2>2, <2>3 DEF MsgOK, WithPayload
    <2>5. relays' \in 0 .. MaxRelays
      BY <2>1, FramingAssumption DEF FramingInv
    <2> QED BY <2>1, <2>4, <2>5, SendInv
  <1>3. CASE ReadSome
    <2>1. PICK n \in 1 .. TotalBytes(msg) - arrived : Read(n)
      BY <1>3 DEF ReadSome
    <2>2. /\ status = "reading" /\ arrived' = arrived + n /\ UNCHANGED <<msg, relays>>
          /\ IF Throws(n) THEN status' = "failed" /\ UNCHANGED rx
             ELSE rx' = Decode(n) /\ status' = Outcome(Decode(n))
      BY <2>1 DEF Read
    <2>h. PICK h, T, stored : /\ h = HeaderBytes(msg) /\ T = TotalBytes(msg)
                              /\ stored = {<<f, f>> : f \in Range(Written(msg.op))}
      OBVIOUS
    <2>3. /\ MsgOK /\ Awaiting /\ IsReceiver(rx) /\ rx.got \in 0 .. msg.payload /\ arrived \in 0 .. T
          /\ rx.frameSz \in Int /\ rx.payLoadMode \in BOOLEAN /\ relays \in 0 .. MaxRelays
      BY <2>h, <2>2 DEF FramingInv
    <2>4. /\ h \in Nat /\ h > 4 /\ T = h + msg.payload /\ T \in Nat /\ msg.claim \in Int
          /\ msg.payload \in Nat /\ msg.block \in Nat /\ msg.block > 0 /\ Room(msg) \in Nat
          /\ msg.op \in WithPayload => msg.payload \in {0, msg.block}
          /\ msg.op \notin WithPayload => msg.payload = 0
          /\ msg.op \in WithPayload /\ Acceptable(msg) =>
               msg.claim = h - 4 + msg.payload /\ msg.payload = msg.block /\ msg.payload <= Room(msg)
      BY <2>h, <2>3, MsgFacts
    <2>5. /\ n \in Nat /\ n > 0 /\ arrived \in Nat /\ arrived + n <= T /\ arrived + n \in 0 .. T
      BY <2>h, <2>3, <2>4
    <2>6. PICK r : r = Decode(n)
      OBVIOUS
    <2>7. /\ PayloadOf(n) < 0 => arrived + n < h
          /\ PayloadOf(n) >= 0 =>
               /\ IsReceiver(r) /\ r.frameSz \in Int /\ r.stored = stored
               /\ msg.op \notin WithPayload =>
                    r.payLoadMode = FALSE /\ r.got = 0 /\ arrived + n = T
               /\ msg.op \in WithPayload =>
                    /\ arrived + n = h + r.got /\ r.got \in 0 .. msg.payload
                    /\ rx.got + PayloadOf(n) = r.got
                    /\ r.frameSz = msg.claim - (arrived + n - 4)
                    /\ r.payLoadMode = (r.frameSz # 0)
      BY <2>h, <2>3, <2>5, <2>6, DecodeFacts
    <2>8. PayloadOf(n) \in Int
      BY <2>3, <2>5, MsgFacts DEF PayloadOf
    <2>9. /\ HeaderBytes(msg)' = h /\ TotalBytes(msg)' = T /\ MsgOK'
          /\ {<<f, f>> : f \in Range(Written(msg'.op))} = stored
          /\ Acceptable(msg)' = Acceptable(msg)
      BY <2>h, <2>2, <2>3 DEF MsgOK, HeaderBytes, TotalBytes, Claim, Total, Width, SetterBytes,
                              Acceptable, Room
    <2>10. ASSUME rx' = rx, status' = "failed", Acceptable(msg) => arrived + n < h PROVE FramingInv'
      <3>1. (HeaderSplit \/ ~ Acceptable(msg))'
        BY <2>2, <2>9, <2>10 DEF HeaderSplit
      <3>2. IsReceiver(rx)'
        BY <2>3, <2>10 DEF IsReceiver
      <3> QED BY <2>2, <2>3, <2>5, <2>9, <2>10, <3>1, <3>2 DEF FramingInv, ProcessedWhole
    <2>11. CASE Throws(n)
      <3>1. status' = "failed" /\ rx' = rx
        BY <2>2, <2>11
      <3>2. Acceptable(msg) => arrived + n < h
        BY <2>4, <2>7, <2>8, <2>11 DEF Throws
      <3> QED BY <2>10, <3>1, <3>2
    <2>12. CASE ~ Throws(n)
      <3>1. rx' = r /\ status' = Outcome(r) /\ PayloadOf(n) >= 0
        BY <2>2, <2>6, <2>8, <2>12 DEF Throws
      <3>2. IsReceiver(rx)' /\ rx'.frameSz \in Int /\ rx'.stored = stored
        BY <2>7, <3>1 DEF IsReceiver
      <3>3. CASE msg.op \notin WithPayload
        <4>1. status' = "processed" /\ rx'.payLoadMode = FALSE /\ rx'.got = 0 /\ arrived' = T
          BY <2>2, <2>7, <3>1, <3>3 DEF Outcome
        <4>2. ProcessedWhole'
          BY <2>2, <2>9, <3>2, <3>3, <4>1 DEF ProcessedWhole
        <4>3. 0 \in 0 .. msg.payload
          BY <2>4
        <4> QED BY <2>2, <2>3, <2>5, <2>9, <3>2, <4>1, <4>2, <4>3 DEF FramingInv
      <3>4. CASE msg.op \in WithPayload
        <4>1. /\ arrived' = h + r.got /\ r.got \in 0 .. msg.payload /\ r.frameSz \in Int
              /\ r.frameSz = msg.claim - (arrived' - 4) /\ r.payLoadMode = (r.frameSz # 0)
          <5>1. /\ arrived + n = h + r.got /\ r.got \in 0 .. msg.payload /\ r.frameSz \in Int
                /\ r.frameSz = msg.claim - (arrived + n - 4)
            BY <2>7, <3>1, <3>4
          <5>2. r.payLoadMode = (r.frameSz # 0)
            BY <2>7, <3>1, <3>4, Zenon
          <5>3. arrived' = arrived + n
            BY <2>2
          <5>4. arrived' = h + r.got /\ r.frameSz = msg.claim - (arrived' - 4)
            BY <2>4, <2>5, <5>1, <5>3
          <5> QED BY <5>1, <5>2, <5>4, Zenon
        <4>2. rx'.got \in 0 .. msg'.payload /\ rx'.payLoadMode \in BOOLEAN /\ arrived' \in 0 .. T
          BY <2>2, <2>5, <3>1, <4>1
        <4>3. CASE r.frameSz # 0
          <5>1. status' = "reading" /\ rx'.payLoadMode = TRUE
            BY <3>1, <4>1, <4>3 DEF Outcome
          <5>2. Awaiting'
            BY <2>2, <2>9, <3>1, <3>2, <3>4, <4>1, <4>3, <5>1 DEF Awaiting
          <5> QED BY <2>2, <2>3, <2>9, <3>2, <4>2, <5>1, <5>2 DEF FramingInv, ProcessedWhole
        <4>4. CASE r.frameSz = 0 /\ r.got < msg.block
          <5>1. status' = "failed" /\ ~ Acceptable(msg)
            <6>1. status' = "failed"
              BY <3>1, <3>4, <4>1, <4>4 DEF Outcome
            <6>2. ASSUME Acceptable(msg) PROVE FALSE
              <7>1. msg.claim = h - 4 + msg.payload /\ msg.payload = msg.block
                BY <2>4, <3>4, <6>2
              <7>2. arrived' = h + msg.payload
                BY <2>2, <2>4, <2>5, <4>1, <4>4, <7>1
              <7> QED BY <2>4, <4>1, <4>4, <7>1, <7>2
            <6> QED BY <6>1, <6>2
          <5>2. Acceptable(msg)' => HeaderSplit'
            BY <2>9, <5>1
          <5> QED BY <2>2, <2>3, <2>9, <3>2, <4>2, <5>1, <5>2 DEF FramingInv, ProcessedWhole
        <4>5. CASE r.frameSz = 0 /\ ~ (r.got < msg.block)
          <5>1. status' = "processed"
            BY <3>1, <3>4, <4>1, <4>5 DEF Outcome
          <5>2. r.got = msg.block /\ msg.payload = msg.block
            BY <2>4, <3>4, <4>1, <4>5
          <5>3. arrived' = T
            BY <2>4, <4>1, <5>2
          <5>4. ProcessedWhole'
            BY <2>2, <2>9, <3>1, <3>2, <5>2, <5>3 DEF ProcessedWhole
          <5> QED BY <2>2, <2>3, <2>9, <3>2, <4>2, <5>1, <5>4 DEF FramingInv
        <4> QED BY <4>3, <4>4, <4>5
      <3> QED BY <3>3, <3>4
    <2> QED BY <2>11, <2>12
  <1>4. CASE UNCHANGED vars
    BY <1>4 DEF vars, FramingInv, MsgOK, IsReceiver, Awaiting, ProcessedWhole, Acceptable, HeaderSplit, HeaderBytes, TotalBytes, Total, Width, Room, Claim, SetterBytes
  <1> QED BY <1>1, <1>2, <1>3, <1>4 DEF Next

LEMMA FramingInvariant == Spec => []FramingInv
  BY FramingInit, FramingStep, PTL DEF Spec

-----------------------------------------------------------------------------
(* The theorems.                                                            *)

\* The state of the receiver, for messages and blocks of any size: decode never
\* puts more into the payload buffer than the message carried.
THEOREM TypeCorrect == Spec => []TypeOK
  <1>1. ASSUME FramingInv PROVE TypeOK
    <2>1. CASE status = "none"
      <3>1. msg.claim = 0 /\ arrived = 0 /\ rx = Fresh /\ relays \in 0 .. MaxRelays
        BY <1>1, <2>1 DEF FramingInv
      <3>2. rx.frameSz = 0 /\ rx.payLoadMode = FALSE /\ rx.got = 0
        BY <3>1 DEF Fresh
      <3>3. rx.got \in 0 .. (IF status = "none" THEN 0 ELSE msg.payload)
        BY <2>1, <3>2
      <3>4. rx.payLoadMode \in BOOLEAN
        BY <3>2, Zenon
      <3>5. arrived \in Nat /\ msg.claim \in Int /\ rx.frameSz \in Int
        BY <3>1, <3>2
      <3> QED BY <2>1, <3>1, <3>3, <3>4, <3>5, Zenon DEF TypeOK
    <2>2. CASE status # "none"
      <3>1. [op |-> msg.op, src |-> msg.src, dst |-> msg.dst, block |-> msg.block,
             payload |-> msg.payload] \in Messages
        BY <1>1, <2>2 DEF FramingInv, MsgOK, Messages
      <3>2. arrived \in Nat
        BY <1>1, <2>2, MsgFacts DEF FramingInv
      <3> QED BY <1>1, <2>2, <3>1, <3>2 DEF FramingInv, TypeOK, MsgOK
    <2> QED BY <2>1, <2>2
  <1> QED BY <1>1, FramingInvariant, PTL

\* However a message is cut into chunks, passed on or not: it is acted on only
\* when all its bytes have arrived and each field was read from its place.
THEOREM OnlyWholeMessages == Spec => []ProcessedWhole
  <1>1. FramingInv => ProcessedWhole
    BY DEF FramingInv
  <1> QED BY <1>1, FramingInvariant, PTL

\* For any sizes: a message that the format can carry fails only when its
\* header is cut, and while it is waited for some of it is still to come.
THEOREM NoMessageStuck == Spec => []NeverStuck
  <1>1. ASSUME FramingInv PROVE NeverStuck
    <2> SUFFICES ASSUME status # "none", Acceptable(msg)
                 PROVE  /\ status = "reading" => arrived < TotalBytes(msg)
                        /\ status = "failed" => HeaderSplit
      BY DEF NeverStuck
    <2>1. MsgOK /\ arrived \in 0 .. TotalBytes(msg)
      BY <1>1 DEF FramingInv
    <2>2. ASSUME status = "reading" PROVE arrived # TotalBytes(msg)
      <3>1. Awaiting
        BY <1>1, <2>2 DEF FramingInv
      <3>2. CASE arrived = 0
        BY <2>1, <3>2, MsgFacts
      <3>3. CASE /\ msg.op \in WithPayload
                 /\ rx.frameSz = msg.claim - (arrived - 4) /\ rx.frameSz # 0
        <4>1. msg.claim = HeaderBytes(msg) - 4 + msg.payload
          BY <2>1, <3>3, MsgFacts
        <4> QED BY <2>1, <3>3, <4>1, MsgFacts
      <3> QED BY <3>1, <3>2, <3>3 DEF Awaiting
    <2>3. TotalBytes(msg) \in Nat
      BY <2>1, MsgFacts
    <2> QED BY <1>1, <2>1, <2>2, <2>3 DEF FramingInv
  <1> QED BY <1>1, FramingInvariant, PTL

=============================================================================
