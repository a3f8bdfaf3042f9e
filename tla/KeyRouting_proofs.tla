-------------------------- MODULE KeyRouting_proofs --------------------------
(***************************************************************************)
(* Proofs about KeyRouting, for any network, any routing tables, any       *)
(* number of fetches at a time and any number of faults.                   *)
(***************************************************************************)
EXTENDS KeyRouting, SequenceTheorems, FiniteSetTheorems, TLAPS

-----------------------------------------------------------------------------
(* The invariant of the control of a session.                               *)

SessionStates ==
    [kms : {"new", "waiting", "got", "gaveUp"}, src : Sites \cup {NoSite},
     dst : Sites \cup {NoSite}, chain : Seq(Sites), broken : SUBSET Sites, msg : Messages]

\* The types that TypeOK leaves open: domains, and the counters of faults.
Shape ==
    /\ counter = [x \in Sites |-> counter[x]]
    /\ qll = [x \in Sites |-> qll[x]]
    /\ sess \in [Sessions -> SessionStates]
    /\ faults \in [reroutes : Nat, restarts : Nat, losses : Nat, giveUps : Nat,
                   files : Nat, races : Nat]

IndexResponses == {"RESP_POST_KP_BLOCK_INDEX", "RESP_GET_KP_BLOCK_INDEX"}

\* How far a session has come: the operation of its message tells how many
\* sites wait for the answer, and which answer the destination is to give.
LengthOK(m, k) ==
    /\ m.op \notin Calls
    /\ m.op = "REQ_GET_ALLOC" => k = 1
    /\ m.op \in {"REQ_POST_KP_BLOCK_INDEX", "REQ_GET_KP_BLOCK_INDEX"} => k = 2
    /\ m.op = "REQ_POST_PEER_ALLOC" => k >= 3
    /\ m.op \in {"REQ_POST_ALLOC", "RESP_POST_ALLOC"} =>
          k >= 2 /\ m.respOp \in IndexResponses \cup {"RESP_POST_PEER_ALLOC"}
    /\ m.op \notin {"none", "RESP_GET_ALLOC"} => k >= 1

CallMsg(op, n, y) ==
    [op |-> op, index |-> n, respOp |-> "none", data |-> {}, via |-> y]

\* A call of a reader, for a session of source s: by the source itself, or at
\* the first hop on its link to the source.
CallOK(m, chain, s) ==
    /\ m.op \in Calls /\ m.index \in Nat \ {0} /\ m.via \in Neighbours(chain[Len(chain)])
    /\ m = CallMsg(m.op, m.index, m.via)
    /\ \/ Len(chain) = 1 /\ m.op \in {"TEST", "UNDO"}
       \/ Len(chain) = 2 /\ m.op \in {"TAKE", "UNDO"} /\ m.via = s

ChainOK(q) ==
    /\ q.kms = "new" => q.msg.op = "none"
    /\ q.kms # "new" => <<q.src, q.dst>> \in Requests
    /\ LengthOK(q.msg, Len(q.chain)) \/ CallOK(q.msg, q.chain, q.src)

\* Each call between its addAndGet(len) and its outcome has been counted.
CallsCounted ==
    \A x \in Sites : \A y \in Neighbours(x) : counter[x][y] >= Cardinality(InFlight(x, y))

TypeInv == TypeOK /\ Shape /\ CallsCounted /\ \A c \in Sessions : ChainOK(sess[c])

-----------------------------------------------------------------------------
(* The effect of the operators that move the message of a session.          *)

\* The sessions after a step in which session c alone moves.
Moved(c, chain, m) ==
    /\ \A e \in Sessions \ {c} : sess'[e] = sess[e]
    /\ sess'[c].chain = chain /\ sess'[c].msg = m /\ sess'[c].kms = sess[c].kms
    /\ sess'[c].src = sess[c].src /\ sess'[c].dst = sess[c].dst
    /\ sess'[c].broken = sess[c].broken
    /\ sess' \in [Sessions -> SessionStates]

\* SetMsg leaves the chain alone.
LEMMA SetMsgMoves ==
  ASSUME Shape, NEW c \in Sessions, NEW m \in Messages, SetMsg(c, m)
  PROVE  Moved(c, sess[c].chain, m)
  <1> DEFINE q == [sess[c] EXCEPT !.msg = m]
  <1>1. /\ q \in SessionStates
        /\ q.chain = sess[c].chain /\ q.msg = m /\ q.kms = sess[c].kms
        /\ q.src = sess[c].src /\ q.dst = sess[c].dst /\ q.broken = sess[c].broken
    BY ZenonT(60) DEF Shape, SessionStates
  <1>2. sess' = [sess EXCEPT ![c] = q]
    BY DEF SetMsg
  <1> HIDE DEF q
  <1> QED BY <1>1, <1>2 DEF Shape, Moved

\* Forward adds one site at the end of the chain.
LEMMA ForwardMoves ==
  ASSUME Shape, NEW c \in Sessions, NEW y \in Sites, NEW m \in Messages, Forward(c, y, m)
  PROVE  Moved(c, Append(sess[c].chain, y), m)
  <1> DEFINE chain == Append(sess[c].chain, y)
             q == [sess[c] EXCEPT !.msg = m, !.chain = chain]
  <1>1. chain \in Seq(Sites)
    BY DEF Shape, SessionStates
  <1>2. sess' = [sess EXCEPT ![c] = q]
    BY DEF Forward
  <1> HIDE DEF chain
  <1>3. /\ q \in SessionStates
        /\ q.chain = chain /\ q.msg = m /\ q.kms = sess[c].kms
        /\ q.src = sess[c].src /\ q.dst = sess[c].dst /\ q.broken = sess[c].broken
    BY <1>1, ZenonT(60) DEF Shape, SessionStates
  <1> HIDE DEF q
  <1>4. Moved(c, chain, m)
    BY <1>2, <1>3 DEF Shape, Moved
  <1> QED BY <1>4 DEF chain

Front(chain) == SubSeq(chain, 1, Len(chain) - 1)

\* What is left of a chain without its last site.
LEMMA FrontProperties ==
  ASSUME NEW chain \in Seq(Sites), Len(chain) > 0
  PROVE  /\ Front(chain) \in Seq(Sites)
         /\ Len(Front(chain)) = Len(chain) - 1
         /\ \A i \in 1 .. Len(chain) - 1 : Front(chain)[i] = chain[i]
  <1>1. \A i \in 1 .. Len(chain) - 1 : chain[i] \in Sites
    OBVIOUS
  <1>2. 1 \in Int /\ Len(chain) - 1 \in Int
    OBVIOUS
  <1> DEFINE n == Len(chain) - 1
  <1>3. /\ SubSeq(chain, 1, n) \in Seq(Sites)
        /\ Len(SubSeq(chain, 1, n)) = IF 1 <= n THEN n - 1 + 1 ELSE 0
        /\ \A i \in 1 .. n - 1 + 1 : SubSeq(chain, 1, n)[i] = chain[1 + i - 1]
    BY <1>1, <1>2, SubSeqProperties
  <1> DEFINE f == Front(chain)
  <1>4. f = SubSeq(chain, 1, n)
    BY DEF Front
  <1>5. n = Len(chain) - 1 /\ n \in Nat
    OBVIOUS
  <1> HIDE DEF f, n
  <1>6. f \in Seq(Sites) /\ Len(f) = n
    BY <1>3, <1>4, <1>5
  <1>7. \A i \in 1 .. n : f[i] = chain[i]
    <2> SUFFICES ASSUME NEW i \in 1 .. n PROVE f[i] = chain[i]
      OBVIOUS
    <2>1. i \in 1 .. n - 1 + 1 /\ 1 + i - 1 = i
      BY <1>5
    <2>2. f[i] = chain[1 + i - 1]
      BY <1>3, <1>4, <2>1
    <2> QED BY <2>1, <2>2
  <1> QED BY <1>5, <1>6, <1>7 DEF f

\* Reply removes the last site, and may lose the message.
LEMMA ReplyMoves ==
  ASSUME Shape, NEW c \in Sessions, NEW m \in Messages, Reply(c, m), Len(sess[c].chain) > 0
  PROVE  \E r \in {m, NoMsg} : Moved(c, Front(sess[c].chain), r)
  <1>1. sess[c].chain \in Seq(Sites)
    BY DEF Shape, SessionStates
  <1>2. Front(sess[c].chain) \in Seq(Sites)
    BY <1>1, FrontProperties
  <1>3. NoMsg \in Messages
    BY DEF NoMsg, Msg, Messages, Ops
  <1>4. PICK r \in {m, NoMsg} :
          sess' = [sess EXCEPT ![c].chain = Front(sess[c].chain), ![c].msg = r]
    BY DEF Reply, Front
  <1> DEFINE q == [sess[c] EXCEPT !.chain = Front(sess[c].chain), !.msg = r]
  <1>5. /\ q \in SessionStates
        /\ q.chain = Front(sess[c].chain) /\ q.msg = r /\ q.kms = sess[c].kms
        /\ q.src = sess[c].src /\ q.dst = sess[c].dst /\ q.broken = sess[c].broken
    BY <1>2, <1>3, ZenonT(60) DEF Shape, SessionStates
  <1>6. sess' = [sess EXCEPT ![c] = q]
    BY <1>4
  <1> HIDE DEF q
  <1>7. Moved(c, Front(sess[c].chain), r)
    BY <1>5, <1>6 DEF Shape, Moved
  <1> QED BY <1>7

-----------------------------------------------------------------------------
(* What each handler does to its session.                                   *)

\* The messages the handlers make are messages.
LEMMA MessageTypes ==
  /\ NoMsg \in Messages /\ NoMsg.op = "none"
  /\ \A o \in Ops, n \in Int, d \in SUBSET KeyBlocks :
        /\ Msg(o, n, d) \in Messages
        /\ Msg(o, n, d).op = o /\ Msg(o, n, d).index = n /\ Msg(o, n, d).data = d
  /\ \A o \in Ops, n \in Int, y \in Sites :
        /\ CallMsg(o, n, y) \in Messages /\ CallMsg(o, n, y).op = o
        /\ CallMsg(o, n, y).index = n /\ CallMsg(o, n, y).via = y
        /\ CallMsg(o, n, y).data = {}
        /\ CallMsg(o, n, y) = CallMsg(CallMsg(o, n, y).op, CallMsg(o, n, y).index,
                                      CallMsg(o, n, y).via)
  BY DEF NoMsg, Msg, CallMsg, Messages, Ops

\* Padding yields key data.
LEMMA XorType ==
  ASSUME NEW data \in SUBSET KeyBlocks, NEW k \in KeyBlocks
  PROVE  Xor(data, k) \in SUBSET KeyBlocks
  BY DEF Xor

\* getNextHop answers with a neighbour or with null, and with null for the
\* site itself.
LEMMA NextHopType ==
  ASSUME TypeInv, NEW x \in Sites, NEW d \in Sites
  PROVE  /\ NextHop(x, d) \in Neighbours(x) \cup {NoSite}
         /\ NextHop(x, x) = NoSite
  BY RouteAssumption DEF TypeInv, TypeOK, NextHop, Neighbours

\* Neighbours are different sites that share a link.
LEMMA NeighbourProperties ==
  ASSUME NEW x \in Sites, NEW y \in Neighbours(x)
  PROVE  /\ y \in Sites /\ x \in Neighbours(y) /\ x # y /\ x \in Nat /\ y \in Nat
         /\ {x, y} \in Links /\ y # NoSite
         /\ \A n \in Nat : Block(x, y, n) \in KeyBlocks
         /\ OTPKey(x, y) \in KeyBlocks
  <1>1. y \in Sites /\ {x, y} \in Links /\ x \in Nat /\ y \in Nat
    BY SiteAssumption DEF Neighbours
  <1>2. x # y
    <2>1. PICK u, v \in Sites : u # v /\ {x, y} = {u, v}
      BY <1>1, SiteAssumption
    <2> QED BY <2>1
  <1>3. {x, y} = {y, x}
    OBVIOUS
  <1>4. x \in Neighbours(y)
    BY <1>1, <1>3 DEF Neighbours
  <1>5. \A n \in Nat : Block(x, y, n) \in KeyBlocks
    BY <1>1, BoundAssumption DEF Block, KeyBlocks
  <1>6. OTPKey(x, y) \in KeyBlocks
    BY <1>5 DEF OTPKey
  <1> QED BY <1>1, <1>2, <1>4, <1>5, <1>6, SiteAssumption

\* What is read of a link are its key blocks.
LEMMA ReadBlockType ==
  ASSUME TypeInv, NEW x \in Sites, NEW y \in Neighbours(x), NEW n \in Nat
  PROVE  /\ ReadBlock(x, y, n) \in KeyBlocks
         /\ \E k \in {1, n}, m \in 1 .. KeyBlockSz : ReadBlock(x, y, n) = <<{x, y}, k, m>>
         /\ Whole(x, y, n) => ReadBlock(x, y, n) = Block(x, y, n)
  <1>1. {x, y} \in Links
    BY NeighbourProperties
  <1>2. qll[x][y].part \in 0 .. KeyBlockSz - 1
    BY DEF TypeInv, TypeOK
  <1>3. KeyBlockSz \in 1 .. KeyBlockSz /\ (qll[x][y].part > 0 => qll[x][y].part \in 1 .. KeyBlockSz)
    BY <1>2, BoundAssumption
  <1>4. \E k \in {1, n}, m \in 1 .. KeyBlockSz : ReadBlock(x, y, n) = <<{x, y}, k, m>>
    BY <1>3 DEF ReadBlock, Block
  <1>5. ReadBlock(x, y, n) \in KeyBlocks
    BY <1>1, <1>4 DEF KeyBlocks
  <1> QED BY <1>4, <1>5 DEF ReadBlock

\* A session with a message in the network: its sites, its chain and the site
\* the message is at.
LEMMA SessionFacts ==
  ASSUME TypeInv, NEW c \in Sessions, Op(c) # "none"
  PROVE  /\ sess[c].src \in Sites /\ sess[c].dst \in Sites /\ sess[c].src # sess[c].dst
         /\ <<sess[c].src, sess[c].dst>> \in Requests /\ sess[c].kms # "new"
         /\ sess[c].chain \in Seq(Sites) /\ sess[c].msg \in Messages
         /\ Op(c) # "RESP_GET_ALLOC" => /\ Len(sess[c].chain) > 0
                                        /\ At(c) \in Sites
                                        /\ sess[c].chain[1] = sess[c].src
         /\ Shape /\ SessionOK(sess[c]) /\ ChainOK(sess[c])
  <1>1. Shape /\ SessionOK(sess[c]) /\ ChainOK(sess[c])
    BY DEF TypeInv, TypeOK
  <1>2. sess[c].kms # "new" /\ <<sess[c].src, sess[c].dst>> \in Requests
    BY <1>1 DEF ChainOK, LengthOK, CallOK, Calls, Op
  <1>3. sess[c].src \in Sites /\ sess[c].dst \in Sites /\ sess[c].src # sess[c].dst
    BY <1>2, SiteAssumption
  <1>4. sess[c].chain \in Seq(Sites) /\ sess[c].msg \in Messages
    BY <1>1 DEF SessionOK
  <1>5. ASSUME Op(c) # "RESP_GET_ALLOC"
        PROVE  Len(sess[c].chain) > 0 /\ At(c) \in Sites /\ sess[c].chain[1] = sess[c].src
    <2>1. sess[c].chain # <<>> /\ sess[c].chain[1] = sess[c].src
      BY <1>1, <1>5 DEF SessionOK, Op
    <2>2. Len(sess[c].chain) \in Nat /\ Len(sess[c].chain) > 0
      BY <1>4, <2>1
    <2> QED BY <1>4, <2>1, <2>2 DEF At
  <1> QED BY <1>1, <1>2, <1>3, <1>4, <1>5

\* GetAlloc, at the source: the message is dropped, an index of the link to the
\* next hop is counted, or the next hop is asked for one.
LEMMA GetAllocMoves ==
  ASSUME TypeInv, NEW c \in Sessions, GetAlloc(c)
  PROVE  LET x == sess[c].src
             y == NextHop(x, sess[c].dst)
         IN  /\ At(c) = x /\ Len(sess[c].chain) = 1 /\ sess[c].chain[1] = x
             /\ Op(c) = "REQ_GET_ALLOC" /\ UNCHANGED misread
             /\ \/ Moved(c, sess[c].chain, NoMsg) /\ UNCHANGED counter
                \/ /\ y \in Neighbours(x) /\ x < y
                   /\ counter' = [counter EXCEPT ![x][y] = @ + 1]
                   /\ Moved(c, sess[c].chain, CallMsg("TEST", counter[x][y] + 1, y))
                \/ /\ y \in Neighbours(x) /\ y < x /\ UNCHANGED counter
                   /\ Moved(c, Append(sess[c].chain, y),
                            Msg("REQ_GET_KP_BLOCK_INDEX", 0, {}))
  <1> DEFINE x == At(c)
             y == NextHop(x, sess[c].dst)
  <1>1. /\ sess[c].src \in Sites /\ sess[c].dst \in Sites /\ x \in Sites
        /\ sess[c].chain[1] = sess[c].src /\ Len(sess[c].chain) = 1 /\ Shape
        /\ Op(c) = "REQ_GET_ALLOC" /\ UNCHANGED misread
    BY SessionFacts DEF GetAlloc, ChainOK, LengthOK, CallOK, Calls, Op
  <1>2. x = sess[c].src
    BY <1>1 DEF At
  <1>3. y \in Neighbours(x) \cup {NoSite}
    BY <1>1, NextHopType
  <1>4. ASSUME y = NoSite
        PROVE  Moved(c, sess[c].chain, NoMsg) /\ UNCHANGED counter
    <2>1. SetMsg(c, NoMsg) /\ UNCHANGED counter
      BY <1>4 DEF GetAlloc, Drop
    <2> QED BY <1>1, <2>1, SetMsgMoves, MessageTypes
  <1>5. ASSUME y # NoSite, x < y
        PROVE  /\ y \in Neighbours(x) /\ x < y
               /\ counter' = [counter EXCEPT ![x][y] = @ + 1]
               /\ Moved(c, sess[c].chain, CallMsg("TEST", counter[x][y] + 1, y))
    <2>1. y \in Neighbours(x) /\ y \in Sites
      BY <1>1, <1>3, <1>5, NeighbourProperties
    <2>2. counter[x][y] + 1 \in Int /\ "TEST" \in Ops
      BY <1>1, <2>1 DEF TypeInv, TypeOK, Ops, Calls
    <2>3. CallMsg("TEST", counter[x][y] + 1, y) \in Messages
      <3> HIDE DEF x, y
      <3> QED BY <2>1, <2>2, MessageTypes
    <2>4. AddAndGet(c, x, y, "TEST")
      BY <1>5 DEF GetAlloc
    <2>5. /\ SetMsg(c, CallMsg("TEST", counter[x][y] + 1, y))
          /\ counter' = [counter EXCEPT ![x][y] = @ + 1]
      BY <2>4 DEF AddAndGet, CallMsg, Msg
    <2> QED BY <1>1, <1>5, <2>1, <2>3, <2>5, SetMsgMoves
  <1>7. ASSUME y # NoSite, ~ (x < y)
        PROVE  /\ y \in Neighbours(x) /\ y < x /\ UNCHANGED counter
               /\ Moved(c, Append(sess[c].chain, y), Msg("REQ_GET_KP_BLOCK_INDEX", 0, {}))
    <2>0. y \in Neighbours(x) /\ y \in Sites /\ x # y /\ x \in Nat /\ y \in Nat
      BY <1>1, <1>3, <1>7, NeighbourProperties
    <2>1. y < x
      <3> HIDE DEF x, y
      <3> QED BY <1>7, <2>0
    <2>2. Msg("REQ_GET_KP_BLOCK_INDEX", 0, {}) \in Messages
      BY MessageTypes DEF Ops
    <2>3. Forward(c, y, Msg("REQ_GET_KP_BLOCK_INDEX", 0, {})) /\ UNCHANGED counter
      BY <1>7 DEF GetAlloc
    <2> QED BY <1>1, <2>0, <2>1, <2>2, <2>3, ForwardMoves
  <1> HIDE DEF x, y
  <1>8. \/ Moved(c, sess[c].chain, NoMsg) /\ UNCHANGED counter
        \/ /\ y \in Neighbours(x) /\ x < y
           /\ counter' = [counter EXCEPT ![x][y] = @ + 1]
           /\ Moved(c, sess[c].chain, CallMsg("TEST", counter[x][y] + 1, y))
        \/ /\ y \in Neighbours(x) /\ y < x /\ UNCHANGED counter
           /\ Moved(c, Append(sess[c].chain, y), Msg("REQ_GET_KP_BLOCK_INDEX", 0, {}))
    BY <1>4, <1>5, <1>7, Zenon
  <1>9. x = sess[c].src /\ At(c) = x /\ y = NextHop(sess[c].src, sess[c].dst)
    BY <1>2 DEF x, y
  <1> QED BY <1>1, <1>8, <1>9, Zenon

LEMMA UndoneMsg ==
  ASSUME NEW m, NEW op, NEW n, NEW y, m = CallMsg(op, n, y)
  PROVE  [m EXCEPT !.op = "UNDO"] = CallMsg("UNDO", n, y)
  BY DEF CallMsg

\* A session amidst a call of a reader.
LEMMA CallFacts ==
  ASSUME TypeInv, NEW c \in Sessions, Op(c) \in Calls
  PROVE  LET x == At(c)
             y == sess[c].msg.via
             n == sess[c].msg.index
         IN  /\ Shape /\ x \in Sites /\ y \in Neighbours(x) /\ y \in Sites
             /\ n \in Nat \ {0} /\ sess[c].msg = CallMsg(Op(c), n, y)
             /\ sess[c].src \in Sites /\ sess[c].chain \in Seq(Sites)
             /\ Len(sess[c].chain) > 0 /\ sess[c].chain[1] = sess[c].src
             /\ \/ Len(sess[c].chain) = 1 /\ Op(c) \in {"TEST", "UNDO"} /\ x = sess[c].src
                \/ /\ Len(sess[c].chain) = 2 /\ Op(c) \in {"TAKE", "UNDO"}
                   /\ y = sess[c].src /\ x # sess[c].src
  <1>1. /\ Shape /\ At(c) \in Sites /\ sess[c].chain[1] = sess[c].src /\ sess[c].src \in Sites
        /\ sess[c].chain \in Seq(Sites) /\ Len(sess[c].chain) > 0 /\ ChainOK(sess[c])
    BY SessionFacts DEF Calls
  <1>2. CallOK(sess[c].msg, sess[c].chain, sess[c].src)
    BY <1>1 DEF ChainOK, LengthOK, Op
  <1>3. sess[c].msg.via \in Neighbours(At(c))
    BY <1>2 DEF CallOK, At
  <1>4. sess[c].msg.via \in Sites /\ sess[c].msg.via # At(c)
    BY <1>1, <1>3, NeighbourProperties
  <1>5. Len(sess[c].chain) = 1 => At(c) = sess[c].src
    BY <1>1 DEF At
  <1> QED BY <1>1, <1>2, <1>3, <1>4, <1>5 DEF CallOK, Op

\* TestFile, at the source: the index goes to the next hop if its file exists,
\* and is to be undone if not.
LEMMA TestFileMoves ==
  ASSUME TypeInv, NEW c \in Sessions, TestFile(c)
  PROVE  LET x == At(c)
             y == sess[c].msg.via
             n == sess[c].msg.index
         IN  /\ Op(c) = "TEST" /\ x = sess[c].src /\ Len(sess[c].chain) = 1
             /\ UNCHANGED <<counter, misread>>
             /\ \/ /\ HasFile(x, y, n \div BlocksPerFile)
                   /\ Moved(c, Append(sess[c].chain, y), Msg("REQ_POST_KP_BLOCK_INDEX", n, {}))
                \/ /\ ~ HasFile(x, y, n \div BlocksPerFile)
                   /\ Moved(c, sess[c].chain, CallMsg("UNDO", n, y))
  <1> DEFINE y == sess[c].msg.via
             n == sess[c].msg.index
  <1>1. Op(c) = "TEST" /\ UNCHANGED <<counter, misread>>
    BY DEF TestFile
  <1>2. /\ Shape /\ At(c) = sess[c].src /\ Len(sess[c].chain) = 1 /\ n \in Nat \ {0}
        /\ y \in Sites /\ sess[c].msg = CallMsg(Op(c), n, y)
    BY <1>1, CallFacts DEF Calls
  <1>3. [sess[c].msg EXCEPT !.op = "UNDO"] = CallMsg("UNDO", n, y)
    BY <1>2, UndoneMsg
  <1>4. /\ Msg("REQ_POST_KP_BLOCK_INDEX", n, {}) \in Messages
        /\ CallMsg("UNDO", n, y) \in Messages
    <2>1. "UNDO" \in Ops /\ "REQ_POST_KP_BLOCK_INDEX" \in Ops /\ n \in Int
      BY <1>2 DEF Ops, Calls
    <2> HIDE DEF n, y
    <2> QED BY <1>2, <2>1, MessageTypes
  <1>5. IF HasFile(At(c), y, n \div BlocksPerFile)
        THEN Forward(c, y, Msg("REQ_POST_KP_BLOCK_INDEX", n, {}))
        ELSE SetMsg(c, CallMsg("UNDO", n, y))
    BY <1>3 DEF TestFile
  <1> HIDE DEF n, y
  <1>6. \/ /\ HasFile(At(c), y, n \div BlocksPerFile)
           /\ Moved(c, Append(sess[c].chain, y), Msg("REQ_POST_KP_BLOCK_INDEX", n, {}))
        \/ /\ ~ HasFile(At(c), y, n \div BlocksPerFile)
           /\ Moved(c, sess[c].chain, CallMsg("UNDO", n, y))
    BY <1>2, <1>4, <1>5, SetMsgMoves, ForwardMoves
  <1> QED BY <1>1, <1>2, <1>6 DEF n, y

\* Undo takes back an addAndGet(len); the source goes on with an index of -1.
LEMMA UndoMoves ==
  ASSUME TypeInv, NEW c \in Sessions, Undo(c)
  PROVE  LET x == At(c)
             y == sess[c].msg.via
         IN  /\ Op(c) = "UNDO" /\ UNCHANGED misread
             /\ counter' = [counter EXCEPT ![x][y] = @ - 1]
             /\ \/ /\ x = sess[c].src /\ Len(sess[c].chain) = 1
                   /\ Moved(c, Append(sess[c].chain, y), Msg("REQ_POST_KP_BLOCK_INDEX", -1, {}))
                \/ x # sess[c].src /\ Moved(c, sess[c].chain, NoMsg)
  <1> DEFINE y == sess[c].msg.via
  <1>1. /\ Op(c) = "UNDO" /\ UNCHANGED misread
        /\ counter' = [counter EXCEPT ![At(c)][y] = @ - 1]
    BY DEF Undo
  <1>2. /\ Shape /\ y \in Sites /\ (At(c) = sess[c].src => Len(sess[c].chain) = 1)
    BY <1>1, CallFacts DEF Calls
  <1>3. Msg("REQ_POST_KP_BLOCK_INDEX", -1, {}) \in Messages
    BY MessageTypes DEF Ops
  <1>4. IF At(c) = sess[c].src
        THEN Forward(c, y, Msg("REQ_POST_KP_BLOCK_INDEX", -1, {})) ELSE SetMsg(c, NoMsg)
    BY DEF Undo, Drop
  <1> HIDE DEF y
  <1>5. \/ /\ At(c) = sess[c].src /\ Len(sess[c].chain) = 1
           /\ Moved(c, Append(sess[c].chain, y), Msg("REQ_POST_KP_BLOCK_INDEX", -1, {}))
        \/ At(c) # sess[c].src /\ Moved(c, sess[c].chain, NoMsg)
    BY <1>2, <1>3, <1>4, SetMsgMoves, ForwardMoves, MessageTypes
  <1> QED BY <1>1, <1>5 DEF y

\* The request for the local KMS, as PostAlloc makes it.
AllocMsg(n, respOp, data) ==
    [op |-> "REQ_POST_ALLOC", index |-> n, respOp |-> respOp, data |-> data, via |-> NoSite]

LEMMA AllocMsgType ==
  ASSUME NEW n \in Int, NEW respOp \in Ops, NEW data \in SUBSET KeyBlocks
  PROVE  /\ AllocMsg(n, respOp, data) \in Messages
         /\ AllocMsg(n, respOp, data).op = "REQ_POST_ALLOC"
         /\ AllocMsg(n, respOp, data).index = n
         /\ AllocMsg(n, respOp, data).respOp = respOp
         /\ AllocMsg(n, respOp, data).data = data
  BY DEF AllocMsg, Messages, Ops

LEMMA PostAllocMsg ==
  ASSUME NEW m \in Messages, NEW data, NEW respOp
  PROVE  PostAlloc(m, data, respOp) = AllocMsg(m.index, respOp, data)
  BY DEF PostAlloc, Msg, AllocMsg

\* The outcomes of PassOn with what is read of block n of the link to the source.
PassedOn(c, n, respOp) ==
    LET x == At(c)
        y == NextHop(x, sess[c].dst)
        key == {ReadBlock(x, sess[c].src, n)}
    IN  \/ Moved(c, sess[c].chain, NoMsg)
        \/ /\ x = sess[c].dst
           /\ Moved(c, sess[c].chain, AllocMsg(n, respOp, key))
        \/ /\ x # sess[c].dst /\ y \in Neighbours(x)
           /\ Moved(c, Append(sess[c].chain, y),
                    Msg("REQ_POST_PEER_ALLOC", n, Xor(key, OTPKey(x, y))))

\* PassOn hands the block to the local KMS, or pads it for a neighbour.
LEMMA PassOnMoves ==
  ASSUME TypeInv, NEW c \in Sessions, NEW n \in Nat, NEW respOp \in IndexResponses,
         Op(c) \notin {"none", "RESP_GET_ALLOC"}, sess[c].src \in Neighbours(At(c)),
         PassOn(c, n, respOp)
  PROVE  PassedOn(c, n, respOp)
  <1> DEFINE x == At(c)
             y == NextHop(x, sess[c].dst)
             m == [sess[c].msg EXCEPT !.index = n]
             key == {ReadBlock(x, sess[c].src, n)}
  <1>1. /\ sess[c].src \in Sites /\ sess[c].dst \in Sites /\ x \in Sites
        /\ Shape /\ sess[c].msg \in Messages
    BY SessionFacts
  <1>2. m.index = n
    BY <1>1 DEF Messages
  <1>3. key \in SUBSET KeyBlocks
    <2>1. ReadBlock(x, sess[c].src, n) \in KeyBlocks
      BY <1>1, ReadBlockType
    <2> QED BY <2>1
  <1>4. y \in Neighbours(x) \cup {NoSite}
    BY <1>1, NextHopType
  <1>5. \/ x = sess[c].dst /\ SetMsg(c, PostAlloc(m, key, respOp))
        \/ SetMsg(c, NoMsg)
        \/ x # sess[c].dst /\ y # NoSite /\ Forward(c, y, PeerAlloc(m, key, x, y))
    BY DEF PassOn, Drop
  <1>6. ASSUME x = sess[c].dst, SetMsg(c, PostAlloc(m, key, respOp))
        PROVE  PassedOn(c, n, respOp)
    <2>0. m \in Messages
      BY <1>1 DEF Messages
    <2>1. PostAlloc(m, key, respOp) = AllocMsg(n, respOp, key)
      <3> HIDE DEF m, key
      <3> QED BY <1>2, <2>0, PostAllocMsg
    <2>2. AllocMsg(n, respOp, key) \in Messages
      <3>1. respOp \in Ops /\ n \in Int
        BY DEF IndexResponses, Ops
      <3> QED BY <1>3, <3>1, AllocMsgType
    <2>3. Moved(c, sess[c].chain, AllocMsg(n, respOp, key))
      BY <1>1, <1>6, <2>1, <2>2, SetMsgMoves
    <2> QED BY <1>6, <2>3 DEF PassedOn
  <1>7. ASSUME SetMsg(c, NoMsg) PROVE PassedOn(c, n, respOp)
    BY <1>1, <1>7, SetMsgMoves, MessageTypes DEF PassedOn
  <1>8. ASSUME x # sess[c].dst, y # NoSite, Forward(c, y, PeerAlloc(m, key, x, y))
        PROVE  PassedOn(c, n, respOp)
    <2>1. y \in Neighbours(x) /\ y \in Sites /\ OTPKey(x, y) \in KeyBlocks
      BY <1>1, <1>4, <1>8, NeighbourProperties
    <2>2. PeerAlloc(m, key, x, y) = Msg("REQ_POST_PEER_ALLOC", n, Xor(key, OTPKey(x, y)))
      BY <1>2 DEF PeerAlloc
    <2>3. Xor(key, OTPKey(x, y)) \in SUBSET KeyBlocks
      BY <1>3, <2>1, XorType
    <2>4. Msg("REQ_POST_PEER_ALLOC", n, Xor(key, OTPKey(x, y))) \in Messages
      <3>1. "REQ_POST_PEER_ALLOC" \in Ops /\ n \in Int
        BY DEF Ops
      <3> HIDE DEF x, y, key
      <3> QED BY <2>3, <3>1, MessageTypes
    <2>5. Moved(c, Append(sess[c].chain, y),
                Msg("REQ_POST_PEER_ALLOC", n, Xor(key, OTPKey(x, y))))
      BY <1>1, <1>8, <2>1, <2>2, <2>4, ForwardMoves
    <2> QED BY <1>8, <2>1, <2>5 DEF PassedOn
  <1> QED BY <1>5, <1>6, <1>7, <1>8

\* A block that was read is passed on or dropped.
LEMMA PassOnReadMoves ==
  ASSUME TypeInv, NEW c \in Sessions, NEW n \in Nat, NEW respOp \in IndexResponses,
         Op(c) \notin {"none", "RESP_GET_ALLOC"}, sess[c].src \in Neighbours(At(c)),
         PassOnRead(c, At(c), sess[c].src, n, respOp)
  PROVE  PassedOn(c, n, respOp)
  <1>1. CASE PassOn(c, n, respOp)
    BY <1>1, PassOnMoves
  <1>2. CASE SetMsg(c, NoMsg)
    BY <1>2, SessionFacts, SetMsgMoves, MessageTypes DEF PassedOn
  <1> QED BY <1>1, <1>2 DEF PassOnRead, Drop

\* PostBlockIndex, at the first hop: the message is dropped, or the block at
\* its index is passed on.
LEMMA PostBlockIndexMoves ==
  ASSUME TypeInv, NEW c \in Sessions, PostBlockIndex(c)
  PROVE  LET n == sess[c].msg.index
         IN  /\ Op(c) = "REQ_POST_KP_BLOCK_INDEX" /\ Len(sess[c].chain) = 2
             /\ UNCHANGED counter
             /\ \/ Moved(c, sess[c].chain, NoMsg) /\ UNCHANGED misread
                \/ /\ n \in Nat /\ sess[c].src \in Neighbours(At(c))
                   /\ CanRead(At(c), sess[c].src, n) /\ Reads(c, At(c), sess[c].src, n)
                   /\ PassedOn(c, n, "RESP_POST_KP_BLOCK_INDEX")
  <1> DEFINE n == sess[c].msg.index
  <1>1. Op(c) = "REQ_POST_KP_BLOCK_INDEX" /\ UNCHANGED counter
    BY DEF PostBlockIndex
  <1>2. Shape /\ Len(sess[c].chain) = 2 /\ n \in Int
    BY <1>1, SessionFacts DEF ChainOK, LengthOK, CallOK, Calls, Op, Messages
  <1>3. CASE sess[c].src \in Neighbours(At(c)) /\ CanRead(At(c), sess[c].src, n)
    <2>1. n \in Nat
      BY <1>2, <1>3 DEF CanRead
    <2>2. /\ PassOnRead(c, At(c), sess[c].src, n, "RESP_POST_KP_BLOCK_INDEX")
          /\ Reads(c, At(c), sess[c].src, n)
      BY <1>3 DEF PostBlockIndex
    <2>3. PassedOn(c, n, "RESP_POST_KP_BLOCK_INDEX")
      BY <1>1, <1>3, <2>1, <2>2, PassOnReadMoves DEF IndexResponses
    <2> QED BY <1>1, <1>2, <1>3, <2>1, <2>2, <2>3
  <1>4. CASE ~ (sess[c].src \in Neighbours(At(c)) /\ CanRead(At(c), sess[c].src, n))
    <2>1. SetMsg(c, NoMsg) /\ UNCHANGED misread
      BY <1>4 DEF PostBlockIndex, Drop
    <2> QED BY <1>1, <1>2, <2>1, SetMsgMoves, MessageTypes
  <1> QED BY <1>3, <1>4

\* GetBlockIndex, at the first hop: the message is dropped, or the next index
\* of the link to the source is counted.
LEMMA GetBlockIndexMoves ==
  ASSUME TypeInv, NEW c \in Sessions, GetBlockIndex(c)
  PROVE  LET x == At(c)
             s == sess[c].src
             n == counter[x][s] + 1
         IN  /\ Op(c) = "REQ_GET_KP_BLOCK_INDEX" /\ Len(sess[c].chain) = 2
             /\ UNCHANGED misread
             /\ \/ Moved(c, sess[c].chain, NoMsg) /\ UNCHANGED counter
                \/ /\ s \in Neighbours(x) /\ n \in Nat
                   /\ counter' = [counter EXCEPT ![x][s] = @ + 1]
                   /\ Moved(c, sess[c].chain, CallMsg("TAKE", n, s))
  <1> DEFINE x == At(c)
             s == sess[c].src
             n == counter[x][s] + 1
  <1>1. Op(c) = "REQ_GET_KP_BLOCK_INDEX" /\ UNCHANGED misread
    BY DEF GetBlockIndex
  <1>2. Shape /\ Len(sess[c].chain) = 2 /\ x \in Sites /\ s \in Sites
    BY <1>1, SessionFacts DEF ChainOK, LengthOK, CallOK, Calls, Op
  <1>3. CASE s \in Neighbours(x)
    <2>1. n \in Nat
      BY <1>2, <1>3 DEF TypeInv, TypeOK
    <2>2. AddAndGet(c, x, s, "TAKE")
      BY <1>3 DEF GetBlockIndex
    <2>3. /\ SetMsg(c, CallMsg("TAKE", n, s))
          /\ counter' = [counter EXCEPT ![x][s] = @ + 1]
      BY <2>2 DEF AddAndGet, CallMsg, Msg
    <2>4. CallMsg("TAKE", n, s) \in Messages
      <3>1. "TAKE" \in Ops /\ n \in Int
        BY <2>1 DEF Ops, Calls
      <3> HIDE DEF n, s, x
      <3> QED BY <1>2, <3>1, MessageTypes
    <2>5. Moved(c, sess[c].chain, CallMsg("TAKE", n, s))
      BY <1>2, <2>3, <2>4, SetMsgMoves
    <2> QED BY <1>1, <1>2, <1>3, <2>1, <2>3, <2>5
  <1>4. CASE s \notin Neighbours(x)
    <2>1. SetMsg(c, NoMsg) /\ UNCHANGED counter
      BY <1>4 DEF GetBlockIndex, Drop
    <2> QED BY <1>1, <1>2, <2>1, SetMsgMoves, MessageTypes
  <1> QED BY <1>3, <1>4

\* TakeBlock: the block is passed on, or its index is to be undone if its file
\* does not exist.
LEMMA TakeBlockMoves ==
  ASSUME TypeInv, NEW c \in Sessions, TakeBlock(c)
  PROVE  LET x == At(c)
             s == sess[c].src
             n == sess[c].msg.index
         IN  /\ Op(c) = "TAKE" /\ Len(sess[c].chain) = 2 /\ x # s
             /\ s \in Neighbours(x) /\ n \in Nat \ {0} /\ sess[c].msg.via = s
             /\ UNCHANGED counter
             /\ \/ /\ CanRead(x, s, n) /\ Reads(c, x, s, n)
                   /\ PassedOn(c, n, "RESP_GET_KP_BLOCK_INDEX")
                \/ /\ ~ CanRead(x, s, n) /\ UNCHANGED misread
                   /\ Moved(c, sess[c].chain, CallMsg("UNDO", n, s))
  <1> DEFINE x == At(c)
             s == sess[c].src
             n == sess[c].msg.index
  <1>1. Op(c) = "TAKE" /\ UNCHANGED counter
    BY DEF TakeBlock
  <1>2. /\ Shape /\ Len(sess[c].chain) = 2 /\ n \in Nat \ {0} /\ x \in Sites /\ s \in Sites
        /\ sess[c].msg.via = s /\ x # s /\ s \in Neighbours(x)
        /\ sess[c].msg = CallMsg("TAKE", n, s)
    BY <1>1, CallFacts DEF Calls
  <1>3. CASE CanRead(x, s, n)
    <2>1. PassOnRead(c, x, s, n, "RESP_GET_KP_BLOCK_INDEX") /\ Reads(c, x, s, n)
      BY <1>2, <1>3 DEF TakeBlock
    <2>2. PassedOn(c, n, "RESP_GET_KP_BLOCK_INDEX")
      BY <1>1, <1>2, <2>1, PassOnReadMoves DEF IndexResponses
    <2> QED BY <1>1, <1>2, <1>3, <2>1, <2>2
  <1>4. CASE ~ CanRead(x, s, n)
    <2>1. [sess[c].msg EXCEPT !.op = "UNDO"] = CallMsg("UNDO", n, s)
      BY <1>2, UndoneMsg
    <2>2. SetMsg(c, CallMsg("UNDO", n, s)) /\ UNCHANGED misread
      BY <1>2, <1>4, <2>1 DEF TakeBlock, Reads
    <2>3. CallMsg("UNDO", n, s) \in Messages
      <3>1. "UNDO" \in Ops /\ n \in Int
        BY <1>2 DEF Ops, Calls
      <3> HIDE DEF n, s, x
      <3> QED BY <1>2, <3>1, MessageTypes
    <2>4. Moved(c, sess[c].chain, CallMsg("UNDO", n, s))
      BY <1>2, <2>2, <2>3, SetMsgMoves
    <2> QED BY <1>1, <1>2, <1>4, <2>2, <2>4
  <1> QED BY <1>3, <1>4

\* PostPeerAlloc: the message is dropped, unpadded for the local KMS, or
\* unpadded and padded again for a neighbour.
LEMMA PostPeerAllocMoves ==
  ASSUME TypeInv, NEW c \in Sessions, PostPeerAlloc(c)
  PROVE  LET x == At(c)
             m == sess[c].msg
             back == NextHop(x, sess[c].src)
             y == NextHop(x, sess[c].dst)
             clear == IF back = NoSite THEN m.data ELSE Xor(m.data, OTPKey(x, back))
         IN  /\ Op(c) = "REQ_POST_PEER_ALLOC" /\ Len(sess[c].chain) >= 3
             /\ \/ Moved(c, sess[c].chain, NoMsg)
                \/ /\ x = sess[c].dst /\ back \in Neighbours(x)
                   /\ Moved(c, sess[c].chain, AllocMsg(m.index, "RESP_POST_PEER_ALLOC", clear))
                \/ /\ x # sess[c].dst /\ y \in Neighbours(x)
                   /\ Moved(c, Append(sess[c].chain, y),
                            Msg("REQ_POST_PEER_ALLOC", m.index, Xor(clear, OTPKey(x, y))))
  <1> DEFINE x == At(c)
             m == sess[c].msg
             back == NextHop(x, sess[c].src)
             y == NextHop(x, sess[c].dst)
             clear == IF back = NoSite THEN m.data ELSE Xor(m.data, OTPKey(x, back))
  <1>1. Op(c) = "REQ_POST_PEER_ALLOC"
    BY DEF PostPeerAlloc
  <1>2. /\ Shape /\ Len(sess[c].chain) >= 3 /\ m \in Messages
        /\ x \in Sites /\ sess[c].src \in Sites /\ sess[c].dst \in Sites
    BY <1>1, SessionFacts DEF ChainOK, LengthOK, CallOK, Calls, Op
  <1>3. m.index \in Int /\ m.data \in SUBSET KeyBlocks
    BY <1>2 DEF Messages
  <1>4. y \in Neighbours(x) \cup {NoSite} /\ back \in Neighbours(x) \cup {NoSite}
    BY <1>2, NextHopType
  <1>5. clear \in SUBSET KeyBlocks
    <2>1. CASE back = NoSite
      BY <1>3, <2>1
    <2>2. CASE back # NoSite
      <3>1. OTPKey(x, back) \in KeyBlocks
        BY <1>2, <1>4, <2>2, NeighbourProperties
      <3>2. Xor(m.data, OTPKey(x, back)) \in SUBSET KeyBlocks
        BY <1>3, <3>1, XorType
      <3> QED BY <2>2, <3>2
    <2> QED BY <2>1, <2>2
  <1>6. \/ SetMsg(c, NoMsg)
        \/ /\ x = sess[c].dst /\ back # NoSite
           /\ SetMsg(c, PostAlloc(m, clear, "RESP_POST_PEER_ALLOC"))
        \/ x # sess[c].dst /\ y # NoSite /\ Forward(c, y, PeerAlloc(m, clear, x, y))
    BY DEF PostPeerAlloc, Drop
  <1>7. CASE SetMsg(c, NoMsg)
    BY <1>1, <1>2, <1>7, SetMsgMoves, MessageTypes
  <1>8. CASE /\ x = sess[c].dst /\ back # NoSite
             /\ SetMsg(c, PostAlloc(m, clear, "RESP_POST_PEER_ALLOC"))
    <2>1. PostAlloc(m, clear, "RESP_POST_PEER_ALLOC")
             = AllocMsg(m.index, "RESP_POST_PEER_ALLOC", clear)
      BY <1>2, PostAllocMsg
    <2>2. "RESP_POST_PEER_ALLOC" \in Ops
      BY DEF Ops
    <2> HIDE DEF x, back, clear, m
    <2>3. AllocMsg(m.index, "RESP_POST_PEER_ALLOC", clear) \in Messages
      BY <1>3, <1>5, <2>2, AllocMsgType
    <2>4. Moved(c, sess[c].chain, AllocMsg(m.index, "RESP_POST_PEER_ALLOC", clear))
      BY <1>2, <1>8, <2>1, <2>3, SetMsgMoves
    <2>5. back \in Neighbours(x)
      BY <1>4, <1>8
    <2> QED BY <1>1, <1>2, <1>8, <2>4, <2>5, Zenon DEF x, back, clear, m
  <1>9. CASE x # sess[c].dst /\ y # NoSite /\ Forward(c, y, PeerAlloc(m, clear, x, y))
    <2>1. y \in Neighbours(x) /\ y \in Sites /\ OTPKey(x, y) \in KeyBlocks
      BY <1>2, <1>4, <1>9, NeighbourProperties
    <2>2. PeerAlloc(m, clear, x, y)
             = Msg("REQ_POST_PEER_ALLOC", m.index, Xor(clear, OTPKey(x, y)))
      BY DEF PeerAlloc
    <2> HIDE DEF x, y, back, clear, m
    <2>3. Xor(clear, OTPKey(x, y)) \in SUBSET KeyBlocks
      BY <1>5, <2>1, XorType
    <2>4. "REQ_POST_PEER_ALLOC" \in Ops
      BY DEF Ops
    <2>5. Msg("REQ_POST_PEER_ALLOC", m.index, Xor(clear, OTPKey(x, y))) \in Messages
      BY <1>3, <2>3, <2>4, MessageTypes
    <2>6. Moved(c, Append(sess[c].chain, y),
                Msg("REQ_POST_PEER_ALLOC", m.index, Xor(clear, OTPKey(x, y))))
      BY <1>2, <1>9, <2>1, <2>2, <2>5, ForwardMoves
    <2> QED BY <1>1, <1>2, <1>9, <2>1, <2>6, Zenon DEF x, y, back, clear, m
  <1> QED BY <1>6, <1>7, <1>8, <1>9

\* A message of operation o for the same block as m.
Follows(r, m, o) == r \in Messages /\ r.op = o /\ r.index = m.index

\* StoreAtKMS writes the key file, unless the disk fails, and answers.
LEMMA StoreAtKMSMoves ==
  ASSUME TypeInv, NEW c \in Sessions, StoreAtKMS(c)
  PROVE  LET m == sess[c].msg
             copy == [src |-> sess[c].src, dst |-> sess[c].dst, uuid |-> c, block |-> m.data]
         IN  /\ Op(c) = "REQ_POST_ALLOC" /\ Len(sess[c].chain) >= 2 /\ copy \in Copies
             /\ stored' = stored \cup {copy} \/ (DiskFails /\ UNCHANGED stored)
             /\ \E r : /\ r = NoMsg \/ (Follows(r, m, "RESP_POST_ALLOC") /\ r.respOp = m.respOp)
                       /\ Moved(c, sess[c].chain, r)
  <1> DEFINE m == sess[c].msg
             copy == [src |-> sess[c].src, dst |-> sess[c].dst, uuid |-> c, block |-> m.data]
             n == [m EXCEPT !.op = "RESP_POST_ALLOC", !.data = {}]
  <1>1. Op(c) = "REQ_POST_ALLOC"
    BY DEF StoreAtKMS
  <1>2. /\ Shape /\ Len(sess[c].chain) >= 2 /\ m \in Messages
        /\ sess[c].src \in Sites /\ sess[c].dst \in Sites
    BY <1>1, SessionFacts DEF ChainOK, LengthOK, CallOK, Calls, Op
  <1>3. Follows(n, m, "RESP_POST_ALLOC") /\ n.respOp = m.respOp
    BY <1>2 DEF Follows, Messages, Ops
  <1>4. copy \in Copies
    BY <1>2 DEF Copies, Messages
  <1>5. stored' = stored \cup {copy} \/ (DiskFails /\ UNCHANGED stored)
    BY DEF StoreAtKMS
  <1>6. SetMsg(c, n) \/ SetMsg(c, NoMsg)
    BY DEF StoreAtKMS
  <1> HIDE DEF n
  <1>7. \E r : /\ r = NoMsg \/ (Follows(r, m, "RESP_POST_ALLOC") /\ r.respOp = m.respOp)
               /\ Moved(c, sess[c].chain, r)
    BY <1>2, <1>3, <1>6, SetMsgMoves, MessageTypes DEF Follows
  <1> QED BY <1>1, <1>2, <1>4, <1>5, <1>7

\* RespPostAlloc answers the operation that was to be answered.
LEMMA RespPostAllocMoves ==
  ASSUME TypeInv, NEW c \in Sessions, RespPostAlloc(c)
  PROVE  /\ Op(c) = "RESP_POST_ALLOC" /\ Len(sess[c].chain) >= 2
         /\ \E r : /\ r = NoMsg \/ Follows(r, sess[c].msg, sess[c].msg.respOp)
                   /\ Moved(c, Front(sess[c].chain), r)
  <1> DEFINE m == sess[c].msg
             n == [m EXCEPT !.op = m.respOp, !.respOp = "none"]
  <1>1. Op(c) = "RESP_POST_ALLOC" /\ Reply(c, n)
    BY DEF RespPostAlloc
  <1>2. Shape /\ Len(sess[c].chain) >= 2 /\ m \in Messages /\ sess[c].chain \in Seq(Sites)
    BY <1>1, SessionFacts DEF ChainOK, LengthOK, CallOK, Calls, Op
  <1>3. Follows(n, m, m.respOp)
    BY <1>2 DEF Follows, Messages, Ops
  <1> HIDE DEF n
  <1>4. \E r \in {n, NoMsg} : Moved(c, Front(sess[c].chain), r)
    BY <1>1, <1>2, <1>3, ReplyMoves DEF Follows
  <1> QED BY <1>1, <1>2, <1>3, <1>4

\* RespPostPeerAlloc drops the response at the source, turns it into the one
\* for the link where the next hop back is the source, or passes it on.
LEMMA RespPostPeerAllocMoves ==
  ASSUME TypeInv, NEW c \in Sessions, RespPostPeerAlloc(c)
  PROVE  LET m == sess[c].msg
             back == NextHop(At(c), sess[c].src)
         IN  /\ Op(c) = "RESP_POST_PEER_ALLOC"
             /\ \/ Moved(c, sess[c].chain, NoMsg)
                \/ /\ Len(sess[c].chain) >= 2
                   /\ \E r : /\ \/ r = NoMsg
                                \/ back = sess[c].src /\ \E o \in IndexResponses : Follows(r, m, o)
                                \/ back # sess[c].src /\ Follows(r, m, "RESP_POST_PEER_ALLOC")
                             /\ Moved(c, Front(sess[c].chain), r)
  <1> DEFINE x == At(c)
             m == sess[c].msg
             back == NextHop(x, sess[c].src)
             o == IF x < sess[c].src THEN "RESP_GET_KP_BLOCK_INDEX"
                                     ELSE "RESP_POST_KP_BLOCK_INDEX"
             n == [m EXCEPT !.op = o]
  <1>1. Op(c) = "RESP_POST_PEER_ALLOC"
    BY DEF RespPostPeerAlloc
  <1>2. /\ Shape /\ Len(sess[c].chain) > 0 /\ m \in Messages /\ x \in Sites
        /\ sess[c].chain \in Seq(Sites) /\ sess[c].src \in Sites
        /\ sess[c].chain[1] = sess[c].src
    BY <1>1, SessionFacts
  <1>3. ASSUME back # NoSite PROVE Len(sess[c].chain) >= 2
    <2>1. x # sess[c].src
      BY <1>2, <1>3, NextHopType
    <2>2. Len(sess[c].chain) # 1
      BY <1>2, <2>1 DEF At
    <2> DEFINE k == Len(sess[c].chain)
    <2>3. k \in Nat /\ k > 0 /\ k # 1
      BY <1>2, <2>2
    <2> HIDE DEF k
    <2>4. k >= 2
      BY <2>3
    <2> QED BY <2>4 DEF k
  <1>4. \/ SetMsg(c, NoMsg)
        \/ back # NoSite /\ back = sess[c].src /\ Reply(c, n)
        \/ back # NoSite /\ back # sess[c].src /\ Reply(c, m)
    <2>1. sess[c].src # NoSite
      BY <1>2, SiteAssumption
    <2> QED BY <2>1 DEF RespPostPeerAlloc, Drop
  <1>5. o \in IndexResponses
    BY DEF IndexResponses
  <1>6. Follows(m, m, "RESP_POST_PEER_ALLOC") /\ Follows(n, m, o)
    <2> HIDE DEF o
    <2>1. o \in Ops
      BY <1>5 DEF IndexResponses, Ops
    <2> QED BY <1>1, <1>2, <2>1 DEF Follows, Messages, Op
  <1> HIDE DEF n, o
  <1>7. CASE SetMsg(c, NoMsg)
    BY <1>1, <1>2, <1>7, SetMsgMoves, MessageTypes
  <1>8. CASE back # NoSite /\ back = sess[c].src /\ Reply(c, n)
    <2>1. \E r \in {n, NoMsg} : Moved(c, Front(sess[c].chain), r)
      BY <1>2, <1>6, <1>8, ReplyMoves DEF Follows
    <2> QED BY <1>1, <1>3, <1>5, <1>6, <1>8, <2>1
  <1>9. CASE back # NoSite /\ back # sess[c].src /\ Reply(c, m)
    <2>1. \E r \in {m, NoMsg} : Moved(c, Front(sess[c].chain), r)
      BY <1>2, <1>9, ReplyMoves
    <2> QED BY <1>1, <1>3, <1>6, <1>9, <2>1
  <1> QED BY <1>4, <1>7, <1>8, <1>9

\* RespBlockIndex drops the response, or answers the KMS with the block on the
\* link to the next hop.
LEMMA RespBlockIndexMoves ==
  ASSUME TypeInv, NEW c \in Sessions, RespBlockIndex(c)
  PROVE  LET x == At(c)
             y == NextHop(x, sess[c].dst)
             n == sess[c].msg.index
             m == Msg("RESP_GET_ALLOC", 0, {ReadBlock(x, y, n)})
         IN  /\ Op(c) \in IndexResponses /\ misread' \in {misread, misread \cup {c}}
             /\ \/ Moved(c, sess[c].chain, NoMsg)
                \/ /\ y \in Neighbours(x) /\ n \in Nat /\ Len(sess[c].chain) > 0
                   /\ CanRead(x, y, n) /\ Reads(c, x, y, n)
                   /\ m \in Messages /\ m.op = "RESP_GET_ALLOC" /\ m.data = {ReadBlock(x, y, n)}
                   /\ \E r \in {m, NoMsg} : Moved(c, Front(sess[c].chain), r)
  <1> DEFINE x == At(c)
             y == NextHop(x, sess[c].dst)
             n == sess[c].msg.index
             m == Msg("RESP_GET_ALLOC", 0, {ReadBlock(x, y, n)})
  <1>1. Op(c) \in IndexResponses /\ misread' \in {misread, misread \cup {c}}
    BY DEF RespBlockIndex, IndexResponses, Reads
  <1>2. /\ Shape /\ Len(sess[c].chain) > 0 /\ sess[c].msg \in Messages /\ x \in Sites
        /\ sess[c].chain \in Seq(Sites) /\ sess[c].dst \in Sites
    BY <1>1, SessionFacts DEF IndexResponses
  <1>3. y \in Neighbours(x) \cup {NoSite} /\ n \in Int
    BY <1>2, NextHopType DEF Messages
  <1>4. CASE y # NoSite /\ CanRead(x, y, n)
    <2>1. y \in Neighbours(x) /\ n \in Nat
      BY <1>3, <1>4 DEF CanRead
    <2>2. ReadBlock(x, y, n) \in KeyBlocks
      BY <1>2, <2>1, ReadBlockType
    <2>3. "RESP_GET_ALLOC" \in Ops /\ {ReadBlock(x, y, n)} \in SUBSET KeyBlocks
      BY <2>2 DEF Ops
    <2>4. m \in Messages /\ m.op = "RESP_GET_ALLOC" /\ m.data = {ReadBlock(x, y, n)}
      BY <2>3, MessageTypes
    <2>5. Reads(c, x, y, n) /\ (Reply(c, m) \/ SetMsg(c, NoMsg))
      BY <1>4 DEF RespBlockIndex, Drop
    <2>6. CASE Reply(c, m)
      <3>1. \E r \in {m, NoMsg} : Moved(c, Front(sess[c].chain), r)
        <4> HIDE DEF m
        <4> QED BY <1>2, <2>4, <2>6, ReplyMoves
      <3> QED BY <1>1, <1>2, <1>4, <2>1, <2>4, <2>5, <3>1
    <2>7. CASE SetMsg(c, NoMsg)
      BY <1>1, <1>2, <2>7, SetMsgMoves, MessageTypes
    <2> QED BY <2>5, <2>6, <2>7
  <1>5. CASE ~ (y # NoSite /\ CanRead(x, y, n))
    <2>1. SetMsg(c, NoMsg)
      BY <1>5 DEF RespBlockIndex, Drop
    <2> QED BY <1>1, <1>2, <2>1, SetMsgMoves, MessageTypes
  <1> QED BY <1>4, <1>5

-----------------------------------------------------------------------------
(* Type correctness.                                                        *)

\* The first site of a chain stays the first.
LEMMA ChainHead ==
  ASSUME NEW chain \in Seq(Sites), Len(chain) > 0
  PROVE  /\ chain # <<>>
         /\ \A y \in Sites : /\ Append(chain, y) \in Seq(Sites)
                             /\ Append(chain, y)[1] = chain[1]
                             /\ Len(Append(chain, y)) = Len(chain) + 1
         /\ Front(chain) # <<>> => Front(chain)[1] = chain[1] /\ Len(chain) >= 2
  <1>1. chain # <<>>
    OBVIOUS
  <1>2. ASSUME NEW y \in Sites
        PROVE  /\ Append(chain, y) \in Seq(Sites)
               /\ Append(chain, y)[1] = chain[1]
               /\ Len(Append(chain, y)) = Len(chain) + 1
    OBVIOUS
  <1>3. ASSUME Front(chain) # <<>>
        PROVE  Front(chain)[1] = chain[1] /\ Len(chain) >= 2
    <2> DEFINE f == Front(chain)
    <2>1. f \in Seq(Sites) /\ Len(f) = Len(chain) - 1
      BY FrontProperties
    <2>2. \A i \in 1 .. Len(chain) - 1 : f[i] = chain[i]
      BY FrontProperties
    <2> HIDE DEF f
    <2>3. f # <<>>
      BY <1>3 DEF f
    <2>4. Len(f) \in Nat /\ Len(f) > 0
      BY <2>1, <2>3
    <2>5. Len(chain) >= 2
      BY <2>1, <2>4
    <2>6. f[1] = chain[1]
      BY <2>2, <2>5
    <2> QED BY <2>5, <2>6 DEF f
  <1> QED BY <1>1, <1>2, <1>3

\* What Append adds to a chain.
LEMMA AppendFacts ==
  ASSUME NEW chain \in Seq(Sites), NEW y \in Sites
  PROVE  /\ Len(Append(chain, y)) = Len(chain) + 1
         /\ Append(chain, y)[Len(chain) + 1] = y
         /\ \A i \in 1 .. Len(chain) : Append(chain, y)[i] = chain[i]
  OBVIOUS

SessionsInv == sess \in [Sessions -> SessionStates]
               /\ \A c \in Sessions : SessionOK(sess[c]) /\ ChainOK(sess[c])

\* A session keeps its invariant when its chain keeps its first site and its
\* new message fits the chain.
LEMMA MovedFits ==
  ASSUME TypeInv, NEW c \in Sessions, NEW chain, NEW m, Moved(c, chain, m),
         Op(c) # "none",
         LengthOK(m, Len(chain)) \/ CallOK(m, chain, sess[c].src),
         m.op \notin {"none", "RESP_GET_ALLOC"} => Len(chain) >= 1,
         chain # <<>> => chain[1] = sess[c].src
  PROVE  SessionsInv'
  <1>1. sess' \in [Sessions -> SessionStates]
    BY DEF Moved
  <1>2. ASSUME NEW e \in Sessions, e # c PROVE SessionOK(sess'[e]) /\ ChainOK(sess'[e])
    BY <1>2 DEF Moved, TypeInv, TypeOK
  <1>3. /\ sess'[c].chain = chain /\ sess'[c].msg = m /\ sess'[c].kms = sess[c].kms
        /\ sess'[c].src = sess[c].src /\ sess'[c].dst = sess[c].dst
        /\ sess'[c].broken = sess[c].broken /\ sess'[c] \in SessionStates
    BY <1>1 DEF Moved
  <1>4. chain \in Seq(Sites) /\ m \in Messages
    BY <1>3 DEF SessionStates
  <1>5. m.op \notin {"none", "RESP_GET_ALLOC"} => chain # <<>>
    <2> SUFFICES ASSUME m.op \notin {"none", "RESP_GET_ALLOC"}, chain = <<>> PROVE FALSE
      OBVIOUS
    <2>1. Len(chain) >= 1
      OBVIOUS
    <2> QED BY <2>1
  <1>6. SessionOK(sess'[c])
    BY <1>3, <1>5 DEF SessionOK, SessionStates
  <1>7. ChainOK(sess'[c])
    BY <1>3, SessionFacts DEF ChainOK
  <1> QED BY <1>1, <1>2, <1>6, <1>7 DEF SessionsInv

LEMMA MovedInv ==
  ASSUME TypeInv, NEW c \in Sessions, NEW chain, NEW m, Moved(c, chain, m),
         Op(c) # "none", LengthOK(m, Len(chain)),
         chain # <<>> => chain[1] = sess[c].src
  PROVE  SessionsInv'
  <1>1. m.op \notin {"none", "RESP_GET_ALLOC"} => Len(chain) >= 1
    BY DEF LengthOK
  <1> QED BY <1>1, MovedFits

\* Losing the message keeps the invariant.
LEMMA DroppedInv ==
  ASSUME TypeInv, NEW c \in Sessions, Op(c) # "none",
         Moved(c, sess[c].chain, NoMsg) \/
           (Len(sess[c].chain) > 0 /\ Moved(c, Front(sess[c].chain), NoMsg))
  PROVE  SessionsInv'
  <1>1. \A k : LengthOK(NoMsg, k)
    BY DEF LengthOK, Calls, NoMsg, Msg
  <1>2. sess[c].chain # <<>> => sess[c].chain[1] = sess[c].src
    BY DEF TypeInv, TypeOK, SessionOK
  <1>3. CASE Moved(c, sess[c].chain, NoMsg)
    BY <1>1, <1>2, <1>3, MovedInv
  <1>4. CASE Len(sess[c].chain) > 0 /\ Moved(c, Front(sess[c].chain), NoMsg)
    <2>1. Front(sess[c].chain) # <<>> => Front(sess[c].chain)[1] = sess[c].src
      BY <1>2, <1>4, ChainHead, SessionFacts
    <2> QED BY <1>1, <1>4, <2>1, MovedInv
  <1> QED BY <1>3, <1>4

\* Passing a block on keeps the invariant.
LEMMA PassedOnInv ==
  ASSUME TypeInv, NEW c \in Sessions, NEW n \in Nat, NEW respOp \in IndexResponses,
         Op(c) \notin {"none", "RESP_GET_ALLOC"}, Len(sess[c].chain) = 2,
         sess[c].src \in Neighbours(At(c)), PassedOn(c, n, respOp)
  PROVE  SessionsInv'
  <1> DEFINE x == At(c)
             y == NextHop(x, sess[c].dst)
             key == {ReadBlock(x, sess[c].src, n)}
  <1>1. /\ sess[c].chain \in Seq(Sites) /\ Len(sess[c].chain) > 0 /\ x \in Sites
        /\ sess[c].chain[1] = sess[c].src
    BY SessionFacts
  <1>2. CASE Moved(c, sess[c].chain, NoMsg)
    BY <1>2, DroppedInv
  <1>3. CASE Moved(c, sess[c].chain, AllocMsg(n, respOp, key))
    <2>1. LengthOK(AllocMsg(n, respOp, key), 2)
      BY DEF LengthOK, Calls, AllocMsg, IndexResponses
    <2> QED BY <1>1, <1>3, <2>1, MovedInv
  <1>4. CASE /\ y \in Neighbours(x)
             /\ Moved(c, Append(sess[c].chain, y),
                      Msg("REQ_POST_PEER_ALLOC", n, Xor(key, OTPKey(x, y))))
    <2>1. y \in Sites
      BY <1>4 DEF Neighbours
    <2>2. LengthOK(Msg("REQ_POST_PEER_ALLOC", n, Xor(key, OTPKey(x, y))), 3)
      BY DEF LengthOK, Calls, Msg
    <2>3. /\ Len(Append(sess[c].chain, y)) = 3
          /\ Append(sess[c].chain, y)[1] = sess[c].src
      <3> HIDE DEF y
      <3>1. /\ Len(Append(sess[c].chain, y)) = Len(sess[c].chain) + 1
            /\ Append(sess[c].chain, y)[1] = sess[c].chain[1]
        BY <1>1, <2>1, ChainHead
      <3> QED BY <1>1, <3>1
    <2> QED BY <1>4, <2>2, <2>3, MovedInv
  <1> QED BY <1>2, <1>3, <1>4 DEF PassedOn

\* A call of a reader keeps the invariant ...
LEMMA CallInv ==
  ASSUME TypeInv, NEW c \in Sessions, Op(c) \notin {"none", "RESP_GET_ALLOC"},
         NEW op \in Calls, NEW n \in Nat \ {0}, NEW y \in Neighbours(At(c)),
         Moved(c, sess[c].chain, CallMsg(op, n, y)),
         \/ Len(sess[c].chain) = 1 /\ op \in {"TEST", "UNDO"}
         \/ Len(sess[c].chain) = 2 /\ op \in {"TAKE", "UNDO"} /\ y = sess[c].src
  PROVE  SessionsInv'
  <1> DEFINE m == CallMsg(op, n, y)
  <1>1. y \in Sites /\ op \in Ops /\ n \in Int
    BY DEF Neighbours, Ops
  <1>2. m.op = op /\ m.index = n /\ m.via = y /\ m = CallMsg(m.op, m.index, m.via)
    BY <1>1, MessageTypes
  <1> HIDE DEF m
  <1>3. CallOK(m, sess[c].chain, sess[c].src)
    BY <1>2 DEF CallOK, At
  <1>4. /\ sess[c].chain[1] = sess[c].src /\ sess[c].chain \in Seq(Sites)
        /\ Len(sess[c].chain) > 0
    BY SessionFacts
  <1>6. Len(sess[c].chain) >= 1
    BY <1>4
  <1>5. Moved(c, sess[c].chain, m)
    BY DEF m
  <1> QED BY <1>3, <1>4, <1>5, <1>6, MovedFits

\* ... and so does its end at the source.
LEMMA AskedInv ==
  ASSUME TypeInv, NEW c \in Sessions, Op(c) \notin {"none", "RESP_GET_ALLOC"},
         Len(sess[c].chain) = 1, NEW y \in Sites, NEW n,
         NEW o \in {"REQ_POST_KP_BLOCK_INDEX", "REQ_GET_KP_BLOCK_INDEX"},
         Moved(c, Append(sess[c].chain, y), Msg(o, n, {}))
  PROVE  SessionsInv'
  <1>1. /\ sess[c].chain \in Seq(Sites) /\ Len(sess[c].chain) > 0
        /\ sess[c].chain[1] = sess[c].src
    BY SessionFacts
  <1>2. /\ Len(Append(sess[c].chain, y)) = Len(sess[c].chain) + 1
        /\ Append(sess[c].chain, y)[1] = sess[c].chain[1]
    BY <1>1, ChainHead
  <1>3. LengthOK(Msg(o, n, {}), 2)
    BY DEF LengthOK, Calls, Msg
  <1>4. LengthOK(Msg(o, n, {}), Len(Append(sess[c].chain, y)))
    BY <1>2, <1>3
  <1>5. Append(sess[c].chain, y)[1] = sess[c].src
    BY <1>1, <1>2
  <1> QED BY <1>4, <1>5, MovedInv

\* Every handler keeps the sessions in order.
LEMMA HandleSessions ==
  ASSUME TypeInv, NEW c \in Sessions, Handle(c)
  PROVE  SessionsInv'
  <1>1. CASE GetAlloc(c)
    <2> DEFINE x == sess[c].src
               y == NextHop(x, sess[c].dst)
    <2>1. /\ Op(c) = "REQ_GET_ALLOC" /\ Len(sess[c].chain) = 1 /\ At(c) = x /\ x \in Sites
      BY <1>1, SessionFacts, GetAllocMoves DEF GetAlloc
    <2>2. CASE Moved(c, sess[c].chain, NoMsg)
      BY <2>1, <2>2, DroppedInv
    <2>3. CASE /\ y \in Neighbours(x)
               /\ Moved(c, sess[c].chain, CallMsg("TEST", counter[x][y] + 1, y))
      <3>1. counter[x][y] + 1 \in Nat \ {0}
        BY <2>1, <2>3 DEF TypeInv, TypeOK
      <3> HIDE DEF x, y
      <3> QED BY <2>1, <2>3, <3>1, CallInv DEF Calls
    <2>4. CASE /\ y \in Neighbours(x)
               /\ Moved(c, Append(sess[c].chain, y), Msg("REQ_GET_KP_BLOCK_INDEX", 0, {}))
      <3>1. y \in Sites
        BY <2>4 DEF Neighbours
      <3> HIDE DEF x, y
      <3> QED BY <2>1, <2>4, <3>1, AskedInv
    <2> QED BY <1>1, <2>2, <2>3, <2>4, GetAllocMoves
  <1>2. CASE PostBlockIndex(c)
    <2>1. Op(c) = "REQ_POST_KP_BLOCK_INDEX" /\ Len(sess[c].chain) = 2
      BY <1>2, PostBlockIndexMoves
    <2>2. CASE Moved(c, sess[c].chain, NoMsg)
      BY <2>1, <2>2, DroppedInv
    <2>3. CASE /\ sess[c].msg.index \in Nat /\ sess[c].src \in Neighbours(At(c))
               /\ PassedOn(c, sess[c].msg.index, "RESP_POST_KP_BLOCK_INDEX")
      BY <2>1, <2>3, PassedOnInv DEF IndexResponses
    <2> QED BY <1>2, <2>2, <2>3, PostBlockIndexMoves
  <1>3. CASE GetBlockIndex(c)
    <2> DEFINE x == At(c)
               s == sess[c].src
               n == counter[x][s] + 1
    <2>1. Op(c) = "REQ_GET_KP_BLOCK_INDEX" /\ Len(sess[c].chain) = 2 /\ x \in Sites
      BY <1>3, GetBlockIndexMoves, SessionFacts
    <2>2. CASE Moved(c, sess[c].chain, NoMsg)
      BY <2>1, <2>2, DroppedInv
    <2>3. CASE s \in Neighbours(x) /\ Moved(c, sess[c].chain, CallMsg("TAKE", n, s))
      <3>1. n \in Nat \ {0}
        BY <2>1, <2>3 DEF TypeInv, TypeOK
      <3> HIDE DEF n
      <3> QED BY <2>1, <2>3, <3>1, CallInv DEF Calls
    <2> QED BY <1>3, <2>2, <2>3, GetBlockIndexMoves
  <1>11. CASE TestFile(c)
    <2> DEFINE y == sess[c].msg.via
               n == sess[c].msg.index
    <2>1. /\ Op(c) = "TEST" /\ Len(sess[c].chain) = 1 /\ y \in Neighbours(At(c)) /\ y \in Sites
          /\ n \in Nat \ {0}
      BY <1>11, TestFileMoves, CallFacts DEF Calls
    <2>2. \/ Moved(c, Append(sess[c].chain, y), Msg("REQ_POST_KP_BLOCK_INDEX", n, {}))
          \/ Moved(c, sess[c].chain, CallMsg("UNDO", n, y))
      BY <1>11, TestFileMoves
    <2> HIDE DEF y, n
    <2> QED BY <2>1, <2>2, CallInv, AskedInv DEF Calls
  <1>12. CASE Undo(c)
    <2> DEFINE y == sess[c].msg.via
    <2>1. Op(c) = "UNDO" /\ y \in Sites
      BY <1>12, UndoMoves, CallFacts DEF Calls
    <2>2. \/ /\ Len(sess[c].chain) = 1
             /\ Moved(c, Append(sess[c].chain, y), Msg("REQ_POST_KP_BLOCK_INDEX", -1, {}))
          \/ Moved(c, sess[c].chain, NoMsg)
      BY <1>12, UndoMoves
    <2> HIDE DEF y
    <2> QED BY <2>1, <2>2, DroppedInv, AskedInv
  <1>13. CASE TakeBlock(c)
    <2> DEFINE n == sess[c].msg.index
    <2>1. /\ Op(c) = "TAKE" /\ Len(sess[c].chain) = 2 /\ sess[c].src \in Neighbours(At(c))
          /\ n \in Nat \ {0}
      BY <1>13, TakeBlockMoves
    <2>2. \/ PassedOn(c, n, "RESP_GET_KP_BLOCK_INDEX")
          \/ Moved(c, sess[c].chain, CallMsg("UNDO", n, sess[c].src))
      BY <1>13, TakeBlockMoves
    <2> HIDE DEF n
    <2>3. CASE PassedOn(c, n, "RESP_GET_KP_BLOCK_INDEX")
      BY <2>1, <2>3, PassedOnInv DEF IndexResponses
    <2>4. CASE Moved(c, sess[c].chain, CallMsg("UNDO", n, sess[c].src))
      BY <2>1, <2>4, CallInv DEF Calls
    <2> QED BY <2>2, <2>3, <2>4
  <1>4. CASE PostPeerAlloc(c)
    <2> DEFINE x == At(c)
               y == NextHop(x, sess[c].dst)
    <2>1. /\ Op(c) = "REQ_POST_PEER_ALLOC" /\ sess[c].chain \in Seq(Sites)
          /\ Len(sess[c].chain) >= 3 /\ sess[c].chain[1] = sess[c].src
      BY <1>4, PostPeerAllocMoves, SessionFacts
    <2>2. CASE Moved(c, sess[c].chain, NoMsg)
      BY <2>1, <2>2, DroppedInv
    <2>3. ASSUME NEW n, NEW d,
                 Moved(c, sess[c].chain, AllocMsg(n, "RESP_POST_PEER_ALLOC", d))
          PROVE  SessionsInv'
      <3>1. \A k \in Int : k >= 3 => LengthOK(AllocMsg(n, "RESP_POST_PEER_ALLOC", d), k)
        BY DEF LengthOK, Calls, AllocMsg, IndexResponses
      <3> QED BY <2>1, <2>3, <3>1, MovedInv
    <2>4. ASSUME NEW n, NEW d, y \in Neighbours(x),
                 Moved(c, Append(sess[c].chain, y), Msg("REQ_POST_PEER_ALLOC", n, d))
          PROVE  SessionsInv'
      <3>1. y \in Sites
        BY <2>4 DEF Neighbours
      <3> HIDE DEF x, y
      <3>2. /\ Len(Append(sess[c].chain, y)) = Len(sess[c].chain) + 1
            /\ Append(sess[c].chain, y)[1] = sess[c].src
        BY <2>1, <3>1, ChainHead
      <3>3. \A k \in Int : k >= 3 => LengthOK(Msg("REQ_POST_PEER_ALLOC", n, d), k)
        BY DEF LengthOK, Calls, Msg
      <3>4. Len(Append(sess[c].chain, y)) >= 3 /\ Len(Append(sess[c].chain, y)) \in Int
        BY <2>1, <3>2
      <3> QED BY <2>1, <2>4, <3>2, <3>3, <3>4, MovedInv
    <2> QED BY <1>4, <2>2, <2>3, <2>4, PostPeerAllocMoves
  <1>5. CASE StoreAtKMS(c)
    <2>1. /\ Op(c) = "REQ_POST_ALLOC" /\ sess[c].chain[1] = sess[c].src
          /\ sess[c].chain \in Seq(Sites) /\ Len(sess[c].chain) >= 2
          /\ sess[c].msg.respOp \in IndexResponses \cup {"RESP_POST_PEER_ALLOC"}
      BY <1>5, StoreAtKMSMoves, SessionFacts DEF ChainOK, LengthOK, CallOK, Calls, Op
    <2>2. PICK r : /\ \/ r = NoMsg
                      \/ /\ Follows(r, sess[c].msg, "RESP_POST_ALLOC")
                         /\ r.respOp = sess[c].msg.respOp
                   /\ Moved(c, sess[c].chain, r)
      BY <1>5, StoreAtKMSMoves
    <2>3. CASE r = NoMsg
      BY <2>1, <2>2, <2>3, DroppedInv
    <2>4. CASE r # NoMsg
      <3>1. \A k \in Int : k >= 2 => LengthOK(r, k)
        BY <2>1, <2>2, <2>4 DEF LengthOK, Calls, Follows
      <3> QED BY <2>1, <2>2, <3>1, MovedInv
    <2> QED BY <2>3, <2>4
  <1>6. CASE RespPostAlloc(c)
    <2>1. /\ Op(c) = "RESP_POST_ALLOC" /\ sess[c].chain[1] = sess[c].src
          /\ sess[c].chain \in Seq(Sites) /\ Len(sess[c].chain) >= 2
          /\ sess[c].msg.respOp \in IndexResponses \cup {"RESP_POST_PEER_ALLOC"}
      BY <1>6, RespPostAllocMoves, SessionFacts DEF ChainOK, LengthOK, CallOK, Calls, Op
    <2>2. PICK r : /\ r = NoMsg \/ Follows(r, sess[c].msg, sess[c].msg.respOp)
                   /\ Moved(c, Front(sess[c].chain), r)
      BY <1>6, RespPostAllocMoves
    <2>3. CASE r = NoMsg
      BY <2>1, <2>2, <2>3, DroppedInv
    <2>4. CASE r # NoMsg
      <3>1. \A k \in Int : k >= 1 => LengthOK(r, k)
        BY <2>1, <2>2, <2>4 DEF LengthOK, Calls, Follows, IndexResponses
      <3>2. Len(Front(sess[c].chain)) = Len(sess[c].chain) - 1
        BY <2>1, FrontProperties
      <3>3. Front(sess[c].chain) # <<>> => Front(sess[c].chain)[1] = sess[c].src
        BY <2>1, ChainHead
      <3>4. Len(Front(sess[c].chain)) \in Int /\ Len(Front(sess[c].chain)) >= 1
        BY <2>1, <3>2
      <3> QED BY <2>1, <2>2, <3>1, <3>3, <3>4, MovedInv
    <2> QED BY <2>3, <2>4
  <1>7. CASE RespPostPeerAlloc(c)
    <2>1. /\ Op(c) = "RESP_POST_PEER_ALLOC" /\ sess[c].chain[1] = sess[c].src
          /\ sess[c].chain \in Seq(Sites) /\ Len(sess[c].chain) > 0
      BY <1>7, RespPostPeerAllocMoves, SessionFacts
    <2>2. CASE Moved(c, sess[c].chain, NoMsg)
      BY <2>1, <2>2, DroppedInv
    <2>3. ASSUME Len(sess[c].chain) >= 2, NEW r, Moved(c, Front(sess[c].chain), r),
                 \/ r = NoMsg
                 \/ \E o \in IndexResponses \cup {"RESP_POST_PEER_ALLOC"} :
                       Follows(r, sess[c].msg, o)
          PROVE  SessionsInv'
      <3>1. \A k \in Int : k >= 1 => LengthOK(r, k)
        BY <2>3 DEF LengthOK, Calls, Follows, IndexResponses, NoMsg, Msg
      <3>2. Len(Front(sess[c].chain)) = Len(sess[c].chain) - 1
        BY <2>1, FrontProperties
      <3>3. Front(sess[c].chain) # <<>> => Front(sess[c].chain)[1] = sess[c].src
        BY <2>1, ChainHead
      <3>4. Len(Front(sess[c].chain)) \in Int /\ Len(Front(sess[c].chain)) >= 1
        BY <2>1, <2>3, <3>2
      <3> QED BY <2>1, <2>3, <3>1, <3>3, <3>4, MovedInv
    <2> QED BY <1>7, <2>2, <2>3, RespPostPeerAllocMoves
  <1>8. CASE RespBlockIndex(c)
    <2> DEFINE x == At(c)
               y == NextHop(x, sess[c].dst)
               m == Msg("RESP_GET_ALLOC", 0, {ReadBlock(x, y, sess[c].msg.index)})
    <2>1. /\ Op(c) \in IndexResponses /\ sess[c].chain[1] = sess[c].src
          /\ sess[c].chain \in Seq(Sites) /\ Len(sess[c].chain) > 0
      BY <1>8, RespBlockIndexMoves, SessionFacts DEF IndexResponses
    <2>2. CASE Moved(c, sess[c].chain, NoMsg)
      BY <2>1, <2>2, DroppedInv DEF IndexResponses
    <2>3. ASSUME NEW r \in {m, NoMsg}, Moved(c, Front(sess[c].chain), r)
          PROVE  SessionsInv'
      <3>1. \A k : LengthOK(r, k)
        BY <2>3 DEF LengthOK, Calls, NoMsg, Msg
      <3>3. Front(sess[c].chain) # <<>> => Front(sess[c].chain)[1] = sess[c].src
        BY <2>1, ChainHead
      <3> QED BY <2>1, <2>3, <3>1, <3>3, MovedInv DEF IndexResponses
    <2> QED BY <1>8, <2>2, <2>3, RespBlockIndexMoves
  <1>9. CASE RespUnknown(c)
    <2>1. SetMsg(c, NoMsg) /\ Op(c) = "RESP_GET_ALLOC"
      BY <1>9 DEF RespUnknown, Drop
    <2>2. Moved(c, sess[c].chain, NoMsg)
      BY <2>1, SetMsgMoves, MessageTypes DEF TypeInv
    <2> QED BY <2>1, <2>2, DroppedInv
  <1>10. CASE Receive(c)
    <2> DEFINE k == IF sess[c].kms = "waiting" THEN "got" ELSE sess[c].kms
               q == [sess[c] EXCEPT !.msg = NoMsg, !.kms = k]
    <2>1. Op(c) = "RESP_GET_ALLOC" /\ sess' = [sess EXCEPT ![c] = q]
      BY <1>10 DEF Receive
    <2>2. /\ sess[c] \in SessionStates /\ SessionOK(sess[c]) /\ sess[c].kms # "new"
          /\ <<sess[c].src, sess[c].dst>> \in Requests /\ Shape
      BY <2>1, SessionFacts DEF Shape
    <2>3. /\ q \in SessionStates /\ q.msg = NoMsg /\ q.kms = k /\ q.chain = sess[c].chain
          /\ q.src = sess[c].src /\ q.dst = sess[c].dst /\ q.broken = sess[c].broken
      BY <2>2, MessageTypes DEF SessionStates
    <2>4. k # "new" /\ k \in {"new", "waiting", "got", "gaveUp"}
      BY <2>2 DEF SessionOK
    <2> HIDE DEF q, k
    <2>5. SessionOK(q) /\ ChainOK(q)
      BY <2>2, <2>3, <2>4, MessageTypes DEF SessionOK, ChainOK, LengthOK, CallOK, Calls
    <2> QED BY <2>1, <2>3, <2>5 DEF SessionsInv, TypeInv, TypeOK, Shape
  <1> QED BY <1>1, <1>2, <1>3, <1>4, <1>5, <1>6, <1>7, <1>8, <1>9, <1>10, <1>11, <1>12, <1>13
          DEF Handle

\* The environment keeps the sessions in order, and so does a KMS that asks.
LEMMA OtherSessions ==
  ASSUME TypeInv, Next, \A c \in Sessions : ~ Handle(c)
  PROVE  SessionsInv'
  <1> USE DEF TypeInv
  <1>1. ASSUME NEW c \in Sessions, Request(c) PROVE SessionsInv'
    <2>1. PICK d \in Requests :
             /\ sess' = [sess EXCEPT ![c] =
                  [kms |-> "waiting", src |-> d[1], dst |-> d[2], chain |-> <<d[1]>>,
                   broken |-> {}, msg |-> Msg("REQ_GET_ALLOC", 0, {})]]
      BY <1>1 DEF Request
    <2> DEFINE m == Msg("REQ_GET_ALLOC", 0, {})
               chain == <<d[1]>>
               q == [kms |-> "waiting", src |-> d[1], dst |-> d[2], chain |-> chain,
                     broken |-> {}, msg |-> m]
    <2>2. d[1] \in Sites /\ d[2] \in Sites /\ <<d[1], d[2]>> \in Requests
      BY SiteAssumption
    <2>3. m \in Messages /\ m.op = "REQ_GET_ALLOC"
      BY MessageTypes DEF Ops
    <2>4. chain \in Seq(Sites) /\ Len(chain) = 1 /\ chain[1] = d[1] /\ chain # <<>>
      BY <2>2
    <2>5. sess' = [sess EXCEPT ![c] = q]
      BY <2>1
    <2> HIDE DEF m, chain
    <2>6. q \in SessionStates
      BY <2>2, <2>3, <2>4 DEF SessionStates
    <2>7. SessionOK(q)
      BY <2>2, <2>3, <2>4 DEF SessionOK
    <2>8. ChainOK(q)
      BY <2>2, <2>3, <2>4 DEF ChainOK, LengthOK, CallOK, Calls
    <2> HIDE DEF q
    <2> QED BY <2>5, <2>6, <2>7, <2>8 DEF SessionsInv, TypeOK, Shape
  <1>2. ASSUME NEW c \in Sessions, GiveUp(c) PROVE SessionsInv'
    <2> DEFINE q == [sess[c] EXCEPT !.kms = "gaveUp"]
    <2>1. sess' = [sess EXCEPT ![c] = q] /\ sess[c].kms = "waiting"
      BY <1>2 DEF GiveUp
    <2>2. /\ sess[c] \in SessionStates /\ SessionOK(sess[c]) /\ ChainOK(sess[c])
      BY DEF TypeOK, Shape
    <2>3. /\ q \in SessionStates /\ q.msg = sess[c].msg /\ q.kms = "gaveUp"
          /\ q.chain = sess[c].chain /\ q.src = sess[c].src /\ q.dst = sess[c].dst
          /\ q.broken = sess[c].broken
      BY <2>2 DEF SessionStates
    <2> HIDE DEF q
    <2>4. SessionOK(q) /\ ChainOK(q)
      BY <2>1, <2>2, <2>3 DEF SessionOK, ChainOK
    <2> QED BY <2>1, <2>3, <2>4 DEF SessionsInv, TypeOK, Shape
  <1>3. ASSUME NEW c \in Sessions, Lose(c) PROVE SessionsInv'
    <2>1. SetMsg(c, NoMsg) /\ Op(c) # "none"
      BY <1>3 DEF Lose, Drop
    <2>2. Moved(c, sess[c].chain, NoMsg)
      BY <2>1, SetMsgMoves, MessageTypes
    <2> QED BY <2>1, <2>2, DroppedInv
  <1>4. ASSUME NEW x \in Sites, Restart(x) PROVE SessionsInv'
    <2> DEFINE hit(e) == ~ \A i \in DOMAIN sess[e].chain : sess[e].chain[i] # x
               m(e) == IF At(e) = x /\ sess[e].msg.op # "REQ_POST_ALLOC"
                       THEN NoMsg ELSE sess[e].msg
               q(e) == [sess[e] EXCEPT !.broken = @ \cup {x}, !.msg = m(e)]
    <2>1. sess' = [e \in Sessions |-> IF ~ hit(e) THEN sess[e] ELSE q(e)]
      BY <1>4 DEF Restart
    <2>2. ASSUME NEW e \in Sessions
          PROVE  q(e) \in SessionStates /\ SessionOK(q(e)) /\ ChainOK(q(e))
      <3>1. sess[e] \in SessionStates /\ SessionOK(sess[e]) /\ ChainOK(sess[e])
        BY DEF TypeOK, Shape
      <3>2. m(e) \in Messages /\ (m(e) = sess[e].msg \/ m(e) = NoMsg)
        BY <3>1, MessageTypes DEF SessionStates
      <3> HIDE DEF m
      <3>3. /\ q(e) \in SessionStates /\ q(e).msg = m(e) /\ q(e).kms = sess[e].kms
            /\ q(e).chain = sess[e].chain /\ q(e).src = sess[e].src
            /\ q(e).dst = sess[e].dst /\ q(e).broken \subseteq Sites
        BY <3>1, <3>2 DEF SessionStates
      <3> HIDE DEF q
      <3>4. SessionOK(q(e)) /\ ChainOK(q(e))
        BY <3>1, <3>2, <3>3, MessageTypes DEF SessionOK, ChainOK, LengthOK, CallOK, Calls
      <3> QED BY <3>3, <3>4
    <2> HIDE DEF q, hit
    <2>3. ASSUME NEW e \in Sessions
          PROVE  sess'[e] \in SessionStates /\ SessionOK(sess'[e]) /\ ChainOK(sess'[e])
      BY <2>1, <2>2 DEF TypeOK, Shape
    <2> QED BY <2>1, <2>3 DEF SessionsInv
  <1>5. ASSUME UNCHANGED sess PROVE SessionsInv'
    BY <1>5 DEF SessionsInv, TypeOK, Shape
  <1>6. ASSUME NEW x \in Sites, NEW y \in Neighbours(x), QLLCreate(x, y) \/ QLLWrite(x, y)
        PROVE  SessionsInv'
    BY <1>5, <1>6 DEF QLLCreate, QLLWrite
  <1>7. ASSUME Reroute PROVE SessionsInv'
    BY <1>5, <1>7 DEF Reroute
  <1> QED BY <1>1, <1>2, <1>3, <1>4, <1>6, <1>7 DEF Next

\* No handler changes routes, key files or the count of faults, few of them
\* change a counter or read a block.
LEMMA HandlersKeep ==
  ASSUME NEW c, Handle(c)
  PROVE  /\ UNCHANGED <<route, qll, faults>>
         /\ ~ GetAlloc(c) /\ ~ GetBlockIndex(c) /\ ~ Undo(c) => UNCHANGED counter
         /\ ~ PostBlockIndex(c) /\ ~ TakeBlock(c) /\ ~ RespBlockIndex(c) => UNCHANGED misread
         /\ misread' \in {misread, misread \cup {c}}
  <1>1. CASE GetAlloc(c) \/ TestFile(c) \/ Undo(c) \/ GetBlockIndex(c) \/ PostPeerAlloc(c)
    BY <1>1 DEF GetAlloc, TestFile, Undo, GetBlockIndex, PostPeerAlloc
  <1>2. CASE StoreAtKMS(c) \/ Receive(c) \/ RespUnknown(c)
    BY <1>2 DEF StoreAtKMS, Receive, RespUnknown
  <1>3. CASE RespPostAlloc(c) \/ RespPostPeerAlloc(c)
    BY <1>3 DEF RespPostAlloc, RespPostPeerAlloc
  <1>4. CASE PostBlockIndex(c) \/ TakeBlock(c) \/ RespBlockIndex(c)
    BY <1>4 DEF PostBlockIndex, TakeBlock, RespBlockIndex, Reads
  <1> QED BY <1>1, <1>2, <1>3, <1>4 DEF Handle

\* Every step leaves the route a table of RouteTables.
LEMMA RouteStep ==
  ASSUME TypeInv, Next PROVE route' \in RouteTables
  BY HandlersKeep DEF Next, TypeInv, TypeOK, Request, GiveUp, Lose, Restart, QLLCreate,
                      QLLWrite, Reroute

\* Only sessions misread a block.
LEMMA MisreadStep ==
  ASSUME TypeInv, Next
  PROVE  /\ misread' \subseteq Sessions
         /\ \/ UNCHANGED misread
            \/ \E c \in Sessions : Handle(c) /\ misread' = misread \cup {c}
  <1>1. misread \subseteq Sessions
    BY DEF TypeInv, TypeOK
  <1>2. CASE UNCHANGED misread
    BY <1>1, <1>2
  <1>3. ASSUME NEW c \in Sessions, Handle(c), ~ UNCHANGED misread
        PROVE  misread' = misread \cup {c}
    BY <1>3, HandlersKeep
  <1>4. UNCHANGED misread \/ \E c \in Sessions : Handle(c)
    BY DEF Next, Request, GiveUp, Lose, Restart, QLLCreate, QLLWrite, Reroute
  <1> QED BY <1>1, <1>2, <1>3, <1>4

CounterInv ==
    /\ counter = [x \in Sites |-> counter[x]]
    /\ \A x \in Sites : counter[x] \in [Neighbours(x) -> Nat]
    /\ CallsCounted
Files == [files : Nat, blocks : Nat, part : 0 .. KeyBlockSz - 1]
FilesInv ==
    /\ qll = [x \in Sites |-> qll[x]]
    /\ \A x \in Sites : qll[x] \in [Neighbours(x) -> Files]

\* The message of session c alone moves; Moved says more.
Placed(c, chain, m) ==
    /\ \A e \in Sessions \ {c} : sess'[e] = sess[e]
    /\ sess'[c].chain = chain /\ sess'[c].msg = m

LEMMA MovedPlaced ==
  ASSUME NEW c, NEW chain, NEW m, Moved(c, chain, m) PROVE Placed(c, chain, m)
  BY DEF Moved, Placed

\* What a move of session c does to the calls of a reader.
LEMMA InFlightMoved ==
  ASSUME NEW c \in Sessions, NEW chain, NEW m, Placed(c, chain, m), NEW x, NEW y
  PROVE  InFlight(x, y)' =
           IF m.op \in Calls /\ chain[Len(chain)] = x /\ m.via = y
           THEN InFlight(x, y) \cup {c} ELSE InFlight(x, y) \ {c}
  BY DEF InFlight, Placed, Op, At

\* The calls of a reader are finitely many.
LEMMA InFlightFinite ==
  ASSUME NEW x, NEW y
  PROVE  /\ InFlight(x, y) \subseteq Sessions /\ IsFiniteSet(InFlight(x, y))
         /\ Cardinality(InFlight(x, y)) \in Nat
  <1>1. InFlight(x, y) \subseteq Sessions
    BY DEF InFlight
  <1> QED BY <1>1, SessionAssumption, FS_Subset, FS_CardinalityType

\* Fewer calls are counted, too.
LEMMA CountedStill ==
  ASSUME TypeInv, UNCHANGED counter,
         \A x \in Sites : \A y \in Neighbours(x) : InFlight(x, y)' \subseteq InFlight(x, y)
  PROVE  CounterInv'
  <1>1. ASSUME NEW x \in Sites, NEW y \in Neighbours(x)
        PROVE  counter[x][y] >= Cardinality(InFlight(x, y)')
    <2>1. /\ Cardinality(InFlight(x, y)') <= Cardinality(InFlight(x, y))
          /\ Cardinality(InFlight(x, y)') \in Nat /\ Cardinality(InFlight(x, y)) \in Nat
      BY InFlightFinite, FS_Subset, FS_CardinalityType
    <2>2. counter[x][y] \in Nat /\ counter[x][y] >= Cardinality(InFlight(x, y))
      BY DEF TypeInv, TypeOK, CallsCounted
    <2> QED BY <2>1, <2>2
  <1>2. \A x \in Sites : counter[x] \in [Neighbours(x) -> Nat]
    BY DEF TypeInv, TypeOK
  <1> QED BY <1>1, <1>2 DEF CounterInv, CallsCounted, TypeInv, Shape

\* A session that is moved on without a call.
LEMMA MovedCounter ==
  ASSUME TypeInv, UNCHANGED counter, NEW c \in Sessions, NEW chain, NEW m,
         Placed(c, chain, m),
         \/ m.op \notin Calls
         \/ /\ Op(c) \in Calls /\ chain = sess[c].chain
            /\ m.op \in Calls /\ m.via = sess[c].msg.via
  PROVE  CounterInv'
  <1>1. ASSUME NEW x \in Sites, NEW y \in Neighbours(x)
        PROVE  InFlight(x, y)' \subseteq InFlight(x, y)
    <2>1. CASE m.op \in Calls /\ chain[Len(chain)] = x /\ m.via = y
      <3>1. c \in InFlight(x, y)
        BY <2>1 DEF InFlight, At
      <3> QED BY <2>1, <3>1, InFlightMoved
    <2>2. CASE ~ (m.op \in Calls /\ chain[Len(chain)] = x /\ m.via = y)
      BY <2>2, InFlightMoved
    <2> QED BY <2>1, <2>2
  <1> QED BY <1>1, CountedStill

\* addAndGet(len): one more counted, one more call.
LEMMA AddedCounter ==
  ASSUME TypeInv, NEW c \in Sessions, NEW op \in Calls, Op(c) \notin Calls,
         NEW x \in Sites, NEW y \in Neighbours(x), NEW n \in Nat, At(c) = x,
         counter' = [counter EXCEPT ![x][y] = @ + 1],
         Moved(c, sess[c].chain, CallMsg(op, n, y))
  PROVE  CounterInv'
  <1> DEFINE m == CallMsg(op, n, y)
  <1>1. m.op = op /\ m.via = y
    BY DEF CallMsg
  <1>2. \A u, v : c \notin InFlight(u, v)
    BY DEF InFlight
  <1> HIDE DEF m
  <1>3. Placed(c, sess[c].chain, m)
    BY MovedPlaced DEF m
  <1>4. ASSUME NEW u \in Sites, NEW v \in Neighbours(u)
        PROVE  counter'[u][v] \in Nat /\ counter'[u][v] >= Cardinality(InFlight(u, v)')
    <2>1. counter[u][v] \in Nat /\ counter[u][v] >= Cardinality(InFlight(u, v))
      BY DEF TypeInv, TypeOK, CallsCounted
    <2>2. CASE u = x /\ v = y
      <3>1. InFlight(u, v)' = InFlight(u, v) \cup {c}
        BY <1>1, <1>3, <2>2, InFlightMoved DEF At
      <3>2. Cardinality(InFlight(u, v)') = Cardinality(InFlight(u, v)) + 1
        BY <1>2, <3>1, InFlightFinite, FS_AddElement
      <3>3. counter'[u][v] = counter[u][v] + 1
        BY <2>2 DEF TypeInv, TypeOK, Shape
      <3> QED BY <2>1, <3>2, <3>3, InFlightFinite
    <2>3. CASE ~ (u = x /\ v = y)
      <3>1. InFlight(u, v)' = InFlight(u, v)
        <4>1. ~ (m.op \in Calls /\ sess[c].chain[Len(sess[c].chain)] = u /\ m.via = v)
          BY <1>1, <2>3 DEF At
        <4>2. InFlight(u, v)' = InFlight(u, v) \ {c}
          BY <1>3, <4>1, InFlightMoved
        <4> QED BY <1>2, <4>2
      <3>2. counter'[u][v] = counter[u][v]
        BY <2>3 DEF TypeInv, TypeOK, Shape
      <3> QED BY <2>1, <3>1, <3>2
    <2> QED BY <2>2, <2>3
  <1>5. counter' = [u \in Sites |-> counter'[u]]
    BY DEF TypeInv, Shape
  <1>6. ASSUME NEW u \in Sites PROVE counter'[u] \in [Neighbours(u) -> Nat]
    <2>1. counter'[u] = [v \in Neighbours(u) |-> counter'[u][v]]
      BY DEF TypeInv, TypeOK, Shape
    <2> QED BY <1>4, <2>1
  <1> QED BY <1>4, <1>5, <1>6 DEF CounterInv, CallsCounted

\* addAndGet(-len): one less counted, one call less.
LEMMA UndoneCounter ==
  ASSUME TypeInv, NEW c \in Sessions, Undo(c)
  PROVE  CounterInv'
  <1> DEFINE x == At(c)
             y == sess[c].msg.via
  <1>1. x \in Sites /\ y \in Neighbours(x) /\ Op(c) = "UNDO"
    BY CallFacts, UndoMoves DEF Calls
  <1>2. PICK chain, m : Placed(c, chain, m) /\ m.op \notin Calls
    BY UndoMoves, MovedPlaced DEF Calls, Msg, NoMsg
  <1>3. counter' = [counter EXCEPT ![x][y] = @ - 1]
    BY UndoMoves
  <1>4. \A u, v : InFlight(u, v)' = InFlight(u, v) \ {c}
    BY <1>2, InFlightMoved
  <1>5. \A u, v : c \in InFlight(u, v) <=> u = x /\ v = y
    BY <1>1 DEF InFlight, Calls
  <1> HIDE DEF x, y
  <1>6. ASSUME NEW u \in Sites, NEW v \in Neighbours(u)
        PROVE  counter'[u][v] \in Nat /\ counter'[u][v] >= Cardinality(InFlight(u, v)')
    <2>1. counter[u][v] \in Nat /\ counter[u][v] >= Cardinality(InFlight(u, v))
      BY DEF TypeInv, TypeOK, CallsCounted
    <2>2. CASE u = x /\ v = y
      <3>1. /\ Cardinality(InFlight(u, v)') = Cardinality(InFlight(u, v)) - 1
            /\ Cardinality(InFlight(u, v)') \in Nat
        BY <1>4, <1>5, <2>2, InFlightFinite, FS_RemoveElement, FS_CardinalityType
      <3>2. counter'[u][v] = counter[u][v] - 1
        BY <1>3, <2>2 DEF TypeInv, TypeOK, Shape
      <3> QED BY <2>1, <3>1, <3>2, InFlightFinite
    <2>3. CASE ~ (u = x /\ v = y)
      <3>1. InFlight(u, v)' = InFlight(u, v)
        BY <1>4, <1>5, <2>3
      <3>2. counter'[u][v] = counter[u][v]
        BY <1>1, <1>3, <2>3 DEF TypeInv, TypeOK, Shape
      <3> QED BY <2>1, <3>1, <3>2
    <2> QED BY <2>2, <2>3
  <1>7. counter' = [u \in Sites |-> counter'[u]]
    BY <1>3 DEF TypeInv, Shape
  <1>8. ASSUME NEW u \in Sites PROVE counter'[u] \in [Neighbours(u) -> Nat]
    <2>1. counter'[u] = [v \in Neighbours(u) |-> counter'[u][v]]
      BY <1>1, <1>3 DEF TypeInv, TypeOK, Shape
    <2> QED BY <1>6, <2>1
  <1> QED BY <1>6, <1>7, <1>8 DEF CounterInv, CallsCounted

\* The handlers that add nothing to a counter leave a session outside calls, or
\* in the call it is in.
LEMMA CallKept ==
  ASSUME TypeInv, NEW c \in Sessions, Handle(c),
         ~ GetAlloc(c), ~ GetBlockIndex(c), ~ Undo(c)
  PROVE  \E chain, m :
            /\ Placed(c, chain, m)
            /\ \/ m.op \notin Calls
               \/ /\ Op(c) \in Calls /\ chain = sess[c].chain
                  /\ m.op \in Calls /\ m.via = sess[c].msg.via
  <1> DEFINE Goal == \E chain, m :
                /\ Placed(c, chain, m)
                /\ \/ m.op \notin Calls
                   \/ /\ Op(c) \in Calls /\ chain = sess[c].chain
                      /\ m.op \in Calls /\ m.via = sess[c].msg.via
  <1> SUFFICES Goal
    OBVIOUS
  <1>1. ASSUME NEW chain, NEW m, Moved(c, chain, m), m.op \notin Calls PROVE Goal
    BY <1>1, MovedPlaced
  <1>0. NoMsg.op \notin Calls /\ (\A n, d : Msg("REQ_POST_PEER_ALLOC", n, d).op \notin Calls)
        /\ (\A n, d : Msg("RESP_GET_ALLOC", n, d).op \notin Calls)
        /\ (\A n, d : Msg("REQ_POST_KP_BLOCK_INDEX", n, d).op \notin Calls)
        /\ (\A n, r, d : AllocMsg(n, r, d).op \notin Calls)
    BY DEF NoMsg, Msg, AllocMsg, Calls
  <1>2. ASSUME NEW n, Moved(c, sess[c].chain, CallMsg("UNDO", n, sess[c].msg.via)),
               Op(c) \in Calls
        PROVE  Goal
    <2> DEFINE m == CallMsg("UNDO", n, sess[c].msg.via)
    <2>1. m.op \in Calls /\ m.via = sess[c].msg.via
      BY DEF Calls, CallMsg
    <2> HIDE DEF m
    <2>2. Placed(c, sess[c].chain, m)
      BY <1>2, MovedPlaced DEF m
    <2> QED BY <1>2, <2>1, <2>2
  <1>3. ASSUME NEW n, NEW respOp, PassedOn(c, n, respOp) PROVE Goal
    <2> HIDE DEF Goal
    <2> QED BY <1>0, <1>1, <1>3 DEF PassedOn
  <1> HIDE DEF Goal
  <1>4. CASE TestFile(c)
    BY <1>0, <1>1, <1>2, <1>4, TestFileMoves DEF Calls
  <1>5. CASE TakeBlock(c)
    BY <1>2, <1>3, <1>5, TakeBlockMoves DEF Calls
  <1>6. CASE PostBlockIndex(c)
    BY <1>0, <1>1, <1>3, <1>6, PostBlockIndexMoves
  <1>7. CASE PostPeerAlloc(c)
    BY <1>0, <1>1, <1>7, PostPeerAllocMoves
  <1>8. CASE StoreAtKMS(c)
    <2>1. PICK r : /\ r = NoMsg \/ r.op = "RESP_POST_ALLOC"
                   /\ Moved(c, sess[c].chain, r)
      BY <1>8, StoreAtKMSMoves DEF Follows
    <2> QED BY <1>0, <1>1, <2>1 DEF Calls
  <1>9. CASE RespPostAlloc(c)
    <2>1. sess[c].msg.respOp \in IndexResponses \cup {"RESP_POST_PEER_ALLOC"}
      BY <1>9, RespPostAllocMoves, SessionFacts DEF ChainOK, LengthOK, CallOK, Calls, Op
    <2>2. PICK r : /\ r = NoMsg \/ r.op = sess[c].msg.respOp
                   /\ Moved(c, Front(sess[c].chain), r)
      BY <1>9, RespPostAllocMoves DEF Follows
    <2>3. r.op \notin Calls
      BY <1>0, <2>1, <2>2 DEF Calls, IndexResponses
    <2> QED BY <1>1, <2>2, <2>3
  <1>10. CASE RespPostPeerAlloc(c)
    <2>1. CASE Moved(c, sess[c].chain, NoMsg)
      BY <1>0, <1>1, <2>1
    <2>2. ASSUME NEW r, Moved(c, Front(sess[c].chain), r),
                 r = NoMsg \/ r.op \in IndexResponses \cup {"RESP_POST_PEER_ALLOC"}
          PROVE  Goal
      <3>1. r.op \notin Calls
        BY <1>0, <2>2 DEF Calls, IndexResponses
      <3> QED BY <1>1, <2>2, <3>1
    <2> QED BY <1>10, <2>1, <2>2, RespPostPeerAllocMoves DEF Follows
  <1>11. CASE RespBlockIndex(c)
    <2>1. \/ Moved(c, sess[c].chain, NoMsg)
          \/ \E r : /\ r = NoMsg \/ r.op = "RESP_GET_ALLOC"
                    /\ Moved(c, Front(sess[c].chain), r)
      BY <1>11, RespBlockIndexMoves
    <2>2. ASSUME NEW chain, NEW r, Moved(c, chain, r), r = NoMsg \/ r.op = "RESP_GET_ALLOC"
          PROVE  Goal
      <3>1. r.op \notin Calls
        BY <1>0, <2>2 DEF Calls
      <3> QED BY <1>1, <2>2, <3>1
    <2> QED BY <2>1, <2>2
  <1>12. CASE RespUnknown(c)
    <2>1. Moved(c, sess[c].chain, NoMsg)
      BY <1>12, SetMsgMoves, MessageTypes DEF TypeInv, RespUnknown, Drop
    <2> QED BY <1>0, <1>1, <2>1
  <1>13. CASE Receive(c)
    <2>1. Placed(c, sess[c].chain, NoMsg)
      BY <1>13 DEF Receive, Placed, TypeInv, Shape, SessionStates
    <2> QED BY <1>0, <2>1 DEF Goal
  <1> QED BY <1>4, <1>5, <1>6, <1>7, <1>8, <1>9, <1>10, <1>11, <1>12, <1>13 DEF Handle

\* A restarted service: its calls are gone and its counters are 0.
LEMMA RestartCounter ==
  ASSUME TypeInv, NEW z \in Sites, Restart(z)
  PROVE  CounterInv'
  <1>1. counter' = [counter EXCEPT ![z] = [y \in Neighbours(z) |-> 0]]
    BY DEF Restart
  <1>2. ASSUME NEW e \in Sessions
        PROVE  /\ sess'[e].chain = sess[e].chain
               /\ sess'[e].msg = sess[e].msg \/ sess'[e].msg = NoMsg
               /\ Op(e) \in Calls /\ At(e) = z => sess'[e].msg = NoMsg
    <2>1. sess[e] \in SessionStates
      BY DEF TypeInv, Shape
    <2>2. Op(e) \in Calls => /\ sess[e].chain \in Seq(Sites) /\ Len(sess[e].chain) > 0
      BY CallFacts
    <2>3. Op(e) \in Calls /\ At(e) = z =>
              ~ \A i \in DOMAIN sess[e].chain : sess[e].chain[i] # z
      BY <2>2 DEF At
    <2>4. sess'[e] = IF \A i \in DOMAIN sess[e].chain : sess[e].chain[i] # z THEN sess[e]
                     ELSE [sess[e] EXCEPT !.broken = @ \cup {z},
                              !.msg = IF At(e) = z /\ @.op # "REQ_POST_ALLOC"
                                      THEN NoMsg ELSE @]
      BY DEF Restart
    <2> QED BY <2>1, <2>3, <2>4 DEF SessionStates, Op, Calls
  <1>3. NoMsg.op \notin Calls
    BY DEF NoMsg, Msg, Calls
  <1>4. ASSUME NEW u, NEW v PROVE InFlight(u, v)' \subseteq InFlight(u, v)
    BY <1>2, <1>3 DEF InFlight, Op, At
  <1>5. ASSUME NEW v PROVE InFlight(z, v)' = {}
    BY <1>2, <1>3 DEF InFlight, Op, At
  <1>6. ASSUME NEW u \in Sites, NEW v \in Neighbours(u)
        PROVE  counter'[u][v] \in Nat /\ counter'[u][v] >= Cardinality(InFlight(u, v)')
    <2>1. CASE u = z
      <3>1. Cardinality(InFlight(u, v)') = 0
        BY <1>5, <2>1, FS_EmptySet
      <3>2. counter'[u][v] = 0
        BY <1>1, <2>1 DEF TypeInv, Shape
      <3> QED BY <3>1, <3>2
    <2>2. CASE u # z
      <3>1. counter'[u][v] = counter[u][v]
        BY <1>1, <2>2 DEF TypeInv, Shape
      <3>2. counter[u][v] \in Nat /\ counter[u][v] >= Cardinality(InFlight(u, v))
        BY DEF TypeInv, TypeOK, CallsCounted
      <3>3. /\ Cardinality(InFlight(u, v)') <= Cardinality(InFlight(u, v))
            /\ Cardinality(InFlight(u, v)') \in Nat /\ Cardinality(InFlight(u, v)) \in Nat
        BY <1>4, InFlightFinite, FS_Subset, FS_CardinalityType
      <3> QED BY <3>1, <3>2, <3>3
    <2> QED BY <2>1, <2>2
  <1>7. counter' = [u \in Sites |-> counter'[u]]
    BY <1>1 DEF TypeInv, Shape
  <1>8. ASSUME NEW u \in Sites PROVE counter'[u] \in [Neighbours(u) -> Nat]
    <2>1. counter'[u] = [v \in Neighbours(u) |-> counter'[u][v]]
      BY <1>1 DEF TypeInv, TypeOK, Shape
    <2> QED BY <1>6, <2>1
  <1> QED BY <1>6, <1>7, <1>8 DEF CounterInv, CallsCounted

\* The counters stay natural numbers, one for each neighbour, and count the
\* calls in progress.
LEMMA CounterStep ==
  ASSUME TypeInv, Next PROVE CounterInv'
  <1>1. ASSUME NEW c \in Sessions, GetAlloc(c) PROVE CounterInv'
    <2> DEFINE x == sess[c].src
               y == NextHop(x, sess[c].dst)
    <2>1. x \in Sites /\ At(c) = x /\ Op(c) = "REQ_GET_ALLOC"
      BY <1>1, GetAllocMoves, SessionFacts
    <2>2. CASE Moved(c, sess[c].chain, NoMsg) /\ UNCHANGED counter
      BY <2>2, MovedCounter, MovedPlaced DEF NoMsg, Msg, Calls
    <2>3. CASE /\ y \in Neighbours(x)
               /\ counter' = [counter EXCEPT ![x][y] = @ + 1]
               /\ Moved(c, sess[c].chain, CallMsg("TEST", counter[x][y] + 1, y))
      <3>1. counter[x][y] + 1 \in Nat
        BY <2>1, <2>3 DEF TypeInv, TypeOK
      <3> HIDE DEF x, y
      <3> QED BY <2>1, <2>3, <3>1, AddedCounter DEF Calls
    <2>4. CASE /\ UNCHANGED counter
               /\ Moved(c, Append(sess[c].chain, y), Msg("REQ_GET_KP_BLOCK_INDEX", 0, {}))
      <3>1. Msg("REQ_GET_KP_BLOCK_INDEX", 0, {}).op \notin Calls
        BY DEF Msg, Calls
      <3> QED BY <2>4, <3>1, MovedCounter, MovedPlaced
    <2> QED BY <1>1, <2>2, <2>3, <2>4, GetAllocMoves
  <1>2. ASSUME NEW c \in Sessions, GetBlockIndex(c) PROVE CounterInv'
    <2> DEFINE x == At(c)
               s == sess[c].src
    <2>1. x \in Sites /\ Op(c) = "REQ_GET_KP_BLOCK_INDEX"
      BY <1>2, GetBlockIndexMoves, SessionFacts
    <2>2. CASE Moved(c, sess[c].chain, NoMsg) /\ UNCHANGED counter
      BY <2>2, MovedCounter, MovedPlaced DEF NoMsg, Msg, Calls
    <2>3. CASE /\ s \in Neighbours(x)
               /\ counter' = [counter EXCEPT ![x][s] = @ + 1]
               /\ Moved(c, sess[c].chain, CallMsg("TAKE", counter[x][s] + 1, s))
      <3>1. counter[x][s] + 1 \in Nat
        BY <2>1, <2>3 DEF TypeInv, TypeOK
      <3>2. At(c) = x
        OBVIOUS
      <3> HIDE DEF x, s
      <3> QED BY <2>1, <2>3, <3>1, <3>2, AddedCounter DEF Calls
    <2> QED BY <1>2, <2>2, <2>3, GetBlockIndexMoves
  <1>3. ASSUME NEW c \in Sessions, Handle(c), ~ GetAlloc(c), ~ GetBlockIndex(c), ~ Undo(c)
        PROVE  CounterInv'
    BY <1>3, HandlersKeep, CallKept, MovedCounter
  <1>4. ASSUME NEW c \in Sessions, Request(c) PROVE CounterInv'
    <2>1. UNCHANGED counter
      BY <1>4 DEF Request
    <2>2. \E chain, m : Placed(c, chain, m) /\ m.op \notin Calls
      BY <1>4 DEF Request, Placed, TypeInv, Shape, Msg, Calls
    <2> QED BY <2>1, <2>2, MovedCounter
  <1>5. ASSUME NEW c \in Sessions, Lose(c) PROVE CounterInv'
    <2>1. UNCHANGED counter /\ SetMsg(c, NoMsg)
      BY <1>5 DEF Lose, Drop
    <2>2. Moved(c, sess[c].chain, NoMsg)
      BY <2>1, SetMsgMoves, MessageTypes DEF TypeInv
    <2> QED BY <2>1, <2>2, MovedCounter, MovedPlaced DEF NoMsg, Msg, Calls
  <1>6. ASSUME UNCHANGED counter,
               \A e \in Sessions : sess'[e].chain = sess[e].chain /\ sess'[e].msg = sess[e].msg
        PROVE  CounterInv'
    <2>1. \A x, y : InFlight(x, y)' \subseteq InFlight(x, y)
      BY <1>6 DEF InFlight, Op, At
    <2> QED BY <1>6, <2>1, CountedStill
  <1>7. ASSUME NEW c \in Sessions, GiveUp(c) PROVE CounterInv'
    BY <1>6, <1>7 DEF GiveUp, TypeInv, Shape, SessionStates
  <1>8. ASSUME NEW x \in Sites, NEW y \in Neighbours(x), QLLCreate(x, y) \/ QLLWrite(x, y)
        PROVE  CounterInv'
    BY <1>6, <1>8 DEF QLLCreate, QLLWrite
  <1>9. Reroute => CounterInv'
    BY <1>6 DEF Reroute
  <1> QED BY <1>1, <1>2, <1>3, <1>4, <1>5, <1>7, <1>8, <1>9, UndoneCounter, RestartCounter
          DEF Next

\* The key files grow.
LEMMA FilesStep ==
  ASSUME TypeInv, Next
  PROVE  /\ FilesInv'
         /\ \A x \in Sites : \A y \in Neighbours(x) :
               /\ qll'[x][y].files >= qll[x][y].files
               /\ qll'[x][y].blocks >= qll[x][y].blocks
  <1> DEFINE Goal == /\ FilesInv'
                     /\ \A x \in Sites : \A y \in Neighbours(x) :
                           /\ qll'[x][y].files >= qll[x][y].files
                           /\ qll'[x][y].blocks >= qll[x][y].blocks
  <1>0. /\ FilesInv
        /\ \A x \in Sites : \A y \in Neighbours(x) : qll[x][y] \in Files
    BY DEF TypeInv, TypeOK, Shape, FilesInv, Files
  <1>1. ASSUME UNCHANGED qll PROVE Goal
    BY <1>0, <1>1 DEF FilesInv, Files
  <1>2. ASSUME NEW x \in Sites, NEW y \in Neighbours(x), NEW r \in Files,
               qll' = [qll EXCEPT ![x][y] = r],
               r.files >= qll[x][y].files, r.blocks >= qll[x][y].blocks
        PROVE  Goal
    <2> DEFINE f == [qll[x] EXCEPT ![y] = r]
    <2>1. f \in [Neighbours(x) -> Files] /\ f[y] = r
          /\ \A v \in Neighbours(x) \ {y} : f[v] = qll[x][v]
      BY <1>0, <1>2 DEF FilesInv
    <2>2. qll' = [qll EXCEPT ![x] = f]
      BY <1>2
    <2> HIDE DEF f
    <2>3. FilesInv' /\ qll'[x] = f /\ \A u \in Sites \ {x} : qll'[u] = qll[u]
      BY <1>0, <2>1, <2>2 DEF FilesInv
    <2>4. ASSUME NEW u \in Sites, NEW v \in Neighbours(u)
          PROVE  qll'[u][v].files >= qll[u][v].files /\ qll'[u][v].blocks >= qll[u][v].blocks
      <3>1. CASE u = x /\ v = y
        BY <1>2, <2>1, <2>3, <3>1
      <3>2. CASE ~ (u = x /\ v = y)
        <4>1. qll'[u][v] = qll[u][v]
          BY <2>1, <2>3, <3>2
        <4>2. qll[u][v] \in Files
          BY <1>0
        <4> QED BY <4>1, <4>2 DEF Files
      <3> QED BY <3>1, <3>2
    <2> QED BY <2>3, <2>4
  <1>3. ASSUME NEW x \in Sites, NEW y \in Neighbours(x), QLLCreate(x, y) PROVE Goal
    <2> DEFINE q == qll[x][y]
               r == [q EXCEPT !.files = @ + 1]
    <2>1. qll' = [qll EXCEPT ![x][y] = r]
      BY <1>3 DEF QLLCreate
    <2>2. q \in Files
      BY <1>0
    <2>3. r \in Files /\ r.files = q.files + 1 /\ r.blocks = q.blocks
      BY <2>2 DEF Files
    <2>4. r.files >= q.files /\ r.blocks >= q.blocks
      BY <2>2, <2>3 DEF Files
    <2> HIDE DEF r, Goal
    <2> QED BY <1>2, <2>1, <2>3, <2>4
  <1>4. ASSUME NEW x \in Sites, NEW y \in Neighbours(x), QLLWrite(x, y) PROVE Goal
    <2> DEFINE q == qll[x][y]
               full == q.part + 1 = KeyBlockSz
               b == IF full THEN q.blocks + 1 ELSE q.blocks
               p == IF full THEN 0 ELSE q.part + 1
               r == [q EXCEPT !.blocks = b, !.part = p]
    <2>1. qll' = [qll EXCEPT ![x][y] = r]
      BY <1>4 DEF QLLWrite
    <2>2. q \in Files
      BY <1>0
    <2>3. b \in Nat /\ b >= q.blocks /\ p \in 0 .. KeyBlockSz - 1
      BY <2>2, BoundAssumption DEF Files
    <2> HIDE DEF b, p
    <2>4. r \in Files /\ r.files = q.files /\ r.blocks = b
      BY <2>2, <2>3 DEF Files
    <2>5. r.files >= q.files /\ r.blocks >= q.blocks
      BY <2>2, <2>3, <2>4 DEF Files
    <2> HIDE DEF r, Goal
    <2> QED BY <1>2, <2>1, <2>4, <2>5
  <1> HIDE DEF Goal
  <1>5. UNCHANGED qll \/ \E x \in Sites : \E y \in Neighbours(x) : QLLCreate(x, y) \/ QLLWrite(x, y)
    BY HandlersKeep DEF Next, Request, GiveUp, Lose, Restart, Reroute
  <1> QED BY <1>1, <1>3, <1>4, <1>5 DEF Goal

CopiesInv == stored \subseteq Copies /\ delivered \subseteq Copies

\* Whoever is not ServerHandler or the asking KMS writes no copy.
LEMMA CopiesUnchanged ==
  ASSUME Next, \A c \in Sessions : ~ StoreAtKMS(c) /\ ~ Receive(c)
  PROVE  UNCHANGED <<stored, delivered>>
  BY DEF Next, Request, Handle, GetAlloc, TestFile, Undo, PostBlockIndex, GetBlockIndex, TakeBlock,
         PostPeerAlloc,
         RespPostAlloc, RespPostPeerAlloc, RespBlockIndex, RespUnknown, GiveUp, Lose,
         Restart, QLLCreate, QLLWrite, Reroute

\* Copies are of the right type.
LEMMA CopiesStep ==
  ASSUME TypeInv, Next PROVE CopiesInv'
  <1>0. CopiesInv
    BY DEF TypeInv, TypeOK, CopiesInv
  <1>1. ASSUME NEW c \in Sessions, StoreAtKMS(c) PROVE CopiesInv'
    <2> DEFINE copy == [src |-> sess[c].src, dst |-> sess[c].dst, uuid |-> c,
                        block |-> sess[c].msg.data]
    <2>1. copy \in Copies /\ (stored' = stored \cup {copy} \/ UNCHANGED stored)
      BY <1>1, StoreAtKMSMoves
    <2>2. UNCHANGED delivered
      BY <1>1 DEF StoreAtKMS
    <2> HIDE DEF copy
    <2> QED BY <1>0, <2>1, <2>2 DEF CopiesInv
  <1>2. ASSUME NEW c \in Sessions, Receive(c) PROVE CopiesInv'
    <2> DEFINE copy == [src |-> sess[c].src, dst |-> sess[c].dst, uuid |-> c,
                        block |-> sess[c].msg.data]
    <2>1. sess[c].src \in Sites /\ sess[c].dst \in Sites /\ sess[c].msg \in Messages
      BY <1>2, SessionFacts DEF Receive
    <2>2. copy \in Copies
      BY <2>1 DEF Copies, Messages
    <2>3. /\ delivered' = IF sess[c].kms # "waiting" THEN delivered
                          ELSE delivered \cup {copy}
          /\ UNCHANGED stored
      BY <1>2 DEF Receive
    <2> HIDE DEF copy
    <2> QED BY <1>0, <2>2, <2>3 DEF CopiesInv
  <1>3. ASSUME UNCHANGED <<stored, delivered>> PROVE CopiesInv'
    BY <1>0, <1>3 DEF CopiesInv
  <1> QED BY <1>1, <1>2, <1>3, CopiesUnchanged

Faults == [reroutes : Nat, restarts : Nat, losses : Nat, giveUps : Nat, files : Nat, races : Nat]

\* The counts of faults stay natural numbers.
LEMMA FaultsStep ==
  ASSUME TypeInv, Next PROVE faults' \in Faults
  <1>0. faults \in Faults
    BY DEF TypeInv, Shape, Faults
  <1>1. ASSUME NEW f \in {"reroutes", "restarts", "losses", "giveUps"}, NEW b, Count(f, b)
        PROVE  faults' \in Faults
    BY <1>0, <1>1 DEF Count, Faults
  <1>2. ASSUME NEW c \in Sessions, Handle(c) PROVE UNCHANGED faults
    BY <1>2, HandlersKeep
  <1>3. ASSUME NEW c \in Sessions, Request(c) PROVE UNCHANGED faults
    BY <1>3 DEF Request
  <1>4. ASSUME NEW x \in Sites, NEW y \in Neighbours(x), QLLWrite(x, y)
        PROVE  UNCHANGED faults
    BY <1>4 DEF QLLWrite
  <1>5. ASSUME NEW x \in Sites, NEW y \in Neighbours(x), QLLCreate(x, y)
        PROVE  faults' \in Faults
    <2>1. PICK r \in Nat : faults' = [faults EXCEPT !.files = @ + 1, !.races = r]
      <3>1. faults.races \in Nat /\ faults.races + 1 \in Nat
        BY <1>0 DEF Faults
      <3>2. faults' = [faults EXCEPT !.files = @ + 1,
                          !.races = IF InFlight(x, y) # {} THEN @ + 1 ELSE @]
        BY <1>5 DEF QLLCreate
      <3>3. CASE InFlight(x, y) # {}
        BY <3>1, <3>2, <3>3
      <3>4. CASE InFlight(x, y) = {}
        BY <3>1, <3>2, <3>4
      <3> QED BY <3>3, <3>4
    <2>2. \E n \in Nat : faults' = [faults EXCEPT !.files = n, !.races = r]
      <3>1. faults.files + 1 \in Nat
        BY <1>0 DEF Faults
      <3> QED BY <2>1, <3>1
    <2> PICK n \in Nat : faults' = [faults EXCEPT !.files = n, !.races = r]
      BY <2>2
    <2>3. [faults EXCEPT !.files = n] \in Faults
      BY <1>0 DEF Faults
    <2> DEFINE g == [faults EXCEPT !.files = n]
    <2>4. faults' = [g EXCEPT !.races = r]
      OBVIOUS
    <2> HIDE DEF g
    <2>5. g \in Faults
      BY <2>3 DEF g
    <2> QED BY <2>4, <2>5 DEF Faults
  <1> QED BY <1>0, <1>1, <1>2, <1>3, <1>4, <1>5 DEF Next, GiveUp, Lose, Restart, Reroute

\* The invariant of types and chains is inductive.
LEMMA TypeInit == Init => TypeInv
  <1> SUFFICES ASSUME Init PROVE TypeInv
    OBVIOUS
  <1>0. \A x, y : InFlight(x, y) = {}
    BY DEF Init, InFlight, Op, NoSession, NoMsg, Msg, Calls
  <1>1. CounterInv /\ CopiesInv /\ route \in RouteTables /\ misread \subseteq Sessions
    <2>1. CallsCounted
      <3>1. \A x \in Sites : \A y \in Neighbours(x) : counter[x][y] = 1
        BY DEF Init
      <3>2. \A x, y : Cardinality(InFlight(x, y)) = 0
        BY <1>0, FS_EmptySet
      <3> QED BY <3>1, <3>2 DEF CallsCounted
    <2>2. /\ counter = [x \in Sites |-> counter[x]]
          /\ \A x \in Sites : counter[x] \in [Neighbours(x) -> Nat]
      BY DEF Init
    <2> QED BY <2>1, <2>2 DEF Init, CounterInv, CopiesInv
  <1>6. FilesInv
    <2> DEFINE r == [files |-> InitFiles, blocks |-> InitFiles * BlocksPerFile, part |-> 0]
    <2>1. InitFiles * BlocksPerFile \in Nat
      BY BoundAssumption
    <2>2. r \in Files
      BY <2>1, BoundAssumption DEF Files
    <2>3. qll = [x \in Sites |-> [y \in Neighbours(x) |-> r]]
      BY DEF Init
    <2> HIDE DEF r
    <2> QED BY <2>2, <2>3 DEF FilesInv
  <1>2. faults \in Faults
    BY DEF Init, ZeroFaults, Faults
  <1>3. NoSession \in SessionStates
    BY MessageTypes DEF NoSession, SessionStates
  <1>4. SessionOK(NoSession) /\ ChainOK(NoSession)
    BY MessageTypes DEF NoSession, SessionOK, ChainOK, LengthOK, CallOK, Calls
  <1>5. SessionsInv
    BY <1>3, <1>4 DEF Init, SessionsInv
  <1> QED BY <1>1, <1>2, <1>5, <1>6 DEF TypeInv, TypeOK, Shape, CounterInv, FilesInv, Files, CopiesInv,
                                  Faults, SessionsInv

LEMMA TypeStep == TypeInv /\ [Next]_vars => TypeInv'
  <1>1. ASSUME TypeInv, Next PROVE TypeInv'
    <2>1. SessionsInv'
      BY <1>1, HandleSessions, OtherSessions
    <2> QED BY <1>1, <2>1, RouteStep, CounterStep, FilesStep, CopiesStep, FaultsStep,
               MisreadStep
            DEF TypeInv, TypeOK, Shape, CounterInv, FilesInv, Files, CopiesInv, Faults,
                SessionsInv
  <1>2. ASSUME TypeInv, UNCHANGED vars PROVE TypeInv'
    BY <1>2 DEF vars, TypeInv, TypeOK, Shape, Neighbours, CallsCounted, InFlight, Op, At
  <1> QED BY <1>1, <1>2

LEMMA TypeInvariant == Spec => []TypeInv
  BY TypeInit, TypeStep, PTL DEF Spec

\* The variables always have their types, and a message in the network is at
\* the end of a chain of waiting connections that begins at the source: no
\* handler answers more often than it was asked, and the only response that
\* reaches the asking KMS is RESP_GET_ALLOC_KP_BLOCK, under any routes.
THEOREM TypeCorrect == Spec => []TypeOK
  <1>1. TypeInv => TypeOK
    BY DEF TypeInv
  <1> QED BY <1>1, TypeInvariant, PTL

-----------------------------------------------------------------------------
(* What the other steps do to the sessions.                                 *)

\* A session keeps its sites and its chain, and may lose its message.
Kept(e) ==
    /\ sess'[e].chain = sess[e].chain
    /\ sess'[e].src = sess[e].src /\ sess'[e].dst = sess[e].dst
    /\ sess'[e].msg \in {sess[e].msg, NoMsg}

\* A KMS asks for a block.
LEMMA RequestMoves ==
  ASSUME TypeInv, NEW c \in Sessions, Request(c)
  PROVE  /\ \A e \in Sessions \ {c} : sess'[e] = sess[e]
         /\ sess[c].kms = "new" /\ sess'[c].kms = "waiting"
         /\ <<sess'[c].src, sess'[c].dst>> \in Requests
         /\ sess'[c].chain = <<sess'[c].src>>
         /\ sess'[c].msg = Msg("REQ_GET_ALLOC", 0, {})
         /\ sess'[c].msg.op = "REQ_GET_ALLOC"
  <1>1. PICK d \in Requests :
          sess' = [sess EXCEPT ![c] =
              [kms |-> "waiting", src |-> d[1], dst |-> d[2], chain |-> <<d[1]>>,
               broken |-> {}, msg |-> Msg("REQ_GET_ALLOC", 0, {})]]
    BY DEF Request
  <1>2. d = <<d[1], d[2]>>
    BY SiteAssumption
  <1>3. sess[c].kms = "new"
    BY DEF Request
  <1>4. Msg("REQ_GET_ALLOC", 0, {}).op = "REQ_GET_ALLOC"
    BY DEF Msg
  <1>5. /\ \A e \in Sessions \ {c} : sess'[e] = sess[e]
        /\ sess'[c].kms = "waiting" /\ sess'[c].src = d[1] /\ sess'[c].dst = d[2]
        /\ sess'[c].chain = <<d[1]>> /\ sess'[c].msg = Msg("REQ_GET_ALLOC", 0, {})
    BY <1>1 DEF TypeInv, Shape
  <1> QED BY <1>2, <1>3, <1>4, <1>5

\* The steps of the environment, and the ends of a fetch.
LEMMA KeptByOthers ==
  ASSUME TypeInv, Next,
         \A c \in Sessions : /\ ~ Request(c)
                             /\ ~ Handle(c) \/ Receive(c) \/ RespUnknown(c)
  PROVE  \A e \in Sessions : Kept(e)
  <1> USE DEF TypeInv, Shape
  <1>1. ASSUME NEW c \in Sessions, GiveUp(c), NEW e \in Sessions PROVE Kept(e)
    <2>1. sess' = [sess EXCEPT ![c].kms = "gaveUp"]
      BY <1>1 DEF GiveUp
    <2> QED BY <2>1 DEF Kept, SessionStates
  <1>2. ASSUME NEW c \in Sessions, SetMsg(c, NoMsg), NEW e \in Sessions PROVE Kept(e)
    BY <1>2, SetMsgMoves, MessageTypes DEF Kept, Moved
  <1>3. ASSUME NEW c \in Sessions, Receive(c), NEW e \in Sessions PROVE Kept(e)
    <2>1. PICK k : sess' = [sess EXCEPT ![c].msg = NoMsg, ![c].kms = k]
      BY <1>3 DEF Receive
    <2> QED BY <2>1 DEF Kept, SessionStates
  <1>4. ASSUME NEW x \in Sites, Restart(x), NEW e \in Sessions PROVE Kept(e)
    <2>1. \/ sess'[e] = sess[e]
          \/ \E r \in {sess[e].msg, NoMsg} :
                sess'[e] = [sess[e] EXCEPT !.broken = @ \cup {x}, !.msg = r]
      BY <1>4 DEF Restart
    <2>2. sess[e] \in SessionStates
      OBVIOUS
    <2> QED BY <2>1, <2>2 DEF Kept, SessionStates
  <1>5. ASSUME UNCHANGED sess, NEW e \in Sessions PROVE Kept(e)
    BY <1>5 DEF Kept
  <1>6. ASSUME NEW c \in Sessions, Lose(c) \/ RespUnknown(c) PROVE SetMsg(c, NoMsg)
    BY <1>6 DEF Lose, RespUnknown, Drop
  <1>7. ASSUME NEW x \in Sites, NEW y \in Neighbours(x), QLLCreate(x, y) \/ QLLWrite(x, y)
        PROVE  UNCHANGED sess
    BY <1>7 DEF QLLCreate, QLLWrite
  <1>8. Reroute => UNCHANGED sess
    BY DEF Reroute
  <1> QED BY <1>1, <1>2, <1>3, <1>4, <1>5, <1>6, <1>7, <1>8 DEF Next

-----------------------------------------------------------------------------
(* The destination stores first.                                            *)

Responses == {"RESP_POST_ALLOC", "RESP_POST_KP_BLOCK_INDEX", "RESP_GET_KP_BLOCK_INDEX",
              "RESP_POST_PEER_ALLOC", "RESP_GET_ALLOC"}

\* Somebody has stored a block for session c.
StoredFor(c) == \E s \in stored : s.uuid = c /\ s.src = sess[c].src /\ s.dst = sess[c].dst

\* Every response is about a stored block.
ResponseInv == \A c \in Sessions : Op(c) \in Responses => StoredFor(c)

\* A response goes back as a response.
LEMMA ResponsesMove ==
  ASSUME TypeInv, NEW c \in Sessions, RespPostAlloc(c) \/ RespPostPeerAlloc(c) \/ RespBlockIndex(c)
  PROVE  \E chain, m : Moved(c, chain, m) /\ (m = NoMsg \/ m.op \in Responses)
  <1>1. CASE RespPostAlloc(c)
    <2>1. sess[c].msg.respOp \in Responses
      BY <1>1, SessionFacts DEF RespPostAlloc, ChainOK, LengthOK, CallOK, Calls, Op, Responses, IndexResponses
    <2> QED BY <1>1, <2>1, RespPostAllocMoves DEF Follows
  <1>2. CASE RespPostPeerAlloc(c)
    BY <1>2, RespPostPeerAllocMoves DEF Follows, Responses, IndexResponses
  <1>3. CASE RespBlockIndex(c)
    <2>1. \/ Moved(c, sess[c].chain, NoMsg)
          \/ \E r : (r = NoMsg \/ r.op = "RESP_GET_ALLOC") /\ Moved(c, Front(sess[c].chain), r)
      BY <1>3, RespBlockIndexMoves
    <2> QED BY <2>1 DEF Responses
  <1> QED BY <1>1, <1>2, <1>3

StoredInv == ResponseInv /\ PeerCopyFirst

\* No step takes a stored copy away.
LEMMA StoredGrows ==
  ASSUME Next PROVE stored \subseteq stored'
  <1>1. ASSUME NEW c \in Sessions, StoreAtKMS(c) PROVE stored \subseteq stored'
    BY <1>1 DEF StoreAtKMS
  <1>2. ASSUME NEW c \in Sessions, Receive(c) PROVE stored \subseteq stored'
    BY <1>2 DEF Receive
  <1> QED BY <1>1, <1>2, CopiesUnchanged

\* Moving session c keeps ResponseInv if it makes no response of a request.
LEMMA MovedResponse ==
  ASSUME TypeInv, ResponseInv, NEW c \in Sessions, NEW chain, NEW m, Moved(c, chain, m),
         stored \subseteq stored',
         m.op \in Responses => StoredFor(c) \/ StoredFor(c)'
  PROVE  ResponseInv'
  <1>1. ASSUME NEW e \in Sessions, e # c, sess'[e].msg.op \in Responses PROVE StoredFor(e)'
    BY <1>1 DEF Moved, ResponseInv, Op, StoredFor
  <1>2. ASSUME sess'[c].msg.op \in Responses PROVE StoredFor(c)'
    BY <1>2 DEF Moved, StoredFor
  <1> QED BY <1>1, <1>2 DEF ResponseInv, Op

\* A step that makes no response keeps the others' copies.
LEMMA ResponseStep ==
  ASSUME TypeInv, ResponseInv, ~ DiskFails, Next PROVE ResponseInv'
  <1>0. stored \subseteq stored'
    BY StoredGrows
  <1>1. NoMsg.op \notin Responses /\ \A n, d, o : /\ AllocMsg(n, o, d).op \notin Responses
                                                  /\ Msg(o, n, d).op = o
    BY DEF NoMsg, Msg, AllocMsg, Responses
  <1>2. ASSUME NEW c \in Sessions, NEW chain, Moved(c, chain, NoMsg) PROVE ResponseInv'
    BY <1>0, <1>1, <1>2, MovedResponse
  <1>3. ASSUME NEW c \in Sessions, NEW n, NEW o, PassedOn(c, n, o) PROVE ResponseInv'
    <2>1. ASSUME NEW chain, NEW d, Moved(c, chain, AllocMsg(n, o, d)) PROVE ResponseInv'
      BY <1>0, <1>1, <2>1, MovedResponse
    <2>2. ASSUME NEW chain, NEW d, Moved(c, chain, Msg("REQ_POST_PEER_ALLOC", n, d))
          PROVE  ResponseInv'
      BY <1>0, <2>2, MovedResponse DEF Msg, Responses
    <2> QED BY <1>2, <1>3, <2>1, <2>2 DEF PassedOn
  <1>4. ASSUME NEW c \in Sessions, Handle(c), ~ Receive(c), ~ RespUnknown(c)
        PROVE  ResponseInv'
    <2>0. ASSUME NEW chain, NEW n,
                 NEW o \in {"REQ_POST_KP_BLOCK_INDEX", "REQ_GET_KP_BLOCK_INDEX"},
                 Moved(c, chain, Msg(o, n, {}))
          PROVE  ResponseInv'
      BY <1>0, <2>0, MovedResponse DEF Msg, Responses
    <2>9. ASSUME NEW chain, NEW n, NEW y, NEW o \in Calls, Moved(c, chain, CallMsg(o, n, y))
          PROVE  ResponseInv'
      BY <1>0, <2>9, MovedResponse DEF CallMsg, Calls, Responses
    <2>1. CASE GetAlloc(c)
      BY <1>2, <2>0, <2>1, <2>9, GetAllocMoves DEF Calls
    <2>10. CASE TestFile(c)
      BY <2>0, <2>9, <2>10, TestFileMoves DEF Calls
    <2>11. CASE Undo(c)
      BY <1>2, <2>0, <2>11, UndoMoves
    <2>12. CASE TakeBlock(c)
      BY <1>3, <2>9, <2>12, TakeBlockMoves DEF Calls
    <2>2. CASE PostBlockIndex(c)
      BY <1>2, <1>3, <2>2, PostBlockIndexMoves
    <2>3. CASE GetBlockIndex(c)
      BY <1>2, <2>3, <2>9, GetBlockIndexMoves DEF Calls
    <2>4. CASE PostPeerAlloc(c)
      <3>1. ASSUME NEW chain, NEW n, NEW o, NEW d, Moved(c, chain, AllocMsg(n, o, d))
            PROVE  ResponseInv'
        BY <1>0, <1>1, <3>1, MovedResponse
      <3>2. ASSUME NEW chain, NEW n, NEW d, Moved(c, chain, Msg("REQ_POST_PEER_ALLOC", n, d))
            PROVE  ResponseInv'
        BY <1>0, <3>2, MovedResponse DEF Msg, Responses
      <3> QED BY <1>2, <2>4, <3>1, <3>2, PostPeerAllocMoves
    <2>5. CASE StoreAtKMS(c)
      <3> DEFINE copy == [src |-> sess[c].src, dst |-> sess[c].dst, uuid |-> c,
                          block |-> sess[c].msg.data]
      <3>1. PICK r : Moved(c, sess[c].chain, r)
        BY <2>5, StoreAtKMSMoves
      <3>2. copy \in stored'
        BY <2>5, StoreAtKMSMoves
      <3>3. StoredFor(c)'
        BY <3>1, <3>2 DEF StoredFor, Moved
      <3> QED BY <1>0, <3>1, <3>3, MovedResponse
    <2>6. CASE RespPostAlloc(c)
      <3>1. PICK r : Moved(c, Front(sess[c].chain), r)
        BY <2>6, RespPostAllocMoves
      <3>2. StoredFor(c)
        BY <2>6, RespPostAllocMoves DEF ResponseInv, Responses
      <3> QED BY <1>0, <3>1, <3>2, MovedResponse
    <2>7. CASE RespPostPeerAlloc(c)
      <3>1. PICK chain, r : Moved(c, chain, r)
        BY <2>7, RespPostPeerAllocMoves
      <3>2. StoredFor(c)
        BY <2>7, RespPostPeerAllocMoves DEF ResponseInv, Responses
      <3> QED BY <1>0, <3>1, <3>2, MovedResponse
    <2>8. CASE RespBlockIndex(c)
      <3>1. PICK chain, r : Moved(c, chain, r)
        BY <2>8, RespBlockIndexMoves
      <3>2. StoredFor(c)
        BY <2>8, RespBlockIndexMoves DEF ResponseInv, Responses, IndexResponses
      <3> QED BY <1>0, <3>1, <3>2, MovedResponse
    <2> QED BY <1>4, <2>1, <2>2, <2>3, <2>4, <2>5, <2>6, <2>7, <2>8,
               <2>10, <2>11, <2>12 DEF Handle
  <1>5. ASSUME NEW c \in Sessions, Request(c) PROVE ResponseInv'
    <2>1. /\ \A e \in Sessions \ {c} : sess'[e] = sess[e]
          /\ sess'[c].msg.op \notin Responses
      BY <1>1, <1>5, RequestMoves DEF Responses
    <2>2. ASSUME NEW e \in Sessions, sess'[e].msg.op \in Responses PROVE StoredFor(e)'
      BY <1>0, <2>1, <2>2 DEF ResponseInv, Op, StoredFor
    <2> QED BY <2>2 DEF ResponseInv, Op
  <1>6. ASSUME \A e \in Sessions : Kept(e) PROVE ResponseInv'
    <2> SUFFICES ASSUME NEW e \in Sessions, sess'[e].msg.op \in Responses
                 PROVE  StoredFor(e)'
      BY DEF ResponseInv, Op
    <2>1. /\ sess'[e].msg = sess[e].msg
          /\ sess'[e].src = sess[e].src /\ sess'[e].dst = sess[e].dst
      BY <1>1, <1>6 DEF Kept
    <2> QED BY <1>0, <2>1 DEF ResponseInv, Op, StoredFor
  <1> QED BY <1>4, <1>5, <1>6, KeptByOthers

\* A step keeps PeerCopyFirst.
LEMMA PeerCopyStep ==
  ASSUME TypeInv, StoredInv, Next PROVE PeerCopyFirst'
  <1>0. stored \subseteq stored'
    BY StoredGrows
  <1>1. ASSUME NEW c \in Sessions, Receive(c) PROVE PeerCopyFirst'
    <2>1. StoredFor(c)
      BY <1>1 DEF Receive, StoredInv, ResponseInv, Responses
    <2>2. ASSUME NEW d \in delivered'
          PROVE  \/ d \in delivered
                 \/ d.uuid = c /\ d.src = sess[c].src /\ d.dst = sess[c].dst
      BY <1>1 DEF Receive
    <2>3. ASSUME NEW d \in delivered'
          PROVE  \E s \in stored : s.uuid = d.uuid /\ s.src = d.src /\ s.dst = d.dst
      BY <2>1, <2>2 DEF StoredInv, PeerCopyFirst, StoredFor
    <2> QED BY <1>0, <2>3 DEF PeerCopyFirst
  <1>2. ASSUME NEW c \in Sessions, StoreAtKMS(c) PROVE PeerCopyFirst'
    BY <1>0, <1>2 DEF StoreAtKMS, StoredInv, PeerCopyFirst
  <1>3. ASSUME UNCHANGED <<stored, delivered>> PROVE PeerCopyFirst'
    BY <1>3 DEF StoredInv, PeerCopyFirst
  <1> QED BY <1>1, <1>2, <1>3, CopiesUnchanged

\* The invariant behind it.
LEMMA StoredInvariant == ASSUME ~ DiskFails PROVE Spec => []StoredInv
  <1>1. Init => StoredInv
    BY DEF Init, StoredInv, ResponseInv, PeerCopyFirst, Op, NoSession, NoMsg, Msg, Responses
  <1>2. TypeInv /\ StoredInv /\ [Next]_vars => StoredInv'
    <2>1. ASSUME TypeInv, StoredInv, Next PROVE StoredInv'
      BY <2>1, ResponseStep, PeerCopyStep DEF StoredInv
    <2>2. ASSUME StoredInv, UNCHANGED vars PROVE StoredInv'
      BY <2>2 DEF vars, StoredInv, ResponseInv, StoredFor, Op, PeerCopyFirst
    <2> QED BY <2>1, <2>2
  <1> QED BY <1>1, <1>2, TypeInvariant, PTL DEF Spec

\* As long as ServerHandler can write its key files, a KMS receives a block only
\* after the other KMS has stored one under the same id: under any routes, and
\* however often routes change, services restart and messages are lost.
THEOREM DestinationFirst ==
  ASSUME ~ DiskFails PROVE Spec => []PeerCopyFirst
  <1>1. StoredInv => PeerCopyFirst
    BY DEF StoredInv
  <1> QED BY <1>1, StoredInvariant, PTL

-----------------------------------------------------------------------------
(* Key agreement.                                                           *)

\* The chain is the beginning of a path on which both ends find each other.
OnPath(s, d, chain) ==
    \E n \in Nat : \E p \in [1 .. n -> Sites] :
        /\ n >= 2 /\ SymmetricPath(route, s, d, n, p)
        /\ Len(chain) <= n /\ \A i \in 1 .. Len(chain) : chain[i] = p[i]

\* Where the chain of a session ends, the next hops are its next and its
\* previous site, and only at its second site the previous one is the source.
LEMMA OnPathHops ==
  ASSUME TypeInv, NEW s \in Sites, NEW d \in Sites, NEW chain \in Seq(Sites),
         Len(chain) > 0, OnPath(s, d, chain)
  PROVE  LET k == Len(chain)
             x == chain[k]
         IN  /\ x # d => OnPath(s, d, Append(chain, NextHop(x, d)))
             /\ OnPath(s, d, Front(chain))
             /\ k = 1 => x = s
             /\ k >= 2 => NextHop(x, s) = chain[k - 1] /\ chain[2] = NextHop(s, d)
             /\ k >= 3 => NextHop(x, s) # s
  <1> DEFINE k == Len(chain)
             x == chain[k]
  <1>0. k \in Nat /\ k > 0 /\ x \in Sites
    OBVIOUS
  <1>n. PICK n \in Nat : \E p \in [1 .. n -> Sites] :
          /\ n >= 2 /\ SymmetricPath(route, s, d, n, p)
          /\ k <= n /\ \A i \in 1 .. k : chain[i] = p[i]
    BY DEF OnPath
  <1>1. PICK p \in [1 .. n -> Sites] :
          /\ n >= 2 /\ SymmetricPath(route, s, d, n, p)
          /\ k <= n /\ \A i \in 1 .. k : chain[i] = p[i]
    BY <1>n
  <1>2. /\ p[1] = s /\ p[n] = d
        /\ \A i \in 1 .. n - 1 : NextHop(p[i], d) = p[i + 1] /\ NextHop(p[i + 1], s) = p[i]
    BY <1>1 DEF SymmetricPath, NextHop
  <1>3. \A u \in Sites : NextHop(u, u) = NoSite /\ u # NoSite
    BY NextHopType, SiteAssumption
  <1> HIDE DEF k
  <1>4. ASSUME x # d PROVE OnPath(s, d, Append(chain, NextHop(x, d)))
    <2> DEFINE y == NextHop(x, d)
               longer == Append(chain, y)
    <2>1. k # n /\ x = p[k]
      BY <1>0, <1>1, <1>2, <1>4
    <2>2. k \in 1 .. n - 1 /\ k + 1 \in 1 .. n
      BY <1>0, <1>1, <2>1
    <2>3. y = p[k + 1] /\ y \in Sites
      BY <1>2, <2>1, <2>2
    <2> HIDE DEF x, y
    <2>4. Len(longer) = k + 1 /\ \A i \in 1 .. k : longer[i] = chain[i]
      BY <2>3 DEF k
    <2>5. longer[k + 1] = y
      BY <2>3 DEF k
    <2> HIDE DEF longer
    <2>6. \A i \in 1 .. k + 1 : longer[i] = p[i]
      BY <1>0, <1>1, <2>3, <2>4, <2>5
    <2>7. Len(longer) <= n /\ \A i \in 1 .. Len(longer) : longer[i] = p[i]
      BY <1>0, <2>2, <2>4, <2>6
    <2>8. OnPath(s, d, longer)
      BY <1>1, <2>7 DEF OnPath
    <2> QED BY <2>8 DEF longer, y, x
  <1>5. OnPath(s, d, Front(chain))
    <2> DEFINE f == Front(chain)
    <2>1. Len(f) = k - 1 /\ \A i \in 1 .. k - 1 : f[i] = chain[i]
      BY FrontProperties DEF k
    <2> HIDE DEF f
    <2>2. Len(f) <= n /\ \A i \in 1 .. Len(f) : f[i] = p[i]
      BY <1>0, <1>1, <2>1, SMTT(20)
    <2>3. OnPath(s, d, f)
      BY <1>1, <2>2, SMTT(20) DEF OnPath
    <2> QED BY <2>3 DEF f
  <1>6. k = 1 => x = s
    BY <1>1, <1>2
  <1>7. ASSUME k >= 2 PROVE NextHop(x, s) = chain[k - 1] /\ chain[2] = NextHop(s, d)
    <2>1. k - 1 \in 1 .. n - 1 /\ (k - 1) + 1 = k /\ k - 1 \in 1 .. k
      BY <1>0, <1>1, <1>7
    <2>2. NextHop(p[k], s) = p[k - 1]
      BY <1>2, <2>1
    <2>3. x = p[k] /\ chain[k - 1] = p[k - 1]
      BY <1>0, <1>1, <2>1
    <2>4. 2 \in 1 .. k /\ 1 \in 1 .. n - 1 /\ 1 + 1 = 2
      BY <1>0, <1>1, <1>7
    <2>5. chain[2] = p[2] /\ NextHop(p[1], d) = p[2]
      BY <1>1, <1>2, <2>4
    <2> QED BY <1>2, <2>2, <2>3, <2>5
  <1>8. ASSUME k >= 3 PROVE NextHop(x, s) # s
    <2>1. k - 1 \in 1 .. k /\ k - 2 \in 1 .. n - 1 /\ (k - 2) + 1 = k - 1 /\ k - 2 \in 1 .. n
      BY <1>0, <1>1, <1>8
    <2>2. NextHop(p[k - 1], s) = p[k - 2] /\ p[k - 2] \in Sites
      BY <1>2, <2>1
    <2>3. NextHop(x, s) = p[k - 1]
      BY <1>0, <1>1, <1>7, <1>8, <2>1
    <2> QED BY <1>3, <2>2, <2>3
  <1> QED BY <1>4, <1>5, <1>6, <1>7, <1>8 DEF k

\* The pad of a link is the same at both ends, and padding twice is no padding.
LEMMA PadProperties ==
  /\ \A x, y, n : Block(x, y, n) = Block(y, x, n) /\ OTPKey(x, y) = OTPKey(y, x)
  /\ \A data, k : Xor(Xor(data, k), k) = data
  <1>1. ASSUME NEW x, NEW y, NEW n
        PROVE  Block(x, y, n) = Block(y, x, n) /\ OTPKey(x, y) = OTPKey(y, x)
    <2>1. {x, y} = {y, x}
      OBVIOUS
    <2> QED BY <2>1 DEF Block, OTPKey
  <1>2. ASSUME NEW data, NEW k PROVE Xor(Xor(data, k), k) = data
    BY DEF Xor
  <1> QED BY <1>1, <1>2

\* The block of the source's link to the first hop that session c is about,
\* what may be read of it, and a copy of key data for it.
LinkBlock(c, n) == {Block(sess[c].src, NextHop(sess[c].src, sess[c].dst), n)}
LinkReads(c, n) ==
    {<<{sess[c].src, NextHop(sess[c].src, sess[c].dst)}, k, m>> : k \in {1, n}, m \in 1 .. KeyBlockSz}
CopyOf(c, data) ==
    [src |-> sess[c].src, dst |-> sess[c].dst, uuid |-> c, block |-> data]

\* The data is what was read of block n: the block, unless the session is one
\* of the bad, which have read an incomplete file.
Carries(c, n, bad, data) ==
    /\ \E b \in LinkReads(c, n) : data = {b}
    /\ c \notin bad => data = LinkBlock(c, n)

\* The message of session c carries that, padded on a link and clear for a
\* KMS; and a response is about the copy that was stored of it, if the disk works.
\* A call of the source's reader is about its link to the first hop.
DataFits(c, chain, m, copies, bad) ==
    LET k == Len(chain)
    IN  /\ m.op \in Calls => (k = 1 => m.via = NextHop(sess[c].src, sess[c].dst))
        /\ m.op = "REQ_POST_PEER_ALLOC" =>
              Carries(c, m.index, bad, Xor(m.data, OTPKey(chain[k - 1], chain[k])))
        /\ m.op = "REQ_POST_ALLOC" => Carries(c, m.index, bad, m.data)
        /\ m.op \in {"REQ_POST_ALLOC", "RESP_POST_ALLOC"} =>
              (m.respOp \in IndexResponses => k = 2)
        /\ m.op \in IndexResponses => k = 1
        /\ m.op \in Responses \ {"RESP_GET_ALLOC"} =>
              (c \notin bad => CopyOf(c, LinkBlock(c, m.index)) \in copies \/ DiskFails)
        /\ m.op = "RESP_GET_ALLOC" => (c \notin bad => CopyOf(c, m.data) \in copies \/ DiskFails)

DataInv ==
    \A c \in Sessions : Op(c) # "none" =>
        /\ OnPath(sess[c].src, sess[c].dst, sess[c].chain)
        /\ DataFits(c, sess[c].chain, sess[c].msg, stored, misread)

FixedSymmetric == SymmetricRoutes(RouteTables, Requests) /\ MaxReroutes = 0

\* Without reroutes the routes stay what they are.
LEMMA RouteFixed ==
  ASSUME FixedSymmetric, TypeInv, Next PROVE route' = route
  <1>1. ~ Reroute
    <2>1. faults.reroutes \in Nat
      BY DEF TypeInv, Shape
    <2> QED BY <2>1 DEF FixedSymmetric, Reroute, Count
  <1> QED BY <1>1, HandlersKeep DEF Next, Request, GiveUp, Lose, Restart, QLLCreate, QLLWrite

\* What is stored stays stored and who has misread has done so, so that what
\* fits goes on fitting.
LEMMA DataFitsGrows ==
  ASSUME NEW c, NEW chain, NEW m, NEW S, NEW T, S \subseteq T, NEW B, NEW D, B \subseteq D,
         DataFits(c, chain, m, S, B)
  PROVE  DataFits(c, chain, m, T, D)
  BY DEF DataFits, Carries

\* What fits depends only on the session's sites and on the routes.
LEMMA DataFitsSame ==
  ASSUME NEW c \in Sessions, NEW chain, NEW m, NEW S, NEW B, DataFits(c, chain, m, S, B),
         route' = route, sess'[c].src = sess[c].src, sess'[c].dst = sess[c].dst,
         sess'[c].chain = chain, sess'[c].msg = m, S = stored', B = misread'
  PROVE  DataFits(c, sess[c].chain, sess[c].msg, stored, misread)'
  BY DEF DataFits, Carries, LinkBlock, LinkReads, CopyOf, NextHop

\* Moving session c keeps DataInv if its new message fits.
LEMMA MovedData ==
  ASSUME DataInv, NEW c \in Sessions, NEW chain, NEW m, Moved(c, chain, m),
         route' = route, stored \subseteq stored', misread \subseteq misread',
         m.op # "none" => /\ OnPath(sess[c].src, sess[c].dst, chain)
                          /\ DataFits(c, chain, m, stored', misread')
  PROVE  DataInv'
  <1>1. ASSUME NEW e \in Sessions, sess'[e] = sess[e], sess'[e].msg.op # "none"
        PROVE  /\ OnPath(sess[e].src, sess[e].dst, sess[e].chain)'
               /\ DataFits(e, sess[e].chain, sess[e].msg, stored, misread)'
    <2>1. OnPath(sess[e].src, sess[e].dst, sess[e].chain)'
      BY <1>1 DEF DataInv, Op, OnPath
    <2>2. DataFits(e, sess[e].chain, sess[e].msg, stored', misread')
      BY <1>1, DataFitsGrows DEF DataInv, Op
    <2> QED BY <1>1, <2>1, <2>2, DataFitsSame
  <1>2. ASSUME sess'[c].msg.op # "none"
        PROVE  /\ OnPath(sess[c].src, sess[c].dst, sess[c].chain)'
               /\ DataFits(c, sess[c].chain, sess[c].msg, stored, misread)'
    <2>1. OnPath(sess[c].src, sess[c].dst, sess[c].chain)'
      BY <1>2 DEF Moved, OnPath
    <2>2. DataFits(c, chain, m, stored', misread')
      BY <1>2 DEF Moved
    <2> QED BY <2>1, <2>2, DataFitsSame DEF Moved
  <1> QED BY <1>1, <1>2 DEF DataInv, Op, Moved

\* Routes stay, copies and misreads grow.
LEMMA Growth ==
  ASSUME FixedSymmetric, TypeInv, Next
  PROVE  route' = route /\ stored \subseteq stored' /\ misread \subseteq misread'
  BY RouteFixed, StoredGrows, MisreadStep

\* A read of the link's block by either end.
LEMMA ReadCarries ==
  ASSUME TypeInv, NEW c \in Sessions, NEW x \in Sites, NEW y \in Neighbours(x), NEW n \in Nat,
         {x, y} = {sess[c].src, NextHop(sess[c].src, sess[c].dst)},
         CanRead(x, y, n), Reads(c, x, y, n)
  PROVE  Carries(c, n, misread', {ReadBlock(x, y, n)})
  <1>1. \E k \in {1, n}, m \in 1 .. KeyBlockSz : ReadBlock(x, y, n) = <<{x, y}, k, m>>
    BY ReadBlockType
  <1>2. ReadBlock(x, y, n) \in LinkReads(c, n)
    BY <1>1 DEF LinkReads
  <1>3. c \notin misread' => Whole(x, y, n)
    BY DEF Reads
  <1>4. Whole(x, y, n) => ReadBlock(x, y, n) = <<{x, y}, n, KeyBlockSz>>
    BY ReadBlockType DEF Block
  <1> QED BY <1>2, <1>3, <1>4 DEF Carries, LinkBlock, Block

\* Passing on block n of the link to the source keeps DataInv.
LEMMA PassedOnData ==
  ASSUME FixedSymmetric, TypeInv, DataInv, Next, NEW c \in Sessions, NEW n \in Nat,
         NEW respOp \in IndexResponses, Op(c) \notin {"none", "RESP_GET_ALLOC"},
         Len(sess[c].chain) = 2, sess[c].src \in Neighbours(At(c)),
         CanRead(At(c), sess[c].src, n), Reads(c, At(c), sess[c].src, n), PassedOn(c, n, respOp)
  PROVE  DataInv'
  <1> DEFINE x == At(c)
             s == sess[c].src
             d == sess[c].dst
             chain == sess[c].chain
             y == NextHop(x, d)
             key == {ReadBlock(x, s, n)}
  <1>0. route' = route /\ stored \subseteq stored' /\ misread \subseteq misread'
    BY Growth
  <1>1. /\ s \in Sites /\ d \in Sites /\ chain \in Seq(Sites) /\ x \in Sites
        /\ x = chain[2] /\ Len(chain) = 2
    BY SessionFacts DEF At
  <1>2. OnPath(s, d, chain)
    BY DEF DataInv
  <1>3. /\ x # d => OnPath(s, d, Append(chain, y))
        /\ x = NextHop(s, d)
    BY <1>1, <1>2, OnPathHops
  <1>4. Carries(c, n, misread', key)
    <2>1. {x, s} = {s, NextHop(s, d)}
      BY <1>3
    <2> QED BY <1>1, <2>1, ReadCarries
  <1>5. CASE Moved(c, chain, NoMsg)
    BY <1>0, <1>5, MovedData, MessageTypes
  <1>6. CASE Moved(c, chain, AllocMsg(n, respOp, key))
    <2> DEFINE m == AllocMsg(n, respOp, key)
    <2>1. m.op = "REQ_POST_ALLOC" /\ m.index = n /\ m.data = key
      BY DEF AllocMsg
    <2> HIDE DEF m, key
    <2>2. DataFits(c, chain, m, stored', misread')
      BY <1>1, <1>4, <2>1 DEF DataFits, Calls, Responses, IndexResponses
    <2> QED BY <1>0, <1>2, <1>6, <2>2, MovedData DEF m
  <1>7. CASE /\ x # d /\ y \in Neighbours(x)
             /\ Moved(c, Append(chain, y), Msg("REQ_POST_PEER_ALLOC", n, Xor(key, OTPKey(x, y))))
    <2> DEFINE longer == Append(chain, y)
               m == Msg("REQ_POST_PEER_ALLOC", n, Xor(key, OTPKey(x, y)))
    <2>1. y \in Sites
      BY <1>7 DEF Neighbours
    <2>2. Len(longer) = 3 /\ longer[3] = y /\ longer[2] = x
      <3> HIDE DEF y, x, chain
      <3>1. Len(chain) + 1 = 3 /\ 2 \in 1 .. Len(chain)
        BY <1>1
      <3>2. Len(longer) = Len(chain) + 1 /\ longer[Len(chain) + 1] = y /\ longer[2] = chain[2]
        BY <1>1, <2>1, <3>1, AppendFacts
      <3> QED BY <1>1, <3>1, <3>2
    <2>3. m.op = "REQ_POST_PEER_ALLOC" /\ m.index = n /\ m.data = Xor(key, OTPKey(x, y))
      BY DEF Msg
    <2> HIDE DEF longer, m, key, x, y
    <2>4. Xor(m.data, OTPKey(longer[Len(longer) - 1], longer[Len(longer)])) = key
      BY <2>2, <2>3, PadProperties
    <2>5. DataFits(c, longer, m, stored', misread')
      BY <1>4, <2>3, <2>4 DEF DataFits, Calls, Responses, IndexResponses
    <2> QED BY <1>0, <1>3, <1>7, <2>5, MovedData DEF longer, m
  <1> QED BY <1>5, <1>6, <1>7 DEF PassedOn

\* Every handler keeps DataInv.
LEMMA HandleData ==
  ASSUME FixedSymmetric, TypeInv, DataInv, Next, NEW c \in Sessions, Handle(c),
         ~ Receive(c), ~ RespUnknown(c)
  PROVE  DataInv'
  <1> DEFINE s == sess[c].src
             d == sess[c].dst
             chain == sess[c].chain
             m == sess[c].msg
             k == Len(chain)
  <1>0. route' = route /\ stored \subseteq stored' /\ misread \subseteq misread'
    BY Growth
  <1>k. k \in Nat
    BY DEF TypeInv, TypeOK, SessionOK
  <1>1. ASSUME NEW ch, Moved(c, ch, NoMsg) PROVE DataInv'
    BY <1>0, <1>1, MovedData, MessageTypes
  <1>c. ASSUME NEW n, NEW o \in Calls, NEW y, Op(c) # "none", Moved(c, chain, CallMsg(o, n, y)),
               k = 1 => y = NextHop(s, d)
        PROVE  DataInv'
    <2>1. CallMsg(o, n, y).op = o /\ CallMsg(o, n, y).via = y
      BY DEF CallMsg
    <2>2. DataFits(c, chain, CallMsg(o, n, y), stored', misread')
      BY <1>c, <2>1 DEF DataFits, Calls, Responses, IndexResponses
    <2>3. OnPath(s, d, chain)
      BY <1>c DEF DataInv
    <2> QED BY <1>0, <1>c, <2>2, <2>3, MovedData
  <1>f. ASSUME NEW n, NEW o \in {"REQ_POST_KP_BLOCK_INDEX", "REQ_GET_KP_BLOCK_INDEX"},
               Moved(c, Append(chain, NextHop(s, d)), Msg(o, n, {})),
               Op(c) \notin {"none", "RESP_GET_ALLOC"}, k = 1
        PROVE  DataInv'
    <2>1. s \in Sites /\ d \in Sites /\ chain \in Seq(Sites) /\ s # d /\ chain[1] = s
      BY <1>f, SessionFacts
    <2>2. OnPath(s, d, Append(chain, NextHop(s, d)))
      BY <1>f, <2>1, OnPathHops DEF DataInv
    <2>3. DataFits(c, Append(chain, NextHop(s, d)), Msg(o, n, {}), stored', misread')
      BY DEF DataFits, Msg, Calls, Responses, IndexResponses
    <2> QED BY <1>0, <1>f, <2>2, <2>3, MovedData
  <1>v. ASSUME Op(c) \in Calls, k = 1 PROVE m.via = NextHop(s, d)
    BY <1>v DEF DataInv, DataFits, Op, Calls
  <1>2. CASE GetAlloc(c)
    <2>1. k = 1 /\ Op(c) = "REQ_GET_ALLOC"
      BY <1>2, GetAllocMoves
    <2> QED BY <1>1, <1>2, <1>c, <1>f, <2>1, GetAllocMoves DEF Calls
  <1>10. CASE TestFile(c)
    <2>1. k = 1 /\ Op(c) = "TEST"
      BY <1>10, TestFileMoves
    <2> QED BY <1>10, <1>c, <1>f, <1>v, <2>1, TestFileMoves DEF Calls
  <1>11. CASE Undo(c)
    <2>1. Op(c) = "UNDO"
      BY <1>11, UndoMoves
    <2> QED BY <1>1, <1>11, <1>f, <1>v, <2>1, UndoMoves DEF Calls
  <1>3. CASE PostBlockIndex(c)
    BY <1>1, <1>3, PostBlockIndexMoves, PassedOnData DEF IndexResponses
  <1>4. CASE GetBlockIndex(c)
    BY <1>1, <1>4, <1>c, GetBlockIndexMoves DEF Calls
  <1>12. CASE TakeBlock(c)
    <2> DEFINE n == m.index
    <2>1. Op(c) = "TAKE" /\ k = 2 /\ s \in Neighbours(At(c)) /\ n \in Nat
      BY <1>12, TakeBlockMoves
    <2>2. CASE /\ CanRead(At(c), s, n) /\ Reads(c, At(c), s, n)
               /\ PassedOn(c, n, "RESP_GET_KP_BLOCK_INDEX")
      BY <2>1, <2>2, PassedOnData DEF IndexResponses
    <2>3. CASE Moved(c, chain, CallMsg("UNDO", n, s))
      BY <1>c, <2>1, <2>3 DEF Calls
    <2> QED BY <1>12, <2>2, <2>3, TakeBlockMoves
  <1>5. CASE PostPeerAlloc(c)
    <2> DEFINE x == At(c)
               back == NextHop(x, s)
               y == NextHop(x, d)
               clear == IF back = NoSite THEN m.data ELSE Xor(m.data, OTPKey(x, back))
    <2>1. /\ s \in Sites /\ d \in Sites /\ chain \in Seq(Sites) /\ x \in Sites
          /\ k >= 3 /\ x = chain[k] /\ Op(c) = "REQ_POST_PEER_ALLOC" /\ k \in Nat
      BY <1>5, <1>k, SessionFacts, PostPeerAllocMoves DEF At
    <2>2. OnPath(s, d, chain) /\ DataFits(c, chain, m, stored, misread)
      BY <2>1 DEF DataInv
    <2>3. /\ x # d => OnPath(s, d, Append(chain, y))
          /\ back = chain[k - 1]
      BY <2>1, <2>2, OnPathHops
    <2>4. back # NoSite
      <3>1. chain[k - 1] \in Sites
        BY <2>1
      <3> QED BY <2>3, <3>1, SiteAssumption
    <2>5. Carries(c, m.index, misread', clear)
      <3>1. Carries(c, m.index, misread, Xor(m.data, OTPKey(back, x)))
        BY <2>1, <2>2, <2>3 DEF DataFits, Op
      <3>2. clear = Xor(m.data, OTPKey(back, x))
        BY <2>4, PadProperties
      <3> HIDE DEF clear, m, x, back
      <3> QED BY <1>0, <3>1, <3>2 DEF Carries
    <2>6. CASE Moved(c, chain, AllocMsg(m.index, "RESP_POST_PEER_ALLOC", clear))
      <3>1. DataFits(c, chain, AllocMsg(m.index, "RESP_POST_PEER_ALLOC", clear), stored', misread')
        <4> HIDE DEF clear
        <4> QED BY <2>5 DEF DataFits, AllocMsg, Calls, Responses, IndexResponses
      <3> QED BY <1>0, <2>2, <2>6, <3>1, MovedData
    <2>7. CASE /\ x # d /\ y \in Neighbours(x)
               /\ Moved(c, Append(chain, y),
                        Msg("REQ_POST_PEER_ALLOC", m.index, Xor(clear, OTPKey(x, y))))
      <3> DEFINE longer == Append(chain, y)
                 r == Msg("REQ_POST_PEER_ALLOC", m.index, Xor(clear, OTPKey(x, y)))
      <3>1. y \in Sites
        BY <2>7 DEF Neighbours
      <3>2. Len(longer) = k + 1 /\ longer[k + 1] = y /\ longer[k] = x
        <4> HIDE DEF y, x
        <4> QED BY <2>1, <3>1
      <3>3. /\ r.op = "REQ_POST_PEER_ALLOC" /\ r.index = m.index
            /\ r.data = Xor(clear, OTPKey(x, y))
        BY DEF Msg
      <3> HIDE DEF longer, r, clear, x, y, k
      <3>4. Len(longer) - 1 = k
        BY <2>1, <3>2
      <3>5. Xor(r.data, OTPKey(longer[Len(longer) - 1], longer[Len(longer)])) = clear
        BY <3>2, <3>3, <3>4, PadProperties
      <3>6. DataFits(c, longer, r, stored', misread')
        BY <2>5, <3>3, <3>5 DEF DataFits, Calls, Responses, IndexResponses
      <3> QED BY <1>0, <2>3, <2>7, <3>6, MovedData DEF longer, r
    <2> QED BY <1>1, <1>5, <2>6, <2>7, PostPeerAllocMoves
  <1>6. CASE StoreAtKMS(c)
    <2>1. Op(c) = "REQ_POST_ALLOC" /\ (CopyOf(c, m.data) \in stored' \/ DiskFails)
      BY <1>6, StoreAtKMSMoves DEF CopyOf
    <2>2. PICK r : /\ r = NoMsg \/ (Follows(r, m, "RESP_POST_ALLOC") /\ r.respOp = m.respOp)
                   /\ Moved(c, chain, r)
      BY <1>6, StoreAtKMSMoves
    <2>3. OnPath(s, d, chain) /\ DataFits(c, chain, m, stored, misread)
      BY <2>1 DEF DataInv
    <2>c. Carries(c, m.index, misread, m.data) /\ (m.respOp \in IndexResponses => k = 2)
      BY <2>1, <2>3 DEF DataFits, Op
    <2>4. r # NoMsg => DataFits(c, chain, r, stored', misread')
      <3> HIDE DEF m, chain, k
      <3> QED BY <1>0, <2>1, <2>2, <2>c
              DEF DataFits, Carries, Follows, Calls, Responses, IndexResponses, k
    <2> QED BY <1>0, <1>1, <2>2, <2>3, <2>4, MovedData
  <1>7. CASE RespPostAlloc(c)
    <2>1. /\ Op(c) = "RESP_POST_ALLOC" /\ chain \in Seq(Sites) /\ k >= 2 /\ k \in Nat
          /\ s \in Sites /\ d \in Sites
          /\ m.respOp \in IndexResponses \cup {"RESP_POST_PEER_ALLOC"}
      BY <1>7, <1>k, RespPostAllocMoves, SessionFacts DEF ChainOK, LengthOK, CallOK, Calls, Op
    <2>2. PICK r : /\ r = NoMsg \/ Follows(r, m, m.respOp)
                   /\ Moved(c, Front(chain), r)
      BY <1>7, RespPostAllocMoves
    <2>3. OnPath(s, d, chain) /\ DataFits(c, chain, m, stored, misread)
      BY <2>1 DEF DataInv
    <2>4. OnPath(s, d, Front(chain)) /\ Len(Front(chain)) = k - 1
      BY <2>1, <2>3, OnPathHops, FrontProperties
    <2>5. /\ c \notin misread' => CopyOf(c, LinkBlock(c, m.index)) \in stored' \/ DiskFails
          /\ m.respOp \in IndexResponses => k = 2
      BY <1>0, <2>1, <2>3 DEF DataFits, Responses, Op
    <2>6. r # NoMsg => DataFits(c, Front(chain), r, stored', misread')
      <3> HIDE DEF k, m, chain
      <3> QED BY <2>1, <2>2, <2>4, <2>5 DEF DataFits, Follows, Calls, Responses, IndexResponses
    <2> QED BY <1>0, <1>1, <2>2, <2>4, <2>6, MovedData
  <1>8. CASE RespPostPeerAlloc(c)
    <2>1. /\ Op(c) = "RESP_POST_PEER_ALLOC" /\ chain \in Seq(Sites) /\ k > 0 /\ k \in Nat
          /\ s \in Sites /\ d \in Sites /\ At(c) = chain[k]
      BY <1>8, <1>k, RespPostPeerAllocMoves, SessionFacts DEF At
    <2>2. OnPath(s, d, chain) /\ DataFits(c, chain, m, stored, misread)
      BY <2>1 DEF DataInv
    <2>3. OnPath(s, d, Front(chain)) /\ Len(Front(chain)) = k - 1
      BY <2>1, <2>2, OnPathHops, FrontProperties
    <2>4. c \notin misread' => CopyOf(c, LinkBlock(c, m.index)) \in stored' \/ DiskFails
      BY <1>0, <2>1, <2>2 DEF DataFits, Responses, Op, IndexResponses
    <2>5. k >= 3 => NextHop(At(c), s) # s
      BY <2>1, <2>2, OnPathHops
    <2>6. ASSUME NEW r, k >= 2, Moved(c, Front(chain), r),
                 \/ NextHop(At(c), s) = s /\ \E o \in IndexResponses : Follows(r, m, o)
                 \/ Follows(r, m, "RESP_POST_PEER_ALLOC")
          PROVE  DataInv'
      <3>1. DataFits(c, Front(chain), r, stored', misread')
        <4> HIDE DEF k, m, chain
        <4>1. CASE Follows(r, m, "RESP_POST_PEER_ALLOC")
          BY <2>4, <4>1 DEF DataFits, Follows, Calls, Responses, IndexResponses
        <4>2. CASE NextHop(At(c), s) = s /\ \E o \in IndexResponses : Follows(r, m, o)
          <5>1. k - 1 = 1
            BY <2>1, <2>5, <2>6, <4>2
          <5> QED BY <2>3, <2>4, <4>2, <5>1 DEF DataFits, Follows, Calls, Responses, IndexResponses
        <4> QED BY <2>6, <4>1, <4>2
      <3> QED BY <1>0, <2>3, <2>6, <3>1, MovedData
    <2> QED BY <1>1, <1>8, <2>6, RespPostPeerAllocMoves
  <1>9. CASE RespBlockIndex(c)
    <2> DEFINE x == At(c)
               y == NextHop(x, d)
               n == m.index
               key == {ReadBlock(x, y, n)}
               r == Msg("RESP_GET_ALLOC", 0, key)
    <2>1. /\ Op(c) \in IndexResponses /\ chain \in Seq(Sites) /\ k > 0 /\ k \in Nat
          /\ s \in Sites /\ d \in Sites /\ x = chain[k] /\ x \in Sites
      BY <1>9, <1>k, RespBlockIndexMoves, SessionFacts DEF At, IndexResponses
    <2>2. OnPath(s, d, chain) /\ DataFits(c, chain, m, stored, misread)
      BY <2>1 DEF DataInv, IndexResponses
    <2>3. /\ k = 1
          /\ c \notin misread' => CopyOf(c, LinkBlock(c, n)) \in stored' \/ DiskFails
      BY <1>0, <2>1, <2>2 DEF DataFits, Responses, Op, IndexResponses
    <2>4. x = s /\ OnPath(s, d, Front(chain))
      BY <2>1, <2>2, <2>3, OnPathHops
    <2>6. ASSUME y \in Neighbours(x), n \in Nat, CanRead(x, y, n), Reads(c, x, y, n),
                 Moved(c, Front(chain), r)
          PROVE  DataInv'
      <3>1. Carries(c, n, misread', key)
        BY <2>1, <2>4, <2>6, ReadCarries
      <3>2. r.op = "RESP_GET_ALLOC" /\ r.data = key
        BY DEF Msg
      <3> HIDE DEF r, key, n
      <3>3. DataFits(c, Front(chain), r, stored', misread')
        BY <2>3, <3>1, <3>2 DEF DataFits, Carries, Calls, Responses, IndexResponses
      <3> QED BY <1>0, <2>4, <2>6, <3>3, MovedData
    <2> QED BY <1>1, <1>9, <2>6, RespBlockIndexMoves
  <1> QED BY <1>2, <1>3, <1>4, <1>5, <1>6, <1>7, <1>8, <1>9, <1>10, <1>11, <1>12 DEF Handle

\* Losing messages keeps DataInv.
LEMMA KeptData ==
  ASSUME DataInv, route' = route, stored \subseteq stored', misread \subseteq misread',
         \A e \in Sessions : Kept(e)
  PROVE  DataInv'
  <1> SUFFICES ASSUME NEW e \in Sessions, sess'[e].msg.op # "none"
               PROVE  /\ OnPath(sess[e].src, sess[e].dst, sess[e].chain)'
                      /\ DataFits(e, sess[e].chain, sess[e].msg, stored, misread)'
    BY DEF DataInv, Op
  <1>1. /\ sess'[e].msg = sess[e].msg /\ sess'[e].chain = sess[e].chain
        /\ sess'[e].src = sess[e].src /\ sess'[e].dst = sess[e].dst
    BY MessageTypes DEF Kept
  <1>2. OnPath(sess[e].src, sess[e].dst, sess[e].chain)'
    BY <1>1 DEF DataInv, Op, OnPath
  <1>3. DataFits(e, sess[e].chain, sess[e].msg, stored', misread')
    BY <1>1, DataFitsGrows DEF DataInv, Op
  <1> QED BY <1>1, <1>2, <1>3, DataFitsSame

\* Every step keeps DataInv.
LEMMA DataStep ==
  ASSUME FixedSymmetric, TypeInv, DataInv, Next PROVE DataInv'
  <1>0. route' = route /\ stored \subseteq stored' /\ misread \subseteq misread'
    BY Growth
  <1>1. ASSUME NEW c \in Sessions, Request(c) PROVE DataInv'
    <2> DEFINE s == sess'[c].src
               d == sess'[c].dst
    <2>1. /\ \A e \in Sessions \ {c} : sess'[e] = sess[e]
          /\ <<s, d>> \in Requests /\ sess'[c].chain = <<s>>
          /\ sess'[c].msg.op = "REQ_GET_ALLOC"
      BY <1>1, RequestMoves
    <2>2. OnPath(sess[c].src, sess[c].dst, sess[c].chain)'
      <3>1. <<s, d>>[1] = s /\ <<s, d>>[2] = d
        OBVIOUS
      <3> HIDE DEF s, d
      <3>2. PICK n \in 2 .. Cardinality(Sites) :
               \E p \in [1 .. n -> Sites] : SymmetricPath(route, s, d, n, p)
        BY <2>1, <3>1 DEF FixedSymmetric, SymmetricRoutes, TypeInv, TypeOK
      <3>3. PICK p \in [1 .. n -> Sites] : SymmetricPath(route, s, d, n, p)
        BY <3>2
      <3>4. n \in Nat /\ n >= 2 /\ Len(<<s>>) <= n /\ \A i \in 1 .. Len(<<s>>) : <<s>>[i] = p[i]
        BY <3>3 DEF SymmetricPath
      <3>5. /\ n >= 2 /\ SymmetricPath(route', s, d, n, p)
            /\ Len(sess'[c].chain) <= n
            /\ \A i \in 1 .. Len(sess'[c].chain) : sess'[c].chain[i] = p[i]
        BY <1>0, <2>1, <3>3, <3>4
      <3> QED BY <3>3, <3>4, <3>5 DEF OnPath, s, d
    <2>3. DataFits(c, sess[c].chain, sess[c].msg, stored, misread)'
      BY <2>1 DEF DataFits, Calls, Responses, IndexResponses
    <2>4. ASSUME NEW e \in Sessions, e # c, sess'[e].msg.op # "none"
          PROVE  /\ OnPath(sess[e].src, sess[e].dst, sess[e].chain)'
                 /\ DataFits(e, sess[e].chain, sess[e].msg, stored, misread)'
      <3>1. OnPath(sess[e].src, sess[e].dst, sess[e].chain)'
        BY <1>0, <2>1, <2>4 DEF DataInv, Op, OnPath
      <3>2. DataFits(e, sess[e].chain, sess[e].msg, stored', misread')
        BY <1>0, <2>1, <2>4, DataFitsGrows DEF DataInv, Op
      <3> QED BY <1>0, <2>1, <2>4, <3>1, <3>2, DataFitsSame
    <2> QED BY <2>1, <2>2, <2>3, <2>4 DEF DataInv, Op
  <1> QED BY <1>0, <1>1, HandleData, KeptByOthers, KeptData

\* The invariant behind key agreement.
LEMMA DataInvariant == ASSUME FixedSymmetric PROVE Spec => []DataInv
  <1>1. Init => DataInv
    BY DEF Init, DataInv, Op, NoSession, NoMsg, Msg
  <1>2. TypeInv /\ DataInv /\ [Next]_vars => DataInv'
    BY DataStep, KeptData DEF vars, Kept
  <1> QED BY <1>1, <1>2, TypeInvariant, PTL DEF Spec

\* What is delivered and was read in full was stored.
LEMMA AgreementStep ==
  ASSUME ~ DiskFails, TypeInv, DataInv, WholeBlocksAgree, Next PROVE WholeBlocksAgree'
  <1>0. stored \subseteq stored' /\ misread \subseteq misread'
    BY StoredGrows, MisreadStep
  <1>1. ASSUME NEW c \in Sessions, Receive(c) PROVE WholeBlocksAgree'
    <2>1. c \notin misread => CopyOf(c, sess[c].msg.data) \in stored
      BY <1>1 DEF Receive, DataInv, DataFits, Op
    <2>2. delivered' \subseteq delivered \cup {CopyOf(c, sess[c].msg.data)}
      BY <1>1 DEF Receive, CopyOf
    <2>3. CopyOf(c, sess[c].msg.data).uuid = c
      BY DEF CopyOf
    <2> QED BY <1>0, <2>1, <2>2, <2>3 DEF WholeBlocksAgree
  <1>2. ASSUME UNCHANGED delivered PROVE WholeBlocksAgree'
    BY <1>0, <1>2 DEF WholeBlocksAgree
  <1>3. ASSUME NEW c \in Sessions, StoreAtKMS(c) PROVE UNCHANGED delivered
    BY <1>3 DEF StoreAtKMS
  <1> QED BY <1>1, <1>2, <1>3, CopiesUnchanged

\* Where the way back is the way there and does not change, both KMS sites have
\* the same block under the same id, if both ends of the first link had it in
\* full when they read it: on every network, through any number of relays with
\* their pads, any interleaving of fetches and of the writing of key files,
\* restarts, lost messages and clients that gave up.
THEOREM KeysAgree ==
  ASSUME SymmetricRoutes(RouteTables, Requests), MaxReroutes = 0, ~ DiskFails
  PROVE  Spec => []WholeBlocksAgree
  <1>0. FixedSymmetric
    BY DEF FixedSymmetric
  <1>1. Init => WholeBlocksAgree
    BY DEF Init, WholeBlocksAgree
  <1>2. TypeInv /\ DataInv /\ WholeBlocksAgree /\ [Next]_vars => WholeBlocksAgree'
    BY AgreementStep DEF vars, WholeBlocksAgree
  <1> QED BY <1>0, <1>1, <1>2, TypeInvariant, DataInvariant, PTL DEF Spec

-----------------------------------------------------------------------------
(* The key files, and the blocks that are read from them.                   *)

\* A new key file.
LEMMA CreateEffect ==
  ASSUME TypeInv, NEW x \in Sites, NEW y \in Neighbours(x), QLLCreate(x, y)
  PROVE  /\ \A u \in Sites : \A v \in Neighbours(u) :
               /\ qll'[u][v].files = qll[u][v].files + (IF u = x /\ v = y THEN 1 ELSE 0)
               /\ qll'[u][v].blocks = qll[u][v].blocks
         /\ faults.files < MaxNewFiles /\ faults'.files = faults.files + 1
         /\ faults'.restarts = faults.restarts
         /\ faults'.races = faults.races + (IF InFlight(x, y) # {} THEN 1 ELSE 0)
         /\ UNCHANGED <<counter, sess, stored, delivered, misread>>
  <1> DEFINE q == qll[x][y]
             r == [q EXCEPT !.files = @ + 1]
  <1>0. /\ FilesInv /\ faults \in Faults
        /\ \A u \in Sites : \A v \in Neighbours(u) : qll[u][v] \in Files
    BY DEF TypeInv, TypeOK, Shape, FilesInv, Files, Faults
  <1>1. qll' = [qll EXCEPT ![x][y] = r]
    BY DEF QLLCreate
  <1>2. r.files = q.files + 1 /\ r.blocks = q.blocks
    BY <1>0 DEF Files
  <1> HIDE DEF r
  <1>3. ASSUME NEW u \in Sites, NEW v \in Neighbours(u)
        PROVE  qll'[u][v] = IF u = x /\ v = y THEN r ELSE qll[u][v]
    BY <1>0, <1>1 DEF FilesInv
  <1>4. ASSUME NEW u \in Sites, NEW v \in Neighbours(u)
        PROVE  /\ qll'[u][v].files = qll[u][v].files + (IF u = x /\ v = y THEN 1 ELSE 0)
               /\ qll'[u][v].blocks = qll[u][v].blocks
    <2>1. CASE u = x /\ v = y
      BY <1>2, <1>3, <2>1
    <2>2. CASE ~ (u = x /\ v = y)
      <3>1. qll'[u][v] = qll[u][v] /\ qll[u][v].files \in Nat
        BY <1>0, <1>3, <2>2 DEF Files
      <3> QED BY <2>2, <3>1
    <2> QED BY <2>1, <2>2
  <1>5. faults' = [faults EXCEPT !.files = @ + 1,
                      !.races = IF InFlight(x, y) # {} THEN @ + 1 ELSE @]
    BY DEF QLLCreate
  <1>6. /\ faults'.files = faults.files + 1 /\ faults'.restarts = faults.restarts
        /\ faults'.races = faults.races + (IF InFlight(x, y) # {} THEN 1 ELSE 0)
    BY <1>0, <1>5 DEF Faults
  <1> QED BY <1>4, <1>6 DEF QLLCreate

\* Another line in a key file.
LEMMA WriteEffect ==
  ASSUME TypeInv, NEW x \in Sites, NEW y \in Neighbours(x), QLLWrite(x, y)
  PROVE  /\ \A u \in Sites : \A v \in Neighbours(u) : qll'[u][v].files = qll[u][v].files
         /\ qll[x][y].blocks < qll[x][y].files * BlocksPerFile
         /\ UNCHANGED <<counter, sess, stored, delivered, misread, faults>>
  <1> DEFINE q == qll[x][y]
             full == q.part + 1 = KeyBlockSz
             b == IF full THEN q.blocks + 1 ELSE q.blocks
             p == IF full THEN 0 ELSE q.part + 1
             r == [q EXCEPT !.blocks = b, !.part = p]
  <1>0. /\ FilesInv
        /\ \A u \in Sites : \A v \in Neighbours(u) : qll[u][v] \in Files
    BY DEF TypeInv, TypeOK, Shape, FilesInv, Files
  <1>1. qll' = [qll EXCEPT ![x][y] = r]
    BY DEF QLLWrite
  <1>2. r.files = q.files
    BY <1>0 DEF Files
  <1> HIDE DEF r
  <1>3. \A u \in Sites : \A v \in Neighbours(u) :
           qll'[u][v] = IF u = x /\ v = y THEN r ELSE qll[u][v]
    BY <1>0, <1>1 DEF FilesInv
  <1> QED BY <1>2, <1>3 DEF QLLWrite

\* Who counts which faults, and who changes the key files.
LEMMA FaultsKept ==
  ASSUME TypeInv, Next
  PROVE  /\ \/ UNCHANGED qll
            \/ \E x \in Sites : \E y \in Neighbours(x) : QLLCreate(x, y) \/ QLLWrite(x, y)
         /\ \/ faults'.files = faults.files /\ faults'.races = faults.races
            \/ \E x \in Sites : \E y \in Neighbours(x) : QLLCreate(x, y)
         /\ \/ faults'.restarts = faults.restarts
            \/ /\ \E x \in Sites : Restart(x)
               /\ faults'.restarts = faults.restarts + 1 /\ faults.restarts < MaxRestarts
  <1>0. faults \in Faults
    BY DEF TypeInv, Shape, Faults
  <1>1. ASSUME NEW f \in {"reroutes", "restarts", "losses", "giveUps"}, NEW b, Count(f, b)
        PROVE  /\ faults'.files = faults.files /\ faults'.races = faults.races
               /\ faults'.restarts = faults.restarts + (IF f = "restarts" THEN 1 ELSE 0)
    BY <1>0, <1>1 DEF Count, Faults
  <1>2. ASSUME NEW f \in {"reroutes", "losses", "giveUps"}, NEW b, Count(f, b)
        PROVE  faults'.files = faults.files /\ faults'.races = faults.races
               /\ faults'.restarts = faults.restarts
    BY <1>0, <1>1, <1>2 DEF Faults
  <1>3. ASSUME NEW c \in Sessions, Handle(c) \/ Request(c) PROVE UNCHANGED <<qll, faults>>
    BY <1>3, HandlersKeep DEF Request
  <1>4. ASSUME NEW c \in Sessions, GiveUp(c) \/ Lose(c)
        PROVE  /\ UNCHANGED qll /\ faults'.files = faults.files
               /\ faults'.races = faults.races /\ faults'.restarts = faults.restarts
    BY <1>2, <1>4 DEF GiveUp, Lose
  <1>5. ASSUME Reroute
        PROVE  /\ UNCHANGED qll /\ faults'.files = faults.files
               /\ faults'.races = faults.races /\ faults'.restarts = faults.restarts
    BY <1>2, <1>5 DEF Reroute
  <1>6. ASSUME NEW x \in Sites, Restart(x)
        PROVE  /\ UNCHANGED qll /\ faults'.files = faults.files
               /\ faults'.races = faults.races /\ faults'.restarts = faults.restarts + 1
               /\ faults.restarts < MaxRestarts
    <2>1. Count("restarts", MaxRestarts) /\ UNCHANGED qll
      BY <1>6 DEF Restart
    <2> QED BY <1>1, <2>1 DEF Count
  <1>7. ASSUME NEW x \in Sites, NEW y \in Neighbours(x), QLLCreate(x, y)
        PROVE  faults'.restarts = faults.restarts
    BY <1>7, CreateEffect
  <1>8. ASSUME NEW x \in Sites, NEW y \in Neighbours(x), QLLWrite(x, y)
        PROVE  UNCHANGED faults
    BY <1>8, WriteEffect
  <1> QED BY <1>3, <1>4, <1>5, <1>6, <1>7, <1>8 DEF Next

Relayed == {"REQ_POST_PEER_ALLOC", "REQ_POST_ALLOC"}
BlockNumbers == 1 .. (BlocksPerFile * (InitFiles + MaxNewFiles))
BlockData == {{b} : b \in Links \X BlockNumbers \X (1 .. KeyBlockSz)}

FilesBounded ==
    /\ faults.files <= MaxNewFiles
    /\ \A x \in Sites : \A y \in Neighbours(x) : qll[x][y].files <= InitFiles + faults.files

\* What is relayed or answered was read from a file.
ReadInv ==
    /\ FilesBounded
    /\ \A c \in Sessions :
          /\ Op(c) \in Relayed => sess[c].msg.index \in BlockNumbers
          /\ Op(c) = "RESP_GET_ALLOC" => sess[c].msg.data \in BlockData

\* A block in one of M files is one of their blocks.
LEMMA BlockInFiles ==
  ASSUME NEW B \in Nat \ {0}, NEW M \in Nat, NEW n \in Nat, n > 0, (n - 1) \div B < M
  PROVE  n \in 1 .. (B * M)
  <1> DEFINE q == (n - 1) \div B
  <1>1. q \in Nat /\ n - 1 < B * q + B
    OBVIOUS
  <1> HIDE DEF q
  <1>2. q + 1 <= M /\ q + 1 \in Nat
    BY <1>1 DEF q
  <1>3. B * (q + 1) <= B * M
    BY <1>2
  <1>4. B * (q + 1) = B * q + B
    BY <1>1
  <1>5. B * M \in Nat /\ B * q \in Nat
    BY <1>1
  <1> QED BY <1>1, <1>3, <1>4, <1>5

\* A block that can be read has one of the numbers, and so has what is read.
LEMMA CanReadNumber ==
  ASSUME TypeInv, FilesBounded, NEW x \in Sites, NEW y \in Neighbours(x), NEW n \in Nat,
         CanRead(x, y, n)
  PROVE  n \in BlockNumbers /\ {ReadBlock(x, y, n)} \in BlockData
  <1> DEFINE q == (n - 1) \div BlocksPerFile
             M == InitFiles + MaxNewFiles
  <1>1. /\ n > 0 /\ q < qll[x][y].files /\ qll[x][y].files \in Nat
        /\ qll[x][y].files <= InitFiles + faults.files /\ faults.files <= MaxNewFiles
        /\ faults.files \in Nat
    BY DEF CanRead, HasFile, FilesBounded, TypeInv, TypeOK, Shape
  <1>2. q \in Int /\ M \in Nat
    BY <1>1, BoundAssumption
  <1>3. q < M
    <2> HIDE DEF q
    <2> QED BY <1>1, <1>2, BoundAssumption
  <1>4. n \in BlockNumbers
    BY <1>1, <1>2, <1>3, BlockInFiles, BoundAssumption DEF BlockNumbers
  <1>5. 1 \in BlockNumbers
    BY <1>2, <1>4, BoundAssumption DEF BlockNumbers
  <1>6. \E k \in {1, n}, m \in 1 .. KeyBlockSz : ReadBlock(x, y, n) = <<{x, y}, k, m>>
    BY ReadBlockType
  <1>7. {x, y} \in Links
    BY NeighbourProperties
  <1>8. ReadBlock(x, y, n) \in Links \X BlockNumbers \X (1 .. KeyBlockSz)
    BY <1>4, <1>5, <1>6, <1>7
  <1> QED BY <1>4, <1>8 DEF BlockData

\* Moving session c keeps its number if the new message has it.
LEMMA MovedRead ==
  ASSUME ReadInv, NEW c \in Sessions, NEW chain, NEW m, Moved(c, chain, m), FilesBounded',
         m.op \in Relayed => m.index \in BlockNumbers,
         m.op = "RESP_GET_ALLOC" => m.data \in BlockData
  PROVE  ReadInv'
  BY DEF ReadInv, Moved, Op, BlockNumbers, BlockData

LEMMA FilesBoundedStep ==
  ASSUME TypeInv, FilesBounded, Next PROVE FilesBounded'
  <1>0. /\ faults.files \in Nat
        /\ \A x \in Sites : \A y \in Neighbours(x) : qll[x][y].files \in Nat
    BY DEF TypeInv, TypeOK, Shape
  <1>1. ASSUME NEW x \in Sites, NEW y \in Neighbours(x), QLLCreate(x, y) PROVE FilesBounded'
    <2>1. faults'.files = faults.files + 1 /\ faults.files < MaxNewFiles
      BY <1>1, CreateEffect
    <2>2. ASSUME NEW u \in Sites, NEW v \in Neighbours(u)
          PROVE  qll'[u][v].files <= InitFiles + faults'.files
      <3>1. qll'[u][v].files = qll[u][v].files + (IF u = x /\ v = y THEN 1 ELSE 0)
        BY <1>1, CreateEffect
      <3>2. qll[u][v].files <= InitFiles + faults.files
        BY DEF FilesBounded
      <3> QED BY <1>0, <2>1, <3>1, <3>2, BoundAssumption
    <2> QED BY <1>0, <2>1, <2>2, BoundAssumption DEF FilesBounded, Neighbours
  <1>2. ASSUME UNCHANGED qll \/ \E x \in Sites : \E y \in Neighbours(x) : QLLWrite(x, y),
               faults'.files = faults.files
        PROVE  FilesBounded'
    <2>1. \A x \in Sites : \A y \in Neighbours(x) : qll'[x][y].files = qll[x][y].files
      BY <1>2, WriteEffect
    <2> QED BY <1>2, <2>1 DEF FilesBounded, Neighbours
  <1> QED BY <1>1, <1>2, FaultsKept

LEMMA ReadStep ==
  ASSUME TypeInv, ReadInv, Next PROVE ReadInv'
  <1>0. FilesBounded'
    BY FilesBoundedStep DEF ReadInv
  <1>1. FilesBounded
    BY DEF ReadInv
  <1>2. ASSUME NEW c \in Sessions, NEW chain, NEW m, Moved(c, chain, m),
               m = NoMsg \/ m.op \in Responses \ {"RESP_GET_ALLOC"}
        PROVE  ReadInv'
    BY <1>0, <1>2, MovedRead, MessageTypes DEF Relayed, Responses
  <1>3. ASSUME NEW c \in Sessions, NEW n \in BlockNumbers, NEW o, PassedOn(c, n, o)
        PROVE  ReadInv'
    <2>1. PICK chain, m : /\ Moved(c, chain, m)
                          /\ m = NoMsg \/ (m.index = n /\ m.op # "RESP_GET_ALLOC")
      BY <1>3 DEF PassedOn, AllocMsg, Msg
    <2> QED BY <1>0, <1>2, <1>3, <2>1, MovedRead
  <1>4. ASSUME NEW c \in Sessions, Handle(c), ~ Receive(c), ~ RespUnknown(c)
        PROVE  ReadInv'
    <2>f. ASSUME NEW chain, NEW n,
                 NEW o \in {"REQ_POST_KP_BLOCK_INDEX", "REQ_GET_KP_BLOCK_INDEX"},
                 Moved(c, chain, Msg(o, n, {}))
          PROVE  ReadInv'
      BY <1>0, <2>f, MovedRead DEF Msg, Relayed
    <2>c. ASSUME NEW chain, NEW n, NEW y, NEW o \in Calls, Moved(c, chain, CallMsg(o, n, y))
          PROVE  ReadInv'
      BY <1>0, <2>c, MovedRead DEF CallMsg, Calls, Relayed
    <2>1. CASE GetAlloc(c)
      BY <1>2, <2>1, <2>c, <2>f, GetAllocMoves DEF Calls
    <2>2. CASE TestFile(c)
      BY <2>2, <2>c, <2>f, TestFileMoves DEF Calls
    <2>3. CASE Undo(c)
      BY <1>2, <2>3, <2>f, UndoMoves
    <2>4. CASE PostBlockIndex(c)
      <3>1. At(c) \in Sites
        BY <2>4, SessionFacts DEF PostBlockIndex
      <3> QED BY <1>1, <1>2, <1>3, <2>4, <3>1, PostBlockIndexMoves, CanReadNumber
    <2>5. CASE GetBlockIndex(c)
      BY <1>2, <2>5, <2>c, GetBlockIndexMoves DEF Calls
    <2>6. CASE TakeBlock(c)
      <3>1. At(c) \in Sites
        BY <2>6, SessionFacts DEF TakeBlock
      <3> QED BY <1>1, <1>3, <2>6, <2>c, <3>1, TakeBlockMoves, CanReadNumber DEF Calls
    <2>7. CASE PostPeerAlloc(c)
      <3>1. PICK chain, m :
               /\ Moved(c, chain, m)
               /\ m = NoMsg \/ (m.index = sess[c].msg.index /\ m.op # "RESP_GET_ALLOC")
        <4>1. /\ \A n, o, d : AllocMsg(n, o, d).index = n /\ Msg(o, n, d).index = n
              /\ \A n, o, d : AllocMsg(n, o, d).op # "RESP_GET_ALLOC"
              /\ \A n, d : Msg("REQ_POST_PEER_ALLOC", n, d).op # "RESP_GET_ALLOC"
          BY DEF AllocMsg, Msg
        <4> QED BY <2>7, <4>1, PostPeerAllocMoves
      <3>2. sess[c].msg.index \in BlockNumbers
        BY <2>7 DEF PostPeerAlloc, ReadInv, Relayed
      <3> QED BY <1>0, <1>2, <3>1, <3>2, MovedRead
    <2>8. CASE StoreAtKMS(c)
      <3>1. PICK r : Moved(c, sess[c].chain, r) /\ (r = NoMsg \/ r.op = "RESP_POST_ALLOC")
        BY <2>8, StoreAtKMSMoves DEF Follows
      <3> QED BY <1>2, <3>1 DEF Responses
    <2>9. CASE RespPostAlloc(c) \/ RespPostPeerAlloc(c)
      <3>1. PICK chain, m : /\ Moved(c, chain, m)
                            /\ m = NoMsg \/ m.op \in Responses \ {"RESP_GET_ALLOC"}
        <4>1. CASE RespPostAlloc(c)
          <5>1. sess[c].msg.respOp \in Responses \ {"RESP_GET_ALLOC"}
            BY <4>1, SessionFacts DEF RespPostAlloc, ChainOK, LengthOK, CallOK, Calls, Op,
                                      Responses, IndexResponses
          <5> QED BY <4>1, <5>1, RespPostAllocMoves DEF Follows
        <4>2. CASE RespPostPeerAlloc(c)
          BY <4>2, RespPostPeerAllocMoves DEF Follows, Responses, IndexResponses
        <4> QED BY <2>9, <4>1, <4>2
      <3> QED BY <1>2, <3>1
    <2>10. CASE RespBlockIndex(c)
      <3> DEFINE x == At(c)
                 y == NextHop(x, sess[c].dst)
                 n == sess[c].msg.index
                 m == Msg("RESP_GET_ALLOC", 0, {ReadBlock(x, y, n)})
      <3>1. x \in Sites
        BY <2>10, SessionFacts DEF RespBlockIndex
      <3>2. ASSUME y \in Neighbours(x), n \in Nat, CanRead(x, y, n), Moved(c, Front(sess[c].chain), m)
            PROVE  ReadInv'
        <4>1. {ReadBlock(x, y, n)} \in BlockData
          BY <1>1, <3>1, <3>2, CanReadNumber
        <4>2. m.op = "RESP_GET_ALLOC" /\ m.data = {ReadBlock(x, y, n)}
          BY DEF Msg
        <4> HIDE DEF m, x, y, n
        <4> QED BY <1>0, <3>2, <4>1, <4>2, MovedRead DEF Relayed
      <3> QED BY <1>2, <2>10, <3>2, RespBlockIndexMoves
    <2> QED BY <1>4, <2>1, <2>2, <2>3, <2>4, <2>5, <2>6, <2>7, <2>8, <2>9, <2>10 DEF Handle
  <1>5. ASSUME NEW c \in Sessions, Request(c) PROVE ReadInv'
    BY <1>0, <1>5, RequestMoves DEF ReadInv, Op, Relayed, BlockNumbers, BlockData
  <1>6. ASSUME \A e \in Sessions : Kept(e) PROVE ReadInv'
    BY <1>0, <1>6, MessageTypes DEF ReadInv, Op, Relayed, BlockNumbers, BlockData, Kept
  <1> QED BY <1>4, <1>5, <1>6, KeptByOthers

\* The invariant of what was read.
LEMMA ReadInvariant == Spec => []ReadInv
  <1>1. Init => ReadInv
    BY BoundAssumption DEF Init, ReadInv, FilesBounded, Op, NoSession, NoMsg, Msg, Relayed,
                           ZeroFaults
  <1>2. ReadInv /\ UNCHANGED vars => ReadInv'
    BY DEF vars, ReadInv, FilesBounded, Op, Neighbours, BlockNumbers, BlockData
  <1> QED BY <1>1, <1>2, ReadStep, TypeInvariant, PTL DEF Spec

-----------------------------------------------------------------------------
(* The network implements BlockDelivery.                                    *)

Asking == {"REQ_GET_ALLOC", "REQ_POST_KP_BLOCK_INDEX", "REQ_GET_KP_BLOCK_INDEX",
           "REQ_POST_PEER_ALLOC", "REQ_POST_ALLOC"} \cup Calls

\* A session whose block is stored asks no more, and one whose block is
\* delivered is done.
OnceInv ==
    /\ \A s \in stored : sess[s.uuid].kms # "new" /\ Op(s.uuid) \notin Asking
    /\ \A d \in delivered : sess[d.uuid].kms = "got" /\ Op(d.uuid) = "none"

\* A handler moves the session of its message, and only requests make requests.
LEMMA HandleMoves ==
  ASSUME TypeInv, NEW c \in Sessions, Handle(c), ~ Receive(c), ~ RespUnknown(c)
  PROVE  /\ Op(c) # "none"
         /\ \E chain, m : /\ Moved(c, chain, m)
                          /\ m.op \in Asking => Op(c) \in Asking \ {"REQ_POST_ALLOC"}
  <1> DEFINE Goal == /\ Op(c) # "none"
                     /\ \E chain, m :
                           /\ Moved(c, chain, m)
                           /\ m.op \in Asking => Op(c) \in Asking \ {"REQ_POST_ALLOC"}
  <1> SUFFICES Goal
    OBVIOUS
  <1>0. NoMsg.op \notin Asking
    BY DEF Msg, NoMsg, Asking, Calls
  <1>1. ASSUME NEW chain, NEW m, Moved(c, chain, m), Op(c) \in Asking \ {"REQ_POST_ALLOC"}
        PROVE  Goal
    BY <1>1 DEF Asking, Calls
  <1>2. ASSUME NEW n, NEW o, PassedOn(c, n, o), Op(c) \in Asking \ {"REQ_POST_ALLOC"} PROVE Goal
    <2> HIDE DEF Goal
    <2> QED BY <1>1, <1>2 DEF PassedOn
  <1>3. ASSUME NEW chain, NEW m, Moved(c, chain, m), m.op \notin Asking, Op(c) # "none"
        PROVE  Goal
    BY <1>3
  <1> HIDE DEF Goal
  <1>4. CASE GetAlloc(c) \/ TestFile(c) \/ Undo(c) \/ GetBlockIndex(c) \/ PostPeerAlloc(c)
    <2>1. Op(c) \in Asking \ {"REQ_POST_ALLOC"}
      BY <1>4 DEF GetAlloc, TestFile, Undo, GetBlockIndex, PostPeerAlloc, Asking, Calls
    <2>2. \E chain, m : Moved(c, chain, m)
      BY <1>4, GetAllocMoves, TestFileMoves, UndoMoves, GetBlockIndexMoves, PostPeerAllocMoves
    <2> QED BY <1>1, <2>1, <2>2
  <1>5. CASE PostBlockIndex(c) \/ TakeBlock(c)
    <2>1. Op(c) \in Asking \ {"REQ_POST_ALLOC"}
      BY <1>5 DEF PostBlockIndex, TakeBlock, Asking, Calls
    <2> QED BY <1>1, <1>2, <1>5, <2>1, PostBlockIndexMoves, TakeBlockMoves
  <1>6. CASE StoreAtKMS(c)
    <2>1. PICK r : Moved(c, sess[c].chain, r) /\ (r = NoMsg \/ r.op = "RESP_POST_ALLOC")
      BY <1>6, StoreAtKMSMoves DEF Follows
    <2>2. r.op \notin Asking /\ Op(c) # "none"
      BY <1>0, <1>6, <2>1 DEF StoreAtKMS, Asking, Calls
    <2> QED BY <1>3, <2>1, <2>2
  <1>7. CASE RespPostAlloc(c) \/ RespPostPeerAlloc(c) \/ RespBlockIndex(c)
    <2>1. PICK chain, m : Moved(c, chain, m) /\ (m = NoMsg \/ m.op \in Responses)
      BY <1>7, ResponsesMove
    <2>2. m.op \notin Asking /\ Op(c) # "none"
      BY <1>0, <1>7, <2>1 DEF RespPostAlloc, RespPostPeerAlloc, RespBlockIndex, Responses, Asking,
                              Calls
    <2> QED BY <1>3, <2>1, <2>2
  <1> QED BY <1>4, <1>5, <1>6, <1>7 DEF Handle

\* What the KMS clients never take back.
LEMMA KmsStep ==
  ASSUME TypeInv, Next, NEW e \in Sessions
  PROVE  /\ sess[e].kms = "got" => sess'[e].kms = "got"
         /\ sess[e].kms # "new" => sess'[e].kms # "new"
  <1> USE DEF TypeInv, Shape
  <1>0. sess[e] \in SessionStates
    OBVIOUS
  <1>1. ASSUME NEW c \in Sessions, NEW chain, NEW m, Moved(c, chain, m)
        PROVE  sess'[e].kms = sess[e].kms
    BY <1>1 DEF Moved
  <1>2. ASSUME NEW c \in Sessions, Request(c)
        PROVE  e # c => sess'[e] = sess[e]
    BY <1>2, RequestMoves
  <1>3. ASSUME NEW c \in Sessions, Request(c)
        PROVE  sess[c].kms = "new"
    BY <1>3, RequestMoves
  <1>4. ASSUME NEW c \in Sessions, GiveUp(c)
        PROVE  sess[c].kms = "waiting" /\ sess'[e].kms = IF e = c THEN "gaveUp" ELSE sess[e].kms
    BY <1>0, <1>4 DEF GiveUp, SessionStates
  <1>5. ASSUME NEW c \in Sessions, Receive(c)
        PROVE  \/ sess'[e].kms = sess[e].kms
               \/ sess[e].kms = "waiting" /\ sess'[e].kms = "got"
    <2>1. PICK k : /\ sess' = [sess EXCEPT ![c].msg = NoMsg, ![c].kms = k]
                   /\ k = IF sess[c].kms = "waiting" THEN "got" ELSE sess[c].kms
      BY <1>5 DEF Receive
    <2> QED BY <1>0, <2>1 DEF SessionStates
  <1>6. ASSUME NEW x \in Sites, Restart(x) PROVE sess'[e].kms = sess[e].kms
    BY <1>0, <1>6 DEF Restart, SessionStates
  <1>7. ASSUME NEW c \in Sessions, SetMsg(c, NoMsg) PROVE sess'[e].kms = sess[e].kms
    BY <1>1, <1>7, SetMsgMoves, MessageTypes
  <1>8. ASSUME NEW c \in Sessions, Handle(c), ~ Receive(c) PROVE sess'[e].kms = sess[e].kms
    <2>1. CASE RespUnknown(c)
      BY <1>7, <2>1 DEF RespUnknown, Drop
    <2>2. CASE ~ RespUnknown(c)
      BY <1>1, <1>8, <2>2, HandleMoves
    <2> QED BY <2>1, <2>2
  <1>9. ASSUME NEW c \in Sessions, Lose(c) PROVE sess'[e].kms = sess[e].kms
    BY <1>7, <1>9 DEF Lose, Drop
  <1>10. ASSUME NEW x \in Sites, NEW y \in Neighbours(x), QLLCreate(x, y) \/ QLLWrite(x, y)
         PROVE  UNCHANGED sess
    BY <1>10 DEF QLLCreate, QLLWrite
  <1>11. Reroute => UNCHANGED sess
    BY DEF Reroute
  <1> QED BY <1>2, <1>3, <1>4, <1>5, <1>6, <1>8, <1>9, <1>10, <1>11 DEF Next

\* Every step keeps OnceInv.
LEMMA OnceStep ==
  ASSUME TypeInv, OnceInv, Next PROVE OnceInv'
  <1>0. /\ \A s \in stored : s.uuid \in Sessions
        /\ \A d \in delivered : d.uuid \in Sessions
    BY DEF TypeInv, TypeOK, Copies
  <1>1. ASSUME NEW e \in Sessions, sess[e].kms # "new"
        PROVE  /\ Op(e) \notin Asking => sess'[e].msg.op \notin Asking
               /\ Op(e) = "none" => sess'[e].msg.op = "none"
    <2>1. ASSUME NEW c \in Sessions, Request(c) PROVE sess'[e] = sess[e]
      BY <1>1, <2>1, RequestMoves
    <2>2. ASSUME Kept(e)
          PROVE  /\ Op(e) \notin Asking => sess'[e].msg.op \notin Asking
                 /\ Op(e) = "none" => sess'[e].msg.op = "none"
      BY <2>2, MessageTypes DEF Kept, Op, Asking, Calls
    <2>3. ASSUME NEW c \in Sessions, Handle(c), ~ Receive(c), ~ RespUnknown(c)
          PROVE  /\ Op(e) \notin Asking => sess'[e].msg.op \notin Asking
                 /\ Op(e) = "none" => sess'[e].msg.op = "none"
      BY <2>3, HandleMoves DEF Moved, Op
    <2> QED BY <1>1, <2>1, <2>2, <2>3, KeptByOthers DEF Op
  <1>2. ASSUME NEW s \in stored PROVE sess'[s.uuid].kms # "new" /\ sess'[s.uuid].msg.op \notin Asking
    BY <1>0, <1>1, KmsStep DEF OnceInv
  <1>3. ASSUME NEW d \in delivered PROVE sess'[d.uuid].kms = "got" /\ sess'[d.uuid].msg.op = "none"
    BY <1>0, <1>1, KmsStep DEF OnceInv
  <1>4. ASSUME NEW c \in Sessions, StoreAtKMS(c) PROVE OnceInv'
    <2>1. /\ \A s \in stored' \ stored : s.uuid = c
          /\ UNCHANGED delivered /\ Op(c) = "REQ_POST_ALLOC"
      BY <1>4 DEF StoreAtKMS
    <2>2. sess'[c].msg.op \notin Asking
      <3>1. PICK r : Moved(c, sess[c].chain, r) /\ (r = NoMsg \/ r.op = "RESP_POST_ALLOC")
        BY <1>4, StoreAtKMSMoves DEF Follows
      <3> QED BY <3>1, MessageTypes DEF Moved, Asking, Calls
    <2>3. sess'[c].kms # "new"
      BY <2>1, SessionFacts, KmsStep
    <2> QED BY <1>2, <1>3, <2>1, <2>2, <2>3 DEF OnceInv, Op
  <1>5. ASSUME NEW c \in Sessions, Receive(c) PROVE OnceInv'
    <2>1. /\ UNCHANGED stored
          /\ \A d \in delivered' \ delivered : d.uuid = c /\ sess[c].kms = "waiting"
      BY <1>5 DEF Receive
    <2>2. /\ sess[c].kms = "waiting" => sess'[c].kms = "got"
          /\ sess'[c].msg = NoMsg
      BY <1>5 DEF Receive, TypeInv, Shape, SessionStates
    <2> QED BY <1>2, <1>3, <2>1, <2>2, MessageTypes DEF OnceInv, Op
  <1>6. ASSUME UNCHANGED <<stored, delivered>> PROVE OnceInv'
    BY <1>2, <1>3, <1>6 DEF OnceInv, Op
  <1> QED BY <1>4, <1>5, <1>6, CopiesUnchanged

\* Storing a copy is BlockDelivery's Store.
LEMMA StoreRefines ==
  ASSUME TypeInv, DataInv, ReadInv, OnceInv, ~ DiskFails, NEW c \in Sessions, StoreAtKMS(c)
  PROVE  BD!Store
  <1> DEFINE s == sess[c].src
             d == sess[c].dst
             n == sess[c].msg.index
             data == sess[c].msg.data
             copy == CopyOf(c, data)
  <1>1. /\ Op(c) = "REQ_POST_ALLOC" /\ Len(sess[c].chain) >= 2
        /\ stored' = stored \cup {copy} /\ UNCHANGED <<delivered, misread>>
    BY StoreAtKMSMoves DEF CopyOf, StoreAtKMS
  <1>2. /\ s \in Sites /\ d \in Sites /\ sess[c].chain \in Seq(Sites)
        /\ Len(sess[c].chain) > 0
    BY <1>1, SessionFacts
  <1>3. n \in BlockNumbers /\ \E b \in LinkReads(c, n) : data = {b}
    BY <1>1 DEF ReadInv, Relayed, DataInv, DataFits, Carries, Op
  <1>4. NextHop(s, d) \in Neighbours(s)
    <2>1. OnPath(s, d, sess[c].chain)
      BY <1>1 DEF DataInv
    <2>2. sess[c].chain[2] = NextHop(s, d)
      BY <1>1, <1>2, <2>1, OnPathHops
    <2>3. sess[c].chain[2] \in Sites
      BY <1>1, <1>2
    <2> QED BY <1>2, <2>2, <2>3, NextHopType, SiteAssumption
  <1>5. data \in BlockData
    <2>1. {s, NextHop(s, d)} \in Links
      BY <1>4 DEF Neighbours
    <2>2. 1 \in BlockNumbers
      <3> HIDE DEF n
      <3> QED BY <1>3, BoundAssumption DEF BlockNumbers
    <2>3. PICK b \in LinkReads(c, n) : data = {b}
      BY <1>3
    <2>4. PICK k \in {1, n}, m \in 1 .. KeyBlockSz : b = <<{s, NextHop(s, d)}, k, m>>
      BY <2>3 DEF LinkReads
    <2>5. b \in Links \X BlockNumbers \X (1 .. KeyBlockSz)
      <3> HIDE DEF n
      <3> QED BY <1>3, <2>1, <2>2, <2>4
    <2> QED BY <2>3, <2>5 DEF BlockData
  <1>6. copy.src = s /\ copy.dst = d /\ copy.uuid = c
    BY DEF CopyOf
  <1>7. copy \in BD!Copies
    <2> HIDE DEF data
    <2> QED BY <1>2, <1>5 DEF CopyOf, BD!Copies, BlockData, BlockNumbers
  <1>8. \A old \in stored : old.uuid # c
    BY <1>1 DEF OnceInv, Asking
  <1> HIDE DEF copy
  <1> QED BY <1>1, <1>6, <1>7, <1>8 DEF BD!Store

\* Receiving a block is BlockDelivery's Deliver, if the KMS still waits.
LEMMA ReceiveRefines ==
  ASSUME TypeInv, DataInv, ReadInv, StoredInv, OnceInv, ~ DiskFails, NEW c \in Sessions, Receive(c)
  PROVE  BD!Deliver \/ UNCHANGED <<stored, delivered, misread>>
  <1> DEFINE data == sess[c].msg.data
             copy == CopyOf(c, data)
  <1>1. CASE sess[c].kms # "waiting"
    BY <1>1 DEF Receive
  <1>2. CASE sess[c].kms = "waiting"
    <2>1. /\ delivered' = delivered \cup {copy} /\ UNCHANGED <<stored, misread>>
          /\ Op(c) = "RESP_GET_ALLOC"
      BY <1>2 DEF Receive, CopyOf
    <2>2. c \notin misread => copy \in stored
      BY <2>1 DEF DataInv, DataFits, Op
    <2>3. \E s \in stored : s.uuid = c /\ s.src = sess[c].src /\ s.dst = sess[c].dst
      BY <2>1 DEF StoredInv, ResponseInv, StoredFor, Responses
    <2>4. copy.src = sess[c].src /\ copy.dst = sess[c].dst /\ copy.uuid = c
      BY DEF CopyOf
    <2>5. \E s \in stored : /\ s.src = copy.src /\ s.dst = copy.dst /\ s.uuid = copy.uuid
                            /\ s.block = copy.block \/ copy.uuid \in misread
      <3> HIDE DEF copy
      <3> QED BY <2>2, <2>3, <2>4
    <2>6. copy \in BD!Copies
      <3>1. data \in BlockData
        BY <2>1 DEF ReadInv
      <3>2. sess[c].src \in Sites /\ sess[c].dst \in Sites
        BY <2>1, SessionFacts
      <3> HIDE DEF data
      <3> QED BY <3>1, <3>2 DEF CopyOf, BD!Copies, BlockData, BlockNumbers
    <2>7. \A old \in delivered : old.uuid # c
      BY <1>2 DEF OnceInv
    <2> HIDE DEF copy
    <2> QED BY <2>1, <2>4, <2>5, <2>6, <2>7 DEF BD!Deliver
  <1> QED BY <1>1, <1>2

\* Reading an incomplete file is BlockDelivery's Spoil.
LEMMA MisreadRefines ==
  ASSUME TypeInv, OnceInv, NEW c \in Sessions, Handle(c), ~ StoreAtKMS(c), ~ Receive(c), Next,
         misread' = misread \cup {c}
  PROVE  BD!Spoil \/ UNCHANGED <<stored, delivered, misread>>
  <1>1. CASE UNCHANGED misread
    BY <1>1 DEF Handle, GetAlloc, TestFile, Undo, PostBlockIndex, GetBlockIndex, TakeBlock,
                PostPeerAlloc, RespPostAlloc, RespPostPeerAlloc, RespBlockIndex, RespUnknown
  <1>2. CASE ~ UNCHANGED misread
    <2>1. UNCHANGED <<stored, delivered>> /\ ~ RespUnknown(c)
      BY <1>2, HandlersKeep DEF PostBlockIndex, TakeBlock, RespBlockIndex, RespUnknown
    <2>2. Op(c) # "none"
      BY <2>1, HandleMoves
    <2>3. \A d \in delivered : d.uuid # c
      BY <2>2 DEF OnceInv
    <2>4. c \in misread' \ misread
      BY <1>2
    <2> QED BY <2>1, <2>3, <2>4 DEF BD!Spoil
  <1> QED BY <1>1, <1>2

\* The key routing services of any network implement BlockDelivery, on the same
\* conditions as KeysAgree: a block is stored at the destination once and under
\* an id that was not seen before, and the KMS that asked receives what was
\* stored, at most once, unless one end read a file that was still being written.
THEOREM Refinement ==
  ASSUME SymmetricRoutes(RouteTables, Requests), MaxReroutes = 0, ~ DiskFails
  PROVE  Spec => ImplementsBlockDelivery
  <1>0. FixedSymmetric
    BY DEF FixedSymmetric
  <1>1. Init => BD!Init /\ OnceInv
    BY DEF Init, BD!Init, OnceInv
  <1>2. TypeInv /\ OnceInv /\ [Next]_vars => OnceInv'
    BY OnceStep DEF vars, OnceInv, Op
  <1>3. TypeInv /\ DataInv /\ ReadInv /\ StoredInv /\ OnceInv /\ [Next]_vars
           => [BD!Next]_<<stored, delivered, misread>>
    <2>1. ASSUME TypeInv, DataInv, ReadInv, StoredInv, OnceInv, Next
          PROVE  BD!Next \/ UNCHANGED <<stored, delivered, misread>>
      <3>1. ASSUME NEW c \in Sessions, StoreAtKMS(c) PROVE BD!Next
        BY <2>1, <3>1, StoreRefines DEF BD!Next
      <3>2. ASSUME NEW c \in Sessions, Receive(c)
            PROVE  BD!Next \/ UNCHANGED <<stored, delivered, misread>>
        BY <2>1, <3>2, ReceiveRefines DEF BD!Next
      <3>3. ASSUME \A c \in Sessions : ~ StoreAtKMS(c) /\ ~ Receive(c)
            PROVE  BD!Next \/ UNCHANGED <<stored, delivered, misread>>
        <4>1. CASE UNCHANGED misread
          BY <2>1, <3>3, <4>1, CopiesUnchanged
        <4>2. CASE \E c \in Sessions : Handle(c) /\ misread' = misread \cup {c}
          BY <2>1, <3>3, <4>2, MisreadRefines DEF BD!Next
        <4> QED BY <2>1, <4>1, <4>2, MisreadStep
      <3> QED BY <3>1, <3>2, <3>3
    <2> QED BY <2>1 DEF vars
  <1>4. Spec => []DataInv
    BY <1>0, DataInvariant
  <1> QED BY <1>1, <1>2, <1>3, <1>4, TypeInvariant, ReadInvariant, StoredInvariant, PTL
          DEF Spec, ImplementsBlockDelivery, BD!Spec

-----------------------------------------------------------------------------
(* Fresh blocks, until a service restarts or a file comes amidst a call.    *)

Reserved == {"REQ_POST_KP_BLOCK_INDEX"} \cup Relayed

\* A call at site x that will undo its addAndGet(len), unless a file appears.
Fails(m, x) ==
    \/ m.op = "UNDO"
    \/ m.op = "TEST" /\ ~ HasFile(x, m.via, m.index \div BlocksPerFile)
    \/ m.op = "TAKE" /\ ~ CanRead(x, m.via, m.index)

Failing(x, y) == {c \in InFlight(x, y) : Fails(sess[c].msg, x)}

\* The blocks that are used once the failing calls have undone theirs.
Used(x, y) == counter[x][y] - Cardinality(Failing(x, y))

\* Message m of session c, at site x, is about block b.
Bears(c, m, x, b) ==
    /\ (m.op \in Reserved /\ m.index > 0) \/ (m.op \in Calls /\ ~ Fails(m, x))
    /\ b \in LinkBlock(c, m.index)

\* Session c has block b: taken for its message, or stored by its KMS.
Holds(c, b) ==
    \/ Bears(c, sess[c].msg, At(c), b)
    \/ \E s \in stored : s.uuid = c /\ c \notin misread /\ b \in s.block

\* A block that the end with the smaller name has used, after the pad's.
Counted(b) ==
    \A x \in Sites : \A y \in Neighbours(x) :
        x < y /\ b[1] = {x, y} => 1 < b[2] /\ b[2] <= Used(x, y)

\* Nobody holds a block that is not counted or that somebody else holds; and
\* while a call fails, the file that it did not find is missing.
HoldInv ==
    /\ \A x \in Sites : \A y \in Neighbours(x) : x < y =>
          /\ Used(x, y) >= 1
          /\ Failing(x, y) # {} => ~ HasFile(x, y, (Used(x, y) + 1) \div BlocksPerFile)
    /\ \A c \in Sessions, b \in KeyBlocks : Holds(c, b) => Counted(b)
    /\ \A c, e \in Sessions, b \in KeyBlocks : Holds(c, b) /\ Holds(e, b) => c = e

\* Only the end with the smaller name is asked to reserve a block.
AskInv ==
    \A c \in Sessions :
        Op(c) = "REQ_GET_KP_BLOCK_INDEX" => NextHop(sess[c].src, sess[c].dst) < sess[c].src

FreshInv ==
    /\ AskInv
    /\ \A s \in stored : s.block # {}
    /\ faults.restarts = 0 /\ faults.races = 0 => HoldInv

\* Nobody holds more than before.
SameHolders == \A e \in Sessions, b \in KeyBlocks : Holds(e, b)' => Holds(e, b)

\* A step that uses no block.
Quiet(x, y) ==
    /\ Used(x, y)' = Used(x, y)
    /\ Failing(x, y)' # {} => Failing(x, y) # {} /\ qll'[x][y].files = qll[x][y].files

QuietStep == SameHolders /\ \A x \in Sites : \A y \in Neighbours(x) : Quiet(x, y)

LEMMA QuietHold ==
  ASSUME HoldInv, QuietStep PROVE HoldInv'
  <1>1. ASSUME NEW x \in Sites, NEW y \in Neighbours(x), x < y
        PROVE  /\ Used(x, y)' >= 1
               /\ Failing(x, y)' # {} => ~ HasFile(x, y, (Used(x, y) + 1) \div BlocksPerFile)'
    BY <1>1 DEF HoldInv, QuietStep, Quiet, HasFile
  <1>2. ASSUME NEW b, Counted(b) PROVE Counted(b)'
    BY <1>2 DEF Counted, QuietStep, Quiet, Neighbours
  <1>3. \A c \in Sessions, b \in KeyBlocks : Holds(c, b)' => Counted(b)'
    BY <1>2 DEF HoldInv, QuietStep, SameHolders
  <1>4. \A c, e \in Sessions, b \in KeyBlocks : Holds(c, b)' /\ Holds(e, b)' => c = e
    BY DEF HoldInv, QuietStep, SameHolders
  <1> QED BY <1>1, <1>3, <1>4 DEF HoldInv, Neighbours, KeyBlocks

\* The failing calls are finitely many.
LEMMA FailingFinite ==
  ASSUME NEW x, NEW y
  PROVE  /\ Failing(x, y) \subseteq Sessions /\ IsFiniteSet(Failing(x, y))
         /\ Cardinality(Failing(x, y)) \in Nat
         /\ Cardinality(Failing(x, y)) = 0 <=> Failing(x, y) = {}
  <1>1. Failing(x, y) \subseteq Sessions
    BY DEF Failing, InFlight
  <1> QED BY <1>1, SessionAssumption, FS_Subset, FS_CardinalityType, FS_EmptySet

\* What a move of session c does to the failing calls.
LEMMA FailingMoved ==
  ASSUME NEW c \in Sessions, NEW chain, NEW m, Placed(c, chain, m), UNCHANGED qll, NEW x, NEW y
  PROVE  Failing(x, y)' =
           IF m.op \in Calls /\ chain[Len(chain)] = x /\ m.via = y /\ Fails(m, x)
           THEN Failing(x, y) \cup {c} ELSE Failing(x, y) \ {c}
  <1>1. \A e \in Sessions \ {c} : e \in Failing(x, y)' <=> e \in Failing(x, y)
    BY DEF Failing, InFlight, Placed, Op, At, Fails, HasFile, CanRead
  <1>2. c \in Failing(x, y)' <=>
           m.op \in Calls /\ chain[Len(chain)] = x /\ m.via = y /\ Fails(m, x)
    BY DEF Failing, InFlight, Placed, Op, At, Fails, HasFile, CanRead
  <1>3. Failing(x, y)' \subseteq Sessions /\ Failing(x, y) \subseteq Sessions
    BY DEF Failing, InFlight
  <1> QED BY <1>1, <1>2, <1>3

\* The readers of a step that leaves the counters and the failing calls alone.
LEMMA QuietReaders ==
  ASSUME UNCHANGED counter,
         \A x \in Sites : \A y \in Neighbours(x) :
            /\ Failing(x, y)' = Failing(x, y)
            /\ Failing(x, y) # {} => qll'[x][y].files = qll[x][y].files
  PROVE  \A x \in Sites : \A y \in Neighbours(x) : Quiet(x, y)
  BY DEF Quiet, Used

\* Moving session c gives it nothing that its new message is not about.
LEMMA MovedHolds ==
  ASSUME NEW c \in Sessions, NEW chain, NEW m, Moved(c, chain, m), route' = route,
         UNCHANGED qll, misread \subseteq misread',
         NEW e \in Sessions, NEW b, Holds(e, b)'
  PROVE  \/ Holds(e, b)
         \/ e = c /\ Bears(c, m, chain[Len(chain)], b)
         \/ \E s \in stored' \ stored : s.uuid = e /\ e \notin misread' /\ b \in s.block
  <1>1. CASE \E s \in stored' : s.uuid = e /\ e \notin misread' /\ b \in s.block
    BY <1>1 DEF Holds
  <1>2. CASE Bears(e, sess[e].msg, At(e), b)'
    <2>1. sess'[e].src = sess[e].src /\ sess'[e].dst = sess[e].dst
      BY DEF Moved
    <2>2. LinkBlock(e, sess[e].msg.index)' = LinkBlock(e, sess'[e].msg.index)
      BY <2>1 DEF LinkBlock, NextHop
    <2>3. CASE e = c
      <3>1. sess'[e].msg = m /\ At(e)' = chain[Len(chain)]
        BY <2>3 DEF Moved, At
      <3>2. Bears(c, m, chain[Len(chain)], b)
        BY <1>2, <2>2, <2>3, <3>1 DEF Bears, Fails, HasFile, CanRead
      <3> QED BY <2>3, <3>2
    <2>4. CASE e # c
      <3>1. sess'[e] = sess[e] /\ At(e)' = At(e)
        BY <2>4 DEF Moved, At
      <3>2. Bears(e, sess[e].msg, At(e), b)
        BY <1>2, <2>2, <3>1 DEF Bears, Fails, HasFile, CanRead
      <3> QED BY <3>2 DEF Holds
    <2> QED BY <2>3, <2>4
  <1> QED BY <1>1, <1>2 DEF Holds

\* A message that is about no block.
LEMMA BearsNothing ==
  /\ \A c, x, b : ~ Bears(c, NoMsg, x, b)
  /\ \A c, x, b, n, d : ~ Bears(c, Msg("REQ_GET_KP_BLOCK_INDEX", n, d), x, b)
  /\ \A c, x, b, d : ~ Bears(c, Msg("REQ_POST_KP_BLOCK_INDEX", -1, d), x, b)
  /\ \A c, x, b, n, y : ~ Bears(c, CallMsg("UNDO", n, y), x, b)
  /\ \A c, m, x, b : m.op \in Responses => ~ Bears(c, m, x, b)
  BY DEF Bears, Reserved, Relayed, Calls, Fails, NoMsg, Msg, CallMsg, Responses

\* Undoing an addAndGet(len) leaves the blocks that are used.
LEMMA UndoQuiet ==
  ASSUME TypeInv, NEW c \in Sessions, Undo(c)
  PROVE  \A x \in Sites : \A y \in Neighbours(x) : Quiet(x, y)
  <1> DEFINE u == At(c)
             v == sess[c].msg.via
  <1>1. Op(c) = "UNDO" /\ u \in Sites /\ v \in Neighbours(u) /\ UNCHANGED qll
    BY CallFacts, HandlersKeep, UndoMoves DEF Calls, Undo
  <1>2. PICK chain, m : Placed(c, chain, m) /\ m.op \notin Calls
    BY UndoMoves, MovedPlaced DEF Calls, Msg, NoMsg
  <1>3. counter' = [counter EXCEPT ![u][v] = @ - 1]
    BY UndoMoves
  <1>4. \A x, y : Failing(x, y)' = Failing(x, y) \ {c}
    BY <1>1, <1>2, FailingMoved
  <1>5. \A x, y : c \in Failing(x, y) <=> x = u /\ y = v
    BY <1>1 DEF Failing, InFlight, Fails, Op, Calls
  <1> HIDE DEF u, v
  <1> SUFFICES ASSUME NEW x \in Sites, NEW y \in Neighbours(x) PROVE Quiet(x, y)
    OBVIOUS
  <1>6. Failing(x, y)' # {} => Failing(x, y) # {} /\ qll'[x][y].files = qll[x][y].files
    BY <1>1, <1>4
  <1>7. counter[x][y] \in Nat
    BY DEF TypeInv, TypeOK
  <1>8. CASE x = u /\ y = v
    <2>1. Cardinality(Failing(x, y)') = Cardinality(Failing(x, y)) - 1
      BY <1>4, <1>5, <1>8, FailingFinite, FS_RemoveElement
    <2>2. counter'[x][y] = counter[x][y] - 1
      BY <1>3, <1>8 DEF TypeInv, TypeOK, Shape
    <2>3. Used(x, y)' = counter'[x][y] - Cardinality(Failing(x, y)')
      BY DEF Used
    <2>4. Used(x, y)' = Used(x, y)
      BY <1>7, <2>1, <2>2, <2>3, FailingFinite DEF Used
    <2> QED BY <1>6, <2>4 DEF Quiet
  <1>9. CASE ~ (x = u /\ y = v)
    <2>1. Failing(x, y)' = Failing(x, y)
      BY <1>4, <1>5, <1>9
    <2>2. counter'[x][y] = counter[x][y]
      BY <1>1, <1>3, <1>9 DEF TypeInv, TypeOK, Shape
    <2> QED BY <1>6, <2>1, <2>2 DEF Quiet, Used
  <1> QED BY <1>8, <1>9

\* A handler that is not in a failing call, and starts none.
LEMMA MovedQuiet ==
  ASSUME NEW c \in Sessions, NEW chain, NEW m, Moved(c, chain, m), UNCHANGED <<counter, qll>>,
         m.op \notin Calls, Op(c) \in Calls => ~ Fails(sess[c].msg, At(c))
  PROVE  \A x \in Sites : \A y \in Neighbours(x) : Quiet(x, y)
  <1>1. \A x, y : c \notin Failing(x, y)
    BY DEF Failing, InFlight
  <1>2. \A x, y : Failing(x, y)' = Failing(x, y) \ {c}
    BY MovedPlaced, FailingMoved
  <1>3. \A x, y : Failing(x, y)' = Failing(x, y)
    BY <1>1, <1>2
  <1> QED BY <1>3, QuietReaders

\* A failing call goes on failing.
LEMMA FailedQuiet ==
  ASSUME NEW c \in Sessions, NEW n, Moved(c, sess[c].chain, CallMsg("UNDO", n, sess[c].msg.via)),
         UNCHANGED <<counter, qll>>, Op(c) \in Calls, Fails(sess[c].msg, At(c))
  PROVE  \A x \in Sites : \A y \in Neighbours(x) : Quiet(x, y)
  <1> DEFINE m == CallMsg("UNDO", n, sess[c].msg.via)
  <1>1. m.op \in Calls /\ m.via = sess[c].msg.via /\ \A x : Fails(m, x)
    BY DEF CallMsg, Calls, Fails
  <1> HIDE DEF m
  <1>2. Placed(c, sess[c].chain, m)
    BY MovedPlaced DEF m
  <1>3. ASSUME NEW x, NEW y PROVE Failing(x, y)' = Failing(x, y)
    <2>1. c \in Failing(x, y) <=> At(c) = x /\ m.via = y
      BY <1>1 DEF Failing, InFlight
    <2>2. sess[c].chain[Len(sess[c].chain)] = At(c) /\ UNCHANGED qll
      BY DEF At
    <2>3. Failing(x, y)' = IF /\ m.op \in Calls /\ sess[c].chain[Len(sess[c].chain)] = x
                              /\ m.via = y /\ Fails(m, x)
                           THEN Failing(x, y) \cup {c} ELSE Failing(x, y) \ {c}
      BY <1>2, <2>2, FailingMoved
    <2>4. CASE At(c) = x /\ m.via = y
      BY <1>1, <2>1, <2>2, <2>3, <2>4
    <2>5. CASE ~ (At(c) = x /\ m.via = y)
      BY <2>1, <2>2, <2>3, <2>5
    <2> QED BY <2>4, <2>5
  <1> QED BY <1>3, QuietReaders

\* The handlers that add nothing use no block.
LEMMA HandleQuiet ==
  ASSUME FixedSymmetric, TypeInv, DataInv, ReadInv, Next, NEW c \in Sessions, Handle(c),
         ~ GetAlloc(c), ~ GetBlockIndex(c), ~ Receive(c), ~ RespUnknown(c)
  PROVE  QuietStep
  <1> DEFINE m == sess[c].msg
             n == sess[c].msg.index
  <1>0. /\ route' = route /\ UNCHANGED qll /\ misread \subseteq misread'
        /\ ~ Undo(c) => UNCHANGED counter
    BY Growth, HandlersKeep
  <1>1. ASSUME NEW chain, NEW r, Moved(c, chain, r), stored' = stored,
               \A b : Bears(c, r, chain[Len(chain)], b) => Holds(c, b)
        PROVE  SameHolders
    BY <1>0, <1>1, MovedHolds DEF SameHolders
  <1>2. ASSUME NEW chain, NEW r, Moved(c, chain, r), stored' = stored, UNCHANGED counter,
               r.op \notin Calls, Op(c) \in Calls => ~ Fails(m, At(c)),
               \A b : Bears(c, r, chain[Len(chain)], b) => Holds(c, b)
        PROVE  QuietStep
    BY <1>0, <1>1, <1>2, MovedQuiet DEF QuietStep
  <1>3. NoMsg.op \notin Calls
    BY DEF NoMsg, Msg, Calls
  <1>4. ASSUME Moved(c, sess[c].chain, NoMsg), stored' = stored, UNCHANGED counter,
               Op(c) \in Calls => ~ Fails(m, At(c))
        PROVE  QuietStep
    BY <1>2, <1>3, <1>4, BearsNothing
  <1>a. ASSUME Op(c) \in Reserved, n > 0, NEW b, b \in LinkBlock(c, n) PROVE Holds(c, b)
    BY <1>a DEF Holds, Bears, Op
  <1>5. ASSUME Op(c) \in Calls, ~ Fails(m, At(c)), NEW b, b \in LinkBlock(c, n)
        PROVE  Holds(c, b)
    BY <1>5 DEF Holds, Bears, Op
  <1>6. ASSUME NEW o, PassedOn(c, n, o), stored' = stored, UNCHANGED counter,
               Op(c) \in Reserved \/ (Op(c) \in Calls /\ ~ Fails(m, At(c)))
        PROVE  QuietStep
    <2>1. PICK chain, r : /\ Moved(c, chain, r)
                          /\ r = NoMsg \/ (r.index = n /\ r.op \in Relayed)
      BY <1>6 DEF PassedOn, AllocMsg, Msg, Relayed
    <2>2. r.op \notin Calls
      BY <1>3, <2>1 DEF Calls, Relayed
    <2>3. ASSUME NEW b, Bears(c, r, chain[Len(chain)], b) PROVE Holds(c, b)
      <3>1. r.index = n
        BY <2>1, <2>3, BearsNothing
      <3>2. n > 0 /\ b \in LinkBlock(c, n)
        BY <2>2, <2>3, <3>1 DEF Bears
      <3>3. CASE Op(c) \in Reserved
        BY <1>a, <3>2, <3>3
      <3>4. CASE Op(c) \in Calls /\ ~ Fails(m, At(c))
        BY <1>5, <3>2, <3>4
      <3> QED BY <1>6, <3>3, <3>4
    <2>4. Op(c) \in Calls => ~ Fails(m, At(c))
      BY <1>6 DEF Reserved, Relayed, Calls
    <2> QED BY <1>2, <1>6, <2>1, <2>2, <2>3, <2>4
  <1>7. ASSUME Op(c) \in Calls, Fails(m, At(c)), UNCHANGED counter, stored' = stored,
               Moved(c, sess[c].chain, CallMsg("UNDO", n, m.via))
        PROVE  QuietStep
    <2>1. SameHolders
      BY <1>1, <1>7, BearsNothing
    <2> QED BY <1>0, <1>7, <2>1, FailedQuiet DEF QuietStep
  <1>8. CASE TestFile(c)
    <2>1. Op(c) = "TEST" /\ stored' = stored /\ UNCHANGED counter
      BY <1>8 DEF TestFile
    <2>2. Fails(m, At(c)) <=> ~ HasFile(At(c), m.via, n \div BlocksPerFile)
      BY <2>1 DEF Fails, Op
    <2>3. CASE /\ HasFile(At(c), m.via, n \div BlocksPerFile)
               /\ Moved(c, Append(sess[c].chain, m.via), Msg("REQ_POST_KP_BLOCK_INDEX", n, {}))
      <3> DEFINE r == Msg("REQ_POST_KP_BLOCK_INDEX", n, {})
                 chain == Append(sess[c].chain, m.via)
      <3>1. r.op \notin Calls /\ r.index = n
        BY DEF Msg, Calls
      <3>2. ASSUME NEW b, Bears(c, r, chain[Len(chain)], b) PROVE Holds(c, b)
        <4> HIDE DEF r, chain
        <4>1. b \in LinkBlock(c, n)
          BY <3>1, <3>2 DEF Bears
        <4> QED BY <1>5, <2>1, <2>2, <2>3, <4>1 DEF Calls
      <3> HIDE DEF r, chain
      <3> QED BY <1>2, <2>1, <2>2, <2>3, <3>1, <3>2 DEF r, chain
    <2>4. CASE /\ ~ HasFile(At(c), m.via, n \div BlocksPerFile)
               /\ Moved(c, sess[c].chain, CallMsg("UNDO", n, m.via))
      BY <1>7, <2>1, <2>2, <2>4 DEF Calls
    <2> QED BY <1>8, <2>3, <2>4, TestFileMoves
  <1>9. CASE Undo(c)
    <2>1. stored' = stored
      BY <1>9 DEF Undo
    <2>2. PICK chain, r : Moved(c, chain, r) /\ \A x, b : ~ Bears(c, r, x, b)
      BY <1>9, UndoMoves, BearsNothing
    <2>3. SameHolders
      BY <1>1, <2>1, <2>2
    <2> QED BY <1>9, <2>3, UndoQuiet DEF QuietStep
  <1>10. CASE PostBlockIndex(c)
    <2>1. stored' = stored /\ UNCHANGED counter /\ Op(c) \in Reserved /\ Op(c) \notin Calls
      BY <1>10 DEF PostBlockIndex, Reserved, Calls
    <2> QED BY <1>4, <1>6, <1>10, <2>1, PostBlockIndexMoves
  <1>11. CASE TakeBlock(c)
    <2>1. stored' = stored /\ UNCHANGED counter /\ Op(c) = "TAKE" /\ m.via = sess[c].src
      BY <1>11, TakeBlockMoves DEF TakeBlock
    <2>2. Fails(m, At(c)) <=> ~ CanRead(At(c), m.via, n)
      BY <2>1 DEF Fails, Op
    <2> QED BY <1>6, <1>7, <1>11, <2>1, <2>2, TakeBlockMoves DEF Calls
  <1>12. CASE PostPeerAlloc(c)
    <2>1. stored' = stored /\ UNCHANGED counter /\ Op(c) \in Relayed /\ Op(c) \notin Calls
      BY <1>12 DEF PostPeerAlloc, Relayed, Calls
    <2>2. PICK chain, r : /\ Moved(c, chain, r)
                          /\ r = NoMsg \/ (r.index = n /\ r.op \in Relayed)
      <3>1. \A k, o, d : /\ AllocMsg(k, o, d).index = k /\ Msg(o, k, d).index = k
                         /\ AllocMsg(k, o, d).op \in Relayed /\ Msg(o, k, d).op = o
        BY DEF AllocMsg, Msg, Relayed
      <3>2. "REQ_POST_PEER_ALLOC" \in Relayed
        BY DEF Relayed
      <3> QED BY <1>12, <3>1, <3>2, PostPeerAllocMoves
    <2>3. n > 0
      BY <2>1, BoundAssumption DEF ReadInv, BlockNumbers
    <2>4. r.op \notin Calls
      BY <1>3, <2>2 DEF Relayed, Calls
    <2>5. ASSUME NEW b, Bears(c, r, chain[Len(chain)], b) PROVE Holds(c, b)
      <3>1. r.index = n
        BY <2>2, <2>5, BearsNothing
      <3>2. b \in LinkBlock(c, n) /\ Op(c) \in Reserved
        BY <2>1, <2>5, <3>1 DEF Bears, Reserved
      <3> QED BY <1>a, <2>3, <3>2
    <2> QED BY <1>2, <2>1, <2>2, <2>4, <2>5
  <1>13. CASE StoreAtKMS(c)
    <2> DEFINE copy == CopyOf(c, m.data)
    <2>1. /\ Op(c) = "REQ_POST_ALLOC" /\ stored' \subseteq stored \cup {copy}
          /\ UNCHANGED <<counter, misread>>
      BY <1>13, StoreAtKMSMoves DEF CopyOf, StoreAtKMS
    <2>2. PICK r : Moved(c, sess[c].chain, r) /\ (r = NoMsg \/ r.op = "RESP_POST_ALLOC")
      BY <1>13, StoreAtKMSMoves DEF Follows
    <2>3. (\A x, b : ~ Bears(c, r, x, b)) /\ r.op \notin Calls /\ Op(c) \notin Calls
      BY <1>3, <2>1, <2>2, BearsNothing DEF Responses, Calls
    <2>4. (c \notin misread => m.data = LinkBlock(c, n)) /\ n > 0 /\ Op(c) \in Reserved
      BY <2>1, BoundAssumption
         DEF DataInv, DataFits, Carries, Op, ReadInv, Relayed, Reserved, BlockNumbers
    <2>5. ASSUME NEW s \in stored' \ stored PROVE s.uuid = c /\ s.block = m.data
      BY <2>1 DEF CopyOf
    <2>6. ASSUME NEW e \in Sessions, NEW b, Holds(e, b)' PROVE Holds(e, b)
      <3>1. \/ Holds(e, b)
            \/ \E s \in stored' \ stored : s.uuid = e /\ e \notin misread' /\ b \in s.block
        BY <1>0, <2>2, <2>3, <2>6, MovedHolds
      <3>2. ASSUME NEW s \in stored' \ stored, s.uuid = e, e \notin misread', b \in s.block
            PROVE  Holds(e, b)
        <4>1. e = c /\ s.block = m.data /\ c \notin misread
          BY <1>0, <2>5, <3>2
        <4>2. b \in LinkBlock(c, n)
          BY <2>4, <3>2, <4>1
        <4> QED BY <1>a, <2>4, <4>1, <4>2
      <3> QED BY <3>1, <3>2
    <2> QED BY <1>0, <2>1, <2>2, <2>3, <2>6, MovedQuiet DEF QuietStep, SameHolders
  <1>14. CASE RespPostAlloc(c) \/ RespPostPeerAlloc(c) \/ RespBlockIndex(c)
    <2>1. stored' = stored /\ UNCHANGED counter /\ Op(c) \notin Calls
      BY <1>14 DEF RespPostAlloc, RespPostPeerAlloc, RespBlockIndex, Calls
    <2>2. PICK chain, r : Moved(c, chain, r) /\ (r = NoMsg \/ r.op \in Responses)
      BY <1>14, ResponsesMove
    <2>3. (\A x, b : ~ Bears(c, r, x, b)) /\ r.op \notin Calls
      BY <1>3, <2>2, BearsNothing DEF Responses, Calls
    <2> QED BY <1>2, <2>1, <2>2, <2>3
  <1> QED BY <1>8, <1>9, <1>10, <1>11, <1>12, <1>13, <1>14 DEF Handle

\* Files are numbered from 0 without gaps: with the file of a later block there
\* is the file of an earlier one.
LEMMA EarlierFile ==
  ASSUME TypeInv, NEW x \in Sites, NEW y \in Neighbours(x), NEW a \in Nat, NEW b \in Nat,
         a <= b, HasFile(x, y, b \div BlocksPerFile)
  PROVE  HasFile(x, y, a \div BlocksPerFile)
  <1> DEFINE Q == BlocksPerFile
             k == a \div Q
             l == b \div Q
  <1>0. Q \in Nat /\ Q > 0
    BY BoundAssumption
  <1> HIDE DEF Q
  <1>1. k \in Nat /\ l \in Nat /\ Q * k <= a /\ b < Q * l + Q
    BY <1>0
  <1> HIDE DEF k, l
  <1>2. Q * k < Q * l + Q
    <2>1. Q * k \in Nat /\ Q * l \in Nat
      BY <1>0, <1>1
    <2> QED BY <1>0, <1>1, <2>1
  <1>3. Q * l + Q = Q * (l + 1)
    BY <1>0, <1>1
  <1>4. ASSUME k >= l + 1 PROVE Q * k >= Q * (l + 1)
    BY <1>0, <1>1, <1>4
  <1>5. k <= l
    <2>1. Q * k \in Nat /\ Q * (l + 1) \in Nat
      BY <1>0, <1>1
    <2> QED BY <1>1, <1>2, <1>3, <1>4, <2>1
  <1>6. qll[x][y].files \in Nat
    BY DEF TypeInv, TypeOK
  <1> QED BY <1>1, <1>5, <1>6 DEF HasFile, k, l, Q

\* A link has one end with the smaller name.
LEMMA SmallerEnd ==
  ASSUME NEW x \in Sites, NEW y \in Sites, NEW u \in Sites, NEW v \in Sites,
         x < y, u < v, {x, y} = {u, v}
  PROVE  x = u /\ y = v
  <1>1. x \in Nat /\ y \in Nat /\ u \in Nat /\ v \in Nat
    BY SiteAssumption
  <1> QED BY <1>1

\* Session c calls the reader at x for the next block of the link to y.
Adds(c, x, y) ==
    /\ y \in Neighbours(x) /\ x < y /\ At(c) = x /\ Op(c) \notin Calls
    /\ counter' = [counter EXCEPT ![x][y] = @ + 1]
    /\ \E op \in {"TEST", "TAKE"} : Moved(c, sess[c].chain, CallMsg(op, counter[x][y] + 1, y))
    /\ LinkBlock(c, counter[x][y] + 1) = {Block(x, y, counter[x][y] + 1)}
    /\ UNCHANGED <<route, qll, stored, misread>>

\* Of such a call: either it fails, as all do that come after one that fails,
\* or it takes the block after the last that is used.
LEMMA AddsHold ==
  ASSUME TypeInv, HoldInv, NEW c \in Sessions, NEW x \in Sites, NEW y \in Neighbours(x),
         Adds(c, x, y)
  PROVE  HoldInv'
  <1>n. PICK n : n = counter[x][y] + 1
    OBVIOUS
  <1>o. PICK op \in {"TEST", "TAKE"} : Moved(c, sess[c].chain, CallMsg(op, n, y))
    BY <1>n DEF Adds
  <1> DEFINE m == CallMsg(op, n, y)
             k == Cardinality(Failing(x, y))
  <1>1. m.op = op /\ m.via = y /\ m.index = n /\ op \in Calls /\ op \notin Reserved
    BY DEF CallMsg, Calls, Reserved, Relayed
  <1>f. Fails(m, x) <=> \/ op = "TEST" /\ ~ HasFile(x, y, n \div BlocksPerFile)
                        \/ op = "TAKE" /\ ~ CanRead(x, y, n)
    BY <1>1 DEF Fails
  <1> HIDE DEF m
  <1>2. /\ Moved(c, sess[c].chain, m) /\ Placed(c, sess[c].chain, m)
        /\ sess[c].chain[Len(sess[c].chain)] = x /\ y \in Sites /\ x < y
        /\ route' = route /\ UNCHANGED qll /\ stored' = stored /\ misread' = misread
    BY <1>o, MovedPlaced, NeighbourProperties DEF m, Adds, At
  <1>3. \A u \in Sites : \A v \in Neighbours(u) :
           counter[u][v] \in Nat /\ Cardinality(Failing(u, v)) \in Nat
    BY FailingFinite DEF TypeInv, TypeOK
  <1>4. \A u \in Sites : \A v \in Neighbours(u) :
           counter'[u][v] = IF u = x /\ v = y THEN n ELSE counter[u][v]
    BY <1>n DEF Adds, TypeInv, TypeOK, Shape
  <1>5. \A u, v : c \notin Failing(u, v)
    BY DEF Failing, InFlight, Adds
  <1>6. \A u, v : Failing(u, v)' = IF u = x /\ v = y /\ Fails(m, x)
                                   THEN Failing(u, v) \cup {c} ELSE Failing(u, v)
    <2> SUFFICES ASSUME NEW u, NEW v
                 PROVE  Failing(u, v)' = IF u = x /\ v = y /\ Fails(m, x)
                                         THEN Failing(u, v) \cup {c} ELSE Failing(u, v)
      OBVIOUS
    <2>1. Failing(u, v)' =
             IF m.op \in Calls /\ sess[c].chain[Len(sess[c].chain)] = u /\ m.via = v /\ Fails(m, u)
             THEN Failing(u, v) \cup {c} ELSE Failing(u, v) \ {c}
      BY <1>2, FailingMoved
    <2>2. CASE u = x /\ v = y /\ Fails(m, x)
      BY <1>1, <1>2, <2>1, <2>2
    <2>3. CASE ~ (u = x /\ v = y /\ Fails(m, x))
      BY <1>1, <1>2, <1>5, <2>1, <2>3
    <2> QED BY <2>2, <2>3
  <1>7. ASSUME NEW u \in Sites, NEW v \in Neighbours(u), ~ (u = x /\ v = y)
        PROVE  Failing(u, v)' = Failing(u, v) /\ Used(u, v)' = Used(u, v)
    BY <1>4, <1>6, <1>7 DEF Used
  <1>8. ASSUME NEW e \in Sessions, NEW b, Holds(e, b)'
        PROVE  Holds(e, b) \/ (e = c /\ ~ Fails(m, x) /\ b = Block(x, y, n))
    <2>1. Holds(e, b) \/ (e = c /\ Bears(c, m, x, b))
      BY <1>2, <1>8, MovedHolds
    <2>2. Bears(c, m, x, b) => ~ Fails(m, x) /\ b = Block(x, y, n)
      BY <1>n, <1>1 DEF Bears, Adds
    <2> QED BY <2>1, <2>2
  <1>9. Used(x, y) \in Nat /\ Used(x, y) >= 1 /\ Used(x, y) = counter[x][y] - k
    BY <1>2, <1>3 DEF HoldInv, Used
  <1>10. n \in Nat /\ n = Used(x, y) + k + 1 /\ k \in Nat
    BY <1>n, <1>3, <1>9
  <1>11. CASE Fails(m, x)
    <2>1. ~ HasFile(x, y, (Used(x, y) + 1) \div BlocksPerFile)
      <3>1. CASE Failing(x, y) # {}
        BY <1>2, <3>1 DEF HoldInv
      <3>2. CASE Failing(x, y) = {}
        <4>1. n = Used(x, y) + 1
          BY <1>9, <1>10, <3>2, FailingFinite
        <4>2. n - 1 \in Nat /\ n - 1 <= n /\ n > 0
          BY <1>9, <4>1
        <4>3. ~ HasFile(x, y, n \div BlocksPerFile)
          BY <1>f, <1>10, <1>11, <4>2, EarlierFile DEF CanRead
        <4> QED BY <4>1, <4>3
      <3> QED BY <3>1, <3>2
    <2>2. Used(x, y)' = Used(x, y)
      <3>1. Cardinality(Failing(x, y)') = k + 1
        BY <1>5, <1>6, <1>11, FailingFinite, FS_AddElement
      <3>2. Used(x, y)' = counter'[x][y] - Cardinality(Failing(x, y)')
        BY DEF Used
      <3>3. counter'[x][y] = n
        BY <1>4
      <3> HIDE DEF k
      <3> QED BY <1>9, <1>10, <3>1, <3>2, <3>3
    <2>3. SameHolders
      BY <1>8, <1>11 DEF SameHolders
    <2>4. ASSUME NEW u \in Sites, NEW v \in Neighbours(u), u < v
          PROVE  /\ Used(u, v)' = Used(u, v)
                 /\ Failing(u, v)' # {} => ~ HasFile(u, v, (Used(u, v) + 1) \div BlocksPerFile)
      BY <1>7, <2>1, <2>2, <2>4 DEF HoldInv
    <2>5. ASSUME NEW u \in Sites, NEW v \in Neighbours(u), u < v
          PROVE  /\ Used(u, v)' >= 1
                 /\ Failing(u, v)' # {} => ~ HasFile(u, v, (Used(u, v) + 1) \div BlocksPerFile)'
      BY <1>2, <2>4, <2>5 DEF HoldInv, HasFile
    <2>6. ASSUME NEW b, Counted(b) PROVE Counted(b)'
      BY <2>4, <2>6 DEF Counted, Neighbours
    <2>7. \A e \in Sessions, b \in KeyBlocks : Holds(e, b)' => Counted(b)'
      BY <2>3, <2>6 DEF HoldInv, SameHolders
    <2>8. \A e, f \in Sessions, b \in KeyBlocks : Holds(e, b)' /\ Holds(f, b)' => e = f
      BY <2>3 DEF HoldInv, SameHolders
    <2> QED BY <2>5, <2>7, <2>8 DEF HoldInv, Neighbours, KeyBlocks
  <1>12. CASE ~ Fails(m, x)
    <2>1. Failing(x, y) = {} /\ k = 0
      <3>1. ASSUME Failing(x, y) # {} PROVE FALSE
        <4>1. ~ HasFile(x, y, (Used(x, y) + 1) \div BlocksPerFile)
          BY <1>2, <3>1 DEF HoldInv
        <4>2. k >= 1
          BY <1>10, <3>1, FailingFinite
        <4>3. n - 1 \in Nat /\ Used(x, y) + 1 \in Nat /\ Used(x, y) + 1 <= n - 1
              /\ Used(x, y) + 1 <= n
          <5> HIDE DEF k
          <5> QED BY <1>9, <1>10, <4>2
        <4>4. HasFile(x, y, n \div BlocksPerFile) \/ HasFile(x, y, (n - 1) \div BlocksPerFile)
          BY <1>f, <1>12 DEF CanRead
        <4> QED BY <1>10, <4>1, <4>3, <4>4, EarlierFile
      <3> QED BY <3>1, FailingFinite
    <2>2. n = Used(x, y) + 1 /\ Used(x, y)' = n /\ Failing(x, y)' = {}
      <3>1. Failing(x, y)' = Failing(x, y) /\ counter'[x][y] = n
        BY <1>4, <1>6, <1>12
      <3>2. Used(x, y)' = n - k
        BY <3>1 DEF Used
      <3> HIDE DEF k
      <3> QED BY <1>9, <1>10, <2>1, <3>1, <3>2
    <2>3. \A u \in Sites : \A v \in Neighbours(u) : u < v =>
             /\ Used(u, v) \in Nat /\ Used(u, v)' \in Nat
             /\ Used(u, v)' >= Used(u, v) /\ Used(u, v) >= 1
      <3> SUFFICES ASSUME NEW u \in Sites, NEW v \in Neighbours(u), u < v
                   PROVE  /\ Used(u, v) \in Nat /\ Used(u, v)' \in Nat
                          /\ Used(u, v)' >= Used(u, v) /\ Used(u, v) >= 1
        OBVIOUS
      <3>1. Used(u, v) \in Nat /\ Used(u, v) >= 1
        BY <1>3 DEF HoldInv, Used
      <3>2. CASE u = x /\ v = y
        BY <2>2, <3>1, <3>2
      <3>3. CASE ~ (u = x /\ v = y)
        BY <1>7, <3>1, <3>3
      <3> QED BY <3>2, <3>3
    <2>4. ASSUME NEW u \in Sites, NEW v \in Neighbours(u), u < v
          PROVE  /\ Used(u, v)' >= 1
                 /\ Failing(u, v)' # {} => ~ HasFile(u, v, (Used(u, v) + 1) \div BlocksPerFile)'
      <3>1. Used(u, v)' >= 1
        BY <2>3, <2>4
      <3>2. Failing(u, v)' # {} => Failing(u, v)' = Failing(u, v) /\ Used(u, v)' = Used(u, v)
        BY <1>7, <2>2
      <3> QED BY <1>2, <2>4, <3>1, <3>2 DEF HoldInv, HasFile
    <2>5. ASSUME NEW b \in KeyBlocks, Counted(b) PROVE Counted(b)'
      <3> SUFFICES ASSUME NEW u \in Sites, NEW v \in Neighbours(u), u < v, b[1] = {u, v}
                   PROVE  1 < b[2] /\ b[2] <= Used(u, v)'
        BY DEF Counted, Neighbours
      <3>1. 1 < b[2] /\ b[2] <= Used(u, v) /\ b[2] \in Nat
        BY <2>5 DEF Counted, KeyBlocks
      <3> QED BY <2>3, <3>1
    <2>6. Counted(Block(x, y, n))'
      <3> SUFFICES ASSUME NEW u \in Sites, NEW v \in Neighbours(u), u < v, {x, y} = {u, v}
                   PROVE  1 < n /\ n <= Used(u, v)'
        BY DEF Counted, Neighbours, Block
      <3>1. x = u /\ y = v
        BY <1>2, NeighbourProperties, SmallerEnd
      <3> QED BY <1>9, <2>2, <3>1
    <2>7. ASSUME NEW e \in Sessions PROVE ~ Holds(e, Block(x, y, n))
      <3>1. Block(x, y, n) \in KeyBlocks /\ Block(x, y, n)[1] = {x, y} /\ Block(x, y, n)[2] = n
        BY <1>10, NeighbourProperties DEF Block
      <3>2. ~ (n <= Used(x, y))
        BY <1>9, <2>2
      <3>3. ~ Counted(Block(x, y, n))
        BY <1>2, <3>1, <3>2 DEF Counted
      <3> QED BY <3>1, <3>3 DEF HoldInv
    <2>8. \A e \in Sessions, b \in KeyBlocks : Holds(e, b)' => Counted(b)'
      BY <1>8, <2>5, <2>6 DEF HoldInv
    <2>9. ASSUME NEW e \in Sessions, NEW f \in Sessions, NEW b \in KeyBlocks,
                 Holds(e, b)', Holds(f, b)'
          PROVE  e = f
      BY <1>8, <2>7, <2>9 DEF HoldInv
    <2> QED BY <2>4, <2>8, <2>9 DEF HoldInv, Neighbours, KeyBlocks
  <1> QED BY <1>11, <1>12

\* GetAlloc calls the reader where the source has the smaller name.
LEMMA GetAllocAdds ==
  ASSUME FixedSymmetric, TypeInv, Next, NEW c \in Sessions, GetAlloc(c)
  PROVE  QuietStep \/ \E x \in Sites : \E y \in Neighbours(x) : Adds(c, x, y)
  <1> DEFINE x == sess[c].src
             y == NextHop(x, sess[c].dst)
  <1>1. /\ Op(c) = "REQ_GET_ALLOC" /\ Op(c) \notin Calls /\ x \in Sites /\ At(c) = x
        /\ UNCHANGED <<route, qll, stored, misread>>
    BY SessionFacts, GetAllocMoves DEF GetAlloc, Calls
  <1>2. ASSUME NEW chain, NEW m, Moved(c, chain, m), UNCHANGED counter, m.op \notin Calls,
               \A b : ~ Bears(c, m, chain[Len(chain)], b)
        PROVE  QuietStep
    <2>1. SameHolders
      BY <1>1, <1>2, MovedHolds DEF SameHolders
    <2> QED BY <1>1, <1>2, <2>1, MovedQuiet DEF QuietStep
  <1>3. NoMsg.op \notin Calls /\ Msg("REQ_GET_KP_BLOCK_INDEX", 0, {}).op \notin Calls
    BY DEF NoMsg, Msg, Calls
  <1>4. CASE Moved(c, sess[c].chain, NoMsg) /\ UNCHANGED counter
    BY <1>2, <1>3, <1>4, BearsNothing
  <1>5. CASE /\ y \in Neighbours(x) /\ x < y
             /\ counter' = [counter EXCEPT ![x][y] = @ + 1]
             /\ Moved(c, sess[c].chain, CallMsg("TEST", counter[x][y] + 1, y))
    <2>1. LinkBlock(c, counter[x][y] + 1) = {Block(x, y, counter[x][y] + 1)}
      BY DEF LinkBlock
    <2>2. Adds(c, x, y)
      BY <1>1, <1>5, <2>1 DEF Adds
    <2> QED BY <1>1, <1>5, <2>2
  <1>6. CASE /\ UNCHANGED counter
             /\ Moved(c, Append(sess[c].chain, y), Msg("REQ_GET_KP_BLOCK_INDEX", 0, {}))
    BY <1>2, <1>3, <1>6, BearsNothing
  <1> QED BY <1>4, <1>5, <1>6, GetAllocMoves

\* GetBlockIndex does so, where the first hop has.
LEMMA GetBlockIndexAdds ==
  ASSUME FixedSymmetric, TypeInv, DataInv, AskInv, Next, NEW c \in Sessions, GetBlockIndex(c)
  PROVE  QuietStep \/ \E x \in Sites : \E y \in Neighbours(x) : Adds(c, x, y)
  <1> DEFINE x == At(c)
             s == sess[c].src
             d == sess[c].dst
  <1>1. /\ Op(c) = "REQ_GET_KP_BLOCK_INDEX" /\ Op(c) \notin Calls /\ Len(sess[c].chain) = 2
        /\ x \in Sites /\ s \in Sites /\ d \in Sites /\ sess[c].chain \in Seq(Sites)
        /\ UNCHANGED <<route, qll, stored, misread>>
    BY SessionFacts, GetBlockIndexMoves DEF GetBlockIndex, Calls
  <1>2. x = NextHop(s, d) /\ x < s
    <2>1. OnPath(s, d, sess[c].chain)
      BY <1>1 DEF DataInv
    <2>2. sess[c].chain[2] = NextHop(s, d)
      BY <1>1, <2>1, OnPathHops
    <2> QED BY <1>1, <2>2 DEF At, AskInv
  <1>3. CASE Moved(c, sess[c].chain, NoMsg) /\ UNCHANGED counter
    <2>1. SameHolders
      BY <1>1, <1>3, MovedHolds, BearsNothing DEF SameHolders
    <2>2. NoMsg.op \notin Calls
      BY DEF NoMsg, Msg, Calls
    <2> QED BY <1>1, <1>3, <2>1, <2>2, MovedQuiet DEF QuietStep
  <1>4. CASE /\ s \in Neighbours(x)
             /\ counter' = [counter EXCEPT ![x][s] = @ + 1]
             /\ Moved(c, sess[c].chain, CallMsg("TAKE", counter[x][s] + 1, s))
    <2>1. LinkBlock(c, counter[x][s] + 1) = {Block(x, s, counter[x][s] + 1)}
      BY <1>2, PadProperties DEF LinkBlock
    <2>2. Adds(c, x, s)
      BY <1>1, <1>2, <1>4, <2>1 DEF Adds
    <2> QED BY <1>1, <1>4, <2>2
  <1> QED BY <1>3, <1>4, GetBlockIndexMoves

\* Session e goes on with its message.
Same(e) ==
    /\ sess'[e].chain = sess[e].chain /\ sess'[e].msg = sess[e].msg
    /\ sess'[e].src = sess[e].src /\ sess'[e].dst = sess[e].dst

\* A step that changes no counter and no call, and makes no file for a reader
\* that is being called.
LEMMA IdleQuiet ==
  ASSUME TypeInv, UNCHANGED <<route, counter, stored, misread>>,
         \A e \in Sessions : \/ Same(e)
                             \/ Op(e) \notin Calls /\ sess'[e].msg.op \in {"none", "REQ_GET_ALLOC"},
         \A x \in Sites : \A y \in Neighbours(x) :
             InFlight(x, y) # {} => qll'[x][y].files = qll[x][y].files
  PROVE  QuietStep
  <1>1. ASSUME NEW e \in Sessions, Op(e) \notin Calls PROVE sess'[e].msg.op \notin Calls
    BY <1>1 DEF Same, Op, Calls
  <1>2. ASSUME NEW e \in Sessions, Op(e) \in Calls PROVE Same(e) /\ At(e)' = At(e)
    BY <1>2 DEF Same, At
  <1>3. ASSUME NEW e \in Sessions, Op(e) \in Calls
        PROVE  Fails(sess[e].msg, At(e))' <=> Fails(sess[e].msg, At(e))
    <2>1. At(e) \in Sites /\ sess[e].msg.via \in Neighbours(At(e))
      BY <1>3, CallFacts
    <2>2. InFlight(At(e), sess[e].msg.via) # {}
      BY <1>3 DEF InFlight
    <2>3. qll'[At(e)][sess[e].msg.via].files = qll[At(e)][sess[e].msg.via].files
      BY <2>1, <2>2
    <2>4. sess'[e].msg = sess[e].msg /\ At(e)' = At(e)
      BY <1>2, <1>3 DEF Same
    <2> QED BY <2>3, <2>4 DEF Fails, HasFile, CanRead
  <1>4. ASSUME NEW x, NEW y PROVE Failing(x, y)' = Failing(x, y)
    <2>1. ASSUME NEW e \in Sessions PROVE e \in Failing(x, y)' <=> e \in Failing(x, y)
      <3>1. CASE Op(e) \in Calls
        <4>1. sess'[e].msg = sess[e].msg /\ At(e)' = At(e)
          BY <1>2, <3>1 DEF Same
        <4>2. e \in Failing(x, y) <=> At(e) = x /\ sess[e].msg.via = y /\ Fails(sess[e].msg, At(e))
          BY <3>1 DEF Failing, InFlight
        <4>3. e \in Failing(x, y)' <=> At(e) = x /\ sess[e].msg.via = y /\ Fails(sess[e].msg, At(e))'
          BY <3>1, <4>1 DEF Failing, InFlight, Op
        <4> QED BY <1>3, <3>1, <4>2, <4>3
      <3>2. CASE Op(e) \notin Calls
        BY <1>1, <3>2 DEF Failing, InFlight, Op
      <3> QED BY <3>1, <3>2
    <2>2. Failing(x, y)' \subseteq Sessions /\ Failing(x, y) \subseteq Sessions
      BY DEF Failing, InFlight
    <2> QED BY <2>1, <2>2
  <1>5. ASSUME NEW e \in Sessions, NEW b, Holds(e, b)' PROVE Holds(e, b)
    <2>1. CASE \E s \in stored' : s.uuid = e /\ e \notin misread' /\ b \in s.block
      BY <2>1 DEF Holds
    <2>2. CASE Bears(e, sess[e].msg, At(e), b)'
      <3>1. Same(e)
        BY <2>2 DEF Bears, Reserved, Relayed, Calls
      <3>2. LinkBlock(e, sess[e].msg.index)' = LinkBlock(e, sess[e].msg.index)
        BY <3>1 DEF LinkBlock, NextHop, Same
      <3>3. /\ b \in LinkBlock(e, sess[e].msg.index)
            /\ \/ Op(e) \in Reserved /\ sess[e].msg.index > 0
               \/ Op(e) \in Calls /\ ~ Fails(sess[e].msg, At(e))'
        BY <2>2, <3>1, <3>2 DEF Bears, Op, Same
      <3>4. CASE Op(e) \in Calls /\ ~ Fails(sess[e].msg, At(e))'
        <4>1. ~ Fails(sess[e].msg, At(e))
          BY <1>3, <3>4
        <4> QED BY <3>3, <3>4, <4>1 DEF Bears, Op, Holds
      <3>5. CASE Op(e) \in Reserved /\ sess[e].msg.index > 0
        BY <3>3, <3>5 DEF Bears, Op, Holds
      <3> QED BY <3>3, <3>4, <3>5
    <2> QED BY <1>5, <2>1, <2>2 DEF Holds
  <1>6. ASSUME NEW x \in Sites, NEW y \in Neighbours(x), Failing(x, y) # {}
        PROVE  qll'[x][y].files = qll[x][y].files
    BY <1>6 DEF Failing
  <1>7. \A x \in Sites : \A y \in Neighbours(x) : Quiet(x, y)
    BY <1>4, <1>6, QuietReaders
  <1> QED BY <1>5, <1>7 DEF QuietStep, SameHolders

\* The steps of the KMS clients and of the environment.
LEMMA OthersQuiet ==
  ASSUME FixedSymmetric, TypeInv, Next, faults.races = 0, faults'.races = 0,
         \A x \in Sites : ~ Restart(x),
         \A c \in Sessions : ~ Handle(c) \/ Receive(c) \/ RespUnknown(c)
  PROVE  QuietStep
  <1>1. UNCHANGED <<route, counter, stored, misread>>
    BY RouteFixed DEF Next, Request, Receive, RespUnknown, GiveUp, Lose, QLLCreate, QLLWrite, Reroute
  <1>2. ASSUME NEW e \in Sessions
        PROVE  Same(e) \/ (Op(e) \notin Calls /\ sess'[e].msg.op \in {"none", "REQ_GET_ALLOC"})
    <2>0. sess[e] \in SessionStates /\ sess \in [Sessions -> SessionStates] /\ NoMsg.op = "none"
      BY DEF TypeInv, Shape, NoMsg, Msg
    <2>1. ASSUME UNCHANGED sess PROVE Same(e)
      BY <2>1 DEF Same
    <2>2. ASSUME NEW c \in Sessions, Lose(c) \/ RespUnknown(c) \/ Receive(c)
          PROVE  \/ Same(e)
                 \/ Op(e) \notin Calls /\ sess'[e].msg = NoMsg
      <3>1. Op(c) \notin Calls
        BY <2>2 DEF Lose, RespUnknown, Receive, Calls
      <3>2. CASE e = c
        <4>1. sess'[c].msg = NoMsg
          BY <2>0, <2>2, <3>2 DEF Lose, RespUnknown, Receive, Drop, SetMsg, SessionStates
        <4> QED BY <3>1, <3>2, <4>1
      <3>3. CASE e # c
        <4>1. sess'[e] = sess[e]
          BY <2>0, <2>2, <3>3 DEF Lose, RespUnknown, Receive, Drop, SetMsg
        <4> QED BY <4>1 DEF Same
      <3> QED BY <3>2, <3>3
    <2>3. ASSUME NEW c \in Sessions, GiveUp(c) PROVE Same(e)
      <3>1. sess' = [sess EXCEPT ![c].kms = "gaveUp"]
        BY <2>3 DEF GiveUp
      <3> QED BY <2>0, <3>1 DEF Same, SessionStates
    <2>4. ASSUME NEW c \in Sessions, Request(c)
          PROVE  Same(e) \/ (Op(e) \notin Calls /\ sess'[e].msg.op = "REQ_GET_ALLOC")
      <3>1. Op(c) \notin Calls
        BY <2>4, RequestMoves, SessionFacts DEF Calls
      <3> QED BY <2>4, <3>1, RequestMoves DEF Same
    <2>5. ASSUME NEW x \in Sites, NEW y \in Neighbours(x), QLLCreate(x, y) \/ QLLWrite(x, y)
          PROVE  UNCHANGED sess
      BY <2>5 DEF QLLCreate, QLLWrite
    <2>6. Reroute => UNCHANGED sess
      BY DEF Reroute
    <2> QED BY <2>0, <2>1, <2>2, <2>3, <2>4, <2>5, <2>6 DEF Next
  <1>3. ASSUME NEW x \in Sites, NEW y \in Neighbours(x), InFlight(x, y) # {}
        PROVE  qll'[x][y].files = qll[x][y].files
    <2>1. ASSUME NEW u \in Sites, NEW v \in Neighbours(u), QLLCreate(u, v)
          PROVE  qll'[x][y].files = qll[x][y].files
      <3>1. ~ (u = x /\ v = y)
        BY <1>3, <2>1, CreateEffect
      <3>2. qll'[x][y].files = qll[x][y].files + 0 /\ qll[x][y].files \in Nat
        BY <2>1, <3>1, CreateEffect DEF TypeInv, TypeOK
      <3> QED BY <3>2
    <2> QED BY <2>1, WriteEffect, FaultsKept
  <1> QED BY <1>1, <1>2, <1>3, IdleQuiet

\* Every step keeps FreshInv.
LEMMA FreshStep ==
  ASSUME FixedSymmetric, TypeInv, DataInv, ReadInv, FreshInv, Next PROVE FreshInv'
  <1>1. AskInv'
    <2>1. AskInv /\ route' = route
      BY RouteFixed DEF FreshInv
    <2>2. ASSUME NEW c \in Sessions, NEW chain, NEW m, Moved(c, chain, m),
                 m.op # "REQ_GET_KP_BLOCK_INDEX" \/ NextHop(sess[c].src, sess[c].dst) < sess[c].src
          PROVE  AskInv'
      BY <2>1, <2>2 DEF AskInv, Op, NextHop, Moved
    <2>3. ASSUME NEW c \in Sessions, Request(c) PROVE AskInv'
      BY <2>1, <2>3, RequestMoves DEF AskInv, Op, NextHop
    <2>4. ASSUME \A e \in Sessions : Kept(e) PROVE AskInv'
      BY <2>1, <2>4, MessageTypes DEF AskInv, Op, NextHop, Kept
    <2>o. /\ NoMsg.op = "none" /\ \A o, n, d : Msg(o, n, d).op = o
          /\ \A o, n, y : CallMsg(o, n, y).op = o
          /\ \A n, o, d : AllocMsg(n, o, d).op = "REQ_POST_ALLOC"
      BY DEF Msg, NoMsg, CallMsg, AllocMsg
    <2>5. ASSUME NEW c \in Sessions, GetAlloc(c) PROVE AskInv'
      <3>1. PICK chain, m : /\ Moved(c, chain, m)
                            /\ \/ m.op # "REQ_GET_KP_BLOCK_INDEX"
                               \/ NextHop(sess[c].src, sess[c].dst) < sess[c].src
        <4> DEFINE x == sess[c].src
                   y == NextHop(x, sess[c].dst)
        <4>1. CASE Moved(c, sess[c].chain, NoMsg)
          BY <2>o, <4>1
        <4>2. CASE Moved(c, sess[c].chain, CallMsg("TEST", counter[x][y] + 1, y))
          BY <2>o, <4>2
        <4>3. CASE y < x /\ Moved(c, Append(sess[c].chain, y), Msg("REQ_GET_KP_BLOCK_INDEX", 0, {}))
          BY <4>3
        <4> QED BY <2>5, <4>1, <4>2, <4>3, GetAllocMoves
      <3> QED BY <2>2, <3>1
    <2>6. ASSUME NEW c \in Sessions, NEW n, NEW o, PassedOn(c, n, o) PROVE AskInv'
      <3>1. PICK chain, m : Moved(c, chain, m) /\ m.op # "REQ_GET_KP_BLOCK_INDEX"
        BY <2>6, <2>o DEF PassedOn
      <3> QED BY <2>2, <3>1
    <2>7. ASSUME NEW c \in Sessions, PostPeerAlloc(c) PROVE AskInv'
      <3>1. PICK chain, m : Moved(c, chain, m) /\ m.op # "REQ_GET_KP_BLOCK_INDEX"
        BY <2>7, <2>o, PostPeerAllocMoves
      <3> QED BY <2>2, <3>1
    <2>8. ASSUME NEW c \in Sessions, StoreAtKMS(c) PROVE AskInv'
      <3>1. PICK r : Moved(c, sess[c].chain, r) /\ (r = NoMsg \/ r.op = "RESP_POST_ALLOC")
        BY <2>8, StoreAtKMSMoves DEF Follows
      <3> QED BY <2>2, <2>o, <3>1
    <2>9. ASSUME NEW c \in Sessions, RespPostAlloc(c) \/ RespPostPeerAlloc(c) \/ RespBlockIndex(c)
          PROVE  AskInv'
      <3>1. PICK chain, m : Moved(c, chain, m) /\ (m = NoMsg \/ m.op \in Responses)
        BY <2>9, ResponsesMove
      <3> QED BY <2>2, <2>o, <3>1 DEF Responses
    <2>10. ASSUME NEW c \in Sessions, PostBlockIndex(c) PROVE AskInv'
      BY <2>2, <2>6, <2>o, <2>10, PostBlockIndexMoves
    <2>11. ASSUME NEW c \in Sessions, TakeBlock(c) PROVE AskInv'
      BY <2>2, <2>6, <2>o, <2>11, TakeBlockMoves
    <2>12. ASSUME NEW c \in Sessions, GetBlockIndex(c) \/ TestFile(c) \/ Undo(c) PROVE AskInv'
      <3>1. PICK chain, m : Moved(c, chain, m) /\ m.op # "REQ_GET_KP_BLOCK_INDEX"
        BY <2>12, <2>o, GetBlockIndexMoves, TestFileMoves, UndoMoves
      <3> QED BY <2>2, <3>1
    <2> QED BY <2>3, <2>4, <2>5, <2>7, <2>8, <2>9, <2>10, <2>11, <2>12, KeptByOthers DEF Handle
  <1>2. \A s \in stored' : s.block # {}
    <2>1. ASSUME NEW c \in Sessions, StoreAtKMS(c) PROVE \A s \in stored' : s.block # {}
      <3> DEFINE copy == CopyOf(c, sess[c].msg.data)
      <3>1. Op(c) = "REQ_POST_ALLOC" /\ stored' \subseteq stored \cup {copy}
        BY <2>1, StoreAtKMSMoves DEF CopyOf
      <3>2. copy.block # {}
        BY <3>1 DEF DataInv, DataFits, Op, Carries, CopyOf
      <3> QED BY <3>1, <3>2 DEF FreshInv
    <2>2. ASSUME UNCHANGED stored PROVE \A s \in stored' : s.block # {}
      BY <2>2 DEF FreshInv
    <2>3. ASSUME NEW c \in Sessions, Receive(c) PROVE UNCHANGED stored
      BY <2>3 DEF Receive
    <2> QED BY <2>1, <2>2, <2>3, CopiesUnchanged
  <1>3. ASSUME faults'.restarts = 0, faults'.races = 0 PROVE HoldInv'
    <2>1. faults.restarts \in Nat /\ faults.races \in Nat
      BY DEF TypeInv, Shape
    <2>2. faults.restarts = 0 /\ \A x \in Sites : ~ Restart(x)
      <3>1. ASSUME NEW x \in Sites, Restart(x) PROVE faults'.restarts = faults.restarts + 1
        <4>1. faults' = [faults EXCEPT !["restarts"] = @ + 1] /\ faults \in Faults
          BY <3>1 DEF Restart, Count, TypeInv, Shape, Faults
        <4> QED BY <4>1 DEF Faults
      <3> QED BY <1>3, <2>1, <3>1, FaultsKept
    <2>3. faults.races = 0
      <3>1. ASSUME NEW x \in Sites, NEW y \in Neighbours(x), QLLCreate(x, y)
            PROVE  faults'.races >= faults.races
        BY <2>1, <3>1, CreateEffect
      <3> QED BY <1>3, <2>1, <3>1, FaultsKept
    <2>4. HoldInv /\ AskInv
      BY <2>2, <2>3 DEF FreshInv
    <2>5. ASSUME NEW c \in Sessions, Handle(c), ~ Receive(c), ~ RespUnknown(c)
          PROVE  QuietStep \/ \E x \in Sites : \E y \in Neighbours(x) : Adds(c, x, y)
      BY <2>4, <2>5, GetAllocAdds, GetBlockIndexAdds, HandleQuiet
    <2>6. \/ QuietStep
          \/ \E c \in Sessions, x \in Sites : \E y \in Neighbours(x) : Adds(c, x, y)
      BY <1>3, <2>2, <2>3, <2>5, OthersQuiet
    <2> QED BY <2>4, <2>6, QuietHold, AddsHold
  <1> QED BY <1>1, <1>2, <1>3 DEF FreshInv

\* HoldInv says more than that the blocks that were read in full are fresh.
LEMMA FreshFollows ==
  ASSUME TypeInv, HoldInv, \A s \in stored : s.block # {}
  PROVE  Fresh({s \in stored : s.uuid \notin misread})
  <1> DEFINE copies == {s \in stored : s.uuid \notin misread}
  <1>0. \A s \in copies : /\ s \in stored /\ s.uuid \in Sessions /\ s.block \subseteq KeyBlocks
                          /\ \A b \in s.block : Holds(s.uuid, b)
    BY DEF TypeInv, TypeOK, Copies, Holds
  <1> HIDE DEF copies
  <1>1. ASSUME NEW s1 \in copies, NEW s2 \in copies, s1.block = s2.block
        PROVE  s1.uuid = s2.uuid
    <2>1. PICK b \in KeyBlocks : b \in s1.block
      BY <1>0
    <2>2. Holds(s1.uuid, b) /\ Holds(s2.uuid, b)
      BY <1>0, <1>1, <2>1
    <2> QED BY <1>0, <2>2 DEF HoldInv
  <1>2. ASSUME NEW s \in copies, NEW l \in Links, <<l, 1, KeyBlockSz>> \in s.block PROVE FALSE
    <2>1. PICK x \in Sites, y \in Sites : x # y /\ l = {x, y}
      BY SiteAssumption
    <2>2. x \in Nat /\ y \in Nat /\ y \in Neighbours(x) /\ x \in Neighbours(y)
      <3>1. {x, y} = {y, x}
        OBVIOUS
      <3> QED BY <2>1, <3>1, SiteAssumption DEF Neighbours
    <2>3. Counted(<<l, 1, KeyBlockSz>>)
      BY <1>0, <1>2 DEF HoldInv
    <2>4. ASSUME NEW u \in Sites, NEW v \in Neighbours(u), u < v, l = {u, v} PROVE FALSE
      BY <2>3, <2>4 DEF Counted
    <2>5. {y, x} = l
      BY <2>1
    <2> QED BY <2>1, <2>2, <2>4, <2>5
  <1> QED BY <1>1, <1>2 DEF Fresh, copies

\* Until a service restarts or a key file appears amidst a call, no key block
\* that was read in full is used for two ids, nor the block that is a link's
\* pad: on every network, with any number of fetches at a time, calls that undo
\* their addAndGet(len) while others add, files that are being written, lost
\* messages and key files that could not be written.
THEOREM BlocksFreshUntilRestartOrRace ==
  ASSUME SymmetricRoutes(RouteTables, Requests), MaxReroutes = 0
  PROVE  Spec => []FreshUntilRestartOrRace
  <1>0. FixedSymmetric
    BY DEF FixedSymmetric
  <1>1. Init => FreshInv
    <2> SUFFICES ASSUME Init PROVE FreshInv
      OBVIOUS
    <2>1. \A c \in Sessions : sess[c].msg = NoMsg /\ Op(c) = "none" /\ Op(c) \notin Calls
      BY DEF Init, Op, NoSession, NoMsg, Msg, Calls
    <2>2. \A x, y : Failing(x, y) = {}
      BY <2>1 DEF Failing, InFlight
    <2>3. \A c \in Sessions : \A b : ~ Holds(c, b)
      BY <2>1, BearsNothing DEF Holds, Init
    <2>4. \A x \in Sites : \A y \in Neighbours(x) : Used(x, y) = 1
      <3>1. Cardinality({}) = 0
        BY FS_EmptySet
      <3>2. \A x \in Sites : \A y \in Neighbours(x) : counter[x][y] = 1
        BY DEF Init
      <3> QED BY <2>2, <3>1, <3>2 DEF Used
    <2> QED BY <2>1, <2>2, <2>3, <2>4 DEF FreshInv, AskInv, HoldInv, Init
  <1>2. TypeInv /\ DataInv /\ ReadInv /\ FreshInv /\ [Next]_vars => FreshInv'
    <2>1. ASSUME TypeInv, FreshInv, UNCHANGED vars PROVE FreshInv'
      <3>1. QuietStep
        BY <2>1, IdleQuiet DEF vars, Same
      <3>2. HoldInv => HoldInv'
        BY <3>1, QuietHold
      <3>3. AskInv'
        BY <2>1 DEF vars, FreshInv, AskInv, Op, NextHop
      <3> QED BY <2>1, <3>2, <3>3 DEF vars, FreshInv
    <2> QED BY <1>0, <2>1, FreshStep
  <1>3. TypeInv /\ FreshInv => FreshUntilRestartOrRace
    BY FreshFollows DEF FreshInv, FreshUntilRestartOrRace
  <1> QED BY <1>0, <1>1, <1>2, <1>3, TypeInvariant, DataInvariant, ReadInvariant, PTL DEF Spec

\* The key files are complete, and so was all that was read.
CompleteInv ==
    /\ faults.restarts = 0 /\ faults.races = 0 /\ misread = {}
    /\ \A x \in Sites : \A y \in Neighbours(x) :
          qll[x][y].blocks = qll[x][y].files * BlocksPerFile

\* A network in which no service restarts and whose key files are written
\* before it starts uses no key block for two ids, nor a link's pad.
THEOREM BlocksFresh ==
  ASSUME SymmetricRoutes(RouteTables, Requests), MaxReroutes = 0, MaxRestarts = 0, MaxNewFiles = 0
  PROVE  Spec => []FreshBlocks
  <1>1. Init => CompleteInv
    BY DEF Init, ZeroFaults, CompleteInv
  <1>2. ASSUME TypeInv, CompleteInv, Next PROVE CompleteInv'
    <2>0. faults.restarts \in Nat /\ faults.files \in Nat
      BY <1>2 DEF TypeInv, Shape
    <2>1. ASSUME NEW x \in Sites, NEW y \in Neighbours(x), QLLCreate(x, y) \/ QLLWrite(x, y)
          PROVE  FALSE
      <3>1. qll[x][y].blocks = qll[x][y].files * BlocksPerFile
            /\ qll[x][y].files \in Nat /\ qll[x][y].blocks \in Nat
        BY <1>2 DEF CompleteInv, TypeInv, TypeOK
      <3>2. ~ QLLCreate(x, y)
        BY <2>0 DEF QLLCreate
      <3>3. qll[x][y].blocks < qll[x][y].files * BlocksPerFile
        BY <2>1, <3>2 DEF QLLWrite
      <3> QED BY <3>1, <3>3
    <2>2. UNCHANGED qll /\ faults'.races = 0 /\ faults'.restarts = 0
      BY <1>2, <2>0, <2>1, FaultsKept DEF CompleteInv
    <2>3. ASSUME NEW c \in Sessions, NEW x \in Sites, NEW y \in Neighbours(x), NEW n \in Int,
                 Reads(c, x, y, n)
          PROVE  misread' = misread
      <3>1. ASSUME CanRead(x, y, n) PROVE Whole(x, y, n)
        <4>1. n \in Nat /\ n > 0 /\ (n - 1) \div BlocksPerFile < qll[x][y].files
          BY <3>1 DEF CanRead, HasFile
        <4>2. qll[x][y].files \in Nat /\ qll[x][y].blocks = qll[x][y].files * BlocksPerFile
          BY <1>2 DEF CompleteInv, TypeInv, TypeOK
        <4>3. n \in 1 .. (BlocksPerFile * qll[x][y].files)
          BY <4>1, <4>2, BlockInFiles, BoundAssumption
        <4>4. BlocksPerFile * qll[x][y].files = qll[x][y].files * BlocksPerFile
          BY <4>2, BoundAssumption
        <4> QED BY <4>2, <4>3, <4>4 DEF Whole
      <3> QED BY <2>3, <3>1 DEF Reads
    <2>4. ASSUME NEW c \in Sessions, Handle(c) PROVE misread' = misread
      <3> DEFINE n == sess[c].msg.index
      <3>0. ASSUME Op(c) \notin {"none", "RESP_GET_ALLOC"}
            PROVE  n \in Int /\ At(c) \in Sites /\ sess[c].dst \in Sites
        BY <1>2, <3>0, SessionFacts DEF Messages
      <3> HIDE DEF n
      <3>1. CASE PostBlockIndex(c)
        BY <1>2, <2>3, <3>0, <3>1 DEF PostBlockIndex, n
      <3>2. CASE TakeBlock(c)
        <4>1. sess[c].msg.via \in Neighbours(At(c))
          BY <1>2, <3>2, CallFacts DEF TakeBlock, Calls
        <4> QED BY <1>2, <2>3, <3>0, <3>2, <4>1 DEF TakeBlock, n
      <3>3. CASE RespBlockIndex(c)
        <4>1. NextHop(At(c), sess[c].dst) \in Neighbours(At(c)) \cup {NoSite}
          BY <1>2, <3>0, <3>3, NextHopType DEF RespBlockIndex
        <4> QED BY <1>2, <2>3, <3>0, <3>3, <4>1 DEF RespBlockIndex, n
      <3> QED BY <2>4, <3>1, <3>2, <3>3, HandlersKeep
    <2>5. misread' = misread
      BY <1>2, <2>4, MisreadStep
    <2> QED BY <1>2, <2>2, <2>5 DEF CompleteInv, Neighbours
  <1>3. TypeInv /\ CompleteInv /\ [Next]_vars => CompleteInv'
    BY <1>2 DEF vars, CompleteInv, Neighbours
  <1>4. CompleteInv /\ FreshUntilRestartOrRace => FreshBlocks
    <2> SUFFICES ASSUME CompleteInv, FreshUntilRestartOrRace PROVE FreshBlocks
      OBVIOUS
    <2>1. {s \in stored : s.uuid \notin misread} = stored
      BY DEF CompleteInv
    <2> QED BY <2>1 DEF CompleteInv, FreshUntilRestartOrRace, FreshBlocks
  <1>5. Spec => []FreshUntilRestartOrRace
    BY BlocksFreshUntilRestartOrRace
  <1> QED BY <1>1, <1>3, <1>4, <1>5, TypeInvariant, PTL DEF Spec

=============================================================================
