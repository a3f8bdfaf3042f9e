----------------------------- MODULE KeyRouting -----------------------------
(***************************************************************************)
(* Delivery of a key block to two KMS sites by the key routing services    *)
(* (QNL) between them: KeyRouterFrontendHandler (requests, hop by hop),    *)
(* KeyRouterBackendHandler (responses, back through the same connections), *)
(* the link key store (QLLFileReader) and pads (OTPKey) at each site, the  *)
(* QLL that writes its files, and ServerHandler of kms-qnl-service, which  *)
(* stores the destination's copy.                                          *)
(*                                                                         *)
(* Representation.  Sites are numbers in the order of their names.  Blocks *)
(* of keyBlockSz keys are counted from 1, and both ends of a link have the *)
(* same QLL keys.  <<link, n, m>> is what a reader gets that finds only m  *)
(* keys of block n.  Data is a set of such blocks, the ones whose          *)
(* exclusive or it is.  A session is one fetch by a KMS; at any time it    *)
(* has at most one message, and "chain" is the sites whose inbound         *)
(* connection waits for the response.  The UUID that a session generates   *)
(* is named by the session.                                                *)
(***************************************************************************)
EXTENDS Integers, Sequences, FiniteSets

CONSTANTS
    Sites,          \* the QNL sites, a set of naturals
    Links,          \* the links: sets of two sites (the adjacent maps)
    RouteTables,    \* the next-hop tables LSRPRouter.getNextHop may follow
    Sessions,       \* the key block fetches of a behaviour
    Requests,       \* <<src, dst>> pairs the KMS services may ask for
    KeyBlockSz,     \* keys of a block (keyBlockSz)
    BlocksPerFile,  \* qllBlockSz / keyBlockSz
    InitFiles,      \* QLL files each end of a link has at the start
    Growing,        \* bound: links that get new QLL files
    MaxNewFiles,    \* bound: new QLL files in all
    MaxHops,        \* bound: sites on a chain
    MaxReroutes, MaxRestarts, MaxLosses, MaxGiveUps,    \* bounds on faults
    DiskFails,      \* may ServerHandler fail to write a key file?
    NoSite

ASSUME SiteAssumption ==
    /\ Sites \subseteq Nat /\ NoSite \notin Sites
    /\ \A l \in Links : \E x, y \in Sites : x # y /\ l = {x, y}
    /\ Requests \subseteq {r \in Sites \X Sites : r[1] # r[2]}

\* A next hop is an adjacent site, or null when there is no path; the path of
\* a site to itself is empty.
ASSUME RouteAssumption ==
    /\ RouteTables \subseteq [Sites -> [Sites -> Sites \cup {NoSite}]]
    /\ \A rt \in RouteTables, x, d \in Sites :
          rt[x][d] = NoSite \/ {x, rt[x][d]} \in Links
    /\ \A rt \in RouteTables, x \in Sites : rt[x][x] = NoSite

ASSUME SessionAssumption == IsFiniteSet(Sessions)

ASSUME BoundAssumption ==
    /\ KeyBlockSz \in Nat \ {0} /\ BlocksPerFile \in Nat \ {0} /\ InitFiles \in Nat
    /\ InitFiles > 1 \div BlocksPerFile      \* the pads could be made at the start
    /\ MaxNewFiles \in Nat
    /\ MaxHops \in Nat /\ MaxReroutes \in Nat /\ MaxRestarts \in Nat
    /\ MaxLosses \in Nat /\ MaxGiveUps \in Nat /\ DiskFails \in BOOLEAN

VARIABLES
    route,      \* what getNextHop answers at each site for each destination
    counter,    \* qllBlockIndex / keyBlockSz of each site's reader per neighbour
    qll,        \* QLL key files at each site per neighbour: how many files there
                \* are, whole blocks in them, and keys of the next block
    sess,       \* the sessions
    stored,     \* key files written by kms-qnl-service
    delivered,  \* blocks received by the KMS that asked for them
    misread,    \* history: sessions that have read a block not yet written in full
    faults      \* number of reroutes, restarts, losses, give-ups and new files so
                \* far, and of the new files that came amidst a call (races)

vars == <<route, counter, qll, sess, stored, delivered, misread, faults>>

Neighbours(x) == {y \in Sites : {x, y} \in Links}

\* via is the neighbour whose reader a handler is calling, see Calls.
Msg(op, index, data) ==
    [op |-> op, index |-> index, respOp |-> "none", data |-> data, via |-> NoSite]
NoMsg == Msg("none", 0, {})

\* kms is the state of the asking KMS client: new, waiting, got or gaveUp.
NoSession == [kms |-> "new", src |-> NoSite, dst |-> NoSite, chain |-> <<>>,
              broken |-> {}, msg |-> NoMsg]

\* A path of n sites on which both ends find each other: getNextHop towards d
\* follows it from s, and getNextHop towards s follows it back.
SymmetricPath(rt, s, d, n, p) ==
    /\ p[1] = s /\ p[n] = d
    /\ \A i \in 1 .. n - 1 : rt[p[i]][d] = p[i + 1] /\ rt[p[i + 1]][s] = p[i]

\* The condition under which the pads of relayed requests match (see
\* PostPeerAlloc): the way back is the way there.
SymmetricRoutes(tables, requests) ==
    \A rt \in tables, r \in requests :
        \E n \in 2 .. Cardinality(Sites) :
            \E p \in [1 .. n -> Sites] : SymmetricPath(rt, r[1], r[2], n, p)

At(c) == sess[c].chain[Len(sess[c].chain)]
Op(c) == sess[c].msg.op
NextHop(x, d) == route[x][d]

-----------------------------------------------------------------------------
(* The link key store.  Block n lies in file (n - 1) \div BlocksPerFile.    *)

Block(x, y, n) == <<{x, y}, n, KeyBlockSz>>

HasFile(x, y, f) == f < qll[x][y].files

\* read(dst, len, offset): reads nothing for a negative offset.
CanRead(x, y, n) == n > 0 /\ HasFile(x, y, (n - 1) \div BlocksPerFile)

Whole(x, y, n) == n <= qll[x][y].blocks

\* What is read of block n: the keys that are missing are taken from file 0, and
\* when all are missing that is the first block.
ReadBlock(x, y, n) ==
    IF Whole(x, y, n) THEN Block(x, y, n)
    ELSE IF n = qll[x][y].blocks + 1 /\ qll[x][y].part > 0
         THEN <<{x, y}, n, qll[x][y].part>> ELSE Block(x, y, 1)

\* History of a read by session c.
Reads(c, x, y, n) ==
    misread' = IF CanRead(x, y, n) /\ ~Whole(x, y, n) THEN misread \cup {c} ELSE misread

\* A call that adds to the counter is in several steps: it has yet to test for a
\* file (TEST), to read (TAKE) or to undo its addAndGet(len) (UNDO).
Calls == {"TEST", "TAKE", "UNDO"}

InFlight(x, y) == {c \in Sessions : Op(c) \in Calls /\ At(c) = x /\ sess[c].msg.via = y}

\* Created at the first start from block 1 and kept in a file since.
OTPKeyAtCounter(x, y) == Block(x, y, counter[x][y])  \* mutant: pad of the moment
OTPKey(x, y) == Block(x, y, 1)

OrInsteadOfXor(data, k) == data \cup {k}             \* mutant: | for ^
Xor(data, k) == (data \ {k}) \cup ({k} \ data)

-----------------------------------------------------------------------------
(* Moving the message of a session.                                         *)

SetMsg(c, m) == sess' = [sess EXCEPT ![c].msg = m]

\* An exception in a handler is swallowed or closes a connection; either way
\* no response comes and the KMS client ends without a block.
Drop(c) == SetMsg(c, NoMsg)

\* retainConnectHandler, connect and write of the request to site y.
Forward(c, y, m) ==
    /\ Len(sess[c].chain) < MaxHops
    /\ sess' = [sess EXCEPT ![c].msg = m, ![c].chain = Append(@, y)]

\* inboundChannel.writeAndFlush: to the backend handler of the previous site,
\* or to the KMS client; lost when that connection is gone.
ReplyFromFront(c, m) ==         \* mutant: takes the wrong end of the chain
    sess' = [sess EXCEPT ![c].chain = Tail(@), ![c].msg = m]

Reply(c, m) ==
    LET chain == SubSeq(sess[c].chain, 1, Len(sess[c].chain) - 1)
    IN  sess' = [sess EXCEPT
            ![c].chain = chain,
            ![c].msg = IF chain # <<>> /\ chain[Len(chain)] \in sess[c].broken
                       THEN NoMsg ELSE m]

\* addAndGet(len), and then the part op of the call.
AddNothing(c, x, y, op) ==                           \* mutant: index not advanced
    SetMsg(c, [Msg(op, counter[x][y] + 1, {}) EXCEPT !.via = y]) /\ UNCHANGED counter
AddAndGet(c, x, y, op) ==
    /\ counter' = [counter EXCEPT ![x][y] = @ + 1]
    /\ SetMsg(c, [Msg(op, counter[x][y] + 1, {}) EXCEPT !.via = y])

\* The request for the local KMS QNL service.
PostAlloc(m, data, respOp) ==
    [Msg("REQ_POST_ALLOC", m.index, data) EXCEPT !.respOp = respOp]

\* The relayed request, padded for the link from x to y.
PeerAlloc(m, data, x, y) ==
    Msg("REQ_POST_PEER_ALLOC", m.index, Xor(data, OTPKey(x, y)))

-----------------------------------------------------------------------------
ZeroFaults == [reroutes |-> 0, restarts |-> 0, losses |-> 0, giveUps |-> 0, files |-> 0, races |-> 0]

\* Every service has started once: each OTPKey took block 1 of its link.
Init ==
    /\ route \in RouteTables
    /\ counter = [x \in Sites |-> [y \in Neighbours(x) |-> 1]]
    /\ qll = [x \in Sites |-> [y \in Neighbours(x) |->
                [files |-> InitFiles, blocks |-> InitFiles * BlocksPerFile, part |-> 0]]]
    /\ sess = [c \in Sessions |-> NoSession]
    /\ stored = {}
    /\ delivered = {}
    /\ misread = {}
    /\ faults = ZeroFaults

\* QNLKeyReader.connect and ClientHandler.channelActive at the source's KMS.
Request(c) == \E r \in Requests :
    /\ sess[c].kms = "new"
    /\ sess' = [sess EXCEPT ![c] =
          [kms |-> "waiting", src |-> r[1], dst |-> r[2], chain |-> <<r[1]>>, broken |-> {},
           msg |-> Msg("REQ_GET_ALLOC", 0, {})]]
    /\ UNCHANGED <<route, counter, qll, stored, delivered, misread, faults>>

\* The end with the smaller name owns the link's counter: getNextBlockIndex.
GetAlloc(c) ==
    /\ Op(c) = "REQ_GET_ALLOC"
    /\ LET x == At(c)
           y == NextHop(x, sess[c].dst)
       IN  \/ y = NoSite /\ Drop(c) /\ UNCHANGED counter
           \/ y # NoSite /\ x < y /\ AddAndGet(c, x, y, "TEST")
           \/ /\ y # NoSite /\ ~ (x < y)
              /\ Forward(c, y, Msg("REQ_GET_KP_BLOCK_INDEX", 0, {}))
              /\ UNCHANGED counter
    /\ UNCHANGED <<route, qll, stored, delivered, misread, faults>>

\* Its second part looks for the file of the END of the block.
TestFile(c) ==
    /\ Op(c) = "TEST"
    /\ LET y == sess[c].msg.via
           n == sess[c].msg.index
       IN  IF HasFile(At(c), y, n \div BlocksPerFile)
           THEN Forward(c, y, Msg("REQ_POST_KP_BLOCK_INDEX", n, {}))
           ELSE SetMsg(c, [sess[c].msg EXCEPT !.op = "UNDO"])
    /\ UNCHANGED <<route, counter, qll, stored, delivered, misread, faults>>

\* addAndGet(-len) when the file is missing.  The source goes on with an index
\* of -1; the other end has nothing to send.
UndoTwice(c) ==                                      \* mutant: undone once too often
    /\ Op(c) = "UNDO"
    /\ counter' = [counter EXCEPT ![At(c)][sess[c].msg.via] = @ - 2]
    /\ IF At(c) = sess[c].src
       THEN Forward(c, sess[c].msg.via, Msg("REQ_POST_KP_BLOCK_INDEX", -1, {}))
       ELSE Drop(c)
    /\ UNCHANGED <<route, qll, stored, delivered, misread, faults>>
Undo(c) ==
    /\ Op(c) = "UNDO"
    /\ counter' = [counter EXCEPT ![At(c)][sess[c].msg.via] = @ - 1]
    /\ IF At(c) = sess[c].src
       THEN Forward(c, sess[c].msg.via, Msg("REQ_POST_KP_BLOCK_INDEX", -1, {}))
       ELSE Drop(c)
    /\ UNCHANGED <<route, qll, stored, delivered, misread, faults>>

\* The common tail of the two KP_BLOCK_INDEX requests at the first hop, with
\* the link's block n in hand: to the local KMS, or padded to the next site.
PassOnAnsweringEarly(c, n, respOp) ==    \* mutant: does not wait for the destination
    /\ IF At(c) = sess[c].dst
       THEN SetMsg(c, PostAlloc([sess[c].msg EXCEPT !.index = n],
                                {ReadBlock(At(c), sess[c].src, n)}, respOp))
       ELSE Reply(c, Msg(respOp, n, {}))

PassOn(c, n, respOp) ==
    LET x == At(c)
        y == NextHop(x, sess[c].dst)
        m == [sess[c].msg EXCEPT !.index = n]
        key == {ReadBlock(x, sess[c].src, n)}
    IN  \/ /\ x = sess[c].dst
           /\ SetMsg(c, PostAlloc(m, key, respOp))
        \/ x # sess[c].dst /\ y = NoSite /\ Drop(c)
        \/ /\ x # sess[c].dst /\ y # NoSite
           /\ Forward(c, y, PeerAlloc(m, key, x, y))

\* Block n has been read by x on the link to y: it is passed on, or dropped when
\* it holds a line that was only half written and is no hexadecimal key.
PassOnRead(c, x, y, n, respOp) ==
    \/ CanRead(x, y, n) /\ PassOn(c, n, respOp)
    \/ CanRead(x, y, n) /\ ~Whole(x, y, n) /\ Drop(c)

\* The block was reserved by the source: read it at the given index.
PostBlockIndex(c) ==
    /\ Op(c) = "REQ_POST_KP_BLOCK_INDEX"
    /\ LET x == At(c)
           s == sess[c].src
           n == sess[c].msg.index
       IN  IF s \in Neighbours(x) /\ CanRead(x, s, n)
           THEN PassOnRead(c, x, s, n, "RESP_POST_KP_BLOCK_INDEX") /\ Reads(c, x, s, n)
           ELSE Drop(c) /\ UNCHANGED misread
    /\ UNCHANGED <<route, counter, qll, stored, delivered, faults>>

\* This end takes the next block of the link to the source: read with an
\* indexRef, which adds first and reads then.
GetBlockIndex(c) ==
    /\ Op(c) = "REQ_GET_KP_BLOCK_INDEX"
    /\ LET x == At(c)
           s == sess[c].src
       IN  IF s \in Neighbours(x) THEN AddAndGet(c, x, s, "TAKE")
                                  ELSE Drop(c) /\ UNCHANGED counter
    /\ UNCHANGED <<route, qll, stored, delivered, misread, faults>>

TakeBlock(c) ==
    /\ Op(c) = "TAKE"
    /\ LET x == At(c)
           y == sess[c].msg.via
           n == sess[c].msg.index
       IN  /\ IF CanRead(x, y, n) THEN PassOnRead(c, x, y, n, "RESP_GET_KP_BLOCK_INDEX")
              ELSE SetMsg(c, [sess[c].msg EXCEPT !.op = "UNDO"])
           /\ Reads(c, x, y, n)
    /\ UNCHANGED <<route, counter, qll, stored, delivered, faults>>

\* The previous hop is taken to be the next hop towards the source.
PostPeerAlloc(c) ==
    /\ Op(c) = "REQ_POST_PEER_ALLOC"
    /\ LET x == At(c)
           m == sess[c].msg
           back == NextHop(x, sess[c].src)
           y == NextHop(x, sess[c].dst)
           clear == IF back = NoSite THEN m.data ELSE Xor(m.data, OTPKey(x, back))
       IN  \/ /\ x = sess[c].dst /\ back # NoSite
              /\ SetMsg(c, PostAlloc(m, clear, "RESP_POST_PEER_ALLOC"))
           \/ /\ IF x = sess[c].dst THEN back = NoSite ELSE y = NoSite
              /\ Drop(c)
           \/ /\ x # sess[c].dst /\ y # NoSite
              /\ Forward(c, y, PeerAlloc(m, clear, x, y))
    /\ UNCHANGED <<route, counter, qll, stored, delivered, misread, faults>>

\* ServerHandler writes the key file, ignoring write errors, and answers.
StoreAtKMS(c) ==
    /\ Op(c) = "REQ_POST_ALLOC"
    /\ LET m == sess[c].msg
           copy == [src |-> sess[c].src, dst |-> sess[c].dst, uuid |-> c, block |-> m.data]
       IN  /\ \/ stored' = stored \cup {copy}
              \/ DiskFails /\ UNCHANGED stored
           /\ SetMsg(c, IF At(c) \in sess[c].broken THEN NoMsg
                        ELSE [m EXCEPT !.op = "RESP_POST_ALLOC", !.data = {}])
    /\ UNCHANGED <<route, counter, qll, delivered, misread, faults>>

\* Backend handler: the local KMS has the block; answer the operation that
\* the request asked to be answered with.
RespPostAlloc(c) ==
    /\ Op(c) = "RESP_POST_ALLOC"
    /\ Reply(c, [sess[c].msg EXCEPT !.op = sess[c].msg.respOp, !.respOp = "none"])
    /\ UNCHANGED <<route, counter, qll, stored, delivered, misread, faults>>

\* Backend handler next to the source: turn the relayed response into the
\* one for the link; further away, pass it on.
RespAlwaysPassedOn(c) ==        \* mutant: never turned into the link's response
    /\ Op(c) = "RESP_POST_PEER_ALLOC"
    /\ IF NextHop(At(c), sess[c].src) = NoSite THEN Drop(c) ELSE Reply(c, sess[c].msg)
    /\ UNCHANGED <<route, counter, qll, stored, delivered, misread, faults>>

RespPostPeerAlloc(c) ==
    /\ Op(c) = "RESP_POST_PEER_ALLOC"
    /\ LET x == At(c)
           back == NextHop(x, sess[c].src)
       IN  \/ back = NoSite /\ Drop(c)
           \/ /\ back = sess[c].src
              /\ Reply(c, [sess[c].msg EXCEPT !.op =
                     IF x < sess[c].src THEN "RESP_GET_KP_BLOCK_INDEX"
                                        ELSE "RESP_POST_KP_BLOCK_INDEX"])
           \/ back \notin {NoSite, sess[c].src} /\ Reply(c, sess[c].msg)
    /\ UNCHANGED <<route, counter, qll, stored, delivered, misread, faults>>

\* Backend handler of the source: read the block on the link to the next hop
\* towards the destination and hand it to the KMS.
RespBlockIndex(c) ==
    /\ Op(c) \in {"RESP_GET_KP_BLOCK_INDEX", "RESP_POST_KP_BLOCK_INDEX"}
    /\ LET x == At(c)
           y == NextHop(x, sess[c].dst)
           n == sess[c].msg.index
       IN  IF y # NoSite /\ CanRead(x, y, n)
           THEN /\ \/ Reply(c, Msg("RESP_GET_ALLOC", 0, {ReadBlock(x, y, n)}))
                   \/ ~Whole(x, y, n) /\ Drop(c)
                /\ Reads(c, x, y, n)
           ELSE Drop(c) /\ UNCHANGED misread
    /\ UNCHANGED <<route, counter, qll, stored, delivered, faults>>

\* No backend handler has a case for RESP_GET_ALLOC_KP_BLOCK.
RespUnknown(c) ==
    /\ Op(c) = "RESP_GET_ALLOC" /\ sess[c].chain # <<>>
    /\ Drop(c)
    /\ UNCHANGED <<route, counter, qll, stored, delivered, misread, faults>>

\* ClientHandler.processResp at the KMS, if it still waits.
Receive(c) ==
    /\ Op(c) = "RESP_GET_ALLOC" /\ sess[c].chain = <<>>
    /\ sess' = [sess EXCEPT ![c].msg = NoMsg,
                            ![c].kms = IF @ = "waiting" THEN "got" ELSE @]
    /\ delivered' = IF sess[c].kms # "waiting" THEN delivered
                    ELSE delivered \cup {[src |-> sess[c].src, dst |-> sess[c].dst,
                                          uuid |-> c, block |-> sess[c].msg.data]}
    /\ UNCHANGED <<route, counter, qll, stored, misread, faults>>

-----------------------------------------------------------------------------
(* The environment.                                                         *)

Count(fault, bound) ==
    /\ faults[fault] < bound
    /\ faults' = [faults EXCEPT ![fault] = @ + 1]

\* The KMS client's read timeout of 40 s, or its connection is closed.
GiveUp(c) ==
    /\ Count("giveUps", MaxGiveUps)
    /\ sess[c].kms = "waiting"
    /\ sess' = [sess EXCEPT ![c].kms = "gaveUp"]
    /\ UNCHANGED <<route, counter, qll, stored, delivered, misread>>

\* A connection fails and the message on it is lost.
Lose(c) ==
    /\ Count("losses", MaxLosses)
    /\ Op(c) \notin Calls \cup {"none"}
    /\ Drop(c)
    /\ UNCHANGED <<route, counter, qll, stored, delivered, misread>>

\* A key routing service restarts: its readers start from 0 again, its pads
\* are read back from their files, its connections are gone.  A request that
\* the local KMS has already received is still carried out there.
Restart(x) ==
    /\ Count("restarts", MaxRestarts)
    /\ counter' = [counter EXCEPT ![x] = [y \in Neighbours(x) |-> 0]]
    /\ sess' = [c \in Sessions |->
          IF \A i \in DOMAIN sess[c].chain : sess[c].chain[i] # x THEN sess[c]
          ELSE [sess[c] EXCEPT !.broken = @ \cup {x},
                               !.msg = IF At(c) = x /\ @.op # "REQ_POST_ALLOC"
                                       THEN NoMsg ELSE @]]
    /\ UNCHANGED <<route, qll, stored, delivered, misread>>

\* LSRP computes other routes.
Reroute ==
    /\ Count("reroutes", MaxReroutes)
    /\ route' \in RouteTables \ {route}
    /\ UNCHANGED <<counter, qll, sess, stored, delivered, misread>>

\* generateKeys of the QLL at one end: it creates the next key file under its
\* final name ...
QLLCreate(x, y) ==
    LET f == qll[x][y].files
    IN  /\ {x, y} \in Growing /\ faults.files < MaxNewFiles
        /\ qll[x][y].blocks = f * BlocksPerFile
        /\ qll' = [qll EXCEPT ![x][y].files = f + 1]
        /\ faults' = [faults EXCEPT !.files = @ + 1,
                                    !.races = IF InFlight(x, y) # {} THEN @ + 1 ELSE @]
        /\ UNCHANGED <<route, counter, sess, stored, delivered, misread>>

\* ... and writes it line by line.
QLLWrite(x, y) ==
    LET q == qll[x][y]
        full == q.part + 1 = KeyBlockSz
    IN  /\ q.blocks < q.files * BlocksPerFile
        /\ qll' = [qll EXCEPT ![x][y] = [q EXCEPT !.blocks = IF full THEN @ + 1 ELSE @,
                                                  !.part = IF full THEN 0 ELSE @ + 1]]
        /\ UNCHANGED <<route, counter, sess, stored, delivered, misread, faults>>

-----------------------------------------------------------------------------
Handle(c) ==
    \/ GetAlloc(c) \/ TestFile(c) \/ Undo(c) \/ PostBlockIndex(c)
    \/ GetBlockIndex(c) \/ TakeBlock(c) \/ PostPeerAlloc(c)
    \/ StoreAtKMS(c) \/ RespPostAlloc(c) \/ RespPostPeerAlloc(c) \/ RespBlockIndex(c)
    \/ RespUnknown(c) \/ Receive(c)

Next ==
    \/ \E c \in Sessions : Request(c) \/ Handle(c) \/ GiveUp(c) \/ Lose(c)
    \/ \E x \in Sites : Restart(x)
    \/ \E x \in Sites : \E y \in Neighbours(x) : QLLCreate(x, y) \/ QLLWrite(x, y)
    \/ Reroute

\* Netty's event loops deliver a message and run its handler.
Spec == Init /\ [][Next]_vars /\ \A c \in Sessions : WF_vars(Handle(c))

-----------------------------------------------------------------------------
Ops == {"none", "REQ_GET_ALLOC", "REQ_POST_KP_BLOCK_INDEX", "REQ_GET_KP_BLOCK_INDEX",
        "REQ_POST_PEER_ALLOC", "REQ_POST_ALLOC", "RESP_POST_ALLOC",
        "RESP_POST_KP_BLOCK_INDEX", "RESP_GET_KP_BLOCK_INDEX", "RESP_POST_PEER_ALLOC",
        "RESP_GET_ALLOC"} \cup Calls

KeyBlocks == Links \X Nat \X (1 .. KeyBlockSz)

Copies == [src : Sites, dst : Sites, uuid : Sessions, block : SUBSET KeyBlocks]

Messages == [op : Ops, index : Int, respOp : Ops, data : SUBSET KeyBlocks,
             via : Sites \cup {NoSite}]

\* Types of the sessions; a message that is not on its way to the asking KMS
\* is at the last site of a chain that starts at the session's source.
SessionOK(q) ==
    /\ q.kms \in {"new", "waiting", "got", "gaveUp"}
    /\ q.src \in Sites \cup {NoSite} /\ q.dst \in Sites \cup {NoSite}
    /\ q.chain \in Seq(Sites) /\ q.broken \subseteq Sites
    /\ q.msg \in Messages
    /\ q.msg.op \notin {"none", "RESP_GET_ALLOC"} => q.chain # <<>>
    /\ q.chain # <<>> => q.chain[1] = q.src

TypeOK ==
    /\ route \in RouteTables
    /\ \A x \in Sites :
         /\ counter[x] \in [Neighbours(x) -> Nat]
         /\ qll[x] \in [Neighbours(x) -> [files : Nat, blocks : Nat, part : 0 .. KeyBlockSz - 1]]
    /\ \A c \in Sessions : SessionOK(sess[c])
    /\ stored \subseteq Copies /\ delivered \subseteq Copies /\ misread \subseteq Sessions

\* A KMS receives a block only when the other KMS has stored a block under
\* the same id, whatever happens to routes, connections and services on the
\* way: ServerHandler answers after writing, and every response is made from
\* that answer.
PeerCopyFirst ==
    \A d \in delivered : \E s \in stored :
        s.uuid = d.uuid /\ s.src = d.src /\ s.dst = d.dst

\* The two KMS sites have the same block under the same id: what the source
\* reads on its first link is what the destination unpadded, through every
\* re-padding in between.
KeyAgreement == delivered \subseteq stored

\* The same, of the blocks that both ends of the link had in full when they
\* read them: readKeyBlock fills the others with keys of file 0.
WholeBlocksAgree == \A d \in delivered : d.uuid \notin misread => d \in stored

\* No two of these copies have the same key block of a link, and none has the
\* block that serves as the link's pad.
Fresh(copies) ==
    /\ \A s1, s2 \in copies : s1.block = s2.block => s1.uuid = s2.uuid
    /\ \A s \in copies : \A l \in Links : <<l, 1, KeyBlockSz>> \notin s.block

\* No key block of a link is used for two ids, nor the block that serves as
\* the link's pad.
FreshBlocks == Fresh(stored)

\* So it is for the blocks that were read in full, whatever else fails, until a
\* service restarts and loses its counters or a key file appears while a call
\* is between addAndGet(len) and its outcome: then its test may succeed for an
\* index that counts another call's addAndGet, which is undone.
FreshUntilRestartOrRace ==
    faults.restarts = 0 /\ faults.races = 0 => Fresh({s \in stored : s.uuid \notin misread})

\* A KMS that asks for a block receives one.
BlockDelivered ==
    \A c \in Sessions : sess[c].kms = "waiting" ~> sess[c].kms = "got"

\* The network delivers blocks as BlockDelivery says.
BD == INSTANCE BlockDelivery
        WITH Ids <- Sessions, spoilt <- misread,
             Contents <- {{b} : b \in Links \X (1..(BlocksPerFile * (InitFiles + MaxNewFiles)))
                                           \X (1..KeyBlockSz)}

ImplementsBlockDelivery == BD!Spec

=============================================================================
