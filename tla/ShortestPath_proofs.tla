------------------------- MODULE ShortestPath_proofs -------------------------
(***************************************************************************)
(* Proofs about ShortestPath, for any number of threads and nodes, every   *)
(* graph and any bound of the distances above the number of nodes.         *)
(*                                                                         *)
(* Two arguments.  However calls overlap, the path of Self stays empty: a  *)
(* call settles Self before it looks at another node, so that no call ever *)
(* enters a path for it; hence Self is never the second node of a path.    *)
(* And a call that is alone is Dijkstra's algorithm: its tentative         *)
(* distances are lengths of walks, those of settled nodes are not above    *)
(* the others, and neighbours of settled nodes are at most one further.    *)
(***************************************************************************)
EXTENDS ShortestPath, LeastNumber, FiniteSetTheorems, SequenceTheorems, TLAPS

Calls ==
    [pc : {"idle", "reset", "pick", "relax", "answered"}, dest : Nodes \cup {Unknown},
     todo : SUBSET Nodes, node : Nodes, settled : SUBSET Nodes, unsettled : SUBSET Nodes,
     alone : BOOLEAN, answer : Nodes \cup {Unknown, Null, Threw}]

\* A call settles Self first.
CallOK(c) ==
    /\ c.unsettled \cap c.settled = {}
    /\ c.pc = "reset" => c.settled = {} /\ c.unsettled = {}
    /\ c.pc = "pick" => Self \in c.settled \/ (c.unsettled = {Self} /\ c.settled = {})
    /\ c.pc = "relax" => /\ c.todo \subseteq adj[c.node]
                         /\ c.node \notin c.unsettled /\ c.node \notin c.settled
                         /\ c.node = Self \/ Self \in c.settled
    /\ c.pc = "answered" => c.answer # Self

\* No path of Self, and none on which Self comes second.
PathsOK ==
    /\ path[Self] = <<>>
    /\ \A n \in Nodes : Len(path[n]) >= 2 => path[n][2] # Self

SharedInv ==
    /\ adj \in Graphs
    /\ distance \in [Nodes -> -IntMax - 1 .. IntMax]
    /\ path \in [Nodes -> Seq(Nodes)]
    /\ call \in [Threads -> Calls] /\ \A t \in Threads : CallOK(call[t])
    /\ calls \in 0 .. MaxCalls
    /\ PathsOK

-----------------------------------------------------------------------------
(* A call that nobody disturbs.                                             *)

\* Nodes that a call has met, and those whose neighbours it is done with.
Met(c) == c.settled \cup c.unsettled \cup (IF c.pc = "relax" THEN {c.node} ELSE {})

\* What is known of a node met: its distance is the length of a walk, which
\* its path begins.
WalkOK(n) ==
    /\ distance[n] \in 0 .. N /\ n \in Ball(Self, distance[n])
    /\ Len(path[n]) = distance[n]
    /\ n = Self => distance[n] = 0
    /\ distance[n] >= 2 => /\ path[n][2] \in adj[Self]
                           /\ n \in Ball(path[n][2], distance[n] - 1)

\* A settled node is not further than the others, and its neighbours are met
\* and at most one further.
SearchOK(c) ==
    /\ Self \in Met(c)
    /\ \A n \in Nodes \ Met(c) : distance[n] = IntMax /\ path[n] = <<>>
    /\ \A n \in Met(c) : WalkOK(n)
    /\ \A s \in c.settled : \A n \in Met(c) \ c.settled : distance[s] <= distance[n]
    /\ \A s \in c.settled : \A y \in adj[s] : y \in Met(c) /\ distance[y] <= distance[s] + 1
    /\ c.pc = "pick" => \A n \in c.unsettled : distance[n] <= Cardinality(c.settled)
    /\ c.pc = "relax" =>
         /\ distance[c.node] <= Cardinality(c.settled)
         /\ \A n \in c.unsettled : /\ distance[c.node] <= distance[n]
                                   /\ distance[n] <= Cardinality(c.settled) + 1
         /\ \A y \in adj[c.node] \ c.todo : y \in Met(c) /\ distance[y] <= distance[c.node] + 1

AnswerOK(c) ==
    /\ c.answer # Threw
    /\ c.dest # Unknown =>
         IF c.dest # Self /\ Reachable(Self, c.dest) THEN IsFirstHop(c.answer, c.dest)
                                                     ELSE c.answer = Null

AloneOK(c) ==
    /\ c.pc # "idle"
    /\ c.pc = "reset" => \A n \in Nodes \ c.todo : distance[n] = IntMax /\ path[n] = <<>>
    /\ c.pc \in {"pick", "relax"} => SearchOK(c)
    /\ c.pc = "answered" => AnswerOK(c)

\* While a call is alone, the nodes are its own.
AloneInv ==
    \A t \in Threads : call[t].alone =>
      AloneOK(call[t]) /\ \A u \in Threads \ {t} : call[u].pc \in {"idle", "answered"}

-----------------------------------------------------------------------------
(* Constants, calls and what actions do to them.                            *)

LEMMA Constants ==
  /\ N \in Nat /\ Self \in Nodes /\ Self \in Nat /\ Self >= 1 /\ Unknown \notin Nodes /\ Unknown # Self
  /\ IntMax \in Nat /\ IntMax > N /\ MaxCalls \in Nat /\ Null # Self /\ Threw # Self
  /\ Nodes \subseteq Nat /\ IsFiniteSet(Nodes) /\ Cardinality(Nodes) = N
  <1>1. /\ N \in Nat /\ Self \in Nodes /\ Unknown \notin Nodes
        /\ IntMax \in Nat /\ IntMax > N /\ MaxCalls \in Nat
    BY NodeAssumption
  <1>2. IsFiniteSet(Nodes) /\ Cardinality(Nodes) = N
    BY <1>1, FS_Interval DEF Nodes
  <1> QED BY <1>1, <1>2 DEF Nodes, Null, Threw

LEMMA GraphFacts ==
  ASSUME adj \in Graphs
  PROVE  /\ adj \in [Nodes -> SUBSET Nodes]
         /\ \A x \in Nodes : x \notin adj[x] /\ \A y \in adj[x] : y \in Nodes /\ x \in adj[y]
  <1>1. adj \in [Nodes -> SUBSET Nodes]
    BY NodeAssumption
  <1>2. \A x \in Nodes : x \notin adj[x] /\ \A y \in adj[x] : x \in adj[y]
    BY NodeAssumption
  <1> QED BY <1>1, <1>2

LEMMA IdleFacts ==
  /\ Idle \in Calls /\ CallOK(Idle) /\ Idle.pc = "idle" /\ Idle.alone = FALSE
  /\ Idle.settled = {} /\ Idle.unsettled = {}
  BY Constants DEF Idle, Calls, CallOK

\* The lengths of a path that HopOf tells apart.
LEMMA PathLengths ==
  ASSUME NEW p \in Seq(Nodes)
  PROVE  /\ Len(p) \in Nat /\ (Len(p) = 0 <=> p = <<>>)
         /\ Len(p) = 0 \/ Len(p) = 1 \/ Len(p) >= 2
         /\ Len(p) >= 2 => p[2] \in Nodes
  <1>1. PICK m \in Nat : m = Len(p)
    BY LenProperties
  <1>2. m = 0 \/ m = 1 \/ m >= 2
    OBVIOUS
  <1>3. m = 0 <=> p = <<>>
    BY <1>1, EmptySeq
  <1>4. m >= 2 => p[2] \in Nodes
    BY <1>1, ElementOfSeq
  <1> QED BY <1>1, <1>2, <1>3, <1>4

LEMMA HopCases ==
  ASSUME NEW d
  PROVE  /\ Len(path[d]) = 0 => HopOf(d) = Null
         /\ Len(path[d]) = 1 => HopOf(d) = d
         /\ Len(path[d]) # 0 /\ Len(path[d]) # 1 => HopOf(d) = path[d][2]
  <1>1. 0 # 1
    OBVIOUS
  <1> QED BY <1>1, Zenon DEF HopOf

\* A node added to the end of a path.
LEMMA PathAppend ==
  ASSUME NEW p \in Seq(Nodes), NEW n \in Nodes
  PROVE  /\ Append(p, n) \in Seq(Nodes) /\ Len(Append(p, n)) = Len(p) + 1
         /\ Len(p) = 1 => Append(p, n)[2] = n
         /\ Len(p) >= 2 => Append(p, n)[2] = p[2]
  <1>1. PICK m \in Nat : m = Len(p)
    BY LenProperties
  <1>2. /\ Append(p, n) \in Seq(Nodes) /\ Len(Append(p, n)) = Len(p) + 1
        /\ \A i \in 1 .. Len(p) : Append(p, n)[i] = p[i]
        /\ Append(p, n)[Len(p) + 1] = n
    BY AppendProperties
  <1>3. m = 1 => Append(p, n)[2] = n
    BY <1>1, <1>2
  <1>4. m >= 2 => Append(p, n)[2] = p[2]
    BY <1>1, <1>2
  <1> QED BY <1>1, <1>2, <1>3, <1>4

\* Thread t's call becomes o, the others stay.
Becomes(t, o) == call' = [call EXCEPT ![t] = o]

LEMMA BecomesFacts ==
  ASSUME SharedInv, NEW t \in Threads, NEW o \in Calls, Becomes(t, o)
  PROVE  /\ call' \in [Threads -> Calls] /\ call'[t] = o
         /\ \A u \in Threads : u # t => call'[u] = call[u]
  BY DEF Becomes, SharedInv

LEMMA AnswerFacts ==
  ASSUME SharedInv, NEW t \in Threads, NEW d \in Nodes \cup {Unknown},
         NEW a \in Nodes \cup {Unknown, Null, Threw}, Answer(t, d, a)
  PROVE  \E o \in Calls : /\ Becomes(t, o) /\ o.pc = "answered" /\ o.dest = d /\ o.answer = a
                          /\ o.alone = call[t].alone /\ o.settled = {} /\ o.unsettled = {}
  <1> DEFINE o == [Idle EXCEPT !.pc = "answered", !.alone = call[t].alone, !.dest = d, !.answer = a]
  <1>1. call[t].alone \in BOOLEAN
    BY DEF SharedInv, Calls
  <1>2. o \in Calls /\ o.pc = "answered" /\ o.dest = d /\ o.answer = a /\ o.alone = call[t].alone
        /\ o.settled = {} /\ o.unsettled = {}
    <2>1. PICK b \in BOOLEAN : b = call[t].alone
      BY <1>1
    <2>2. o = [Idle EXCEPT !.pc = "answered", !.alone = b, !.dest = d, !.answer = a]
      BY <2>1
    <2> QED BY <2>1, <2>2, IdleFacts DEF Calls
  <1>3. Becomes(t, o)
    BY DEF Answer, Becomes
  <1> QED BY <1>2, <1>3

\* The actions, one by one, as changes of the thread's call.
LEMMA BeginFacts ==
  ASSUME SharedInv, NEW t \in Threads, Begin(t)
  PROVE  /\ call[t].pc = "idle" /\ call' \in [Threads -> Calls]
         /\ call'[t].pc = "reset" /\ call'[t].todo = Nodes
         /\ call'[t].settled = {} /\ call'[t].unsettled = {}
         /\ call'[t].alone = (\A u \in Threads : ~ Busy(u))
         /\ \A u \in Threads : u # t => /\ call'[u].alone = FALSE /\ call'[u].pc = call[u].pc
                                        /\ call'[u].settled = call[u].settled
                                        /\ call'[u].unsettled = call[u].unsettled
                                        /\ call'[u].node = call[u].node /\ call'[u].todo = call[u].todo
                                        /\ call'[u].answer = call[u].answer
         /\ calls' \in 0 .. MaxCalls /\ UNCHANGED <<adj, distance, path>>
  <1>1. PICK alone : alone = (\A u \in Threads : ~ Busy(u))
    BY Zenon
  <1>2. alone \in BOOLEAN
    BY <1>1, Zenon
  <1> DEFINE others == [u \in Threads |-> [call[u] EXCEPT !.alone = FALSE]]
             o == [Idle EXCEPT !.pc = "reset", !.todo = Nodes, !.alone = alone]
  <1>3. /\ ~ Busy(t) /\ call' = [others EXCEPT ![t] = o] /\ calls < MaxCalls /\ calls' = calls + 1
        /\ UNCHANGED <<adj, distance, path>>
    BY <1>1, Zenon DEF Begin
  <1>4. o \in Calls /\ o.pc = "reset" /\ o.todo = Nodes /\ o.settled = {} /\ o.unsettled = {} /\ o.alone = alone
    BY <1>2, IdleFacts DEF Calls
  <1>5. others \in [Threads -> Calls] /\ \A u \in Threads :
           /\ others[u].alone = FALSE /\ others[u].pc = call[u].pc
           /\ others[u].settled = call[u].settled /\ others[u].unsettled = call[u].unsettled
           /\ others[u].node = call[u].node /\ others[u].todo = call[u].todo
           /\ others[u].answer = call[u].answer
    BY ZenonT(60) DEF SharedInv, Calls
  <1> HIDE DEF others, o
  <1>6. call' \in [Threads -> Calls] /\ call'[t] = o /\ \A u \in Threads : u # t => call'[u] = others[u]
    BY <1>3, <1>4, <1>5
  <1>7. calls' \in 0 .. MaxCalls
    BY <1>3, Constants DEF SharedInv
  <1>8. call[t].pc = "idle"
    BY <1>3 DEF Busy
  <1>9. call'[t].alone = (\A u \in Threads : ~ Busy(u))
    BY <1>1, <1>4, <1>6, Zenon
  <1>10. call'[t].pc = "reset" /\ call'[t].todo = Nodes /\ call'[t].settled = {} /\ call'[t].unsettled = {}
    BY <1>4, <1>6
  <1> QED BY <1>3, <1>5, <1>6, <1>7, <1>8, <1>9, <1>10, Zenon

LEMMA ResetFacts ==
  ASSUME SharedInv, NEW t \in Threads, ResetNode(t)
  PROVE  \E n \in Nodes, o \in Calls :
           /\ call[t].pc = "reset" /\ n \in call[t].todo /\ Becomes(t, o)
           /\ o.pc = "reset" /\ o.todo = call[t].todo \ {n} /\ o.alone = call[t].alone
           /\ o.settled = call[t].settled /\ o.unsettled = call[t].unsettled
           /\ distance' = [distance EXCEPT ![n] = IntMax] /\ path' = [path EXCEPT ![n] = <<>>]
           /\ UNCHANGED <<adj, calls>>
  <1> DEFINE n == Min(call[t].todo)
             o == [call[t] EXCEPT !.todo = @ \ {n}]
  <1>1. /\ call[t].pc = "reset" /\ call[t].todo # {} /\ Becomes(t, o)
        /\ distance' = [distance EXCEPT ![n] = IntMax] /\ path' = [path EXCEPT ![n] = <<>>]
        /\ UNCHANGED <<adj, calls>>
    BY DEF ResetNode, Becomes, SharedInv
  <1>2. call[t] \in Calls /\ call[t].todo \subseteq Nodes
    BY DEF SharedInv, Calls
  <1>3. n \in call[t].todo
    <2>1. \E x \in call[t].todo : \A y \in call[t].todo : x <= y
      BY <1>1, <1>2, LeastNat, Constants
    <2> QED BY <2>1 DEF Min
  <1> HIDE DEF n
  <1>4. /\ o \in Calls /\ o.pc = call[t].pc /\ o.todo = call[t].todo \ {n} /\ o.alone = call[t].alone
        /\ o.settled = call[t].settled /\ o.unsettled = call[t].unsettled
    BY <1>2, <1>3 DEF Calls
  <1> QED BY <1>1, <1>2, <1>3, <1>4

LEMMA SetSourceFacts ==
  ASSUME SharedInv, NEW t \in Threads, SetSource(t)
  PROVE  \E o \in Calls :
           /\ call[t].pc = "reset" /\ call[t].todo = {} /\ Becomes(t, o)
           /\ o.pc = "pick" /\ o.unsettled = {Self} /\ o.settled = call[t].settled
           /\ o.alone = call[t].alone
           /\ distance' = [distance EXCEPT ![Self] = 0] /\ UNCHANGED <<adj, path, calls>>
  <1> DEFINE o == [call[t] EXCEPT !.pc = "pick", !.unsettled = {Self}]
  <1>1. /\ call[t].pc = "reset" /\ call[t].todo = {} /\ Becomes(t, o)
        /\ distance' = [distance EXCEPT ![Self] = 0] /\ UNCHANGED <<adj, path, calls>>
    BY DEF SetSource, Becomes, SharedInv
  <1>2. call[t] \in Calls
    BY DEF SharedInv
  <1>3. /\ o \in Calls /\ o.pc = "pick" /\ o.unsettled = {Self} /\ o.settled = call[t].settled
        /\ o.alone = call[t].alone
    BY <1>2, Constants DEF Calls
  <1> QED BY <1>1, <1>3

LEMMA PickFacts ==
  ASSUME SharedInv, NEW t \in Threads, Pick(t)
  PROVE  /\ call[t].pc = "pick" /\ UNCHANGED <<adj, distance, path, calls>>
         /\ \/ \E o \in Calls : /\ Becomes(t, o) /\ o.pc = "answered" /\ o.answer = Threw
                                /\ o.dest = Unknown /\ o.settled = {} /\ o.unsettled = {}
                                /\ call[t].unsettled # {} /\ Lowest(call[t].unsettled) = {}
                                /\ o.alone = call[t].alone
            \/ \E n \in Lowest(call[t].unsettled), o \in Calls :
                 /\ Becomes(t, o) /\ o.pc = "relax" /\ o.node = n /\ o.todo = adj[n]
                 /\ o.unsettled = call[t].unsettled \ {n} /\ o.settled = call[t].settled
                 /\ o.alone = call[t].alone
  <1>1. call[t].pc = "pick" /\ UNCHANGED <<adj, distance, path, calls>>
    BY DEF Pick
  <1>2. call[t] \in Calls
    BY DEF SharedInv
  <1>3. CASE /\ Answer(t, Unknown, Threw)
             /\ call[t].unsettled # {} /\ Lowest(call[t].unsettled) = {}
    <2>1. Unknown \in Nodes \cup {Unknown} /\ Threw \in Nodes \cup {Unknown, Null, Threw}
      OBVIOUS
    <2> QED BY <1>1, <1>3, <2>1, AnswerFacts
  <1>4. ASSUME NEW n \in Lowest(call[t].unsettled),
               call' = [call EXCEPT ![t] = [call[t] EXCEPT !.pc = "relax", !.node = n,
                                              !.todo = adj[n], !.unsettled = @ \ {n}]]
        PROVE  \E o \in Calls :
                 /\ Becomes(t, o) /\ o.pc = "relax" /\ o.node = n /\ o.todo = adj[n]
                 /\ o.unsettled = call[t].unsettled \ {n} /\ o.settled = call[t].settled
                 /\ o.alone = call[t].alone
    <2> DEFINE o == [call[t] EXCEPT !.pc = "relax", !.node = n, !.todo = adj[n], !.unsettled = @ \ {n}]
    <2>1. Becomes(t, o)
      BY <1>4 DEF Becomes, SharedInv
    <2>2. n \in Nodes /\ adj[n] \subseteq Nodes
      BY <1>2, GraphFacts DEF Lowest, Calls, SharedInv
    <2>3. /\ o \in Calls /\ o.pc = "relax" /\ o.node = n /\ o.todo = adj[n]
          /\ o.unsettled = call[t].unsettled \ {n} /\ o.settled = call[t].settled
          /\ o.alone = call[t].alone
      BY <1>2, <2>2 DEF Calls
    <2> QED BY <2>1, <2>3
  <1> QED BY <1>1, <1>3, <1>4 DEF Pick

LEMMA RelaxFacts ==
  ASSUME SharedInv, NEW t \in Threads, Relax(t)
  PROVE  \E a \in call[t].todo, o \in Calls :
           /\ call[t].pc = "relax" /\ a \in Nodes /\ a \in adj[call[t].node] /\ a # call[t].node
           /\ Becomes(t, o) /\ o.pc = "relax" /\ o.node = call[t].node /\ o.todo = call[t].todo \ {a}
           /\ o.unsettled = call[t].unsettled \cup ({a} \ call[t].settled)
           /\ o.settled = call[t].settled /\ o.alone = call[t].alone
           /\ UNCHANGED <<adj, calls>>
           /\ IF a \notin call[t].settled /\ Shorter(t, a)
              THEN /\ distance' = [distance EXCEPT ![a] = WrapPlus(distance[call[t].node], 1)]
                   /\ path' = [path EXCEPT ![a] = Append(path[call[t].node], call[t].node)]
              ELSE UNCHANGED <<distance, path>>
  <1>1. PICK a \in call[t].todo :
          /\ call[t].pc = "relax" /\ UNCHANGED <<adj, calls>>
          /\ call' = [call EXCEPT ![t].todo = @ \ {a},
                                  ![t].unsettled = @ \cup ({a} \ call[t].settled)]
          /\ IF a \notin call[t].settled /\ Shorter(t, a)
             THEN /\ distance' = [distance EXCEPT ![a] = WrapPlus(distance[call[t].node], 1)]
                  /\ path' = [path EXCEPT ![a] = Append(path[call[t].node], call[t].node)]
             ELSE UNCHANGED <<distance, path>>
    BY DEF Relax
  <1> DEFINE o == [call[t] EXCEPT !.todo = @ \ {a}, !.unsettled = @ \cup ({a} \ call[t].settled)]
  <1>2. call[t] \in Calls /\ CallOK(call[t])
    BY DEF SharedInv
  <1>3. a \in Nodes /\ a \in adj[call[t].node] /\ a # call[t].node
    <2>1. a \in adj[call[t].node] /\ call[t].node \in Nodes
      BY <1>1, <1>2 DEF CallOK, Calls
    <2> QED BY <2>1, GraphFacts DEF SharedInv
  <1>4. Becomes(t, o)
    BY <1>1 DEF Becomes, SharedInv
  <1>5. /\ o \in Calls /\ o.pc = call[t].pc /\ o.node = call[t].node /\ o.todo = call[t].todo \ {a}
        /\ o.unsettled = call[t].unsettled \cup ({a} \ call[t].settled)
        /\ o.settled = call[t].settled /\ o.alone = call[t].alone
    BY <1>2, <1>3 DEF Calls
  <1> HIDE DEF o
  <1> QED BY <1>1, <1>3, <1>4, <1>5

LEMMA SettleFacts ==
  ASSUME SharedInv, NEW t \in Threads, Settle(t)
  PROVE  \E o \in Calls :
           /\ call[t].pc = "relax" /\ call[t].todo = {} /\ Becomes(t, o) /\ o.pc = "pick"
           /\ o.settled = call[t].settled \cup {call[t].node} /\ o.unsettled = call[t].unsettled
           /\ o.alone = call[t].alone /\ UNCHANGED <<adj, distance, path, calls>>
  <1> DEFINE o == [call[t] EXCEPT !.pc = "pick", !.settled = @ \cup {call[t].node}]
  <1>1. /\ call[t].pc = "relax" /\ call[t].todo = {} /\ Becomes(t, o)
        /\ UNCHANGED <<adj, distance, path, calls>>
    BY DEF Settle, Becomes, SharedInv
  <1>2. call[t] \in Calls
    BY DEF SharedInv
  <1>3. /\ o \in Calls /\ o.pc = "pick" /\ o.settled = call[t].settled \cup {call[t].node}
        /\ o.unsettled = call[t].unsettled /\ o.alone = call[t].alone
    BY <1>2 DEF Calls
  <1> QED BY <1>1, <1>3

LEMMA ReadAnswerFacts ==
  ASSUME SharedInv, NEW t \in Threads, ReadAnswer(t)
  PROVE  \E d \in Nodes, o \in Calls :
           /\ call[t].pc = "pick" /\ call[t].unsettled = {} /\ Becomes(t, o)
           /\ o.pc = "answered" /\ o.dest = d /\ o.answer = HopOf(d) /\ o.alone = call[t].alone
           /\ o.settled = {} /\ o.unsettled = {} /\ UNCHANGED <<adj, distance, path, calls>>
  <1>1. PICK d \in Nodes : Answer(t, d, HopOf(d))
    BY DEF ReadAnswer
  <1>2. HopOf(d) \in Nodes \cup {Unknown, Null, Threw}
    <2>1. PICK p \in Seq(Nodes) : p = path[d]
      BY DEF SharedInv
    <2> QED BY <2>1, PathLengths DEF HopOf
  <1>3. PICK a \in Nodes \cup {Unknown, Null, Threw} : a = HopOf(d)
    BY <1>2
  <1>4. Answer(t, d, a)
    BY <1>1, <1>3
  <1>5. \E o \in Calls : /\ Becomes(t, o) /\ o.pc = "answered" /\ o.dest = d /\ o.answer = a
                         /\ o.alone = call[t].alone /\ o.settled = {} /\ o.unsettled = {}
    BY <1>4, AnswerFacts
  <1>6. call[t].pc = "pick" /\ call[t].unsettled = {} /\ UNCHANGED <<adj, distance, path, calls>>
    BY DEF ReadAnswer
  <1> QED BY <1>3, <1>5, <1>6

-----------------------------------------------------------------------------
(* The shared invariant is inductive.                                       *)

\* The invariant of a step that changes one call to an acceptable one.
LEMMA SharedBecomes ==
  ASSUME SharedInv, NEW t \in Threads, NEW o \in Calls, Becomes(t, o), CallOK(o),
         adj' = adj, distance' \in [Nodes -> -IntMax - 1 .. IntMax],
         path' \in [Nodes -> Seq(Nodes)], PathsOK', calls' \in 0 .. MaxCalls
  PROVE  SharedInv'
  <1>1. /\ call' \in [Threads -> Calls] /\ call'[t] = o
        /\ \A u \in Threads : u # t => call'[u] = call[u]
    BY BecomesFacts
  <1>2. \A u \in Threads : CallOK(call'[u])
    BY <1>1 DEF SharedInv
  <1>3. (\A u \in Threads : CallOK(call[u]))'
    BY <1>2 DEF CallOK
  <1> QED BY <1>1, <1>3 DEF SharedInv

LEMMA SharedInit == Init => SharedInv
  <1> SUFFICES ASSUME Init PROVE SharedInv
    OBVIOUS
  <1>1. /\ adj \in Graphs /\ distance = [n \in Nodes |-> IntMax] /\ path = [n \in Nodes |-> <<>>]
        /\ call = [t \in Threads |-> Idle] /\ calls = 0
    BY DEF Init
  <1>2. distance \in [Nodes -> -IntMax - 1 .. IntMax] /\ calls \in 0 .. MaxCalls
    BY <1>1, Constants
  <1>3. path \in [Nodes -> Seq(Nodes)] /\ PathsOK
    BY <1>1, Constants, EmptySeq DEF PathsOK
  <1>4. call \in [Threads -> Calls] /\ \A t \in Threads : CallOK(call[t])
    BY <1>1, IdleFacts
  <1> QED BY <1>1, <1>2, <1>3, <1>4 DEF SharedInv

LEMMA SharedStep ==
  ASSUME SharedInv, [Next]_vars PROVE SharedInv'
  <1>0. /\ distance \in [Nodes -> -IntMax - 1 .. IntMax] /\ path \in [Nodes -> Seq(Nodes)]
        /\ PathsOK /\ calls \in 0 .. MaxCalls /\ adj \in Graphs
        /\ \A t \in Threads : call[t] \in Calls /\ CallOK(call[t])
    BY DEF SharedInv
  <1>1. ASSUME NEW t \in Threads, Begin(t) PROVE SharedInv'
    <2>1. /\ call' \in [Threads -> Calls]
          /\ call'[t].pc = "reset" /\ call'[t].settled = {} /\ call'[t].unsettled = {}
          /\ \A u \in Threads : u # t => /\ call'[u].pc = call[u].pc
                                         /\ call'[u].settled = call[u].settled
                                         /\ call'[u].unsettled = call[u].unsettled
                                         /\ call'[u].node = call[u].node /\ call'[u].todo = call[u].todo
                                         /\ call'[u].answer = call[u].answer
          /\ calls' \in 0 .. MaxCalls /\ UNCHANGED <<adj, distance, path>>
      BY <1>1, BeginFacts, ZenonT(60)
    <2>2. ASSUME NEW u \in Threads PROVE CallOK(call'[u])
      <3>1. CASE u = t
        BY <2>1, <3>1 DEF CallOK
      <3>2. CASE u # t
        BY <1>0, <2>1, <3>2 DEF CallOK
      <3> QED BY <3>1, <3>2
    <2>3. (\A u \in Threads : CallOK(call[u]))'
      BY <2>1, <2>2 DEF CallOK
    <2>4. PathsOK'
      BY <1>0, <2>1 DEF PathsOK
    <2> QED BY <1>0, <2>1, <2>3, <2>4 DEF SharedInv
  <1>2. ASSUME NEW t \in Threads, NEW o \in Calls, Becomes(t, o), CallOK(o),
               UNCHANGED <<adj, distance, path>>, calls' \in 0 .. MaxCalls
        PROVE  SharedInv'
    <2>1. PathsOK'
      BY <1>0, <1>2 DEF PathsOK
    <2> QED BY <1>0, <1>2, <2>1, SharedBecomes
  <1>3. ASSUME NEW t \in Threads, UnknownDestination(t) PROVE SharedInv'
    <2>1. /\ Answer(t, Unknown, Null) /\ UNCHANGED <<adj, distance, path>> /\ calls' \in 0 .. MaxCalls
      BY <1>0, <1>3, Constants DEF UnknownDestination
    <2>2. PICK o \in Calls : /\ Becomes(t, o) /\ o.pc = "answered" /\ o.answer = Null
                             /\ o.settled = {} /\ o.unsettled = {}
      BY <2>1, AnswerFacts
    <2>3. CallOK(o)
      BY <2>2, Constants DEF CallOK
    <2> QED BY <1>2, <2>1, <2>2, <2>3
  <1>4. ASSUME NEW t \in Threads, ResetNode(t) PROVE SharedInv'
    <2>1. PICK n \in Nodes, o \in Calls :
           /\ call[t].pc = "reset" /\ n \in call[t].todo /\ Becomes(t, o) /\ o.pc = "reset"
           /\ o.settled = call[t].settled /\ o.unsettled = call[t].unsettled
           /\ distance' = [distance EXCEPT ![n] = IntMax] /\ path' = [path EXCEPT ![n] = <<>>]
           /\ UNCHANGED <<adj, calls>>
      BY <1>4, ResetFacts
    <2>2. CallOK(o)
      BY <1>0, <2>1 DEF CallOK
    <2>3. distance' \in [Nodes -> -IntMax - 1 .. IntMax]
      BY <1>0, <2>1, Constants
    <2>4. path' \in [Nodes -> Seq(Nodes)]
      BY <1>0, <2>1, EmptySeq
    <2>5. PathsOK'
      BY <1>0, <2>1, EmptySeq, Constants DEF PathsOK
    <2> QED BY <1>0, <2>1, <2>2, <2>3, <2>4, <2>5, SharedBecomes
  <1>5. ASSUME NEW t \in Threads, SetSource(t) PROVE SharedInv'
    <2>1. PICK o \in Calls :
           /\ call[t].pc = "reset" /\ Becomes(t, o)
           /\ o.pc = "pick" /\ o.unsettled = {Self} /\ o.settled = call[t].settled
           /\ distance' = [distance EXCEPT ![Self] = 0] /\ UNCHANGED <<adj, path, calls>>
      BY <1>5, SetSourceFacts
    <2>2. CallOK(o)
      BY <1>0, <2>1 DEF CallOK
    <2>3. distance' \in [Nodes -> -IntMax - 1 .. IntMax]
      BY <1>0, <2>1, Constants
    <2>4. PathsOK'
      BY <1>0, <2>1 DEF PathsOK
    <2> QED BY <1>0, <2>1, <2>2, <2>3, <2>4, SharedBecomes
  <1>6. ASSUME NEW t \in Threads, Pick(t) PROVE SharedInv'
    <2>0. call[t].pc = "pick" /\ UNCHANGED <<adj, distance, path, calls>>
      BY <1>6, PickFacts
    <2>1. ASSUME NEW o \in Calls, Becomes(t, o), o.pc = "answered", o.answer = Threw,
                 o.settled = {}, o.unsettled = {}
          PROVE  SharedInv'
      <3>1. CallOK(o)
        BY <2>1, Constants DEF CallOK
      <3> QED BY <1>0, <1>2, <2>0, <2>1, <3>1
    <2>2. ASSUME NEW n \in Lowest(call[t].unsettled), NEW o \in Calls, Becomes(t, o), o.pc = "relax",
                 o.node = n, o.todo = adj[n], o.unsettled = call[t].unsettled \ {n},
                 o.settled = call[t].settled
          PROVE  SharedInv'
      <3>1. n \in call[t].unsettled
        BY DEF Lowest
      <3>2. CallOK(o)
        BY <1>0, <2>0, <2>2, <3>1 DEF CallOK
      <3> QED BY <1>0, <1>2, <2>0, <2>2, <3>2
    <2> QED BY <1>6, <2>1, <2>2, PickFacts
  <1>7. ASSUME NEW t \in Threads, Relax(t) PROVE SharedInv'
    <2>1. PICK a \in call[t].todo, o \in Calls :
           /\ call[t].pc = "relax" /\ a \in Nodes /\ a \in adj[call[t].node] /\ a # call[t].node
           /\ Becomes(t, o) /\ o.pc = "relax" /\ o.node = call[t].node /\ o.todo = call[t].todo \ {a}
           /\ o.unsettled = call[t].unsettled \cup ({a} \ call[t].settled)
           /\ o.settled = call[t].settled
           /\ UNCHANGED <<adj, calls>>
           /\ IF a \notin call[t].settled /\ Shorter(t, a)
              THEN /\ distance' = [distance EXCEPT ![a] = WrapPlus(distance[call[t].node], 1)]
                   /\ path' = [path EXCEPT ![a] = Append(path[call[t].node], call[t].node)]
              ELSE UNCHANGED <<distance, path>>
      BY <1>7, RelaxFacts
    <2>2. PICK c \in Calls : c = call[t] /\ CallOK(c)
      BY <1>0
    <2>3. CallOK(o)
      BY <2>1, <2>2 DEF CallOK
    <2>4. CASE a \notin c.settled /\ Shorter(t, a)
      <3>1. /\ distance' = [distance EXCEPT ![a] = WrapPlus(distance[c.node], 1)]
            /\ path' = [path EXCEPT ![a] = Append(path[c.node], c.node)]
        BY <2>1, <2>2, <2>4
      <3>2. c.node \in Nodes /\ (c.node = Self \/ Self \in c.settled)
        BY <2>1, <2>2 DEF Calls, CallOK
      <3>3. WrapPlus(distance[c.node], 1) \in -IntMax - 1 .. IntMax
        <4>1. PICK x \in -IntMax - 1 .. IntMax : x = distance[c.node]
          BY <1>0, <3>2
        <4>2. x \in Int /\ IntMax \in Nat
          BY Constants
        <4> QED BY <4>1, <4>2 DEF WrapPlus
      <3>4. distance' \in [Nodes -> -IntMax - 1 .. IntMax]
        BY <1>0, <3>1, <3>3
      <3>5. PICK p \in Seq(Nodes) : p = path[c.node] /\ (c.node = Self => p = <<>>)
        BY <1>0, <3>2 DEF PathsOK
      <3>6. PICK q \in Seq(Nodes) :
               /\ q = Append(p, c.node) /\ Len(q) = Len(p) + 1
               /\ Len(p) = 1 => q[2] = c.node
               /\ Len(p) >= 2 => q[2] = p[2]
        BY <3>2, <3>5, PathAppend
      <3>7. path' = [path EXCEPT ![a] = q] /\ path' \in [Nodes -> Seq(Nodes)]
        BY <1>0, <3>1, <3>5, <3>6
      <3>8. a # Self
        BY <2>1, <2>2, <2>4, <3>2
      <3>9. Len(q) >= 2 => q[2] # Self
        <4>1. PICK m \in Nat : m = Len(p) /\ (m = 0 <=> p = <<>>)
          BY PathLengths
        <4>2. CASE m = 0
          BY <3>6, <4>1, <4>2
        <4>3. CASE m = 1
          BY <3>5, <3>6, <4>1, <4>3
        <4>4. CASE m >= 2
          <5>1. Len(path[c.node]) >= 2 => path[c.node][2] # Self
            BY <1>0, <3>2 DEF PathsOK
          <5> QED BY <3>5, <3>6, <4>1, <4>4, <5>1
        <4>5. m = 0 \/ m = 1 \/ m >= 2
          OBVIOUS
        <4> QED BY <4>2, <4>3, <4>4, <4>5
      <3>10. PathsOK'
        BY <1>0, <2>1, <3>7, <3>8, <3>9, Constants DEF PathsOK
      <3> QED BY <1>0, <2>1, <2>3, <3>4, <3>7, <3>10, SharedBecomes
    <2>5. CASE ~ (a \notin c.settled /\ Shorter(t, a))
      <3>1. UNCHANGED <<distance, path>>
        BY <2>1, <2>2, <2>5
      <3> QED BY <1>0, <1>2, <2>1, <2>3, <3>1
    <2> QED BY <2>4, <2>5
  <1>8. ASSUME NEW t \in Threads, Settle(t) PROVE SharedInv'
    <2>1. PICK o \in Calls :
           /\ call[t].pc = "relax" /\ call[t].todo = {} /\ Becomes(t, o) /\ o.pc = "pick"
           /\ o.settled = call[t].settled \cup {call[t].node} /\ o.unsettled = call[t].unsettled
           /\ UNCHANGED <<adj, distance, path, calls>>
      BY <1>8, SettleFacts
    <2>2. CallOK(o)
      BY <1>0, <2>1 DEF CallOK
    <2> QED BY <1>0, <1>2, <2>1, <2>2
  <1>9. ASSUME NEW t \in Threads, ReadAnswer(t) PROVE SharedInv'
    <2>1. PICK d \in Nodes, o \in Calls :
           /\ Becomes(t, o) /\ o.pc = "answered" /\ o.answer = HopOf(d)
           /\ o.settled = {} /\ o.unsettled = {} /\ UNCHANGED <<adj, distance, path, calls>>
      BY <1>9, ReadAnswerFacts
    <2>2. HopOf(d) # Self
      <3>1. PICK p \in Seq(Nodes) : p = path[d]
        BY <1>0
      <3>2. d = Self => p = <<>>
        BY <1>0, <3>1 DEF PathsOK
      <3>3. Len(p) >= 2 => p[2] # Self
        BY <1>0, <3>1 DEF PathsOK
      <3>4. Len(p) = 0 \/ Len(p) = 1 \/ Len(p) >= 2
        BY PathLengths
      <3>5. Len(p) = 1 => d # Self
        BY <3>2, PathLengths
      <3>6. /\ Len(p) = 0 => HopOf(d) = Null
            /\ Len(p) = 1 => HopOf(d) = d
            /\ Len(p) # 0 /\ Len(p) # 1 => HopOf(d) = p[2]
        BY <3>1, HopCases
      <3> QED BY <3>3, <3>4, <3>5, <3>6, Constants
    <2>3. CallOK(o)
      BY <2>1, <2>2 DEF CallOK
    <2> QED BY <1>0, <1>2, <2>1, <2>3
  <1>10. ASSUME NEW t \in Threads, Return(t) PROVE SharedInv'
    <2>1. Becomes(t, Idle) /\ UNCHANGED <<adj, distance, path, calls>>
      BY <1>10 DEF Return, Becomes
    <2> QED BY <1>0, <1>2, <2>1, IdleFacts
  <1>11. CASE UNCHANGED vars
    BY <1>11 DEF vars, SharedInv, CallOK, PathsOK
  <1> QED BY <1>1, <1>3, <1>4, <1>5, <1>6, <1>7, <1>8, <1>9, <1>10, <1>11 DEF Next, Step

LEMMA SharedInvariant == Spec => []SharedInv
  <1>1. SharedInv /\ [Next]_vars => SharedInv'
    BY SharedStep
  <1> QED BY <1>1, SharedInit, PTL DEF Spec

\* The type of every variable, however calls overlap: distances stay ints, and
\* no node is settled and unsettled at once.
THEOREM TypeCorrect == Spec => []TypeOK
  <1>1. ASSUME SharedInv PROVE TypeOK
    <2>1. \A t \in Threads : call[t] \in Calls /\ CallOK(call[t])
      BY <1>1 DEF SharedInv
    <2>2. \A t \in Threads :
          /\ call[t].pc \in {"idle", "reset", "pick", "relax", "answered"}
          /\ call[t].dest \in Nodes \cup {Unknown} /\ call[t].node \in Nodes
          /\ call[t].todo \subseteq Nodes /\ call[t].settled \subseteq Nodes
          /\ call[t].unsettled \subseteq Nodes \ call[t].settled
          /\ call[t].alone \in BOOLEAN
      BY <2>1 DEF Calls, CallOK
    <2> QED BY <1>1, <2>2 DEF SharedInv, TypeOK
  <1> QED BY <1>1, SharedInvariant, PTL

\* Whatever the graph and however many calls of getNextHop overlap: a site is
\* never its own next hop.
THEOREM NeverToSelf == Spec => []NextHopNotSelf
  <1>1. SharedInv => NextHopNotSelf
    BY DEF SharedInv, CallOK, NextHopNotSelf
  <1> QED BY <1>1, SharedInvariant, PTL

-----------------------------------------------------------------------------
(* Nodes within k links.                                                    *)

Around(S) == S \cup UNION {adj[y] : y \in S}

\* The recursive function in the definition of Ball.
IsBalls(w, x, k) ==
    w = [i \in 0 .. k |-> IF i = 0 THEN {x} ELSE w[i - 1] \cup UNION {adj[y] : y \in w[i - 1]}]

LEMMA BallsFacts ==
  ASSUME NEW w, NEW x, NEW k \in Nat, IsBalls(w, x, k)
  PROVE  w[0] = {x} /\ \A i \in 0 .. k - 1 : w[i + 1] = Around(w[i])
  <1>1. \A i \in 0 .. k : w[i] = IF i = 0 THEN {x} ELSE w[i - 1] \cup UNION {adj[y] : y \in w[i - 1]}
    BY DEF IsBalls
  <1>2. w[0] = {x}
    <2>1. 0 \in 0 .. k
      OBVIOUS
    <2> QED BY <1>1, <2>1, Zenon
  <1>3. ASSUME NEW i \in 0 .. k - 1 PROVE w[i + 1] = Around(w[i])
    <2>1. i + 1 \in 0 .. k /\ i + 1 # 0 /\ (i + 1) - 1 = i
      OBVIOUS
    <2>2. w[i + 1] = w[(i + 1) - 1] \cup UNION {adj[y] : y \in w[(i + 1) - 1]}
      BY <1>1, <2>1, Zenon
    <2> QED BY <2>1, <2>2 DEF Around
  <1> QED BY <1>2, <1>3

LEMMA BallsExist ==
  ASSUME NEW x, NEW k \in Nat
  PROVE  \E w : IsBalls(w, x, k)
  <1> DEFINE S == {n \in Nat : \E w : IsBalls(w, x, n)}
  <1>1. 0 \in S
    <2> DEFINE w == [i \in 0 .. 0 |-> {x}]
    <2>1. IsBalls(w, x, 0)
      <3>1. w = [i \in 0 .. 0 |-> IF i = 0 THEN {x} ELSE w[i - 1] \cup UNION {adj[y] : y \in w[i - 1]}]
        OBVIOUS
      <3> QED BY <3>1 DEF IsBalls
    <2> QED BY <2>1
  <1>2. ASSUME NEW n \in S PROVE n + 1 \in S
    <2>1. PICK w : IsBalls(w, x, n)
      OBVIOUS
    <2>2. n \in Nat /\ w[0] = {x} /\ \A i \in 0 .. n - 1 : w[i + 1] = Around(w[i])
      BY <2>1, BallsFacts
    <2> DEFINE v == [i \in 0 .. n + 1 |-> IF i <= n THEN w[i] ELSE Around(w[n])]
               next(i) == IF i = 0 THEN {x} ELSE v[i - 1] \cup UNION {adj[y] : y \in v[i - 1]}
    <2>3. ASSUME NEW i \in 0 .. n + 1 PROVE v[i] = next(i)
      <3>1. CASE i = 0
        BY <2>2, <3>1
      <3>2. CASE i # 0 /\ i <= n
        <4>1. i - 1 \in 0 .. n - 1 /\ i - 1 \in 0 .. n + 1 /\ i - 1 <= n /\ (i - 1) + 1 = i
          BY <2>2, <3>2
        <4>2. v[i] = w[i] /\ v[i - 1] = w[i - 1]
          BY <3>2, <4>1
        <4>3. w[i] = Around(w[i - 1])
          BY <2>2, <4>1
        <4> HIDE DEF v
        <4> QED BY <3>2, <4>2, <4>3 DEF Around
      <3>3. CASE i = n + 1
        <4>1. i # 0 /\ i - 1 = n /\ ~ (i <= n) /\ n \in 0 .. n + 1 /\ n <= n
          BY <2>2, <3>3
        <4>2. v[i] = Around(w[n]) /\ v[n] = w[n]
          BY <4>1
        <4> HIDE DEF v
        <4> QED BY <4>1, <4>2 DEF Around
      <3>4. i = 0 \/ (i # 0 /\ i <= n) \/ i = n + 1
        BY <2>2
      <3> HIDE DEF v
      <3> QED BY <3>1, <3>2, <3>3, <3>4
    <2>4. v = [i \in 0 .. n + 1 |-> v[i]]
      OBVIOUS
    <2>5. v = [i \in 0 .. n + 1 |-> next(i)]
      <3> HIDE DEF v, next
      <3>1. [i \in 0 .. n + 1 |-> v[i]] = [i \in 0 .. n + 1 |-> next(i)]
        BY <2>3
      <3> QED BY <2>4, <3>1
    <2>6. IsBalls(v, x, n + 1)
      <3> HIDE DEF v
      <3> QED BY <2>5 DEF IsBalls
    <2> QED BY <2>2, <2>6
  <1>3. S = Nat
    <2>1. S \in SUBSET Nat
      OBVIOUS
    <2> HIDE DEF S
    <2> QED BY <1>1, <1>2, <2>1, SetInduction
  <1> QED BY <1>3

LEMMA BallsUnique ==
  ASSUME NEW x, NEW k \in Nat, NEW j \in Nat, k <= j,
         NEW w, IsBalls(w, x, k), NEW v, IsBalls(v, x, j)
  PROVE  w[k] = v[k]
  <1> DEFINE S == {n \in Nat : n <= k => w[n] = v[n]}
  <1>1. /\ w[0] = {x} /\ \A i \in 0 .. k - 1 : w[i + 1] = Around(w[i])
        /\ v[0] = {x} /\ \A i \in 0 .. j - 1 : v[i + 1] = Around(v[i])
    BY BallsFacts
  <1>2. 0 \in S
    BY <1>1
  <1>3. ASSUME NEW n \in S PROVE n + 1 \in S
    <2>1. ASSUME n + 1 <= k PROVE w[n + 1] = v[n + 1]
      <3>1. n \in 0 .. k - 1 /\ n \in 0 .. j - 1 /\ w[n] = v[n]
        BY <2>1
      <3> QED BY <1>1, <3>1
    <2> QED BY <2>1
  <1>4. S = Nat
    <2>1. S \in SUBSET Nat
      OBVIOUS
    <2> HIDE DEF S
    <2> QED BY <1>2, <1>3, <2>1, SetInduction
  <1> QED BY <1>4

\* What Ball computes.
LEMMA BallRecursion ==
  ASSUME NEW x, NEW k \in Nat
  PROVE  Ball(x, 0) = {x} /\ Ball(x, k + 1) = Around(Ball(x, k))
  <1> DEFINE W(n) == CHOOSE w : IsBalls(w, x, n)
  <1>1. ASSUME NEW n \in Nat PROVE IsBalls(W(n), x, n) /\ Ball(x, n) = W(n)[n]
    <2>1. \E w : IsBalls(w, x, n)
      BY BallsExist
    <2>2. IsBalls(W(n), x, n)
      BY <2>1, Zenon
    <2>3. Ball(x, n) = W(n)[n]
      BY DEF Ball, IsBalls
    <2> QED BY <2>2, <2>3
  <1> HIDE DEF W
  <1>2. Ball(x, 0) = {x}
    BY <1>1, BallsFacts
  <1>3. Ball(x, k + 1) = Around(Ball(x, k))
    <2>1. IsBalls(W(k), x, k) /\ Ball(x, k) = W(k)[k]
      BY <1>1
    <2>2. k + 1 \in Nat /\ k <= k + 1 /\ k \in 0 .. (k + 1) - 1
      OBVIOUS
    <2>3. IsBalls(W(k + 1), x, k + 1) /\ Ball(x, k + 1) = W(k + 1)[k + 1]
      BY <1>1, <2>2
    <2>4. W(k)[k] = W(k + 1)[k]
      BY <2>1, <2>2, <2>3, BallsUnique
    <2>5. W(k + 1)[k + 1] = Around(W(k + 1)[k])
      BY <2>2, <2>3, BallsFacts
    <2> QED BY <2>1, <2>3, <2>4, <2>5
  <1> QED BY <1>2, <1>3

\* One more link.
LEMMA BallNext ==
  ASSUME NEW x, NEW k \in Nat
  PROVE  /\ Ball(x, 0) = {x} /\ Ball(x, k) \subseteq Ball(x, k + 1)
         /\ \A y \in Ball(x, k) : adj[y] \subseteq Ball(x, k + 1)
         /\ \A z \in Ball(x, k + 1) : z \in Ball(x, k) \/ \E y \in Ball(x, k) : z \in adj[y]
  <1>1. Ball(x, 0) = {x} /\ Ball(x, k + 1) = Around(Ball(x, k))
    BY BallRecursion
  <1>2. PICK B : B = Ball(x, k)
    OBVIOUS
  <1>3. /\ B \subseteq Around(B) /\ \A y \in B : adj[y] \subseteq Around(B)
        /\ \A z \in Around(B) : z \in B \/ \E y \in B : z \in adj[y]
    BY DEF Around
  <1> QED BY <1>1, <1>2, <1>3

LEMMA BallGrows ==
  ASSUME NEW x, NEW k \in Nat, NEW j \in Nat, k <= j
  PROVE  Ball(x, k) \subseteq Ball(x, j)
  <1> DEFINE S == {n \in Nat : Ball(x, k) \subseteq Ball(x, k + n)}
  <1>1. 0 \in S
    BY k + 0 = k
  <1>2. ASSUME NEW n \in S PROVE n + 1 \in S
    <2>1. k + n \in Nat /\ k + (n + 1) = (k + n) + 1
      OBVIOUS
    <2>2. Ball(x, k + n) \subseteq Ball(x, (k + n) + 1)
      BY <2>1, BallNext
    <2> QED BY <2>1, <2>2
  <1>3. S = Nat
    <2>1. S \in SUBSET Nat
      OBVIOUS
    <2> HIDE DEF S
    <2> QED BY <1>1, <1>2, <2>1, SetInduction
  <1>4. j - k \in Nat /\ k + (j - k) = j
    OBVIOUS
  <1>5. Ball(x, k) \subseteq Ball(x, k + (j - k))
    BY <1>3, <1>4
  <1> QED BY <1>4, <1>5

\* What is within k links of a neighbour is within k + 1 links.
LEMMA BallShift ==
  ASSUME NEW x, NEW h \in adj[x], NEW k \in Nat
  PROVE  Ball(h, k) \subseteq Ball(x, k + 1)
  <1> DEFINE S == {n \in Nat : Ball(h, n) \subseteq Ball(x, n + 1)}
  <1>1. 0 \in S
    <2>1. Ball(h, 0) = {h} /\ Ball(x, 0) = {x} /\ adj[x] \subseteq Ball(x, 0 + 1)
      BY BallNext
    <2> QED BY <2>1
  <1>2. ASSUME NEW n \in S PROVE n + 1 \in S
    <2>1. n \in Nat /\ n + 1 \in Nat /\ Ball(h, n) \subseteq Ball(x, n + 1)
      OBVIOUS
    <2>2. ASSUME NEW z \in Ball(h, n + 1) PROVE z \in Ball(x, (n + 1) + 1)
      <3>1. CASE z \in Ball(h, n)
        BY <2>1, <3>1, BallNext
      <3>2. CASE \E y \in Ball(h, n) : z \in adj[y]
        BY <2>1, <3>2, BallNext
      <3> QED BY <2>1, <3>1, <3>2, BallNext
    <2> QED BY <2>1, <2>2
  <1>3. S = Nat
    <2>1. S \in SUBSET Nat
      OBVIOUS
    <2> HIDE DEF S
    <2> QED BY <1>1, <1>2, <2>1, SetInduction
  <1> QED BY <1>3

-----------------------------------------------------------------------------
(* Steps of a call that is alone.                                           *)

LEMMA BallSame ==
  ASSUME adj' = adj
  PROVE  \A x, k : Ball(x, k)' = Ball(x, k)
  BY DEF Ball

\* What is known of a node, in numbers that do not change.
LEMMA WalkNext ==
  ASSUME adj' = adj, NEW n, NEW k, NEW p, distance'[n] = k, path'[n] = p,
         k \in 0 .. N, n \in Ball(Self, k), Len(p) = k, n = Self => k = 0,
         k >= 2 => p[2] \in adj[Self] /\ n \in Ball(p[2], k - 1)
  PROVE  WalkOK(n)'
  <1>1. (n \in Ball(Self, distance[n]))'
    <2>1. n \in Ball(Self, k)'
      BY BallSame
    <2> QED BY <2>1
  <1>2. (distance[n] >= 2 => path[n][2] \in adj[Self] /\ n \in Ball(path[n][2], distance[n] - 1))'
    <2>1. k >= 2 => n \in Ball(p[2], k - 1)'
      BY BallSame
    <2> QED BY <2>1
  <1> QED BY <1>1, <1>2 DEF WalkOK

LEMMA WalkSame ==
  ASSUME adj' = adj, NEW n, distance'[n] = distance[n], path'[n] = path[n], WalkOK(n)
  PROVE  WalkOK(n)'
  <1>1. PICK k : k = distance[n]
    OBVIOUS
  <1>2. PICK p : p = path[n]
    OBVIOUS
  <1>3. /\ k \in 0 .. N /\ n \in Ball(Self, k) /\ Len(p) = k /\ (n = Self => k = 0)
        /\ k >= 2 => p[2] \in adj[Self] /\ n \in Ball(p[2], k - 1)
    BY <1>1, <1>2 DEF WalkOK
  <1> QED BY <1>1, <1>2, <1>3, WalkNext

\* Sizes in a search.
LEMMA SearchFacts ==
  ASSUME SharedInv, NEW c \in Calls, CallOK(c), c.pc \in {"pick", "relax"}, SearchOK(c)
  PROVE  /\ Met(c) \subseteq Nodes /\ IsFiniteSet(c.settled) /\ Cardinality(c.settled) \in Nat
         /\ c.pc = "relax" => Cardinality(c.settled) + 1 <= N
         /\ \A n \in Met(c) : distance[n] \in Nat /\ distance[n] <= N
         /\ \A n \in Nodes : distance[n] \in Int
  <1>1. Met(c) \subseteq Nodes /\ c.settled \subseteq Nodes /\ c.node \in Nodes
    BY DEF Met, Calls
  <1>2. IsFiniteSet(c.settled) /\ Cardinality(c.settled) \in Nat
    BY <1>1, Constants, FS_Subset, FS_CardinalityType
  <1>3. c.pc = "relax" => Cardinality(c.settled) + 1 <= N
    <2>1. ASSUME c.pc = "relax" PROVE Cardinality(c.settled) + 1 <= N
      <3>1. c.node \notin c.settled
        BY <2>1 DEF CallOK
      <3>2. Cardinality(c.settled \cup {c.node}) = Cardinality(c.settled) + 1
        BY <1>2, <3>1, FS_AddElement
      <3>3. Cardinality(c.settled \cup {c.node}) <= Cardinality(Nodes)
        BY <1>1, Constants, FS_Subset
      <3> QED BY <3>2, <3>3, Constants
    <2> QED BY <2>1
  <1>4. \A n \in Met(c) : distance[n] \in 0 .. N
    BY DEF SearchOK, WalkOK
  <1>5. \A n \in Nodes : distance[n] \in Int
    BY Constants DEF SharedInv
  <1> QED BY <1>1, <1>2, <1>3, <1>4, <1>5, Constants

\* Nothing changes for a call when the nodes do not change.
LEMMA AloneSame ==
  ASSUME UNCHANGED <<adj, distance, path>>, NEW c, AloneOK(c)
  PROVE  AloneOK(c)'
  <1>1. ASSUME SearchOK(c) PROVE SearchOK(c)'
    <2>1. \A n \in Met(c) : WalkOK(n)'
      BY <1>1, WalkSame DEF SearchOK
    <2>2. Met(c)' = Met(c)
      BY DEF Met
    <2> QED BY <1>1, <2>1, <2>2 DEF SearchOK
  <1>2. ASSUME AnswerOK(c) PROVE AnswerOK(c)'
    <2>1. \A x, k : Ball(x, k)' = Ball(x, k)
      BY BallSame
    <2>2. \A x, y : Reachable(x, y)' <=> Reachable(x, y)
      BY <2>1 DEF Reachable
    <2>3. \A x, y : Dist(x, y)' = Dist(x, y)
      BY <2>1 DEF Dist
    <2>4. \A h, d : IsFirstHop(h, d)' <=> IsFirstHop(h, d)
      BY <2>2, <2>3 DEF IsFirstHop
    <2> QED BY <1>2, <2>2, <2>4 DEF AnswerOK
  <1> QED BY <1>1, <1>2 DEF AloneOK

LEMMA ResetAlone ==
  ASSUME SharedInv, NEW t \in Threads, AloneOK(call[t]), NEW n \in Nodes, NEW o \in Calls,
         call[t].pc = "reset", o.pc = "reset", o.todo = call[t].todo \ {n},
         distance' = [distance EXCEPT ![n] = IntMax], path' = [path EXCEPT ![n] = <<>>]
  PROVE  AloneOK(o)'
  <1>1. \A m \in Nodes \ call[t].todo : distance[m] = IntMax /\ path[m] = <<>>
    BY DEF AloneOK
  <1>2. \A m \in Nodes \ o.todo : distance'[m] = IntMax /\ path'[m] = <<>>
    BY <1>1 DEF SharedInv
  <1> QED BY <1>2 DEF AloneOK

LEMMA SetSourceAlone ==
  ASSUME SharedInv, NEW t \in Threads, AloneOK(call[t]), NEW o \in Calls,
         call[t].pc = "reset", call[t].todo = {}, o.pc = "pick", o.unsettled = {Self},
         o.settled = call[t].settled,
         distance' = [distance EXCEPT ![Self] = 0], UNCHANGED <<adj, path>>
  PROVE  AloneOK(o)'
  <1>1. \A m \in Nodes : distance[m] = IntMax /\ path[m] = <<>>
    BY DEF AloneOK
  <1>2. o.settled = {} /\ Met(o) = {Self} /\ Met(o)' = {Self}
    BY DEF SharedInv, CallOK, Met
  <1>3. distance'[Self] = 0 /\ path'[Self] = <<>> /\ \A m \in Nodes \ {Self} : distance'[m] = IntMax /\ path'[m] = <<>>
    BY <1>1, Constants DEF SharedInv
  <1>4. WalkOK(Self)'
    <2>1. Self \in Ball(Self, 0) /\ 0 \in 0 .. N /\ Len(<<>>) = 0
      BY BallNext, Constants, EmptySeq
    <2> QED BY <1>3, <2>1, WalkNext
  <1>5. Cardinality({}) = 0
    BY FS_EmptySet
  <1>6. SearchOK(o)'
    BY <1>2, <1>3, <1>4, <1>5 DEF SearchOK
  <1> QED BY <1>6 DEF AloneOK

LEMMA PickAlone ==
  ASSUME SharedInv, NEW t \in Threads, AloneOK(call[t]), NEW o \in Calls,
         call[t].pc = "pick", NEW n \in Lowest(call[t].unsettled),
         o.pc = "relax", o.node = n, o.todo = adj[n], o.unsettled = call[t].unsettled \ {n},
         o.settled = call[t].settled, UNCHANGED <<adj, distance, path>>
  PROVE  AloneOK(o)'
  <1>1. PICK c \in Calls : c = call[t] /\ SearchOK(c) /\ CallOK(c)
    BY DEF SharedInv, AloneOK
  <1>2. /\ n \in c.unsettled /\ \A m \in c.unsettled : distance[n] <= distance[m]
    BY <1>1 DEF Lowest
  <1>3. Met(o) = Met(c)
    BY <1>1, <1>2 DEF Met
  <1>4. Cardinality(c.settled) \in Nat /\ \A m \in c.unsettled : distance[m] \in Nat
    BY <1>1, SearchFacts DEF Met
  <1>5. \A m \in o.unsettled : m \in c.unsettled /\ distance[m] <= Cardinality(c.settled) + 1
    BY <1>1, <1>4 DEF SearchOK
  <1>6. SearchOK(o)
    BY <1>1, <1>2, <1>3, <1>5 DEF SearchOK
  <1>7. AloneOK(o)
    BY <1>6 DEF AloneOK
  <1> QED BY <1>7, AloneSame

LEMMA SettleAlone ==
  ASSUME SharedInv, NEW t \in Threads, AloneOK(call[t]), NEW o \in Calls,
         call[t].pc = "relax", call[t].todo = {}, o.pc = "pick",
         o.settled = call[t].settled \cup {call[t].node}, o.unsettled = call[t].unsettled,
         UNCHANGED <<adj, distance, path>>
  PROVE  AloneOK(o)'
  <1>1. PICK c \in Calls : c = call[t] /\ SearchOK(c) /\ CallOK(c)
    BY DEF SharedInv, AloneOK
  <1>2. Met(o) = Met(c) /\ c.node \notin c.settled /\ Met(o) \ o.settled = c.unsettled
    BY <1>1 DEF Met, CallOK
  <1>3. Cardinality(o.settled) = Cardinality(c.settled) + 1
    <2>1. IsFiniteSet(c.settled)
      BY <1>1, SearchFacts
    <2>2. o.settled = c.settled \cup {c.node}
      BY <1>1
    <2>3. Cardinality(c.settled \cup {c.node}) = Cardinality(c.settled) + 1
      BY <1>2, <2>1, FS_AddElement
    <2> QED BY <2>2, <2>3
  <1>4. \A s \in o.settled : \A m \in c.unsettled : distance[s] <= distance[m]
    <2>1. \A m \in c.unsettled : m \in Met(c) \ c.settled /\ distance[c.node] <= distance[m]
      BY <1>1 DEF SearchOK, Met, CallOK
    <2> QED BY <1>1, <2>1 DEF SearchOK
  <1>5. \A s \in o.settled : \A y \in adj[s] : y \in Met(c) /\ distance[y] <= distance[s] + 1
    BY <1>1 DEF SearchOK
  <1>6. \A m \in o.unsettled : distance[m] <= Cardinality(o.settled)
    BY <1>1, <1>3 DEF SearchOK
  <1>7. SearchOK(o)
    BY <1>1, <1>2, <1>4, <1>5, <1>6 DEF SearchOK
  <1>8. AloneOK(o)
    BY <1>7 DEF AloneOK
  <1> QED BY <1>8, AloneSame

\* A neighbour that is settled or no further than the node makes it: it was met.
LEMMA RelaxKept ==
  ASSUME SharedInv, NEW t \in Threads, AloneOK(call[t]), NEW o \in Calls, NEW a \in Nodes,
         call[t].pc = "relax", a \in adj[call[t].node], a # call[t].node,
         o.pc = "relax", o.node = call[t].node, o.todo = call[t].todo \ {a},
         o.unsettled = call[t].unsettled \cup ({a} \ call[t].settled),
         o.settled = call[t].settled,
         ~ (a \notin call[t].settled /\ Shorter(t, a)), UNCHANGED <<adj, distance, path>>
  PROVE  AloneOK(o)'
  <1>1. PICK c \in Calls : c = call[t] /\ SearchOK(c) /\ CallOK(c)
    BY DEF SharedInv, AloneOK
  <1>2. PICK k : k = distance[c.node]
    OBVIOUS
  <1>3. PICK s \in Nat : s = Cardinality(c.settled) /\ s + 1 <= N
    BY <1>1, SearchFacts
  <1>4. k \in Nat /\ k <= s /\ c.node \in Met(c) \ c.settled
    <2>1. c.node \in Met(c)
      BY <1>1 DEF Met
    <2> QED BY <1>1, <1>2, <1>3, <2>1, SearchFacts DEF SearchOK, CallOK
  <1>5. a \in Met(c) /\ distance[a] <= k + 1
    <2>1. CASE a \in c.settled
      <3>1. a \in Met(c)
        BY <2>1 DEF Met
      <3>2. distance[a] <= k /\ distance[a] \in Nat
        BY <1>1, <1>2, <1>4, <2>1, <3>1, SearchFacts DEF SearchOK
      <3> QED BY <1>4, <3>1, <3>2
    <2>2. CASE a \notin c.settled
      <3>1. ~ (WrapPlus(k, 1) < distance[a])
        BY <1>1, <1>2, <2>2 DEF Shorter
      <3>2. WrapPlus(k, 1) = k + 1
        BY <1>3, <1>4, Constants DEF WrapPlus
      <3>3. distance[a] \in Int
        BY <1>1, SearchFacts
      <3>4. distance[a] <= k + 1
        BY <1>4, <3>1, <3>2, <3>3
      <3>5. distance[a] # IntMax
        BY <1>3, <1>4, <3>4, Constants
      <3> QED BY <1>1, <3>4, <3>5 DEF SearchOK
    <2> QED BY <2>1, <2>2
  <1>6. o.unsettled = c.unsettled /\ Met(o) = Met(c)
    BY <1>1, <1>5 DEF Met
  <1>7. \A y \in adj[o.node] \ o.todo : y \in Met(o) /\ distance[y] <= distance[o.node] + 1
    BY <1>1, <1>2, <1>5, <1>6 DEF SearchOK
  <1>8. SearchOK(o)
    BY <1>1, <1>6, <1>7 DEF SearchOK
  <1>9. AloneOK(o)
    BY <1>8 DEF AloneOK
  <1> QED BY <1>9, AloneSame

\* A neighbour that the node brings nearer: one link after the node's walk.
LEMMA RelaxNearer ==
  ASSUME SharedInv, NEW t \in Threads, AloneOK(call[t]), NEW o \in Calls, NEW a \in Nodes,
         call[t].pc = "relax", a \in adj[call[t].node], a # call[t].node,
         o.pc = "relax", o.node = call[t].node, o.todo = call[t].todo \ {a},
         o.unsettled = call[t].unsettled \cup ({a} \ call[t].settled),
         o.settled = call[t].settled,
         a \notin call[t].settled, Shorter(t, a), adj' = adj,
         distance' = [distance EXCEPT ![a] = WrapPlus(distance[call[t].node], 1)],
         path' = [path EXCEPT ![a] = Append(path[call[t].node], call[t].node)]
  PROVE  AloneOK(o)'
  <1>1. PICK c \in Calls : c = call[t] /\ SearchOK(c) /\ CallOK(c)
    BY DEF SharedInv, AloneOK
  <1>2. PICK k : k = distance[c.node]
    OBVIOUS
  <1>3. PICK s \in Nat : s = Cardinality(c.settled) /\ s + 1 <= N
    BY <1>1, SearchFacts
  <1>4. k \in Nat /\ k <= s /\ c.node \in Met(c) \ c.settled /\ c.node \in Nodes
    <2>1. c.node \in Met(c)
      BY <1>1 DEF Met
    <2> QED BY <1>1, <1>2, <1>3, <2>1, SearchFacts DEF SearchOK, CallOK, Calls
  <1>5. WrapPlus(k, 1) = k + 1
    BY <1>3, <1>4, Constants DEF WrapPlus
  <1>6. k + 1 < distance[a] /\ distance[a] \in Int
    BY <1>1, <1>2, <1>5, SearchFacts DEF Shorter
  <1>7. /\ distance'[a] = k + 1 /\ \A n \in Nodes \ {a} : distance'[n] = distance[n] /\ path'[n] = path[n]
        /\ path'[a] = Append(path[c.node], c.node)
    BY <1>1, <1>2, <1>5 DEF SharedInv
  <1>8. Met(o) = Met(c) \cup {a} /\ Met(o)' = Met(o) /\ a # c.node /\ Met(c) \subseteq Nodes
    BY <1>1 DEF Met, Calls
  <1>9. WalkOK(c.node) /\ WalkOK(Self) /\ Self \in Met(c)
    BY <1>1, <1>4 DEF SearchOK
  <1>10. a # Self
    BY <1>4, <1>6, <1>9 DEF WalkOK
  <1>11. WalkOK(a)'
    <2>1. PICK p \in Seq(Nodes) : p = path[c.node]
      BY <1>4 DEF SharedInv
    <2>2. PICK q \in Seq(Nodes) :
             /\ q = Append(p, c.node) /\ Len(q) = Len(p) + 1
             /\ Len(p) = 1 => q[2] = c.node
             /\ Len(p) >= 2 => q[2] = p[2]
      BY <1>4, PathAppend
    <2>3. /\ Len(p) = k /\ c.node \in Ball(Self, k) /\ (c.node = Self => k = 0)
          /\ k >= 2 => p[2] \in adj[Self] /\ c.node \in Ball(p[2], k - 1)
      BY <1>2, <1>9, <2>1 DEF WalkOK
    <2>4. a \in Ball(Self, k + 1)
      BY <1>1, <1>4, <2>3, BallNext
    <2>5. ASSUME k = 1 PROVE q[2] \in adj[Self] /\ a \in Ball(q[2], k)
      <3>1. q[2] = c.node /\ c.node # Self /\ c.node \in Ball(Self, 0 + 1)
        BY <2>2, <2>3, <2>5
      <3>2. Ball(Self, 0) = {Self} /\ (c.node \in Ball(Self, 0) \/ \E y \in Ball(Self, 0) : c.node \in adj[y])
        BY <3>1, BallNext
      <3>3. c.node \in adj[Self]
        BY <3>1, <3>2
      <3>4. c.node \in Ball(c.node, 0) /\ a \in Ball(c.node, 0 + 1)
        BY <1>1, BallNext
      <3> QED BY <2>5, <3>1, <3>3, <3>4
    <2>6. ASSUME k >= 2 PROVE q[2] \in adj[Self] /\ a \in Ball(q[2], k)
      <3>1. q[2] = p[2] /\ p[2] \in adj[Self] /\ c.node \in Ball(p[2], k - 1)
        BY <2>2, <2>3, <2>6
      <3>2. k - 1 \in Nat /\ (k - 1) + 1 = k
        BY <1>4, <2>6
      <3>3. a \in Ball(p[2], (k - 1) + 1)
        BY <1>1, <3>1, <3>2, BallNext
      <3> QED BY <3>1, <3>2, <3>3
    <2>7. PICK j : j = k + 1
      OBVIOUS
    <2>8. j \in 0 .. N /\ j - 1 = k /\ (j >= 2 => k = 1 \/ k >= 2) /\ a \in Ball(Self, j)
      BY <1>3, <1>4, <2>4, <2>7, Constants
    <2>9. j >= 2 => q[2] \in adj[Self] /\ a \in Ball(q[2], j - 1)
      BY <2>5, <2>6, <2>8
    <2>10. distance'[a] = j /\ path'[a] = q /\ Len(q) = j
      BY <1>7, <2>1, <2>2, <2>3, <2>7
    <2> QED BY <1>10, <2>8, <2>9, <2>10, WalkNext
  <1>12. \A n \in Met(c) \ {a} : WalkOK(n)'
    BY <1>1, <1>7, <1>8, WalkSame DEF SearchOK
  <1>13. Self \in Met(o) /\ \A n \in Nodes \ Met(o) : distance'[n] = IntMax /\ path'[n] = <<>>
    BY <1>1, <1>7, <1>8 DEF SearchOK
  <1>14. \A x \in c.settled : x \in Nodes /\ x # a /\ distance'[x] = distance[x] /\ distance[x] \in Int /\ distance[x] <= k
    <2>1. c.settled \subseteq Nodes /\ a \notin c.settled
      BY <1>1 DEF Calls
    <2>2. \A x \in c.settled : distance[x] <= k
      BY <1>1, <1>2, <1>4 DEF SearchOK
    <2> QED BY <1>1, <1>7, <2>1, <2>2, SearchFacts
  <1>15. \A x \in c.settled : \A n \in Met(o) \ c.settled : distance'[x] <= distance'[n]
    <2>1. \A x \in c.settled : distance'[x] <= distance'[a]
      BY <1>4, <1>7, <1>14
    <2>2. \A x \in c.settled : \A n \in Met(c) \ c.settled : distance[x] <= distance[n]
      BY <1>1 DEF SearchOK
    <2> QED BY <1>7, <1>8, <1>14, <2>1, <2>2
  <1>16. \A x \in c.settled : \A y \in adj[x] : y \in Met(o) /\ distance'[y] <= distance'[x] + 1
    <2> TAKE x \in c.settled
    <2> TAKE y \in adj[x]
    <2>1. y \in Met(c) /\ distance[y] <= distance[x] + 1
      BY <1>1 DEF SearchOK
    <2>2. CASE y = a
      BY <1>4, <1>6, <1>7, <1>8, <1>14, <2>1, <2>2
    <2>3. CASE y # a
      BY <1>7, <1>8, <1>14, <2>1, <2>3
    <2> QED BY <2>2, <2>3
  <1>17. distance'[c.node] = k
    BY <1>2, <1>4, <1>7, <1>8
  <1>18. \A n \in o.unsettled : k <= distance'[n] /\ distance'[n] <= s + 1
    <2> TAKE n \in o.unsettled
    <2>1. CASE n = a
      BY <1>3, <1>4, <1>7, <2>1
    <2>2. CASE n # a
      <3>1. n \in c.unsettled /\ n \in Nodes
        BY <1>1, <2>2 DEF Calls
      <3> QED BY <1>1, <1>2, <1>3, <1>7, <2>2, <3>1 DEF SearchOK
    <2> QED BY <2>1, <2>2
  <1>19. \A y \in adj[c.node] \ o.todo : y \in Met(o) /\ distance'[y] <= k + 1
    <2> TAKE y \in adj[c.node] \ o.todo
    <2>1. CASE y = a
      BY <1>4, <1>7, <1>8, <2>1
    <2>2. CASE y # a
      BY <1>1, <1>2, <1>7, <1>8, <2>2 DEF SearchOK
    <2> QED BY <2>1, <2>2
  <1>20. SearchOK(o)'
    <2>1. \A n \in Met(o) : WalkOK(n)'
      BY <1>8, <1>11, <1>12
    <2>2. o.node = c.node /\ o.settled = c.settled /\ o.pc = "relax"
      BY <1>1
    <2>3. k <= s
      BY <1>4
    <2> QED BY <1>3, <1>8, <1>13, <1>15, <1>16, <1>17, <1>18, <1>19, <2>1, <2>2, <2>3 DEF SearchOK
  <1> QED BY <1>20 DEF AloneOK

\* A call that is alone always finds a nearest node.
LEMMA PickFinds ==
  ASSUME SharedInv, NEW t \in Threads, AloneOK(call[t]), call[t].pc = "pick", call[t].unsettled # {}
  PROVE  Lowest(call[t].unsettled) # {}
  <1>1. PICK c \in Calls : c = call[t] /\ SearchOK(c) /\ CallOK(c)
    BY DEF SharedInv, AloneOK
  <1>2. \A m \in c.unsettled : distance[m] \in Nat /\ distance[m] <= N
    BY <1>1, SearchFacts DEF Met
  <1> DEFINE K == {distance[m] : m \in c.unsettled}
  <1>3. K \in SUBSET Nat /\ K # {}
    BY <1>1, <1>2
  <1>4. PICK k \in K : \A j \in K : k <= j
    BY <1>3, LeastNat
  <1>5. PICK n \in c.unsettled : k = distance[n]
    BY <1>4
  <1>6. distance[n] < IntMax /\ \A m \in c.unsettled : distance[n] <= distance[m]
    BY <1>2, <1>4, <1>5, Constants
  <1> QED BY <1>1, <1>6 DEF Lowest

\* The least number of links is the one no smaller number does with.
LEMMA DistIs ==
  ASSUME NEW x, NEW y, NEW k \in 0 .. N, y \in Ball(x, k),
         \A j \in 0 .. N : y \in Ball(x, j) => k <= j
  PROVE  Dist(x, y) = k
  <1> DEFINE K == {j \in 0 .. N : y \in Ball(x, j)}
  <1>1. k \in K /\ \A j \in K : j \in Int /\ k <= j
    BY Constants
  <1>2. Dist(x, y) = CHOOSE j \in K : \A i \in K : j <= i
    BY DEF Dist, Min
  <1> HIDE DEF K
  <1>3. PICK m : m = Dist(x, y)
    OBVIOUS
  <1>4. m \in K /\ \A i \in K : m <= i
    BY <1>1, <1>2, <1>3
  <1>5. m <= k /\ k <= m /\ m \in Int /\ k \in Int
    BY <1>1, <1>4
  <1> QED BY <1>3, <1>5

\* When nothing is unsettled, the distances of settled nodes are the least ones
\* and no other node can be reached.
LEMMA SearchEnds ==
  ASSUME NEW c, SharedInv, SearchOK(c), c.pc = "pick", c.unsettled = {}, c.settled \subseteq Nodes
  PROVE  /\ Met(c) = c.settled
         /\ \A k \in Nat : \A x \in Ball(Self, k) : x \in c.settled /\ distance[x] <= k
  <1> DEFINE S == {k \in Nat : \A x \in Ball(Self, k) : x \in c.settled /\ distance[x] <= k}
  <1>1. Met(c) = c.settled
    BY DEF Met
  <1>2. \A x \in c.settled : distance[x] \in Int
    <2>1. \A x \in c.settled : distance[x] \in -IntMax - 1 .. IntMax
      BY DEF SharedInv
    <2>2. \A k \in -IntMax - 1 .. IntMax : k \in Int
      BY Constants
    <2> QED BY <2>1, <2>2
  <1>3. 0 \in S
    <2>1. Self \in c.settled /\ WalkOK(Self)
      BY <1>1 DEF SearchOK
    <2>2. distance[Self] = 0
      BY <2>1 DEF WalkOK
    <2>3. Ball(Self, 0) = {Self}
      BY BallNext
    <2> QED BY <2>1, <2>2, <2>3
  <1>4. ASSUME NEW k \in S PROVE k + 1 \in S
    <2>1. k \in Nat /\ \A x \in Ball(Self, k) : x \in c.settled /\ distance[x] <= k
      OBVIOUS
    <2>2. ASSUME NEW z \in Ball(Self, k + 1) PROVE z \in c.settled /\ distance[z] <= k + 1
      <3>1. CASE z \in Ball(Self, k)
        BY <1>2, <2>1, <3>1
      <3>2. ASSUME NEW y \in Ball(Self, k), z \in adj[y] PROVE z \in c.settled /\ distance[z] <= k + 1
        <4>1. y \in c.settled /\ distance[y] <= k
          BY <2>1
        <4>2. z \in c.settled /\ distance[z] <= distance[y] + 1
          BY <1>1, <3>2, <4>1 DEF SearchOK
        <4> QED BY <1>2, <2>1, <4>1, <4>2
      <3> QED BY <2>1, <3>1, <3>2, BallNext
    <2> QED BY <2>1, <2>2
  <1>5. S = Nat
    <2>1. S \in SUBSET Nat
      OBVIOUS
    <2> HIDE DEF S
    <2> QED BY <1>3, <1>4, <2>1, SetInduction
  <1> QED BY <1>1, <1>5

LEMMA ReadAnswerAlone ==
  ASSUME SharedInv, NEW t \in Threads, AloneOK(call[t]), NEW o \in Calls, NEW d \in Nodes,
         call[t].pc = "pick", call[t].unsettled = {},
         o.pc = "answered", o.dest = d, o.answer = HopOf(d), UNCHANGED <<adj, distance, path>>
  PROVE  AloneOK(o)'
  <1>1. PICK c \in Calls : c = call[t] /\ SearchOK(c) /\ c.pc = "pick" /\ c.unsettled = {} /\ c.settled \subseteq Nodes
    BY DEF SharedInv, AloneOK, Calls
  <1>2. /\ Met(c) = c.settled
        /\ \A k \in Nat : \A x \in Ball(Self, k) : x \in c.settled /\ distance[x] <= k
    BY <1>1, SearchEnds
  <1>3. N \in Nat /\ N \in 0 .. N /\ \A j \in 0 .. N : j \in Nat
    BY Constants
  <1>4. PICK p \in Seq(Nodes) : p = path[d]
    BY DEF SharedInv
  <1>5. /\ Len(p) = 0 => HopOf(d) = Null
        /\ Len(p) = 1 => HopOf(d) = d
        /\ Len(p) # 0 /\ Len(p) # 1 => HopOf(d) = p[2]
    BY <1>4, HopCases
  <1>6. ASSUME d # Self, Reachable(Self, d) PROVE IsFirstHop(HopOf(d), d)
    <2>1. d \in c.settled /\ WalkOK(d)
      BY <1>1, <1>2, <1>3, <1>6 DEF Reachable, SearchOK
    <2>2. PICK k : k = distance[d]
      OBVIOUS
    <2>3. /\ k \in 0 .. N /\ d \in Ball(Self, k) /\ Len(p) = k
          /\ k >= 2 => p[2] \in adj[Self] /\ d \in Ball(p[2], k - 1)
      BY <1>4, <2>1, <2>2 DEF WalkOK
    <2>4. \A j \in 0 .. N + 1 : d \in Ball(Self, j) => k <= j
      BY <1>2, <1>3, <2>2
    <2>5. Dist(Self, d) = k
      BY <2>3, <2>4, <1>3, DistIs
    <2>6. k # 0
      BY <1>6, <2>3, BallNext
    <2>7. CASE k = 1
      <3>1. HopOf(d) = d
        BY <1>5, <2>3, <2>7
      <3>2. d \in adj[Self]
        <4>1. d \in Ball(Self, 0 + 1)
          BY <2>3, <2>7
        <4>2. Ball(Self, 0) = {Self} /\ (d \in Ball(Self, 0) \/ \E y \in Ball(Self, 0) : d \in adj[y])
          BY <4>1, BallNext
        <4> QED BY <1>6, <4>2
      <3>3. d \in Ball(d, 0) /\ 0 \in 0 .. N
        BY <1>3, BallNext
      <3>4. Reachable(d, d)
        BY <1>3, <3>3, BallGrows DEF Reachable
      <3>5. Dist(d, d) = 0
        BY <3>3, DistIs
      <3> QED BY <2>5, <2>7, <3>1, <3>2, <3>4, <3>5 DEF IsFirstHop
    <2>8. CASE k >= 2
      <3>1. PICK h : h = p[2] /\ h \in adj[Self] /\ d \in Ball(h, k - 1)
        BY <2>3, <2>8
      <3>2. HopOf(d) = h
        BY <1>5, <2>3, <2>8, <3>1
      <3>3. k - 1 \in 0 .. N /\ k - 1 \in Nat /\ k - 1 <= N
        BY <1>3, <2>3, <2>8
      <3>4. Reachable(h, d)
        BY <1>3, <3>1, <3>3, BallGrows DEF Reachable
      <3>5. ASSUME NEW j \in 0 .. N, d \in Ball(h, j) PROVE k - 1 <= j
        <4>1. j \in Nat /\ j + 1 \in 0 .. N + 1
          BY <1>3
        <4>2. d \in Ball(Self, j + 1)
          BY <3>1, <3>5, <4>1, BallShift
        <4>3. k <= j + 1
          BY <2>4, <4>1, <4>2
        <4> QED BY <2>3, <4>1, <4>3
      <3>6. Dist(h, d) = k - 1
        BY <3>1, <3>3, <3>5, DistIs
      <3> QED BY <2>5, <3>1, <3>2, <3>4, <3>6 DEF IsFirstHop
    <2> QED BY <1>3, <2>3, <2>6, <2>7, <2>8
  <1>7. ASSUME ~ (d # Self /\ Reachable(Self, d)) PROVE HopOf(d) = Null
    <2>1. CASE d = Self
      <3>1. path[Self] = <<>>
        BY DEF SharedInv, PathsOK
      <3> QED BY <1>4, <1>5, <2>1, <3>1, PathLengths
    <2>2. CASE ~ Reachable(Self, d)
      <3>1. d \notin Met(c)
        <4>1. SUFFICES ASSUME d \in Met(c) PROVE FALSE
          OBVIOUS
        <4>2. PICK k : k = distance[d]
          OBVIOUS
        <4>3. k \in Nat /\ k <= N /\ d \in Ball(Self, k)
          BY <1>1, <1>3, <4>1, <4>2 DEF SearchOK, WalkOK
        <4>4. d \in Ball(Self, N)
          BY <1>3, <4>3, BallGrows
        <4> QED BY <2>2, <4>4 DEF Reachable
      <3>2. path[d] = <<>>
        BY <1>1, <3>1 DEF SearchOK
      <3> QED BY <1>4, <1>5, <3>2, PathLengths
    <2> QED BY <1>7, <2>1, <2>2
  <1>8. HopOf(d) # Threw
    <2>1. \A n \in Nodes : n # Threw
      BY Constants DEF Nodes, Threw
    <2>2. Null # Threw
      BY DEF Null, Threw
    <2>3. Len(p) = 0 \/ Len(p) = 1 \/ Len(p) >= 2
      BY PathLengths
    <2>4. Len(p) >= 2 => p[2] \in Nodes
      BY PathLengths
    <2> QED BY <1>5, <2>1, <2>2, <2>3, <2>4
  <1>9. AnswerOK(o)
    BY <1>6, <1>7, <1>8 DEF AnswerOK
  <1>10. AloneOK(o)
    BY <1>9 DEF AloneOK
  <1> QED BY <1>10, AloneSame

-----------------------------------------------------------------------------
(* The invariant of a call that is alone.                                   *)

LEMMA AloneInit == Init => AloneInv
  BY IdleFacts DEF Init, AloneInv

\* A step of a thread whose call becomes o, acceptable if it is alone.
LEMMA AloneBecomes ==
  ASSUME SharedInv, AloneInv, NEW t \in Threads, NEW o \in Calls, Becomes(t, o),
         o.alone = TRUE => call[t].alone = TRUE /\ AloneOK(o)',
         \/ call[t].pc \notin {"idle", "answered"}
         \/ o.pc \in {"idle", "answered"} /\ UNCHANGED <<adj, distance, path>>
  PROVE  AloneInv'
  <1>1. /\ call'[t] = o /\ \A u \in Threads : u # t => call'[u] = call[u]
    BY BecomesFacts
  <1> SUFFICES ASSUME NEW u \in Threads, call'[u].alone = TRUE
               PROVE  /\ AloneOK(call[u])'
                      /\ \A v \in Threads \ {u} : call'[v].pc \in {"idle", "answered"}
    <2>1. \A v \in Threads : call'[v].alone \in BOOLEAN
      BY BecomesFacts DEF Calls
    <2> QED BY <2>1 DEF AloneInv
  <1>2. CASE u = t
    <2>1. call[t].alone = TRUE /\ AloneOK(o)'
      BY <1>1, <1>2
    <2>2. AloneOK(call[u])'
      <3>1. call'[u] = o
        BY <1>1, <1>2
      <3> QED BY <2>1, <3>1 DEF AloneOK, SearchOK, AnswerOK, Met
    <2>3. \A v \in Threads \ {t} : call[v].pc \in {"idle", "answered"}
      BY <2>1 DEF AloneInv
    <2> QED BY <1>1, <1>2, <2>2, <2>3
  <1>3. CASE u # t
    <2>1. PICK c : c = call[u]
      OBVIOUS
    <2>2. call'[u] = c /\ c.alone = TRUE
      BY <1>1, <1>3, <2>1
    <2>3. AloneOK(c) /\ \A v \in Threads \ {u} : call[v].pc \in {"idle", "answered"}
      BY <2>1, <2>2 DEF AloneInv
    <2>4. o.pc \in {"idle", "answered"} /\ UNCHANGED <<adj, distance, path>>
      BY <1>3, <2>3
    <2>5. AloneOK(c)'
      BY <2>3, <2>4, AloneSame
    <2>6. AloneOK(call[u])'
      BY <2>2, <2>5 DEF AloneOK, SearchOK, AnswerOK, Met
    <2> QED BY <1>1, <1>3, <2>3, <2>4, <2>6
  <1> QED BY <1>2, <1>3

LEMMA AloneStep ==
  ASSUME SharedInv, AloneInv, [Next]_vars PROVE AloneInv'
  <1>0. \A t \in Threads : /\ call[t] \in Calls /\ CallOK(call[t])
                           /\ call[t].alone \in BOOLEAN
                           /\ call[t].alone = TRUE => AloneOK(call[t])
    BY DEF SharedInv, AloneInv, Calls
  <1>1. ASSUME NEW t \in Threads, Begin(t) PROVE AloneInv'
    <2>1. /\ call' \in [Threads -> Calls]
          /\ call'[t].pc = "reset" /\ call'[t].todo = Nodes
          /\ call'[t].alone = (\A u \in Threads : ~ Busy(u))
          /\ \A u \in Threads : u # t => call'[u].alone = FALSE /\ call'[u].pc = call[u].pc
      BY <1>1, BeginFacts
    <2>2. AloneOK(call[t])'
      BY <2>1 DEF AloneOK
    <2>3. ASSUME call'[t].alone PROVE \A u \in Threads \ {t} : call'[u].pc \in {"idle", "answered"}
      <3>1. \A u \in Threads : ~ Busy(u)
        BY <2>1, <2>3, Zenon
      <3> QED BY <2>1, <3>1 DEF Busy
    <2> QED BY <2>1, <2>2, <2>3 DEF AloneInv
  <1>2. ASSUME NEW t \in Threads, UnknownDestination(t) PROVE AloneInv'
    <2>1. call[t].pc = "idle" /\ Answer(t, Unknown, Null) /\ UNCHANGED <<adj, distance, path>>
      BY <1>2 DEF UnknownDestination, Busy
    <2>2. call[t].alone = FALSE
      BY <1>0, <2>1 DEF AloneOK
    <2>3. Unknown \in Nodes \cup {Unknown} /\ Null \in Nodes \cup {Unknown, Null, Threw}
      OBVIOUS
    <2>4. PICK o \in Calls : Becomes(t, o) /\ o.pc = "answered" /\ o.alone = call[t].alone
      BY <2>1, <2>3, AnswerFacts
    <2> QED BY <2>1, <2>2, <2>4, AloneBecomes
  <1>3. ASSUME NEW t \in Threads, ResetNode(t) PROVE AloneInv'
    <2>1. PICK n \in Nodes, o \in Calls :
           /\ call[t].pc = "reset" /\ n \in call[t].todo /\ Becomes(t, o)
           /\ o.pc = "reset" /\ o.todo = call[t].todo \ {n} /\ o.alone = call[t].alone
           /\ distance' = [distance EXCEPT ![n] = IntMax] /\ path' = [path EXCEPT ![n] = <<>>]
      BY <1>3, ResetFacts
    <2>2. ASSUME o.alone = TRUE PROVE AloneOK(o)'
      BY <1>0, <2>1, <2>2, ResetAlone
    <2> QED BY <2>1, <2>2, AloneBecomes
  <1>4. ASSUME NEW t \in Threads, SetSource(t) PROVE AloneInv'
    <2>1. PICK o \in Calls :
           /\ call[t].pc = "reset" /\ call[t].todo = {} /\ Becomes(t, o)
           /\ o.pc = "pick" /\ o.unsettled = {Self} /\ o.settled = call[t].settled
           /\ o.alone = call[t].alone
           /\ distance' = [distance EXCEPT ![Self] = 0] /\ UNCHANGED <<adj, path>>
      BY <1>4, SetSourceFacts
    <2>2. ASSUME o.alone = TRUE PROVE AloneOK(o)'
      BY <1>0, <2>1, <2>2, SetSourceAlone
    <2> QED BY <2>1, <2>2, AloneBecomes
  <1>5. ASSUME NEW t \in Threads, Pick(t) PROVE AloneInv'
    <2>0. call[t].pc = "pick" /\ UNCHANGED <<adj, distance, path>>
      BY <1>5, PickFacts
    <2>1. ASSUME NEW o \in Calls, Becomes(t, o), o.pc = "answered",
                 call[t].unsettled # {}, Lowest(call[t].unsettled) = {}, o.alone = call[t].alone
          PROVE  AloneInv'
      <3>1. call[t].alone = FALSE
        BY <1>0, <2>0, <2>1, PickFinds
      <3> QED BY <2>0, <2>1, <3>1, AloneBecomes
    <2>2. ASSUME NEW n \in Lowest(call[t].unsettled), NEW o \in Calls,
                 Becomes(t, o), o.pc = "relax", o.node = n, o.todo = adj[n],
                 o.unsettled = call[t].unsettled \ {n}, o.settled = call[t].settled,
                 o.alone = call[t].alone
          PROVE  AloneInv'
      <3>1. ASSUME o.alone = TRUE PROVE AloneOK(o)'
        BY <1>0, <2>0, <2>2, <3>1, PickAlone
      <3> QED BY <2>0, <2>2, <3>1, AloneBecomes
    <2> QED BY <1>5, <2>1, <2>2, PickFacts
  <1>6. ASSUME NEW t \in Threads, Relax(t) PROVE AloneInv'
    <2>1. PICK a \in call[t].todo, o \in Calls :
           /\ call[t].pc = "relax" /\ a \in Nodes /\ a \in adj[call[t].node] /\ a # call[t].node
           /\ Becomes(t, o) /\ o.pc = "relax" /\ o.node = call[t].node /\ o.todo = call[t].todo \ {a}
           /\ o.unsettled = call[t].unsettled \cup ({a} \ call[t].settled)
           /\ o.settled = call[t].settled /\ o.alone = call[t].alone
           /\ UNCHANGED <<adj, calls>>
           /\ IF a \notin call[t].settled /\ Shorter(t, a)
              THEN /\ distance' = [distance EXCEPT ![a] = WrapPlus(distance[call[t].node], 1)]
                   /\ path' = [path EXCEPT ![a] = Append(path[call[t].node], call[t].node)]
              ELSE UNCHANGED <<distance, path>>
      BY <1>6, RelaxFacts
    <2>2. ASSUME o.alone = TRUE PROVE AloneOK(o)'
      <3>1. AloneOK(call[t])
        BY <1>0, <2>1, <2>2
      <3>2. CASE a \notin call[t].settled /\ Shorter(t, a)
        BY <2>1, <3>1, <3>2, RelaxNearer
      <3>3. CASE ~ (a \notin call[t].settled /\ Shorter(t, a))
        <4>1. UNCHANGED <<adj, distance, path>>
          BY <2>1, <3>3
        <4> QED BY <2>1, <3>1, <3>3, <4>1, RelaxKept
      <3> QED BY <3>2, <3>3
    <2> QED BY <2>1, <2>2, AloneBecomes
  <1>7. ASSUME NEW t \in Threads, Settle(t) PROVE AloneInv'
    <2>1. PICK o \in Calls :
           /\ call[t].pc = "relax" /\ call[t].todo = {} /\ Becomes(t, o) /\ o.pc = "pick"
           /\ o.settled = call[t].settled \cup {call[t].node} /\ o.unsettled = call[t].unsettled
           /\ o.alone = call[t].alone /\ UNCHANGED <<adj, distance, path>>
      BY <1>7, SettleFacts
    <2>2. ASSUME o.alone = TRUE PROVE AloneOK(o)'
      BY <1>0, <2>1, <2>2, SettleAlone
    <2> QED BY <2>1, <2>2, AloneBecomes
  <1>8. ASSUME NEW t \in Threads, ReadAnswer(t) PROVE AloneInv'
    <2>1. PICK d \in Nodes, o \in Calls :
           /\ call[t].pc = "pick" /\ call[t].unsettled = {} /\ Becomes(t, o)
           /\ o.pc = "answered" /\ o.dest = d /\ o.answer = HopOf(d) /\ o.alone = call[t].alone
           /\ UNCHANGED <<adj, distance, path>>
      BY <1>8, ReadAnswerFacts
    <2>2. ASSUME o.alone = TRUE PROVE AloneOK(o)'
      BY <1>0, <2>1, <2>2, ReadAnswerAlone
    <2> QED BY <2>1, <2>2, AloneBecomes
  <1>9. ASSUME NEW t \in Threads, Return(t) PROVE AloneInv'
    <2>1. Becomes(t, Idle) /\ UNCHANGED <<adj, distance, path>>
      BY <1>9 DEF Return, Becomes
    <2>2. PICK o \in Calls : o = Idle /\ o.alone = FALSE /\ o.pc = "idle"
      BY IdleFacts
    <2> QED BY <2>1, <2>2, AloneBecomes
  <1>10. CASE UNCHANGED vars
    <2>1. UNCHANGED <<adj, distance, path>> /\ call' = call
      BY <1>10 DEF vars
    <2>2. ASSUME NEW t \in Threads, call[t].alone PROVE AloneOK(call[t])'
      <3>1. PICK c : c = call[t]
        OBVIOUS
      <3>2. AloneOK(c)
        BY <2>2, <3>1 DEF AloneInv
      <3>3. AloneOK(c)' /\ call'[t] = c
        BY <2>1, <3>1, <3>2, AloneSame
      <3> QED BY <3>3 DEF AloneOK, SearchOK, AnswerOK, Met
    <2> QED BY <2>1, <2>2 DEF AloneInv
  <1> QED BY <1>1, <1>2, <1>3, <1>4, <1>5, <1>6, <1>7, <1>8, <1>9, <1>10 DEF Next, Step

\* For every graph: a call of getNextHop that no other call overlaps answers
\* with the first hop of a shortest path, with null exactly for the site itself
\* and for sites it cannot reach, and does not throw, whatever distances and
\* paths earlier, overlapping calls have left in the nodes.
THEOREM ShortestPathAlone == Spec => []ShortestWhenAlone
  <1>1. AloneInv => ShortestWhenAlone
    BY DEF AloneInv, AloneOK, AnswerOK, ShortestWhenAlone
  <1>2. SharedInv /\ AloneInv /\ [Next]_vars => AloneInv'
    BY AloneStep
  <1> QED BY <1>1, <1>2, AloneInit, SharedInvariant, PTL DEF Spec

=============================================================================
