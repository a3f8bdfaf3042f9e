---------------------------- MODULE ShortestPath ----------------------------
(***************************************************************************)
(* LSRPRouter.getNextHop: Dijkstra's algorithm, run by the handlers of the *)
(* key routing service on several event loops, and once by LSRPRouter on   *)
(* its own.  All calls keep distances and paths in the same Node objects   *)
(* and no lock protects them.                                              *)
(*                                                                         *)
(* The graph does not change here; module LSRP is about how it changes.    *)
(* Every edge has weight 1, the only weight that Neighbour ever has.       *)
(* Distances are Java ints of a small range, -IntMax - 1 .. IntMax.        *)
(***************************************************************************)
EXTENDS Integers, Sequences, FiniteSets, FiniteSetsExt

CONSTANTS
    Threads,    \* event loop threads that call getNextHop
    N,          \* number of nodes; 1..N in the order in which allNodes lists them
    Self,       \* mySiteId
    Graphs,     \* adjacentNodes of all nodes: the graphs to look at
    Unknown,    \* a site that is not in allNodes
    IntMax,     \* Integer.MAX_VALUE
    MaxCalls    \* bound: calls

Nodes == 1 .. N

ASSUME NodeAssumption ==
    /\ N \in Nat /\ Self \in Nodes /\ Unknown \notin Nodes
    /\ Graphs \subseteq [Nodes -> SUBSET Nodes]
    /\ \A g \in Graphs, x \in Nodes : x \notin g[x] /\ \A y \in g[x] : x \in g[y]
    /\ IntMax \in Nat /\ IntMax > N /\ MaxCalls \in Nat

VARIABLES
    adj,        \* Node.adjacentNodes
    distance,   \* Node.distance
    path,       \* Node.shortestPath
    call,       \* the calls in progress
    calls       \* calls begun

vars == <<adj, distance, path, call, calls>>

\* alone: no other call has been in progress at the same time.
Idle == [pc |-> "idle", dest |-> Unknown, todo |-> {}, node |-> Self,
         settled |-> {}, unsettled |-> {}, alone |-> FALSE, answer |-> Unknown]

\* No answer: null.  getNextHop also ends with an exception (see Pick).
Null == 0
Threw == -1

Busy(t) == call[t].pc # "idle"

\* int addition
WrapPlus(a, b) == IF a + b > IntMax THEN a + b - 2 * (IntMax + 1) ELSE a + b

Init ==
    /\ adj \in Graphs
    /\ distance = [n \in Nodes |-> IntMax]
    /\ path = [n \in Nodes |-> <<>>]
    /\ call = [t \in Threads |-> Idle]
    /\ calls = 0

\* The locals of a call end with it.
Answer(t, d, a) ==
    call' = [call EXCEPT ![t] = [Idle EXCEPT !.pc = "answered", !.alone = call[t].alone,
                                             !.dest = d, !.answer = a]]

\* getNextHop of a known destination, which is not used before the end (see
\* ReadAnswer); the router's own DijkstraRunnable does the same.
Begin(t) ==
    LET alone == \A u \in Threads : ~Busy(u)
        others == [u \in Threads |-> [call[u] EXCEPT !.alone = FALSE]]
    IN  /\ ~Busy(t)
        /\ calls < MaxCalls
        /\ calls' = calls + 1
        /\ call' = [others EXCEPT ![t] =
                      [Idle EXCEPT !.pc = "reset", !.todo = Nodes, !.alone = alone]]
        /\ UNCHANGED <<adj, distance, path>>

\* getNextHop of a site that is not in allNodes.
UnknownDestination(t) ==
    /\ ~Busy(t)
    /\ calls < MaxCalls
    /\ calls' = calls + 1
    /\ Answer(t, Unknown, Null)
    /\ UNCHANGED <<adj, distance, path>>

\* resetShortestPath, one node after the other.
KeepDistances(t) ==                             \* mutant: paths only
    LET n == Min(call[t].todo)
    IN  /\ call[t].pc = "reset" /\ call[t].todo # {}
        /\ path' = [path EXCEPT ![n] = <<>>]
        /\ call' = [call EXCEPT ![t].todo = @ \ {n}]
        /\ UNCHANGED <<adj, distance, calls>>
ResetNode(t) ==
    LET n == Min(call[t].todo)
    IN  /\ call[t].pc = "reset" /\ call[t].todo # {}
        /\ distance' = [distance EXCEPT ![n] = IntMax]
        /\ path' = [path EXCEPT ![n] = <<>>]
        /\ call' = [call EXCEPT ![t].todo = @ \ {n}]
        /\ UNCHANGED <<adj, calls>>

\* source.setDistance(0); unsettledNodes.add(source)
SetSource(t) ==
    /\ call[t].pc = "reset" /\ call[t].todo = {}
    /\ distance' = [distance EXCEPT ![Self] = 0]
    /\ call' = [call EXCEPT ![t].pc = "pick", ![t].unsettled = {Self}]
    /\ UNCHANGED <<adj, path, calls>>

\* getLowestDistanceNode: null when no distance is below MAX_VALUE, which
\* another call's reset can bring about; the caller then throws.
Lowest(U) == {n \in U : distance[n] < IntMax /\ \A m \in U : distance[n] <= distance[m]}

Pick(t) ==
    /\ call[t].pc = "pick" /\ call[t].unsettled # {}
    /\ IF Lowest(call[t].unsettled) = {}
       THEN Answer(t, Unknown, Threw)
       ELSE \E n \in Lowest(call[t].unsettled) :
              call' = [call EXCEPT ![t] = [call[t] EXCEPT !.pc = "relax", !.node = n,
                                             !.todo = adj[n], !.unsettled = @ \ {n}]]
    /\ UNCHANGED <<adj, distance, path, calls>>

\* calculateMinimumDistance(a, 1, node), for a neighbour that is not settled.
Shorter(t, a) == WrapPlus(distance[call[t].node], 1) < distance[a]

RelaxSettled(t) ==                              \* mutant: settledNodes not looked at
    \E a \in call[t].todo :
      /\ call[t].pc = "relax"
      /\ IF Shorter(t, a)
         THEN /\ distance' = [distance EXCEPT ![a] = WrapPlus(distance[call[t].node], 1)]
              /\ path' = [path EXCEPT ![a] = Append(path[call[t].node], call[t].node)]
         ELSE UNCHANGED <<distance, path>>
      /\ call' = [call EXCEPT ![t].todo = @ \ {a}, ![t].unsettled = @ \cup {a}]
      /\ UNCHANGED <<adj, calls>>
Relax(t) ==
    \E a \in call[t].todo :
      /\ call[t].pc = "relax"
      /\ IF a \notin call[t].settled /\ Shorter(t, a)
         THEN /\ distance' = [distance EXCEPT ![a] = WrapPlus(distance[call[t].node], 1)]
              /\ path' = [path EXCEPT ![a] = Append(path[call[t].node], call[t].node)]
         ELSE UNCHANGED <<distance, path>>
      /\ call' = [call EXCEPT ![t].todo = @ \ {a},
                              ![t].unsettled = @ \cup ({a} \ call[t].settled)]
      /\ UNCHANGED <<adj, calls>>

\* settledNodes.add(currentNode)
Settle(t) ==
    /\ call[t].pc = "relax" /\ call[t].todo = {}
    /\ call' = [call EXCEPT ![t].pc = "pick", ![t].settled = @ \cup {call[t].node}]
    /\ UNCHANGED <<adj, distance, path, calls>>

\* The end of getNextHop: the destination itself for a path of one node, the
\* second node of a longer one, null without a path.
FirstOfPath(d) ==                               \* mutant: the path's first node
    IF path[d] = <<>> THEN Null ELSE path[d][1]
HopOf(d) ==
    CASE Len(path[d]) = 0 -> Null
      [] Len(path[d]) = 1 -> d
      [] OTHER -> path[d][2]

ReadAnswer(t) ==
    /\ call[t].pc = "pick" /\ call[t].unsettled = {}
    /\ \E d \in Nodes : Answer(t, d, HopOf(d))
    /\ UNCHANGED <<adj, distance, path, calls>>

\* The caller takes the answer.
Return(t) ==
    /\ call[t].pc = "answered"
    /\ call' = [call EXCEPT ![t] = Idle]
    /\ UNCHANGED <<adj, distance, path, calls>>

Step(t) == \/ ResetNode(t) \/ SetSource(t) \/ Pick(t) \/ Relax(t) \/ Settle(t)
           \/ ReadAnswer(t) \/ Return(t)

Next == \E t \in Threads : Step(t) \/ Begin(t) \/ UnknownDestination(t)

\* Event loops run.
Spec == Init /\ [][Next]_vars /\ \A t \in Threads : WF_vars(Step(t))

-----------------------------------------------------------------------------
(* The reference.                                                           *)

\* Nodes within k links of x.
Ball(x, k) ==
    LET within[i \in 0 .. k] ==
          IF i = 0 THEN {x} ELSE within[i - 1] \cup UNION {adj[y] : y \in within[i - 1]}
    IN  within[k]

Reachable(x, y) == y \in Ball(x, N)
Dist(x, y) == Min({k \in 0 .. N : y \in Ball(x, k)})

IsFirstHop(h, d) == h \in adj[Self] /\ Reachable(h, d) /\ Dist(h, d) = Dist(Self, d) - 1

\* The type of every variable.
TypeOK ==
    /\ adj \in Graphs
    /\ distance \in [Nodes -> -IntMax - 1 .. IntMax]
    /\ path \in [Nodes -> Seq(Nodes)]
    /\ \A t \in Threads :
          /\ call[t].pc \in {"idle", "reset", "pick", "relax", "answered"}
          /\ call[t].dest \in Nodes \cup {Unknown} /\ call[t].node \in Nodes
          /\ call[t].todo \subseteq Nodes /\ call[t].settled \subseteq Nodes
          /\ call[t].unsettled \subseteq Nodes \ call[t].settled
          /\ call[t].alone \in BOOLEAN
    /\ calls \in 0 .. MaxCalls

\* A call of getNextHop that no other call overlaps does not throw and answers
\* with the first hop of a shortest path, and with null exactly for itself and
\* for sites it cannot reach, whatever earlier, overlapping calls have left in
\* the nodes.
ShortestWhenAlone ==
    \A t \in Threads : call[t].pc = "answered" /\ call[t].alone =>
      LET d == call[t].dest
      IN  /\ call[t].answer # Threw
          /\ d # Unknown => IF d # Self /\ Reachable(Self, d)
                            THEN IsFirstHop(call[t].answer, d)
                            ELSE call[t].answer = Null

\* However calls overlap, a site is never its own next hop: a request is not
\* sent back to the service that is handling it.
NextHopNotSelf == \A t \in Threads : call[t].pc = "answered" => call[t].answer # Self

\* Every call of getNextHop ends, with an answer or an exception, however the
\* calls disturb each other's distances.
CallEnds == \A t \in Threads : Busy(t) ~> ~Busy(t)

=============================================================================
