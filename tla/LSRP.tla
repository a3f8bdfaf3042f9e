-------------------------------- MODULE LSRP --------------------------------
(***************************************************************************)
(* LSRPRouter: the link state routing between key routing services.        *)
(* Each site keeps Node objects in two maps, allNodes and                  *)
(* adjacentNeighbours, connects to its configured neighbours, floods the   *)
(* list of those it is connected to, and enters what it receives into the  *)
(* adjacency of its Node objects, on which getNextHop searches (module     *)
(* ShortestPath).  All handlers of a site run on one event loop thread, so *)
(* each is one step.                                                       *)
(*                                                                         *)
(* Node objects are compared by identity, and an object that has left the  *)
(* maps may still be linked to others: a site's object for a name is       *)
(* <<name, k>>.  A site has one address, as its name.  A connection is     *)
(* used in one direction only, so "x to y" and "y to x" are two of them.   *)
(***************************************************************************)
EXTENDS Integers, Sequences, FiniteSets

CONSTANTS
    Sites,
    Networks,       \* the networks to look at, records of
                    \*   links: the links, sets of two sites
                    \*   warm: have the services been up for a while?
                    \*   timed: do link timers (30 s) fire while the network
                    \*     is Quiet (TRUE), and while it is not (FALSE)?
                    \*   floods, faults: bounds on floods and faults
                    \*   kinds: the kinds of faults, "break", "crash" and "keys"
                    \*   spare: floods left to come after any fault
                    \*   steps: ms between floods of a site, 0 for one time stamp
    MaxObj          \* bound: Node objects of one name at one site at a time

ASSUME NetworkAssumption ==
    /\ IsFiniteSet(Sites)
    /\ \A n \in Networks : /\ \A l \in n.links : \E x, y \in Sites : x # y /\ l = {x, y}
                          /\ n.warm \in BOOLEAN /\ n.timed \subseteq BOOLEAN /\ n.floods \in Nat /\ n.faults \in Nat /\ n.spare \in Nat
                          /\ n.steps \subseteq Nat

ASSUME BoundAssumption == MaxObj \in Nat \ {0}

VARIABLES
    net,        \* the network; links are routeCfg.adjacent of all sites
    site,       \* the LSRPRouter of each site
    open,       \* is there a connection from x to y?
    queue,      \* messages on their way on it; hops counts a copy's connections
    inactive,   \* channelInactive events at x about connections with y
    keyDir,     \* does the key directory of x for y exist?
    clock,      \* time stamp of each site's last flood
    rounds,     \* history: rounds of floods since the network is calm
    begun,      \* history: the clocks when the last of them began
    floods,     \* bound: floods still to come
    faults      \* bound: faults still to come

vars == <<net, site, open, queue, inactive, keyDir, clock, rounds, begun, floods, faults>>

links == net.links
Neighbours(x) == {y \in Sites : {x, y} \in links}

Objs == Sites \X (1 .. MaxObj)
None == 0
Name(o) == o[1]

\* The state of an LSRPRouter: all and nbr (adjacentNeighbours) give the object
\* of a name or None; adj holds <<a, b>> for b in a.adjacentNodes; nulls the
\* objects with a null key in adjacentNodes; timers the neighbours with a
\* scheduled LinkDetectionRunnable; pend those with a scheduled ConnectRunnable.
InMap(m, y) == <<y, m[y]>>

InMaps(s) == {o \in Objs : s.all[Name(o)] = o[2] \/ s.nbr[Name(o)] = o[2]}

\* Objects that a router may still meet; the others are garbage.
Live(s) == InMaps(s) \cup {l[2] : l \in s.adj}

Collect(s) ==
    LET live == Live(s)
    IN  [s EXCEPT !.stamp = [o \in Objs |-> IF o \in live THEN @[o] ELSE 0],
                  !.conn = @ \cap live, !.chan = @ \cap live, !.nulls = @ \cap live,
                  !.adj = {l \in @ : l[1] \in live /\ l[2] \in live}]

\* new Node(y, ...): the number of an object of which nothing is left.
Used(s) == Live(s) \cup {l[1] : l \in s.adj} \cup s.conn \cup s.chan \cup s.nulls \cup {o \in Objs : s.stamp[o] # 0}
CanMake(s, y) == \E k \in 1 .. MaxObj : <<y, k>> \notin Used(s)
NewObj(s, y) == CHOOSE k \in 1 .. MaxObj : /\ <<y, k>> \notin Used(s)
                                           /\ \A j \in 1 .. k - 1 : <<y, j>> \in Used(s)

\* The constructor: itself and the configured neighbours, no links yet.
StartUp(x) ==
    [all |-> [y \in Sites |-> IF y \in Neighbours(x) \cup {x} THEN 1 ELSE None],
     nbr |-> [y \in Sites |-> IF y \in Neighbours(x) THEN 1 ELSE None],
     stamp |-> [o \in Objs |-> 0], conn |-> {}, chan |-> {}, adj |-> {}, nulls |-> {},
     timers |-> {}, pend |-> Neighbours(x)]

\* A router in a network that has been up for a while.
SteadyState(x) ==
    [StartUp(x) EXCEPT
       !.all = [y \in Sites |-> 1],
       !.stamp = [o \in Objs |-> IF o[2] = 1 /\ Name(o) # x THEN 1 ELSE 0],
       !.conn = {<<y, 1>> : y \in Neighbours(x)}, !.chan = {<<y, 1>> : y \in Neighbours(x)},
       !.adj = {p \in Objs \X Objs : p[1][2] = 1 /\ p[2][2] = 1 /\ {Name(p[1]), Name(p[2])} \in links},
       !.timers = Neighbours(x), !.pend = {}]

Init ==
    /\ net \in Networks
    /\ site = [x \in Sites |-> IF net.warm THEN SteadyState(x) ELSE StartUp(x)]
    /\ open = [x \in Sites |-> IF net.warm THEN Neighbours(x) ELSE {}]
    /\ queue = [x \in Sites |-> [y \in Sites |-> <<>>]]
    /\ inactive = [x \in Sites |-> [y \in Sites |-> 0]]
    /\ keyDir = [x \in Sites |-> Neighbours(x)]
    /\ clock = [x \in Sites |-> 1]
    /\ rounds = 0
    /\ begun = clock
    /\ floods = net.floods
    /\ faults = net.faults

-----------------------------------------------------------------------------
(* Sending.                                                                 *)

AllKnown(s) == {y \in Sites : s.all[y] # None}      \* mutant: walks allNodes
\* Adjacent neighbours that isConnected() holds for.
Connected(s) == {y \in Sites : s.nbr[y] # None /\ InMap(s.nbr, y) \in s.conn}

\* sendLSRP throws for a Node without channel.
Unsendable(s, Y) == {y \in Y : InMap(s.nbr, y) \notin s.chan}

\* sendLSRP to the neighbours Y in the order of a hash map: to all of them, or
\* up to the first one without a channel.  A closed channel drops the message.
Sendings(s, Y) ==
    IF Unsendable(s, Y) = {} THEN {Y} ELSE SUBSET (Y \ Unsendable(s, Y))

Put(x, chans, Y, m) ==
    queue' = [queue EXCEPT ![x] = [y \in Sites |-> IF y \in Y \cap chans THEN Append(@[y], m)
                                                                        ELSE @[y]]]

\* startFlooding of a router in state s with connections chans; its caller goes
\* on to "done", or to "threw" after an exception of sendLSRP.
Flood(x, s, chans, done, threw) ==
    \E dt \in net.steps, Y \in Sendings(s, Connected(s)) :
      /\ floods > 0
      /\ floods' = floods - 1
      /\ clock' = [clock EXCEPT ![x] = @ + dt]
      /\ Put(x, chans, Y, [orig |-> x, stamp |-> clock[x] + dt, nbrs |-> Connected(s),
                         hops |-> 1])
      /\ site' = [site EXCEPT ![x] =
                    Collect(IF Unsendable(s, Connected(s)) = {} THEN done ELSE threw)]

NoFlood(x, s) == site' = [site EXCEPT ![x] = s] /\ UNCHANGED <<queue, clock, floods>>

-----------------------------------------------------------------------------
(* History: how long nothing has failed.                                    *)

\* Every connection stands, its channel is that of the neighbour's Node, and no
\* link is known to be down or about to be reported.
Calm ==
    \A x \in Sites :
      /\ open[x] = Neighbours(x) /\ keyDir[x] = Neighbours(x) /\ site[x].pend = {}
      /\ \A y \in Sites : inactive[x][y] = 0
      /\ \A y \in Neighbours(x) : /\ site[x].nbr[y] # None
                                  /\ InMap(site[x].nbr, y) \in site[x].conn \cap site[x].chan

\* Nothing is on its way.
Quiet ==
    \A x \in Sites : /\ site[x].pend = {}
                     /\ \A y \in Sites : queue[x][y] = <<>> /\ inactive[x][y] = 0

\* A round is over when no message is on its way and every site has flooded in
\* it with a new time stamp.  The first begins when a calm network is quiet.
RoundOver == rounds = 0 \/ \A x \in Sites : clock'[x] > begun[x]

\* No Node has a null neighbour (see CheckLink).
NoNulls == \A x \in Sites : site[x].nulls = {}

\* The part of every step that keeps the history, from the state after it.
Rounds ==
    /\ rounds' = IF ~Calm' \/ ~NoNulls' \/ faults' # faults THEN 0
                 ELSE IF rounds < 3 /\ Quiet' /\ RoundOver THEN rounds + 1 ELSE rounds
    /\ begun' = IF rounds' > rounds THEN clock' ELSE begun

-----------------------------------------------------------------------------
(* The handlers of LSRPRouter.                                              *)

\* A ConnectRunnable that succeeds (failures are retried), with
\* onAdjacentNeighbourConnected.
Connect(x, y) ==
    LET s == [site[x] EXCEPT !.pend = @ \ {y}]
        n == InMap(s.nbr, y)
        up == [s EXCEPT !.conn = @ \cup {n}, !.chan = @ \cup {n}]
    IN  /\ y \in site[x].pend
        /\ open' = [open EXCEPT ![x] = @ \cup {y}]
        /\ IF s.nbr[y] = None
           THEN NoFlood(x, s)
           ELSE Flood(x, up, open[x] \cup {y}, [up EXCEPT !.timers = @ \cup {y}], up)
        /\ UNCHANGED <<net, inactive, keyDir, faults>> /\ Rounds

\* onAdjacentNeighbourDisconnected.  The neighbour's object leaves both maps;
\* its links stay, because it is looked up after that: what is removed from the
\* site's own Node is a null.
Disconnected(x, y) ==
    LET s == [site[x] EXCEPT !.nbr[y] = None, !.all[y] = None,
                             !.nulls = @ \ {InMap(site[x].all, x)}]
    IN  /\ inactive[x][y] > 0
        /\ inactive' = [inactive EXCEPT ![x][y] = @ - 1]
        /\ IF site[x].nbr[y] = None THEN NoFlood(x, site[x]) ELSE Flood(x, s, open[x], s, s)
        /\ UNCHANGED <<net, open, keyDir, faults>> /\ Rounds

\* The keys of a connected neighbour's Node n are gone.
AnyConnected(x, y, n) == n \in site[x].conn         \* mutant: without a look at the keys
Broken(x, y, n) == y \notin keyDir[x] /\ n \in site[x].conn

\* checkLink, from the timer.  When a link changes and the site has no Node for
\* itself, the other end is given a null neighbour, or loses it, before the
\* exception of line 348 or 357.
CheckLink(x, y) ==
    LET s == site[x]
        n == InMap(s.all, y)
        me == InMap(s.all, x)
        both == {<<n, me>>, <<me, n>>}
        ends == [s EXCEPT !.timers = @ \ {y}]
        restored == y \in keyDir[x] /\ n \notin s.conn
        r == CASE restored -> [s EXCEPT !.conn = @ \cup {n}, !.adj = @ \cup both]
               [] Broken(x, y, n) -> [s EXCEPT !.conn = @ \ {n}, !.adj = @ \ both]
               [] OTHER -> s
        half == [ends EXCEPT !.conn = r.conn,
                             !.nulls = IF restored THEN @ \cup {n} ELSE @ \ {n}]
    IN  /\ Quiet \in net.timed /\ y \in s.timers
        /\ IF s.all[y] = None \/ (s.all[x] = None /\ (restored \/ Broken(x, y, n)))
           THEN NoFlood(x, Collect(IF s.all[y] = None THEN ends ELSE half))
           ELSE Flood(x, r, open[x], r, [r EXCEPT !.timers = @ \ {y}])
        /\ UNCHANGED <<net, open, inactive, keyDir, faults>> /\ Rounds

-----------------------------------------------------------------------------
(* onLSRP, in the order of its parts, for a message m of another originator *)
(* received by x from its neighbour y.                                      *)

\* Time stamps: the objects of the originator in both maps are brought up to
\* date; the message is an update when one of them was older.
Known(s, y) == {o \in {InMap(s.nbr, y), InMap(s.all, y)} : o[2] # None}
Newer(s, m, o) == m.stamp > s.stamp[o]
Update(s, m) == Known(s, m.orig) = {} \/ \E o \in Known(s, m.orig) : Newer(s, m, o)

\* The originator's Node, entered into allNodes when there is none at all.
Originator(s, m) ==
    LET y == m.orig
        old == Known(s, y)
        k == IF s.all[y] # None THEN s.all[y] ELSE IF s.nbr[y] # None THEN s.nbr[y] ELSE NewObj(s, y)
    IN  [s EXCEPT !.all[y] = IF old = {} THEN k ELSE @,
                  !.stamp = [o \in Objs |-> IF o \in old \cup {<<y, k>>} /\ m.stamp > @[o]
                                            THEN m.stamp ELSE @[o]]]
OriginatorObj(s, y) == IF s.all[y] # None THEN InMap(s.all, y) ELSE InMap(s.nbr, y)

\* Unknown neighbours of the originator become Nodes.
Insert(s, m) ==
    [s EXCEPT !.all = [y \in Sites |-> IF y \in m.nbrs /\ @[y] = None THEN NewObj(s, y) ELSE @[y]]]

\* A message straight from its originator that lists this site: the originator
\* is a neighbour again, and connected to.
AnyOriginator(x, y, m) == TRUE                      \* mutant: whoever it is from
PassedBy(x, y, m) == x \in m.nbrs                   \* mutant: not from the originator itself
FromNeighbour(x, y, m) == y = m.orig /\ x \in m.nbrs
ReAdd(s, x, y, m, o) ==
    IF FromNeighbour(x, y, m) /\ s.nbr[m.orig] = None
    THEN [s EXCEPT !.nbr[m.orig] = o[2],
                   !.pend = IF o \in s.conn THEN @ ELSE @ \cup {m.orig}]
    ELSE s

\* Links the originator no longer lists go, both ways, and a Node that has lost
\* its last link leaves allNodes; a null neighbour counts as a link.
Remove(s, m, o) ==
    LET gone == {n \in Objs : <<o, n>> \in s.adj /\ Name(n) \notin m.nbrs}
        adj == {l \in s.adj : ~(l[1] = o /\ l[2] \in gone) /\ ~(l[2] = o /\ l[1] \in gone)}
        bare == {n \in gone \ s.nulls : ~\E l \in adj : l[1] = n}
    IN  [s EXCEPT !.adj = adj,
                  !.all = [y \in Sites |-> IF \E n \in bare : Name(n) = y THEN None ELSE @[y]]]

\* The originator's links are set to what it lists, both ways.
LinkOneWay(s, m, o) ==                              \* mutant: node.addDestination(o) left out
    LET to == {InMap(s.all, y) : y \in {z \in m.nbrs : s.all[z] # None}}
    IN  [s EXCEPT !.adj = {l \in @ : l[1] # o} \cup {<<o, n>> : n \in to}]
Relink(s, m, o) ==
    LET to == {InMap(s.all, y) : y \in {z \in m.nbrs : s.all[z] # None}}
    IN  [s EXCEPT !.adj = {l \in @ : l[1] # o} \cup {<<o, n>> : n \in to} \cup {<<n, o>> : n \in to}]

Learn(s, x, y, m) ==
    LET s1 == Originator(s, m)
        o == OriginatorObj(s1, m.orig)
        s2 == ReAdd(Insert(s1, m), x, y, m, o)
    IN  IF ~Update(s, m) THEN s1
        ELSE IF o \in s.nulls THEN s2 ELSE Relink(Remove(s2, m, o), m, o)

\* A null neighbour of a Node in allNodes makes writeNetworkToFile throw, line 614.
NullNode(s, y) == s.all[y] # None /\ InMap(s.all, y) \in s.nulls

\* onLSRP ends with an exception before it forwards the message; s is the
\* router before, t after what it has learnt.
Throws(s, t, m) ==
    \/ Update(s, m) /\ OriginatorObj(Originator(s, m), m.orig) \in s.nulls
    \/ \E y \in Sites : NullNode(t, y)

\* "forward the msg to all neighbours except the one recevied from", whether
\* it was an update or not.
BackToSender(s, y, m) == Connected(s) \ {m.orig}    \* mutant: also the one received from
ForwardTo(s, y, m) == Connected(s) \ {y, m.orig}

Receive(x, y) ==
    LET m == Head(queue[y][x])
        s == Collect(Learn(site[x], x, y, m))
        new == {z \in (m.nbrs \cup {m.orig}) : site[x].all[z] = None}
        rest == [queue EXCEPT ![y][x] = Tail(@)]
    IN  /\ queue[y][x] # <<>>
        /\ \A z \in new : CanMake(site[x], z)
        /\ IF m.orig = x
           THEN queue' = rest /\ UNCHANGED site
           ELSE /\ site' = [site EXCEPT ![x] = s]
                /\ \E Z \in IF Throws(site[x], s, m) THEN {{}} ELSE Sendings(s, ForwardTo(s, y, m)) :
                     queue' = [rest EXCEPT ![x] = [z \in Sites |->
                                 IF z \in Z \cap open[x] THEN Append(@[z], [m EXCEPT !.hops = @ + 1]) ELSE @[z]]]
        /\ UNCHANGED <<net, open, inactive, keyDir, clock, floods, faults>> /\ Rounds

-----------------------------------------------------------------------------
(* Faults.                                                                  *)

\* What all of them do to the bounds.
Fault(kind) == /\ kind \in net.kinds /\ faults > 0 /\ floods >= net.spare
               /\ faults' = faults - 1

\* The connection from x to y breaks; both ends will be told.
Break(x, y) ==
    /\ y \in open[x]
    /\ Fault("break")
    /\ open' = [open EXCEPT ![x] = @ \ {y}]
    /\ queue' = [queue EXCEPT ![x][y] = <<>>]
    /\ inactive' = [inactive EXCEPT ![x][y] = @ + 1, ![y][x] = @ + 1]
    /\ UNCHANGED <<net, site, keyDir, clock, floods>> /\ Rounds

\* The service of x stops and starts again; its peers learn of each connection
\* they had with it.
Crash(x) ==
    /\ Fault("crash")
    /\ site' = [site EXCEPT ![x] = StartUp(x)]
    /\ open' = [y \in Sites |-> IF y = x THEN {} ELSE open[y] \ {x}]
    /\ queue' = [y \in Sites |-> [z \in Sites |-> IF x \in {y, z} THEN <<>> ELSE queue[y][z]]]
    /\ inactive' = [y \in Sites |-> IF y = x THEN [z \in Sites |-> 0]
                     ELSE [inactive[y] EXCEPT ![x] = @ + (IF x \in open[y] THEN 1 ELSE 0)
                                                       + (IF y \in open[x] THEN 1 ELSE 0)]]
    /\ UNCHANGED <<net, keyDir, clock, floods>> /\ Rounds

\* The key directory of a link end goes or comes back.
KeyChange(x, y) ==
    /\ {x, y} \in links
    /\ Fault("keys")
    /\ keyDir' = [keyDir EXCEPT ![x] = IF y \in @ THEN @ \ {y} ELSE @ \cup {y}]
    /\ UNCHANGED <<net, site, open, queue, inactive, clock, floods>> /\ Rounds

Next ==
    \E x \in Sites :
      \/ Crash(x)
      \/ \E y \in Sites : \/ Connect(x, y) \/ Disconnected(x, y) \/ Receive(x, y)
                         \/ CheckLink(x, y) \/ Break(x, y) \/ KeyChange(x, y)

Spec == Init /\ [][Next]_vars

-----------------------------------------------------------------------------
\* The type of every variable.
TypeOK ==
    /\ net \in Networks
    /\ \A x \in Sites :
         /\ site[x].all \in [Sites -> 0 .. MaxObj] /\ site[x].nbr \in [Sites -> 0 .. MaxObj]
         /\ site[x].stamp \in [Objs -> Nat]
         /\ site[x].conn \subseteq Objs /\ site[x].chan \subseteq Objs /\ site[x].nulls \subseteq Objs
         /\ site[x].adj \subseteq Objs \X Objs
         /\ site[x].timers \subseteq Neighbours(x) /\ site[x].pend \subseteq Neighbours(x)
         /\ open[x] \subseteq Neighbours(x) /\ keyDir[x] \subseteq Neighbours(x)
    /\ inactive \in [Sites -> [Sites -> Nat]] /\ floods \in Nat /\ faults \in Nat
    /\ clock \in [Sites -> Nat] /\ begun \in [Sites -> Nat] /\ rounds \in 0 .. 3

\* Whatever crashes, breaks and old messages a site has seen, its topology shows
\* configured links only and it floods to configured neighbours only: every hop
\* of a path that getNextHop finds is between sites that have keys together.
LinksConfigured ==
    \A x \in Sites :
      /\ \A l \in site[x].adj : {Name(l[1]), Name(l[2])} \in links
      /\ \A y \in Sites : site[x].nbr[y] # None => y \in Neighbours(x)

\* One can get from every site to every other.
Joined ==
    \A S \in SUBSET Sites : (S # {} /\ \A x \in S : Neighbours(x) \subseteq S) => S = Sites

\* All sites are known, and Nodes in allNodes are linked as the sites are.
TrueTopology(s) ==
    \A a, b \in Sites :
      s.all[a] # None /\ (<<InMap(s.all, a), InMap(s.all, b)>> \in s.adj <=> {a, b} \in links)

\* The routing heals itself: whatever crashes, broken connections, missing keys
\* and late messages have left behind, two rounds of floods after the network
\* has become calm, with no null neighbour left in a Node, every site has the
\* true topology, and keeps it.
TopologyWhenSettled ==
    (rounds = 3 /\ Joined) => \A x \in Sites : TrueTopology(site[x])

\* A calm network stays calm until something fails: no timer and no message,
\* however late, drops a neighbour, its connection or its channel.
CalmLasts == [][Calm /\ faults' = faults => Calm']_vars

\* x has no Node for its neighbour y, does not connect to it and is sent nothing.
Forgot(x, y) == site[x].nbr[y] = None /\ y \notin site[x].pend /\ queue[y][x] = <<>>

\* The ends of a broken link that have forgotten each other stay strangers until
\* one of the two services starts again: no timer, no flood of other sites, no
\* key that comes back and no connection still standing restores the link.
StrangersStay ==
    [][\A x, y \in Sites : ({x, y} \in links /\ Forgot(x, y) /\ Forgot(y, x)) =>
         (Forgot(x, y) /\ Forgot(y, x))' \/ Crash(x) \/ Crash(y)]_vars

\* x passes on a flood of another site.
Forwards(x) ==
    \E y \in Sites : /\ Len(queue'[x][y]) > Len(queue[x][y])
                     /\ queue'[x][y][Len(queue'[x][y])].orig # x


\* A path of the network past o: different sites, each linked to the next.
IsPath(p, o) ==
    /\ \A i, j \in 1 .. Len(p) : p[i] # o /\ (i # j => p[i] # p[j])
    /\ \A i \in 1 .. Len(p) - 1 : {p[i], p[i + 1]} \in links

\* A cycle of the network that does not pass o.
CycleAvoids(o) ==
    \E n \in 3 .. Cardinality(Sites) : \E p \in [1 .. n -> Sites] :
      IsPath(p, o) /\ \E i \in 1 .. n - 2 : {p[n], p[i]} \in links

\* Floods die out: unless a cycle of the network avoids the originator, no copy
\* of a message takes as many hops as there are sites, although every copy that
\* arrives is forwarded, new or not.
FloodsDieOut ==
    \A x, y \in Sites : \A i \in 1 .. Len(queue[x][y]) :
      queue[x][y][i].hops >= Cardinality(Sites) => CycleAvoids(queue[x][y][i].orig)

=============================================================================
