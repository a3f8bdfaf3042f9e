----------------------------- MODULE LSRP_proofs -----------------------------
(***************************************************************************)
(* Proofs about LSRP, for every finite set of sites, every network, every  *)
(* number of faults and every spacing of floods.                           *)
(*                                                                         *)
(* The argument: a router's maps, links, timers and connections only ever  *)
(* name ends of configured links (RouterOK), because what it did not read  *)
(* from its configuration it learned from a message, and a message lists   *)
(* neighbours of its originator and travels on configured links (MsgOK).   *)
(* A copy of a message has come on a path past its originator, unless it   *)
(* has gone round a cycle (MsgWay).                                        *)
(***************************************************************************)
EXTENDS LSRP, LeastNumber, FiniteSetTheorems, SequenceTheorems, TLAPS

Maps == [Sites -> 0 .. MaxObj]

Routers ==
    [all : Maps, nbr : Maps, stamp : [Objs -> Nat], conn : SUBSET Objs, chan : SUBSET Objs,
     nulls : SUBSET Objs, adj : SUBSET (Objs \X Objs), timers : SUBSET Sites, pend : SUBSET Sites]

\* The state of a router of x.
RouterOK(x, s) ==
    /\ s \in Routers
    /\ s.timers \subseteq Neighbours(x) /\ s.pend \subseteq Neighbours(x)
    /\ \A y \in Sites : s.nbr[y] # None => y \in Neighbours(x)
    /\ \A l \in s.adj : {Name(l[1]), Name(l[2])} \in links

Messages == [orig : Sites, stamp : Nat, nbrs : SUBSET Sites, hops : Nat]

MsgOK(m) == m \in Messages /\ m.nbrs \subseteq Neighbours(m.orig)

\* A copy between x and y has come on a path p past its originator, a site per
\* hop, unless there is a cycle to go round.
MsgWay(x, y, m) ==
    CycleAvoids(m.orig) \/ \E p \in Seq(Sites) :
      /\ IsPath(p, m.orig) /\ Len(p) = m.hops /\ Len(p) >= 1 /\ p[Len(p)] = y
      /\ Len(p) >= 2 => p[Len(p) - 1] = x

GoodMsg(x, y, m) == {x, y} \in links /\ MsgOK(m) /\ MsgWay(x, y, m)

GoodQueue(x, y, q) == q \in Seq(Messages) /\ \A i \in 1 .. Len(q) : GoodMsg(x, y, q[i])

SitesOK(st) == st \in [Sites -> Routers] /\ \A x \in Sites : RouterOK(x, st[x])

QueuesOK(qs) ==
    /\ qs \in [Sites -> [Sites -> Seq(Messages)]]
    /\ \A x, y \in Sites : GoodQueue(x, y, qs[x][y])

\* Of each site, some ends of its links.
EndsOK(f) == f \in [Sites -> SUBSET Sites] /\ \A x \in Sites : f[x] \subseteq Neighbours(x)

NetInv ==
    /\ net \in Networks /\ SitesOK(site) /\ QueuesOK(queue) /\ EndsOK(open) /\ EndsOK(keyDir)
    /\ inactive \in [Sites -> [Sites -> Nat]] /\ floods \in Nat /\ faults \in Nat
    /\ clock \in [Sites -> Nat] /\ begun \in [Sites -> Nat] /\ rounds \in 0 .. 3

-----------------------------------------------------------------------------
(* Constants and links.                                                     *)

LEMMA NetworkFacts ==
  ASSUME net \in Networks
  PROVE  /\ net.floods \in Nat /\ net.faults \in Nat /\ net.steps \subseteq Nat
         /\ \A l \in links : \E x, y \in Sites : x # y /\ l = {x, y}
         /\ MaxObj \in Nat /\ 1 \in 1 .. MaxObj /\ 1 \in 0 .. MaxObj /\ None \in 0 .. MaxObj
  BY NetworkAssumption, BoundAssumption DEF links, None

\* Links have two ends, and neighbours are neighbours of each other.
LEMMA LinkFacts ==
  ASSUME net \in Networks
  PROVE  /\ \A x \in Sites : x \notin Neighbours(x) /\ Neighbours(x) \subseteq Sites
         /\ \A x, y \in Sites : /\ {x, y} \in links <=> y \in Neighbours(x)
                                /\ y \in Neighbours(x) <=> x \in Neighbours(y)
                                /\ {x, y} = {y, x}
  <1>1. \A x \in Sites : {x, x} \notin links
    <2> SUFFICES ASSUME NEW x \in Sites, {x, x} \in links PROVE FALSE
      OBVIOUS
    <2>1. PICK a, b \in Sites : a # b /\ {x, x} = {a, b}
      BY NetworkFacts, Zenon
    <2> QED BY <2>1
  <1>2. \A x, y \in Sites : {x, y} = {y, x}
    OBVIOUS
  <1> QED BY <1>1, <1>2 DEF Neighbours

LEMMA ObjFacts ==
  /\ \A o \in Objs : Name(o) \in Sites /\ o[2] \in 1 .. MaxObj /\ o = <<Name(o), o[2]>>
  /\ \A y \in Sites : \A k \in 1 .. MaxObj : <<y, k>> \in Objs /\ Name(<<y, k>>) = y
  BY DEF Objs, Name

\* The object of a name in a map.
LEMMA InMapFacts ==
  ASSUME NEW m \in Maps, NEW y \in Sites, m[y] # None
  PROVE  InMap(m, y) \in Objs /\ Name(InMap(m, y)) = y /\ InMap(m, y)[2] = m[y]
  <1>1. m[y] \in 1 .. MaxObj
    BY BoundAssumption DEF Maps, None
  <1> QED BY <1>1, ObjFacts DEF InMap

LEMMA InMapNone ==
  ASSUME NEW m, NEW y, m[y] = None
  PROVE  InMap(m, y) \notin Objs
  BY BoundAssumption DEF InMap, None, Objs

-----------------------------------------------------------------------------
(* What the parts of the handlers make of a router.                         *)

LEMMA CollectOK ==
  ASSUME NEW x \in Sites, NEW s, RouterOK(x, s)
  PROVE  RouterOK(x, Collect(s)) /\ Collect(s).nbr = s.nbr
  <1>1. PICK live : live = Live(s)
    OBVIOUS
  <1>2. s \in Routers
    BY DEF RouterOK
  <1> DEFINE st == [o \in Objs |-> IF o \in live THEN s.stamp[o] ELSE 0]
             ad == {l \in s.adj : l[1] \in live /\ l[2] \in live}
             c == [s EXCEPT !.stamp = st, !.conn = s.conn \cap live, !.chan = s.chan \cap live,
                           !.nulls = s.nulls \cap live, !.adj = ad]
  <1>3. Collect(s) = c
    BY <1>1 DEF Collect
  <1>4. st \in [Objs -> Nat]
    BY <1>2 DEF Routers
  <1>5. ad \subseteq s.adj /\ ad \subseteq Objs \X Objs
    BY <1>2 DEF Routers
  <1> HIDE DEF st, ad
  <1>6. /\ c \in Routers /\ c.timers = s.timers /\ c.pend = s.pend /\ c.nbr = s.nbr
        /\ c.adj = ad
    BY <1>2, <1>4, <1>5 DEF Routers
  <1> HIDE DEF c
  <1>7. RouterOK(x, c)
    BY <1>5, <1>6 DEF RouterOK
  <1> QED BY <1>3, <1>6, <1>7

LEMMA ConnectedFacts ==
  ASSUME NEW x \in Sites, NEW s, RouterOK(x, s)
  PROVE  Connected(s) \subseteq Neighbours(x)
  BY DEF Connected, RouterOK

LEMMA StartUpOK ==
  ASSUME net \in Networks, NEW x \in Sites
  PROVE  RouterOK(x, StartUp(x)) /\ RouterOK(x, SteadyState(x))
  <1>1. PICK nb : nb = Neighbours(x) /\ nb \subseteq Sites
    BY LinkFacts
  <1> DEFINE al == [y \in Sites |-> IF y \in Neighbours(x) \cup {x} THEN 1 ELSE None]
             nr == [y \in Sites |-> IF y \in Neighbours(x) THEN 1 ELSE None]
             ze == [o \in Objs |-> 0]
             s == [all |-> al, nbr |-> nr, stamp |-> ze, conn |-> {}, chan |-> {}, adj |-> {},
                   nulls |-> {}, timers |-> {}, pend |-> Neighbours(x)]
  <1>2. StartUp(x) = s
    BY DEF StartUp
  <1>3. al \in Maps /\ nr \in Maps /\ ze \in [Objs -> Nat] /\ \A y \in Sites : nr[y] # None => y \in Neighbours(x)
    BY NetworkFacts DEF Maps
  <1> HIDE DEF al, nr, ze
  <1>4. s \in Routers /\ RouterOK(x, s)
    BY <1>1, <1>3 DEF Routers, RouterOK
  <1> DEFINE on == [y \in Sites |-> 1]
             st == [o \in Objs |-> IF o[2] = 1 /\ Name(o) # x THEN 1 ELSE 0]
             co == {<<y, 1>> : y \in Neighbours(x)}
             ad == {p \in Objs \X Objs : p[1][2] = 1 /\ p[2][2] = 1 /\ {Name(p[1]), Name(p[2])} \in links}
             u == [s EXCEPT !.all = on, !.stamp = st, !.conn = co, !.chan = co, !.adj = ad,
                            !.timers = Neighbours(x), !.pend = {}]
  <1>5. SteadyState(x) = u
    BY <1>2 DEF SteadyState
  <1>6. on \in Maps /\ st \in [Objs -> Nat] /\ ad \in SUBSET (Objs \X Objs)
    BY NetworkFacts DEF Maps
  <1>7. co \subseteq Objs
    BY <1>1, NetworkFacts, ObjFacts
  <1>8. \A l \in ad : {Name(l[1]), Name(l[2])} \in links
    OBVIOUS
  <1> HIDE DEF on, st, co, ad
  <1>9. /\ u \in Routers /\ u.nbr = s.nbr /\ u.adj = ad /\ u.timers = nb /\ u.pend = {}
    BY <1>1, <1>4, <1>6, <1>7 DEF Routers
  <1> HIDE DEF u
  <1>10. RouterOK(x, u)
    BY <1>1, <1>4, <1>8, <1>9 DEF RouterOK
  <1> QED BY <1>2, <1>4, <1>5, <1>10

-----------------------------------------------------------------------------
(* onLSRP.                                                                  *)

LEMMA NewObjFacts ==
  ASSUME NEW s, NEW y, CanMake(s, y)
  PROVE  NewObj(s, y) \in 1 .. MaxObj /\ <<y, NewObj(s, y)>> \notin Used(s)
  <1> DEFINE K == {k \in 1 .. MaxObj : <<y, k>> \notin Used(s)}
  <1>1. K \in SUBSET Nat /\ K # {}
    BY BoundAssumption DEF CanMake
  <1>2. PICK k \in K : \A j \in K : k <= j
    BY <1>1, LeastNat
  <1>3. k \in 1 .. MaxObj /\ <<y, k>> \notin Used(s)
    BY <1>2
  <1>4. \A j \in 1 .. k - 1 : <<y, j>> \in Used(s)
    <2> SUFFICES ASSUME NEW j \in 1 .. k - 1, <<y, j>> \notin Used(s) PROVE FALSE
      OBVIOUS
    <2>1. j \in 1 .. MaxObj /\ ~ (k <= j)
      BY <1>3, BoundAssumption
    <2> QED BY <1>2, <2>1
  <1> QED BY <1>3, <1>4 DEF NewObj

\* The originator gets a Node in allNodes when it had none at all; nothing of
\* other sites changes.
LEMMA OriginatorOK ==
  ASSUME NEW x \in Sites, NEW s, RouterOK(x, s), NEW m, MsgOK(m),
         s.all[m.orig] = None => CanMake(s, m.orig)
  PROVE  /\ RouterOK(x, Originator(s, m))
         /\ OriginatorObj(Originator(s, m), m.orig) \in Objs
         /\ Name(OriginatorObj(Originator(s, m), m.orig)) = m.orig
         /\ \A z \in Sites \ {m.orig} : /\ Originator(s, m).all[z] = s.all[z]
                                        /\ CanMake(s, z) => CanMake(Originator(s, m), z)
  <1>1. s \in Routers /\ m.orig \in Sites /\ m.stamp \in Nat
    BY DEF RouterOK, MsgOK, Messages
  <1>2. PICK y \in Sites : y = m.orig
    BY <1>1
  <1>3. PICK old : old = Known(s, y)
    OBVIOUS
  <1>4. PICK k : k = IF s.all[y] # None THEN s.all[y] ELSE IF s.nbr[y] # None THEN s.nbr[y] ELSE NewObj(s, y)
    OBVIOUS
  <1>5. \A o \in old : o \in Objs /\ Name(o) = y
    <2>1. s.all \in Maps /\ s.nbr \in Maps
      BY <1>1 DEF Routers
    <2>2. ASSUME NEW o \in old
          PROVE  \/ o = InMap(s.nbr, y) /\ s.nbr[y] # None
                 \/ o = InMap(s.all, y) /\ s.all[y] # None
      <3>1. (o = InMap(s.nbr, y) \/ o = InMap(s.all, y)) /\ o[2] # None
        BY <1>3 DEF Known
      <3>2. InMap(s.nbr, y)[2] = s.nbr[y] /\ InMap(s.all, y)[2] = s.all[y]
        BY DEF InMap
      <3> QED BY <3>1, <3>2
    <2> QED BY <2>1, <2>2, InMapFacts
  <1>6. k \in 1 .. MaxObj /\ <<y, k>> \in Objs
    <2>1. s.all[y] \in 0 .. MaxObj /\ s.nbr[y] \in 0 .. MaxObj
      BY <1>1 DEF Routers, Maps
    <2>2. s.all[y] = None => NewObj(s, y) \in 1 .. MaxObj
      BY <1>2, NewObjFacts
    <2>3. k \in 1 .. MaxObj
      BY <1>4, <2>1, <2>2, BoundAssumption DEF None
    <2> QED BY <2>3, ObjFacts
  <1> DEFINE al == [s.all EXCEPT ![y] = IF old = {} THEN k ELSE @]
             st == [o \in Objs |-> IF o \in old \cup {<<y, k>>} /\ m.stamp > s.stamp[o]
                                   THEN m.stamp ELSE s.stamp[o]]
             r == [s EXCEPT !.all = al, !.stamp = st]
  <1>7. Originator(s, m) = r
    BY <1>2, <1>3, <1>4 DEF Originator
  <1>8. al \in Maps /\ st \in [Objs -> Nat]
    BY <1>1, <1>6, BoundAssumption DEF Routers, Maps
  <1>9. al[y] = (IF old = {} THEN k ELSE s.all[y]) /\ \A z \in Sites \ {y} : al[z] = s.all[z]
    BY <1>1 DEF Routers, Maps
  <1>10. \A o \in Objs : Name(o) # y => st[o] = s.stamp[o]
    BY <1>5, ObjFacts DEF Name
  <1> HIDE DEF al, st
  <1>11. /\ r \in Routers /\ r.all = al /\ r.stamp = st /\ r.nbr = s.nbr /\ r.adj = s.adj
         /\ r.conn = s.conn /\ r.chan = s.chan /\ r.nulls = s.nulls /\ r.timers = s.timers /\ r.pend = s.pend
    BY <1>1, <1>8 DEF Routers
  <1> HIDE DEF r
  <1>12. RouterOK(x, r)
    BY <1>11 DEF RouterOK
  <1>13. OriginatorObj(r, y) \in Objs /\ Name(OriginatorObj(r, y)) = y
    <2>1. r.all \in Maps /\ r.nbr \in Maps
      BY <1>11 DEF Routers
    <2>2. CASE r.all[y] # None
      BY <2>1, <2>2, InMapFacts DEF OriginatorObj
    <2>3. CASE r.all[y] = None
      <3>1. r.nbr[y] # None
        <4>1. old # {} /\ s.all[y] = None
          BY <1>6, <1>9, <1>11, <2>3, BoundAssumption DEF None
        <4> QED BY <1>3, <1>11, <4>1 DEF Known, InMap
      <3> QED BY <2>1, <2>3, <3>1, InMapFacts DEF OriginatorObj
    <2> QED BY <2>2, <2>3
  <1>14. ASSUME NEW z \in Sites \ {y}, CanMake(s, z) PROVE CanMake(r, z)
    <2>1. PICK j \in 1 .. MaxObj : <<z, j>> \notin Used(s)
      BY <1>14 DEF CanMake
    <2>2. PICK o \in Objs : o = <<z, j>> /\ Name(o) = z
      BY ObjFacts
    <2>3. r.all[z] = s.all[z] /\ r.nbr = s.nbr /\ r.stamp[o] = s.stamp[o]
      BY <1>9, <1>10, <1>11, <2>2
    <2>4. o \notin Used(r)
      BY <1>11, <2>1, <2>2, <2>3 DEF Used, Live, InMaps
    <2> QED BY <2>2, <2>4 DEF CanMake
  <1> QED BY <1>2, <1>7, <1>9, <1>11, <1>12, <1>13, <1>14

LEMMA InsertOK ==
  ASSUME NEW x \in Sites, NEW s, RouterOK(x, s), NEW m, MsgOK(m),
         \A z \in m.nbrs : s.all[z] = None => CanMake(s, z)
  PROVE  RouterOK(x, Insert(s, m))
  <1>1. s \in Routers
    BY DEF RouterOK
  <1> DEFINE al == [y \in Sites |-> IF y \in m.nbrs /\ s.all[y] = None THEN NewObj(s, y) ELSE s.all[y]]
             r == [s EXCEPT !.all = al]
  <1>2. Insert(s, m) = r
    BY DEF Insert
  <1>3. al \in Maps
    <2>0. \A k \in 1 .. MaxObj : k \in 0 .. MaxObj
      BY BoundAssumption
    <2>1. \A y \in m.nbrs : s.all[y] = None => NewObj(s, y) \in 0 .. MaxObj
      BY <2>0, NewObjFacts
    <2>2. \A y \in Sites : s.all[y] \in 0 .. MaxObj
      BY <1>1 DEF Routers, Maps
    <2> QED BY <2>1, <2>2 DEF Maps
  <1> HIDE DEF al
  <1>4. /\ r \in Routers /\ r.nbr = s.nbr /\ r.adj = s.adj /\ r.timers = s.timers /\ r.pend = s.pend
    BY <1>1, <1>3 DEF Routers
  <1> HIDE DEF r
  <1> QED BY <1>2, <1>4 DEF RouterOK

LEMMA ReAddOK ==
  ASSUME net \in Networks, NEW x \in Sites, NEW s, RouterOK(x, s), NEW y \in Sites,
         {y, x} \in links, NEW m, MsgOK(m), NEW o \in Objs
  PROVE  RouterOK(x, ReAdd(s, x, y, m, o))
  <1>1. s \in Routers
    BY DEF RouterOK
  <1>2. CASE FromNeighbour(x, y, m) /\ s.nbr[m.orig] = None
    <2>1. m.orig = y /\ y \in Neighbours(x) /\ o[2] \in 0 .. MaxObj
      BY <1>2, LinkFacts, ObjFacts, BoundAssumption DEF FromNeighbour
    <2>2. PICK pe : pe = (IF o \in s.conn THEN s.pend ELSE s.pend \cup {y})
      OBVIOUS
    <2> DEFINE nr == [s.nbr EXCEPT ![y] = o[2]]
               r == [s EXCEPT !.nbr = nr, !.pend = pe]
    <2>3. ReAdd(s, x, y, m, o) = r
      BY <1>2, <2>1, <2>2 DEF ReAdd
    <2>4. pe \subseteq Neighbours(x) /\ pe \subseteq Sites
      BY <2>1, <2>2, LinkFacts DEF RouterOK
    <2>5. nr \in Maps /\ \A z \in Sites : nr[z] # None => z \in Neighbours(x)
      BY <1>1, <2>1 DEF RouterOK, Routers, Maps
    <2> HIDE DEF nr
    <2>6. /\ r \in Routers /\ r.nbr = nr /\ r.adj = s.adj /\ r.timers = s.timers /\ r.pend = pe
      BY <1>1, <2>4, <2>5 DEF Routers
    <2> HIDE DEF r
    <2>7. RouterOK(x, r)
      BY <2>4, <2>5, <2>6 DEF RouterOK
    <2> QED BY <2>3, <2>7
  <1>3. CASE ~ (FromNeighbour(x, y, m) /\ s.nbr[m.orig] = None)
    BY <1>3 DEF ReAdd
  <1> QED BY <1>2, <1>3

LEMMA RemoveOK ==
  ASSUME NEW x \in Sites, NEW s, RouterOK(x, s), NEW m, NEW o
  PROVE  RouterOK(x, Remove(s, m, o))
  <1>1. s \in Routers
    BY DEF RouterOK
  <1>2. PICK gone : gone = {n \in Objs : <<o, n>> \in s.adj /\ Name(n) \notin m.nbrs}
    OBVIOUS
  <1>3. PICK ad : ad = {l \in s.adj : ~(l[1] = o /\ l[2] \in gone) /\ ~(l[2] = o /\ l[1] \in gone)}
    OBVIOUS
  <1>4. PICK bare : bare = {n \in gone \ s.nulls : ~\E l \in ad : l[1] = n}
    OBVIOUS
  <1> DEFINE al == [y \in Sites |-> IF \E n \in bare : Name(n) = y THEN None ELSE s.all[y]]
             r == [s EXCEPT !.adj = ad, !.all = al]
  <1>5. Remove(s, m, o) = r
    BY <1>2, <1>3, <1>4 DEF Remove
  <1>6. al \in Maps
    BY <1>1, BoundAssumption DEF Routers, Maps, None
  <1>7. ad \subseteq s.adj /\ ad \subseteq Objs \X Objs
    BY <1>1, <1>3 DEF Routers
  <1> HIDE DEF al
  <1>8. /\ r \in Routers /\ r.nbr = s.nbr /\ r.adj = ad /\ r.timers = s.timers /\ r.pend = s.pend
    BY <1>1, <1>6, <1>7 DEF Routers
  <1> HIDE DEF r
  <1>9. RouterOK(x, r)
    BY <1>7, <1>8 DEF RouterOK
  <1> QED BY <1>5, <1>9

LEMMA RelinkOK ==
  ASSUME net \in Networks, NEW x \in Sites, NEW s, RouterOK(x, s), NEW m, MsgOK(m),
         NEW o \in Objs, Name(o) = m.orig
  PROVE  RouterOK(x, Relink(s, m, o))
  <1>1. s \in Routers /\ s.all \in Maps /\ m.orig \in Sites /\ m.nbrs \subseteq Sites
    BY DEF RouterOK, Routers, MsgOK, Messages
  <1>2. PICK to : to = {InMap(s.all, y) : y \in {z \in m.nbrs : s.all[z] # None}}
    OBVIOUS
  <1>3. PICK ad : ad = {l \in s.adj : l[1] # o} \cup {<<o, n>> : n \in to} \cup {<<n, o>> : n \in to}
    OBVIOUS
  <1> DEFINE r == [s EXCEPT !.adj = ad]
  <1>4. Relink(s, m, o) = r
    BY <1>2, <1>3 DEF Relink
  <1>5. \A n \in to : n \in Objs /\ Name(n) \in m.nbrs
    BY <1>1, <1>2, InMapFacts
  <1>6. \A n \in to : {Name(o), Name(n)} \in links /\ {Name(n), Name(o)} \in links
    BY <1>1, <1>5, LinkFacts DEF MsgOK
  <1>7. \A l \in ad : l \in s.adj \/ \E n \in to : l = <<o, n>> \/ l = <<n, o>>
    BY <1>3
  <1>8. ad \subseteq Objs \X Objs
    <2>1. s.adj \subseteq Objs \X Objs
      BY <1>1 DEF Routers
    <2> QED BY <1>5, <1>7, <2>1
  <1>9. \A l \in ad : {Name(l[1]), Name(l[2])} \in links
    <2>1. \A l \in s.adj : {Name(l[1]), Name(l[2])} \in links
      BY DEF RouterOK
    <2> QED BY <1>6, <1>7, <2>1
  <1>10. /\ r \in Routers /\ r.nbr = s.nbr /\ r.adj = ad /\ r.timers = s.timers /\ r.pend = s.pend
    BY <1>1, <1>8 DEF Routers
  <1> HIDE DEF r
  <1>11. RouterOK(x, r)
    BY <1>9, <1>10 DEF RouterOK
  <1> QED BY <1>4, <1>11

\* A message from a neighbour leaves a router with configured links only.
LEMMA LearnOK ==
  ASSUME net \in Networks, NEW x \in Sites, NEW s, RouterOK(x, s), NEW y \in Sites,
         {y, x} \in links, NEW m, MsgOK(m),
         \A z \in m.nbrs \cup {m.orig} : s.all[z] = None => CanMake(s, z)
  PROVE  RouterOK(x, Learn(s, x, y, m))
  <1>0. m.orig \in Sites /\ m.nbrs \subseteq Sites /\ m.orig \notin m.nbrs
    BY LinkFacts DEF MsgOK, Messages
  <1>1. PICK s1 : s1 = Originator(s, m)
    OBVIOUS
  <1>2. PICK o : o = OriginatorObj(s1, m.orig)
    OBVIOUS
  <1>3. /\ RouterOK(x, s1) /\ o \in Objs /\ Name(o) = m.orig
        /\ \A z \in Sites \ {m.orig} : s1.all[z] = s.all[z] /\ (CanMake(s, z) => CanMake(s1, z))
    BY <1>1, <1>2, OriginatorOK
  <1>4. \A z \in m.nbrs : s1.all[z] = None => CanMake(s1, z)
    BY <1>0, <1>3
  <1>5. PICK s2 : s2 = ReAdd(Insert(s1, m), x, y, m, o)
    OBVIOUS
  <1>6. RouterOK(x, Insert(s1, m))
    BY <1>3, <1>4, InsertOK
  <1>7. RouterOK(x, s2)
    BY <1>3, <1>5, <1>6, ReAddOK
  <1>8. RouterOK(x, Remove(s2, m, o))
    BY <1>7, RemoveOK
  <1>9. RouterOK(x, Relink(Remove(s2, m, o), m, o))
    BY <1>3, <1>8, RelinkOK
  <1> QED BY <1>1, <1>2, <1>3, <1>5, <1>7, <1>9 DEF Learn

-----------------------------------------------------------------------------
(* Messages and the way they come.                                          *)

\* A path past a site is shorter than the sites are many.
LEMMA PathLength ==
  ASSUME NEW o \in Sites, NEW p \in Seq(Sites), IsPath(p, o)
  PROVE  Len(p) < Cardinality(Sites) /\ Cardinality(Sites) \in Nat
  <1>1. IsFiniteSet(Sites)
    BY NetworkAssumption
  <1>2. PICK n \in Nat : n = Len(p) /\ p \in [1 .. n -> Sites]
    BY LenProperties
  <1>3. p \in Injection(1 .. n, Sites \ {o})
    <2>1. \A i, j \in 1 .. n : p[i] # o /\ (i # j => p[i] # p[j])
      BY <1>2 DEF IsPath
    <2>2. p \in [1 .. n -> Sites \ {o}]
      BY <1>2, <2>1
    <2> QED BY <2>1, <2>2 DEF Injection, IsInjective
  <1>4. IsFiniteSet(Sites \ {o}) /\ Cardinality(Sites \ {o}) = Cardinality(Sites) - 1
    BY <1>1, FS_RemoveElement
  <1>5. Cardinality(1 .. n) <= Cardinality(Sites \ {o})
    BY <1>3, <1>4, FS_Injection
  <1>6. Cardinality(1 .. n) = n
    BY FS_Interval
  <1>7. Cardinality(Sites) \in Nat
    BY <1>1, FS_CardinalityType
  <1> QED BY <1>2, <1>4, <1>5, <1>6, <1>7

\* A new message goes one hop.
LEMMA FirstHop ==
  ASSUME net \in Networks, NEW x \in Sites, NEW y \in Neighbours(x), NEW m \in Messages,
         m.orig = x, m.hops = 1, m.nbrs \subseteq Neighbours(x)
  PROVE  GoodMsg(x, y, m)
  <1>1. y \in Sites /\ y # x /\ {x, y} \in links
    BY LinkFacts
  <1>2. PICK p : p = <<y>>
    OBVIOUS
  <1>3. p \in Seq(Sites) /\ Len(p) = 1 /\ p[1] = y
    BY <1>1, <1>2
  <1>4. IsPath(p, x)
    BY <1>1, <1>3 DEF IsPath
  <1>5. /\ IsPath(p, m.orig) /\ Len(p) = m.hops /\ Len(p) >= 1 /\ p[Len(p)] = y
        /\ Len(p) >= 2 => p[Len(p) - 1] = x
    BY <1>3, <1>4
  <1>6. MsgWay(x, y, m)
    BY <1>3, <1>5, Zenon DEF MsgWay
  <1> QED BY <1>1, <1>6 DEF GoodMsg, MsgOK

\* A copy that is forwarded goes one hop more; it comes back to a site on its
\* way only round a cycle.
LEMMA NextHop ==
  ASSUME net \in Networks, NEW x \in Sites, NEW y \in Sites, NEW m, GoodMsg(y, x, m),
         NEW z \in Neighbours(x), z # y, z # m.orig, NEW c \in Messages,
         c.orig = m.orig, c.nbrs = m.nbrs, c.hops = m.hops + 1
  PROVE  GoodMsg(x, z, c)
  <1>1. z \in Sites /\ z # x /\ {x, z} \in links /\ m.orig \in Sites
    BY LinkFacts DEF GoodMsg, MsgOK, Messages
  <1>2. MsgOK(c)
    BY DEF GoodMsg, MsgOK
  <1>3. ASSUME ~ CycleAvoids(m.orig) PROVE MsgWay(x, z, c)
    <2>1. PICK p \in Seq(Sites) : /\ IsPath(p, m.orig) /\ Len(p) = m.hops /\ Len(p) >= 1 /\ p[Len(p)] = x
                                  /\ Len(p) >= 2 => p[Len(p) - 1] = y
      BY <1>3 DEF GoodMsg, MsgWay
    <2>2. PICK n \in Nat : n = Len(p) /\ p \in [1 .. n -> Sites] /\ n >= 1
      BY <2>1, LenProperties
    <2>3. ASSUME NEW i \in 1 .. n PROVE p[i] # z
      <3> SUFFICES ASSUME p[i] = z PROVE FALSE
        OBVIOUS
      <3>1. i # n
        BY <1>1, <2>1, <2>2
      <3>2. i # n - 1
        BY <2>1, <2>2
      <3>3. n >= 3 /\ i \in 1 .. n - 2
        BY <3>1, <3>2
      <3>4. n \in 3 .. Cardinality(Sites)
        BY <1>1, <2>1, <2>2, <3>3, PathLength
      <3>5. {p[n], p[i]} \in links
        BY <1>1, <2>1, <2>2
      <3>6. CycleAvoids(m.orig)
        BY <2>1, <2>2, <3>3, <3>4, <3>5 DEF CycleAvoids
      <3> QED BY <1>3, <3>6
    <2>4. PICK q \in Seq(Sites) : /\ Len(q) = n + 1 /\ q[n + 1] = z
                                  /\ \A i \in 1 .. n : q[i] = p[i]
      <3>1. /\ Append(p, z) \in Seq(Sites) /\ Len(Append(p, z)) = Len(p) + 1
            /\ \A i \in 1 .. Len(p) : Append(p, z)[i] = p[i]
            /\ Append(p, z)[Len(p) + 1] = z
        BY <1>1, AppendProperties
      <3> QED BY <2>2, <3>1, Zenon
    <2>5. \A i, j \in 1 .. n + 1 : q[i] # m.orig /\ (i # j => q[i] # q[j])
      <3>1. \A i, j \in 1 .. n : p[i] # m.orig /\ (i # j => p[i] # p[j])
        BY <2>1, <2>2 DEF IsPath
      <3>2. \A i \in 1 .. n + 1 : i = n + 1 \/ i \in 1 .. n
        OBVIOUS
      <3> QED BY <2>3, <2>4, <3>1, <3>2
    <2>6. \A i \in 1 .. (n + 1) - 1 : {q[i], q[i + 1]} \in links
      <3>1. \A i \in 1 .. n - 1 : {p[i], p[i + 1]} \in links
        BY <2>1, <2>2 DEF IsPath
      <3>2. ASSUME NEW i \in 1 .. (n + 1) - 1 PROVE {q[i], q[i + 1]} \in links
        <4>1. CASE i = n
          <5>1. q[n] = p[n] /\ p[n] = x /\ q[n + 1] = z
            BY <2>1, <2>2, <2>4
          <5> QED BY <1>1, <4>1, <5>1
        <4>2. CASE i # n
          <5>1. i \in 1 .. n - 1 /\ i \in 1 .. n /\ i + 1 \in 1 .. n
            BY <4>2
          <5> QED BY <2>4, <3>1, <5>1
        <4> QED BY <4>1, <4>2
      <3> QED BY <3>2
    <2>7. IsPath(q, c.orig)
      BY <2>4, <2>5, <2>6 DEF IsPath
    <2>8. Len(q) = c.hops /\ Len(q) >= 1 /\ q[Len(q)] = z /\ q[Len(q) - 1] = x
      BY <2>1, <2>2, <2>4
    <2> QED BY <2>7, <2>8 DEF MsgWay
  <1>4. MsgWay(x, z, c)
    BY <1>3 DEF MsgWay
  <1> QED BY <1>1, <1>2, <1>4 DEF GoodMsg

LEMMA QueueEmpty ==
  ASSUME NEW x, NEW y
  PROVE  GoodQueue(x, y, <<>>)
  BY EmptySeq DEF GoodQueue

LEMMA QueueTail ==
  ASSUME NEW x, NEW y, NEW q, GoodQueue(x, y, q), q # <<>>
  PROVE  GoodQueue(x, y, Tail(q)) /\ GoodMsg(x, y, Head(q))
  <1>1. q \in Seq(Messages) /\ \A i \in 1 .. Len(q) : GoodMsg(x, y, q[i])
    BY DEF GoodQueue
  <1>2. /\ Tail(q) \in Seq(Messages) /\ Len(Tail(q)) = Len(q) - 1
        /\ \A i \in 1 .. Len(Tail(q)) : Tail(q)[i] = q[i + 1]
    BY <1>1, HeadTailProperties
  <1>3. Len(q) \in Nat \ {0}
    BY <1>1, EmptySeq
  <1>4. Head(q) = q[1]
    BY <1>1
  <1>5. PICK n \in Nat \ {0} : n = Len(q)
    BY <1>3
  <1>6. \A i \in 1 .. n - 1 : i + 1 \in 1 .. n
    OBVIOUS
  <1>7. GoodQueue(x, y, Tail(q))
    BY <1>1, <1>2, <1>5, <1>6 DEF GoodQueue
  <1>8. GoodMsg(x, y, Head(q))
    BY <1>1, <1>4, <1>5
  <1> QED BY <1>7, <1>8

LEMMA QueueAppend ==
  ASSUME NEW x, NEW y, NEW q, GoodQueue(x, y, q), NEW m, GoodMsg(x, y, m)
  PROVE  GoodQueue(x, y, Append(q, m))
  <1>1. q \in Seq(Messages) /\ m \in Messages /\ \A i \in 1 .. Len(q) : GoodMsg(x, y, q[i])
    BY DEF GoodQueue, GoodMsg, MsgOK
  <1>2. PICK n \in Nat : n = Len(q)
    BY <1>1, LenProperties
  <1>3. PICK r \in Seq(Messages) : /\ r = Append(q, m) /\ Len(r) = n + 1 /\ r[n + 1] = m
                                   /\ \A i \in 1 .. n : r[i] = q[i]
    <2>1. /\ Append(q, m) \in Seq(Messages) /\ Len(Append(q, m)) = Len(q) + 1
          /\ \A i \in 1 .. Len(q) : Append(q, m)[i] = q[i]
          /\ Append(q, m)[Len(q) + 1] = m
      BY <1>1, AppendProperties
    <2> QED BY <1>2, <2>1, Zenon
  <1>4. \A i \in 1 .. n + 1 : i = n + 1 \/ i \in 1 .. n
    OBVIOUS
  <1>5. \A i \in 1 .. n + 1 : GoodMsg(x, y, r[i])
    BY <1>1, <1>2, <1>3, <1>4
  <1> QED BY <1>3, <1>5 DEF GoodQueue

-----------------------------------------------------------------------------
(* Steps.                                                                   *)

\* What is said of sites and queues depends on the network only.
LEMMA SameNetwork ==
  ASSUME net' = net
  PROVE  /\ \A st : SitesOK(st)' <=> SitesOK(st)
         /\ \A qs : QueuesOK(qs)' <=> QueuesOK(qs)
         /\ \A f : EndsOK(f)' <=> EndsOK(f)
  <1>1. links' = links
    BY DEF links
  <1>2. \A x : Neighbours(x)' = Neighbours(x)
    BY <1>1 DEF Neighbours
  <1>3. \A x, s : RouterOK(x, s)' <=> RouterOK(x, s)
    BY <1>1, <1>2 DEF RouterOK
  <1>4. \A st : SitesOK(st)' <=> SitesOK(st)
    BY <1>3 DEF SitesOK
  <1>5. \A f : EndsOK(f)' <=> EndsOK(f)
    BY <1>2 DEF EndsOK
  <1>6. \A p, o : IsPath(p, o)' <=> IsPath(p, o)
    BY <1>1 DEF IsPath
  <1>7. \A o : CycleAvoids(o)' <=> CycleAvoids(o)
    BY <1>1, <1>6 DEF CycleAvoids
  <1>8. \A x, y, m : MsgWay(x, y, m)' <=> MsgWay(x, y, m)
    BY <1>6, <1>7 DEF MsgWay
  <1>9. \A m : MsgOK(m)' <=> MsgOK(m)
    BY <1>2 DEF MsgOK
  <1>10. \A x, y, m : GoodMsg(x, y, m)' <=> GoodMsg(x, y, m)
    BY <1>1, <1>8, <1>9 DEF GoodMsg
  <1>11. \A x, y, q : GoodQueue(x, y, q)' <=> GoodQueue(x, y, q)
    BY <1>10 DEF GoodQueue
  <1>12. \A qs : QueuesOK(qs)' <=> QueuesOK(qs)
    BY <1>11 DEF QueuesOK
  <1> QED BY <1>4, <1>5, <1>12

LEMMA NetNext ==
  ASSUME NetInv, net' = net, SitesOK(site'), QueuesOK(queue'), EndsOK(open'), EndsOK(keyDir'),
         inactive' \in [Sites -> [Sites -> Nat]], clock' \in [Sites -> Nat],
         floods' \in Nat, faults' \in Nat, Rounds \/ UNCHANGED <<rounds, begun>>
  PROVE  NetInv'
  <1>1. PICK st, qs, op, kd : st = site' /\ qs = queue' /\ op = open' /\ kd = keyDir'
    OBVIOUS
  <1>2. SitesOK(st) /\ QueuesOK(qs) /\ EndsOK(op) /\ EndsOK(kd)
    BY <1>1
  <1>3. SitesOK(st)' /\ QueuesOK(qs)' /\ EndsOK(op)' /\ EndsOK(kd)'
    BY <1>2, SameNetwork
  <1>4. (SitesOK(site) /\ QueuesOK(queue) /\ EndsOK(open) /\ EndsOK(keyDir))'
    BY <1>1, <1>3
  <1>5. rounds' \in 0 .. 3 /\ begun' \in [Sites -> Nat]
    <2>1. CASE Rounds
      <3>1. rounds \in 0 .. 3
        BY DEF NetInv
      <3>2. rounds' \in 0 .. 3
        BY <2>1, <3>1 DEF Rounds
      <3>3. begun' \in {begun, clock'}
        BY <2>1 DEF Rounds
      <3> QED BY <3>2, <3>3 DEF NetInv
    <2>2. CASE UNCHANGED <<rounds, begun>>
      BY <2>2 DEF NetInv
    <2> QED BY <2>1, <2>2
  <1> QED BY <1>4, <1>5 DEF NetInv

\* One router changes.
LEMMA OneSite ==
  ASSUME NEW st, SitesOK(st), NEW x \in Sites, NEW s, RouterOK(x, s)
  PROVE  SitesOK([st EXCEPT ![x] = s])
  BY DEF SitesOK, RouterOK

\* A site sends m to some of its neighbours.
LEMMA SendOK ==
  ASSUME NEW qs, QueuesOK(qs), NEW x \in Sites, NEW Y, NEW m, \A y \in Y : GoodMsg(x, y, m)
  PROVE  QueuesOK([qs EXCEPT ![x] = [y \in Sites |-> IF y \in Y THEN Append(qs[x][y], m) ELSE qs[x][y]]])
  <1> DEFINE r == [y \in Sites |-> IF y \in Y THEN Append(qs[x][y], m) ELSE qs[x][y]]
  <1>1. \A y \in Sites : GoodQueue(x, y, r[y])
    BY QueueAppend DEF QueuesOK
  <1>2. r \in [Sites -> Seq(Messages)]
    <2>1. r = [y \in Sites |-> r[y]]
      OBVIOUS
    <2>2. \A y \in Sites : r[y] \in Seq(Messages)
      BY <1>1 DEF GoodQueue
    <2> HIDE DEF r
    <2> QED BY <2>1, <2>2
  <1> HIDE DEF r
  <1>3. QueuesOK([qs EXCEPT ![x] = r])
    BY <1>1, <1>2 DEF QueuesOK
  <1> QED BY <1>3 DEF r

LEMMA FloodOK ==
  ASSUME NetInv, NEW x \in Sites, NEW s, RouterOK(x, s), NEW chans, chans \subseteq Neighbours(x),
         NEW done, RouterOK(x, done), NEW threw, RouterOK(x, threw), Flood(x, s, chans, done, threw)
  PROVE  /\ SitesOK(site') /\ QueuesOK(queue')
         /\ clock' \in [Sites -> Nat] /\ floods' \in Nat
  <1>1. PICK C : C = Connected(s) /\ C \subseteq Neighbours(x) /\ C \subseteq Sites
    BY ConnectedFacts, LinkFacts DEF NetInv
  <1>2. PICK dt \in net.steps, Y \in Sendings(s, C) :
          /\ floods > 0 /\ floods' = floods - 1 /\ clock' = [clock EXCEPT ![x] = @ + dt]
          /\ Put(x, chans, Y, [orig |-> x, stamp |-> clock[x] + dt, nbrs |-> C, hops |-> 1])
          /\ site' = [site EXCEPT ![x] = Collect(IF Unsendable(s, C) = {} THEN done ELSE threw)]
    BY <1>1 DEF Flood
  <1>3. dt \in Nat /\ clock[x] + dt \in Nat
    BY NetworkFacts DEF NetInv
  <1>4. floods' \in Nat /\ clock' \in [Sites -> Nat]
    BY <1>1, <1>2, <1>3 DEF NetInv
  <1>5. SitesOK(site')
    <2>1. PICK d : d = (IF Unsendable(s, C) = {} THEN done ELSE threw) /\ RouterOK(x, d)
      OBVIOUS
    <2>2. RouterOK(x, Collect(d)) /\ site' = [site EXCEPT ![x] = Collect(d)]
      BY <1>2, <2>1, CollectOK
    <2> QED BY <2>2, OneSite DEF NetInv
  <1>6. PICK m : m = [orig |-> x, stamp |-> clock[x] + dt, nbrs |-> C, hops |-> 1]
    OBVIOUS
  <1>7. m \in Messages /\ m.orig = x /\ m.hops = 1 /\ m.nbrs = C
    BY <1>1, <1>3, <1>6 DEF Messages
  <1>8. \A y \in Y \cap chans : GoodMsg(x, y, m)
    BY <1>1, <1>7, FirstHop DEF NetInv
  <1>9. queue' = [queue EXCEPT ![x] = [y \in Sites |-> IF y \in Y \cap chans THEN Append(queue[x][y], m)
                                                                          ELSE queue[x][y]]]
    BY <1>2, <1>6 DEF Put, NetInv, QueuesOK
  <1>10. QueuesOK(queue')
    <2>1. QueuesOK(queue)
      BY DEF NetInv
    <2>2. QueuesOK([queue EXCEPT ![x] = [y \in Sites |-> IF y \in Y \cap chans THEN Append(queue[x][y], m)
                                                                             ELSE queue[x][y]]])
      BY <1>8, <2>1, SendOK
    <2> QED BY <1>9, <2>2
  <1> QED BY <1>4, <1>5, <1>10

LEMMA NoFloodOK ==
  ASSUME NetInv, NEW x \in Sites, NEW s, RouterOK(x, s), NoFlood(x, s)
  PROVE  /\ SitesOK(site') /\ QueuesOK(queue')
         /\ clock' \in [Sites -> Nat] /\ floods' \in Nat
  <1>1. site' = [site EXCEPT ![x] = s] /\ UNCHANGED <<queue, clock, floods>>
    BY DEF NoFlood
  <1>2. SitesOK(site')
    BY <1>1, OneSite DEF NetInv
  <1> QED BY <1>1, <1>2 DEF NetInv

\* What Connect makes of the router.
LEMMA ConnectRouter ==
  ASSUME net \in Networks, NEW x \in Sites, NEW y \in Sites, NEW s0, RouterOK(x, s0),
         NEW s, s = [s0 EXCEPT !.pend = @ \ {y}],
         NEW n, n = InMap(s.nbr, y),
         NEW up, up = [s EXCEPT !.conn = @ \cup {n}, !.chan = @ \cup {n}],
         y \in s0.pend
  PROVE  /\ RouterOK(x, s)
         /\ s.nbr[y] # None => RouterOK(x, up) /\ RouterOK(x, [up EXCEPT !.timers = @ \cup {y}])
  <1>1. s0 \in Routers
    BY DEF RouterOK
  <1>2. /\ s \in Routers /\ s.nbr = s0.nbr /\ s.adj = s0.adj /\ s.timers = s0.timers
        /\ s.pend = s0.pend \ {y}
    BY <1>1 DEF Routers
  <1>3. RouterOK(x, s)
    BY <1>2 DEF RouterOK
  <1>4. ASSUME s.nbr[y] # None
        PROVE  RouterOK(x, up) /\ RouterOK(x, [up EXCEPT !.timers = @ \cup {y}])
    <2>1. n \in Objs
      <3>1. s.nbr \in Maps
        BY <1>2 DEF Routers
      <3> QED BY <1>4, <3>1, InMapFacts
    <2>2. up \in Routers /\ up.nbr = s.nbr /\ up.adj = s.adj /\ up.timers = s.timers /\ up.pend = s.pend
      BY <1>2, <2>1, ZenonT(60) DEF Routers
    <2>3. RouterOK(x, up)
      BY <1>3, <2>2 DEF RouterOK
    <2>4. PICK v : v = [up EXCEPT !.timers = @ \cup {y}]
      OBVIOUS
    <2>5. /\ v \in Routers /\ v.nbr = up.nbr /\ v.adj = up.adj /\ v.timers = up.timers \cup {y}
          /\ v.pend = up.pend
      <3>1. up.timers \cup {y} \subseteq Sites
        BY <2>2 DEF Routers
      <3> QED BY <2>2, <2>4, <3>1, ZenonT(60) DEF Routers
    <2>6. y \in Neighbours(x)
      BY DEF RouterOK
    <2>7. RouterOK(x, v)
      BY <2>3, <2>5, <2>6 DEF RouterOK
    <2> QED BY <2>3, <2>4, <2>7
  <1> QED BY <1>3, <1>4

\* What Disconnected makes of the router.
LEMMA DisconnectedRouter ==
  ASSUME NEW x \in Sites, NEW y \in Sites, NEW s0, RouterOK(x, s0)
  PROVE  RouterOK(x, [s0 EXCEPT !.nbr[y] = None, !.all[y] = None, !.nulls = @ \ {InMap(s0.all, x)}])
  <1>1. s0 \in Routers
    BY DEF RouterOK
  <1>2. PICK nr : nr = [s0.nbr EXCEPT ![y] = None]
    OBVIOUS
  <1>3. PICK al : al = [s0.all EXCEPT ![y] = None]
    OBVIOUS
  <1>4. PICK s : s = [s0 EXCEPT !.nbr = nr, !.all = al, !.nulls = @ \ {InMap(s0.all, x)}]
    OBVIOUS
  <1>5. [s0 EXCEPT !.nbr[y] = None, !.all[y] = None, !.nulls = @ \ {InMap(s0.all, x)}] = s
    BY <1>1, <1>2, <1>3, <1>4 DEF Routers
  <1>6. nr \in Maps /\ al \in Maps /\ \A z \in Sites : nr[z] # None => s0.nbr[z] # None
    BY <1>1, <1>2, <1>3, BoundAssumption DEF Routers, Maps, None
  <1>7. s \in Routers /\ s.nbr = nr /\ s.adj = s0.adj /\ s.timers = s0.timers /\ s.pend = s0.pend
    BY <1>1, <1>4, <1>6 DEF Routers
  <1>8. RouterOK(x, s)
    BY <1>6, <1>7 DEF RouterOK
  <1> QED BY <1>5, <1>8

\* What CheckLink makes of the router, for a link that is back, one that has
\* gone, and one that is as it was.
LEMMA CheckLinkRouter ==
  ASSUME net \in Networks, NEW x \in Sites, NEW y \in Sites, NEW s, RouterOK(x, s),
         y \in s.timers, NEW n, n = InMap(s.all, y), NEW me, me = InMap(s.all, x),
         s.all[y] # None
  PROVE  /\ s.all[x] # None =>
              RouterOK(x, [s EXCEPT !.conn = @ \cup {n}, !.adj = @ \cup {<<n, me>>, <<me, n>>}])
         /\ RouterOK(x, [s EXCEPT !.conn = @ \ {n}, !.adj = @ \ {<<n, me>>, <<me, n>>}])
         /\ n \in Objs
  <1>1. s \in Routers /\ s.all \in Maps
    BY DEF RouterOK, Routers
  <1>2. n \in Objs /\ Name(n) = y
    BY <1>1, InMapFacts
  <1>3. {x, y} \in links /\ {y, x} \in links
    BY LinkFacts DEF RouterOK
  <1>4. ASSUME s.all[x] # None
        PROVE  RouterOK(x, [s EXCEPT !.conn = @ \cup {n}, !.adj = @ \cup {<<n, me>>, <<me, n>>}])
    <2>1. me \in Objs /\ Name(me) = x
      BY <1>1, <1>4, InMapFacts
    <2>2. PICK ad : ad = s.adj \cup {<<n, me>>, <<me, n>>}
      OBVIOUS
    <2>3. PICK r : r = [s EXCEPT !.conn = @ \cup {n}, !.adj = ad]
      OBVIOUS
    <2>4. ad \subseteq Objs \X Objs
      BY <1>1, <1>2, <2>1, <2>2 DEF Routers
    <2>5. \A l \in ad : {Name(l[1]), Name(l[2])} \in links
      <3>1. \A l \in ad : l \in s.adj \/ l = <<n, me>> \/ l = <<me, n>>
        BY <2>2
      <3>2. \A l \in s.adj : {Name(l[1]), Name(l[2])} \in links
        BY DEF RouterOK
      <3>3. /\ {Name(<<n, me>>[1]), Name(<<n, me>>[2])} \in links
            /\ {Name(<<me, n>>[1]), Name(<<me, n>>[2])} \in links
        BY <1>2, <1>3, <2>1
      <3> QED BY <3>1, <3>2, <3>3
    <2>6. r \in Routers /\ r.nbr = s.nbr /\ r.adj = ad /\ r.timers = s.timers /\ r.pend = s.pend
      BY <1>1, <1>2, <2>3, <2>4 DEF Routers
    <2>7. RouterOK(x, r)
      BY <2>5, <2>6 DEF RouterOK
    <2> QED BY <2>2, <2>3, <2>7
  <1>5. RouterOK(x, [s EXCEPT !.conn = @ \ {n}, !.adj = @ \ {<<n, me>>, <<me, n>>}])
    <2>1. PICK ad : ad = s.adj \ {<<n, me>>, <<me, n>>}
      OBVIOUS
    <2>2. PICK r : r = [s EXCEPT !.conn = @ \ {n}, !.adj = ad]
      OBVIOUS
    <2>3. r \in Routers /\ r.nbr = s.nbr /\ r.adj = ad /\ r.timers = s.timers /\ r.pend = s.pend
      BY <1>1, <2>1, <2>2 DEF Routers
    <2>4. RouterOK(x, r)
      BY <2>1, <2>3 DEF RouterOK
    <2> QED BY <2>1, <2>2, <2>4
  <1> QED BY <1>2, <1>4, <1>5

\* A timer that ends, other connected Nodes and others with a null neighbour.
LEMMA TimerRouter ==
  ASSUME NEW x \in Sites, NEW y, NEW s, RouterOK(x, s), NEW c, c \subseteq Objs,
         NEW d, d \subseteq Objs
  PROVE  /\ RouterOK(x, [s EXCEPT !.timers = @ \ {y}])
         /\ RouterOK(x, [[s EXCEPT !.timers = @ \ {y}] EXCEPT !.conn = c, !.nulls = d])
  <1>1. s \in Routers
    BY DEF RouterOK
  <1>2. PICK r : r = [s EXCEPT !.timers = @ \ {y}]
    OBVIOUS
  <1>3. r \in Routers /\ r.nbr = s.nbr /\ r.adj = s.adj /\ r.timers = s.timers \ {y} /\ r.pend = s.pend
    BY <1>1, <1>2 DEF Routers
  <1>4. PICK u : u = [r EXCEPT !.conn = c, !.nulls = d]
    OBVIOUS
  <1>5. u \in Routers /\ u.nbr = r.nbr /\ u.adj = r.adj /\ u.timers = r.timers /\ u.pend = r.pend
    BY <1>3, <1>4 DEF Routers
  <1>6. RouterOK(x, r) /\ RouterOK(x, u)
    BY <1>3, <1>5 DEF RouterOK
  <1> QED BY <1>2, <1>4, <1>6

-----------------------------------------------------------------------------
(* The invariant is inductive.                                              *)

LEMMA NetInit == Init => NetInv
  <1> SUFFICES ASSUME Init PROVE NetInv
    OBVIOUS
  <1>1. /\ net \in Networks /\ \A x \in Sites : Neighbours(x) \subseteq Sites
    BY LinkFacts DEF Init
  <1>2. SitesOK(site)
    <2>1. site = [x \in Sites |-> IF net.warm THEN SteadyState(x) ELSE StartUp(x)]
      BY DEF Init
    <2>2. \A x \in Sites : RouterOK(x, StartUp(x)) /\ RouterOK(x, SteadyState(x))
      BY <1>1, StartUpOK
    <2>3. \A x \in Sites : RouterOK(x, site[x])
      BY <2>1, <2>2
    <2>4. \A x \in Sites : site[x] \in Routers
      BY <2>3 DEF RouterOK
    <2>5. site = [x \in Sites |-> site[x]]
      BY <2>1
    <2> QED BY <2>3, <2>4, <2>5 DEF SitesOK
  <1>3. QueuesOK(queue)
    BY QueueEmpty, EmptySeq DEF Init, QueuesOK
  <1>4. EndsOK(open) /\ EndsOK(keyDir)
    BY <1>1 DEF Init, EndsOK
  <1>5. /\ inactive \in [Sites -> [Sites -> Nat]] /\ clock \in [Sites -> Nat]
        /\ floods \in Nat /\ faults \in Nat /\ begun \in [Sites -> Nat] /\ rounds \in 0 .. 3
    BY <1>1, NetworkFacts DEF Init
  <1> QED BY <1>1, <1>2, <1>3, <1>4, <1>5 DEF NetInv

LEMMA ConnectStep ==
  ASSUME NetInv, NEW x \in Sites, NEW y \in Sites, Connect(x, y) PROVE NetInv'
  <1>1. PICK s : s = [site[x] EXCEPT !.pend = @ \ {y}]
    OBVIOUS
  <1>2. PICK n : n = InMap(s.nbr, y)
    OBVIOUS
  <1>3. PICK up : up = [s EXCEPT !.conn = @ \cup {n}, !.chan = @ \cup {n}]
    OBVIOUS
  <1>4. /\ y \in site[x].pend /\ open' = [open EXCEPT ![x] = @ \cup {y}]
        /\ IF s.nbr[y] = None
           THEN NoFlood(x, s)
           ELSE Flood(x, up, open[x] \cup {y}, [up EXCEPT !.timers = @ \cup {y}], up)
        /\ UNCHANGED <<net, inactive, keyDir, faults>> /\ Rounds
    BY <1>1, <1>2, <1>3 DEF Connect
  <1>5. net \in Networks /\ RouterOK(x, site[x]) /\ EndsOK(open)
    BY DEF NetInv, SitesOK
  <1>6. /\ RouterOK(x, s)
        /\ s.nbr[y] # None => RouterOK(x, up) /\ RouterOK(x, [up EXCEPT !.timers = @ \cup {y}])
    BY <1>1, <1>2, <1>3, <1>4, <1>5, ConnectRouter
  <1>7. y \in Neighbours(x)
    BY <1>4, <1>5 DEF RouterOK
  <1>8. open[x] \cup {y} \subseteq Neighbours(x) /\ EndsOK(open')
    BY <1>4, <1>5, <1>7 DEF EndsOK
  <1>9. /\ SitesOK(site') /\ QueuesOK(queue')
        /\ clock' \in [Sites -> Nat] /\ floods' \in Nat
    <2>1. CASE s.nbr[y] = None
      BY <1>4, <1>6, <2>1, NoFloodOK
    <2>2. CASE s.nbr[y] # None
      <3>1. PICK v : v = [up EXCEPT !.timers = @ \cup {y}]
        OBVIOUS
      <3>2. PICK ch : ch = open[x] \cup {y}
        OBVIOUS
      <3>3. Flood(x, up, ch, v, up) /\ RouterOK(x, up) /\ RouterOK(x, v) /\ ch \subseteq Neighbours(x)
        BY <1>4, <1>6, <1>8, <2>2, <3>1, <3>2
      <3> QED BY <3>3, FloodOK
    <2> QED BY <2>1, <2>2
  <1>10. /\ net' = net /\ EndsOK(keyDir') /\ inactive' \in [Sites -> [Sites -> Nat]]
         /\ faults' \in Nat
    BY <1>4 DEF NetInv
  <1> QED BY <1>4, <1>8, <1>9, <1>10, NetNext

LEMMA DisconnectedStep ==
  ASSUME NetInv, NEW x \in Sites, NEW y \in Sites, Disconnected(x, y) PROVE NetInv'
  <1>1. PICK s : s = [site[x] EXCEPT !.nbr[y] = None, !.all[y] = None,
                                     !.nulls = @ \ {InMap(site[x].all, x)}]
    OBVIOUS
  <1>2. /\ inactive[x][y] > 0 /\ inactive' = [inactive EXCEPT ![x][y] = @ - 1]
        /\ IF site[x].nbr[y] = None THEN NoFlood(x, site[x]) ELSE Flood(x, s, open[x], s, s)
        /\ UNCHANGED <<net, open, keyDir, faults>> /\ Rounds
    BY <1>1 DEF Disconnected
  <1>3. RouterOK(x, site[x]) /\ open[x] \subseteq Neighbours(x)
    BY DEF NetInv, SitesOK, EndsOK
  <1>4. RouterOK(x, s)
    BY <1>1, <1>3, DisconnectedRouter
  <1>5. /\ SitesOK(site') /\ QueuesOK(queue')
        /\ clock' \in [Sites -> Nat] /\ floods' \in Nat
    <2>1. CASE site[x].nbr[y] = None
      BY <1>2, <1>3, <2>1, NoFloodOK
    <2>2. CASE site[x].nbr[y] # None
      BY <1>2, <1>3, <1>4, <2>2, FloodOK
    <2> QED BY <2>1, <2>2
  <1>6. inactive' \in [Sites -> [Sites -> Nat]]
    BY <1>2 DEF NetInv
  <1>7. /\ net' = net /\ EndsOK(open') /\ EndsOK(keyDir') /\ faults' \in Nat
    BY <1>2 DEF NetInv
  <1> QED BY <1>2, <1>5, <1>6, <1>7, NetNext

LEMMA CheckLinkStep ==
  ASSUME NetInv, NEW x \in Sites, NEW y \in Sites, CheckLink(x, y) PROVE NetInv'
  <1>1. PICK s : s = site[x] /\ RouterOK(x, s)
    BY DEF NetInv, SitesOK
  <1>2. PICK n, me : n = InMap(s.all, y) /\ me = InMap(s.all, x)
    OBVIOUS
  <1>3. PICK back : back = [s EXCEPT !.conn = @ \cup {n}, !.adj = @ \cup {<<n, me>>, <<me, n>>}]
    OBVIOUS
  <1>4. PICK gone : gone = [s EXCEPT !.conn = @ \ {n}, !.adj = @ \ {<<n, me>>, <<me, n>>}]
    OBVIOUS
  <1> DEFINE restored == y \in keyDir[x] /\ n \notin s.conn
             broken == y \notin keyDir[x] /\ n \in s.conn
             r == CASE restored -> back [] broken -> gone [] OTHER -> s
             ends == [s EXCEPT !.timers = @ \ {y}]
             nu == IF restored THEN ends.nulls \cup {n} ELSE ends.nulls \ {n}
  <1>5. /\ y \in s.timers /\ UNCHANGED <<net, open, inactive, keyDir, faults>> /\ Rounds
        /\ IF s.all[y] = None \/ (s.all[x] = None /\ (restored \/ broken))
           THEN NoFlood(x, Collect(IF s.all[y] = None THEN ends
                                   ELSE [ends EXCEPT !.conn = r.conn, !.nulls = nu]))
           ELSE Flood(x, r, open[x], r, [r EXCEPT !.timers = @ \ {y}])
    BY <1>1, <1>2, <1>3, <1>4 DEF CheckLink, Broken
  <1>6. \/ restored /\ ~ broken /\ r = back
        \/ ~ restored /\ broken /\ r = gone
        \/ ~ restored /\ ~ broken /\ r = s
    OBVIOUS
  <1>7. net \in Networks /\ open[x] \subseteq Neighbours(x) /\ s \in Routers /\ s.conn \subseteq Objs
    BY <1>1 DEF NetInv, EndsOK, RouterOK, Routers
  <1>8. ASSUME s.all[y] # None
        PROVE  n \in Objs /\ RouterOK(x, gone) /\ (s.all[x] # None => RouterOK(x, back))
    BY <1>1, <1>2, <1>3, <1>4, <1>5, <1>7, <1>8, CheckLinkRouter, ZenonT(60)
  <1>9. nu \subseteq s.nulls \cup {n} /\ s.nulls \subseteq Objs
    BY <1>7 DEF Routers
  <1> HIDE DEF r, restored, broken, nu
  <1>10. /\ SitesOK(site') /\ QueuesOK(queue')
         /\ clock' \in [Sites -> Nat] /\ floods' \in Nat
    <2>0. ASSUME NEW u, RouterOK(x, u), NoFlood(x, Collect(u))
          PROVE  /\ SitesOK(site') /\ QueuesOK(queue')
                 /\ clock' \in [Sites -> Nat] /\ floods' \in Nat
      BY <2>0, CollectOK, NoFloodOK
    <2>1. CASE s.all[y] = None
      <3>1. RouterOK(x, ends)
        BY <1>1, <1>7, TimerRouter
      <3>2. NoFlood(x, Collect(ends))
        BY <1>5, <2>1
      <3> QED BY <2>0, <3>1, <3>2
    <2>2. CASE s.all[y] # None /\ s.all[x] = None /\ (restored \/ broken)
      <3>1. r.conn \subseteq Objs
        <4>1. back.conn = s.conn \cup {n} /\ gone.conn = s.conn \ {n}
          BY <1>3, <1>4, <1>7 DEF Routers
        <4> QED BY <1>6, <1>7, <1>8, <2>2, <4>1
      <3>2. RouterOK(x, [ends EXCEPT !.conn = r.conn, !.nulls = nu])
        BY <1>1, <1>8, <1>9, <2>2, <3>1, TimerRouter
      <3>3. NoFlood(x, Collect([ends EXCEPT !.conn = r.conn, !.nulls = nu]))
        BY <1>5, <2>2
      <3> QED BY <2>0, <3>2, <3>3
    <2>3. CASE s.all[y] # None /\ ~ (s.all[x] = None /\ (restored \/ broken))
      <3>1. RouterOK(x, r)
        BY <1>1, <1>6, <1>8, <2>3
      <3>2. PICK e : e = [r EXCEPT !.timers = @ \ {y}]
        OBVIOUS
      <3>3. RouterOK(x, e)
        BY <3>1, <3>2, TimerRouter
      <3>4. Flood(x, r, open[x], r, e)
        BY <1>5, <2>3, <3>2
      <3> QED BY <1>7, <3>1, <3>3, <3>4, FloodOK
    <2> QED BY <2>1, <2>2, <2>3
  <1>11. /\ net' = net /\ EndsOK(open') /\ EndsOK(keyDir') /\ inactive' \in [Sites -> [Sites -> Nat]]
         /\ faults' \in Nat
    BY <1>5 DEF NetInv
  <1> QED BY <1>5, <1>10, <1>11, NetNext

\* One queue changes.
LEMMA OneQueue ==
  ASSUME QueuesOK(queue), NEW x \in Sites, NEW y \in Sites, NEW q, GoodQueue(x, y, q)
  PROVE  QueuesOK([queue EXCEPT ![x][y] = q])
  <1>1. q \in Seq(Messages)
    BY DEF GoodQueue
  <1>2. PICK qs : qs = [queue EXCEPT ![x][y] = q]
    OBVIOUS
  <1>3. qs \in [Sites -> [Sites -> Seq(Messages)]]
    BY <1>1, <1>2 DEF QueuesOK
  <1>4. \A u, v \in Sites : qs[u][v] = IF u = x /\ v = y THEN q ELSE queue[u][v]
    BY <1>2 DEF QueuesOK
  <1>5. \A u, v \in Sites : GoodQueue(u, v, qs[u][v])
    BY <1>4 DEF QueuesOK
  <1> QED BY <1>2, <1>3, <1>5 DEF QueuesOK

LEMMA ReceiveStep ==
  ASSUME NetInv, NEW x \in Sites, NEW y \in Sites, Receive(x, y) PROVE NetInv'
  <1> DEFINE m == Head(queue[y][x])
             s == Collect(Learn(site[x], x, y, m))
             rest == [queue EXCEPT ![y][x] = Tail(queue[y][x])]
             zs == IF Throws(site[x], s, m) THEN {{}} ELSE Sendings(s, ForwardTo(s, y, m))
  <1>1. m = Head(queue[y][x])
    OBVIOUS
  <1>2. s = Collect(Learn(site[x], x, y, m))
    OBVIOUS
  <1>3. rest = [queue EXCEPT ![y][x] = Tail(queue[y][x])]
    OBVIOUS
  <1>4. net \in Networks /\ RouterOK(x, site[x]) /\ open[x] \subseteq Neighbours(x) /\ QueuesOK(queue)
    BY DEF NetInv, SitesOK, EndsOK
  <1>6. /\ queue[y][x] # <<>>
        /\ \A z \in {z \in (m.nbrs \cup {m.orig}) : site[x].all[z] = None} : CanMake(site[x], z)
        /\ IF m.orig = x
           THEN queue' = rest /\ UNCHANGED site
           ELSE /\ site' = [site EXCEPT ![x] = s]
                /\ \E Z \in zs :
                     queue' = [rest EXCEPT ![x] = [z \in Sites |->
                                 IF z \in Z \cap open[x] THEN Append(rest[x][z], [m EXCEPT !.hops = @ + 1])
                                                         ELSE rest[x][z]]]
        /\ UNCHANGED <<net, open, inactive, keyDir, clock, floods, faults>> /\ Rounds
    BY DEF Receive
  <1>5. \A Z \in zs : Z \subseteq ForwardTo(s, y, m)
    BY DEF Sendings
  <1> HIDE DEF m, s, rest, zs
  <1>7. GoodMsg(y, x, m) /\ GoodQueue(y, x, Tail(queue[y][x]))
    <2>1. GoodQueue(y, x, queue[y][x])
      BY <1>4 DEF QueuesOK
    <2> QED BY <1>1, <1>6, <2>1, QueueTail
  <1>8. QueuesOK(rest)
    BY <1>3, <1>4, <1>7, OneQueue
  <1>9. SitesOK(site') /\ QueuesOK(queue')
    <2>1. CASE m.orig = x
      BY <1>6, <1>8, <2>1 DEF NetInv
    <2>2. CASE m.orig # x
      <3>1. RouterOK(x, Learn(site[x], x, y, m))
        <4>1. {y, x} \in links /\ MsgOK(m)
          BY <1>7 DEF GoodMsg
        <4>2. \A z \in m.nbrs \cup {m.orig} : site[x].all[z] = None => CanMake(site[x], z)
          BY <1>6
        <4> QED BY <1>4, <4>1, <4>2, LearnOK
      <3>2. RouterOK(x, s)
        BY <1>2, <3>1, CollectOK
      <3>3. SitesOK(site')
        <4>1. SitesOK(site) /\ site' = [site EXCEPT ![x] = s]
          BY <1>6, <2>2 DEF NetInv
        <4> QED BY <3>2, <4>1, OneSite
      <3>4. PICK c : c = [m EXCEPT !.hops = @ + 1]
        OBVIOUS
      <3>5. c \in Messages /\ c.orig = m.orig /\ c.nbrs = m.nbrs /\ c.hops = m.hops + 1
        BY <1>7, <3>4 DEF GoodMsg, MsgOK, Messages
      <3>6. PICK Z \in zs :
               queue' = [rest EXCEPT ![x] = [z \in Sites |->
                           IF z \in Z \cap open[x] THEN Append(rest[x][z], c) ELSE rest[x][z]]]
        BY <1>6, <2>2, <3>4
      <3>7. Z \subseteq ForwardTo(s, y, m)
        BY <1>5, <3>6
      <3>8. \A z \in Z \cap open[x] : z \in Neighbours(x) /\ z # y /\ z # m.orig
        BY <1>4, <3>7 DEF ForwardTo
      <3>9. \A z \in Z \cap open[x] : GoodMsg(x, z, c)
        BY <1>4, <1>7, <3>5, <3>8, NextHop
      <3>10. QueuesOK([rest EXCEPT ![x] = [z \in Sites |->
                          IF z \in Z \cap open[x] THEN Append(rest[x][z], c) ELSE rest[x][z]]])
        BY <1>8, <3>9, SendOK
      <3> QED BY <3>3, <3>6, <3>10
    <2> QED BY <2>1, <2>2
  <1>10. /\ net' = net /\ EndsOK(open') /\ EndsOK(keyDir') /\ inactive' \in [Sites -> [Sites -> Nat]]
         /\ clock' \in [Sites -> Nat] /\ floods' \in Nat
         /\ faults' \in Nat
    BY <1>6 DEF NetInv
  <1> QED BY <1>6, <1>9, <1>10, NetNext

LEMMA BreakStep ==
  ASSUME NetInv, NEW x \in Sites, NEW y \in Sites, Break(x, y) PROVE NetInv'
  <1>1. /\ y \in open[x] /\ Fault("break")
        /\ open' = [open EXCEPT ![x] = @ \ {y}] /\ queue' = [queue EXCEPT ![x][y] = <<>>]
        /\ inactive' = [inactive EXCEPT ![x][y] = @ + 1, ![y][x] = @ + 1]
        /\ UNCHANGED <<net, site, keyDir, clock, floods>> /\ Rounds
    BY DEF Break
  <1>2. QueuesOK(queue')
    <2>1. QueuesOK(queue)
      BY DEF NetInv
    <2> QED BY <1>1, <2>1, OneQueue, QueueEmpty
  <1>3. EndsOK(open')
    BY <1>1 DEF NetInv, EndsOK
  <1>4. inactive' \in [Sites -> [Sites -> Nat]]
    <2>1. PICK f : f = [inactive EXCEPT ![x][y] = @ + 1]
      OBVIOUS
    <2>2. f \in [Sites -> [Sites -> Nat]]
      BY <2>1 DEF NetInv
    <2>3. PICK k \in Nat : k = inactive[y][x] + 1
      BY DEF NetInv
    <2>4. inactive' = [f EXCEPT ![y][x] = k]
      BY <1>1, <2>1, <2>3
    <2> QED BY <2>2, <2>4
  <1>5. /\ net' = net /\ SitesOK(site') /\ EndsOK(keyDir')
        /\ clock' \in [Sites -> Nat] /\ floods' \in Nat /\ faults' \in Nat
    BY <1>1 DEF NetInv, Fault
  <1> QED BY <1>1, <1>2, <1>3, <1>4, <1>5, NetNext

LEMMA CrashStep ==
  ASSUME NetInv, NEW x \in Sites, Crash(x) PROVE NetInv'
  <1>1. /\ Fault("crash") /\ site' = [site EXCEPT ![x] = StartUp(x)]
        /\ open' = [y \in Sites |-> IF y = x THEN {} ELSE open[y] \ {x}]
        /\ queue' = [y \in Sites |-> [z \in Sites |-> IF x \in {y, z} THEN <<>> ELSE queue[y][z]]]
        /\ UNCHANGED <<net, keyDir, clock, floods>> /\ Rounds
    BY DEF Crash
  <1>2. SitesOK(site')
    <2>1. SitesOK(site) /\ RouterOK(x, StartUp(x))
      BY StartUpOK DEF NetInv
    <2> QED BY <1>1, <2>1, OneSite
  <1>3. QueuesOK(queue')
    <2>1. PICK qs : qs = queue'
      OBVIOUS
    <2>2. \A u, v \in Sites : qs[u][v] = <<>> \/ qs[u][v] = queue[u][v]
      BY <1>1, <2>1
    <2>3. \A u, v \in Sites : GoodQueue(u, v, qs[u][v])
      BY <2>2, QueueEmpty DEF NetInv, QueuesOK
    <2>4. \A u, v \in Sites : qs[u][v] \in Seq(Messages)
      BY <2>3 DEF GoodQueue
    <2>5. qs = [u \in Sites |-> [v \in Sites |-> qs[u][v]]]
      BY <1>1, <2>1
    <2>6. qs \in [Sites -> [Sites -> Seq(Messages)]]
      BY <2>4, <2>5
    <2> QED BY <2>1, <2>3, <2>6 DEF QueuesOK
  <1>4. EndsOK(open')
    BY <1>1 DEF NetInv, EndsOK
  <1>5. inactive' \in [Sites -> [Sites -> Nat]]
    <2> DEFINE a(y) == IF x \in open[y] THEN 1 ELSE 0
               b(y) == IF y \in open[x] THEN 1 ELSE 0
               f(y) == [inactive[y] EXCEPT ![x] = @ + a(y) + b(y)]
    <2>1. inactive' = [y \in Sites |-> IF y = x THEN [z \in Sites |-> 0] ELSE f(y)]
      BY DEF Crash
    <2>2. \A y \in Sites : a(y) \in Nat /\ b(y) \in Nat
      OBVIOUS
    <2> HIDE DEF a, b
    <2>3. \A y \in Sites : f(y) \in [Sites -> Nat]
      BY <2>2 DEF NetInv
    <2> HIDE DEF f
    <2> QED BY <2>1, <2>3
  <1>6. /\ net' = net /\ EndsOK(keyDir') /\ clock' \in [Sites -> Nat] /\ floods' \in Nat
        /\ faults' \in Nat
    BY <1>1 DEF NetInv, Fault
  <1> QED BY <1>1, <1>2, <1>3, <1>4, <1>5, <1>6, NetNext

LEMMA KeyChangeStep ==
  ASSUME NetInv, NEW x \in Sites, NEW y \in Sites, KeyChange(x, y) PROVE NetInv'
  <1>1. /\ {x, y} \in links /\ Fault("keys")
        /\ keyDir' = [keyDir EXCEPT ![x] = IF y \in @ THEN @ \ {y} ELSE @ \cup {y}]
        /\ UNCHANGED <<net, site, open, queue, inactive, clock, floods>> /\ Rounds
    BY DEF KeyChange
  <1>2. y \in Neighbours(x)
    BY <1>1, LinkFacts DEF NetInv
  <1>3. EndsOK(keyDir')
    BY <1>1, <1>2 DEF NetInv, EndsOK
  <1>4. /\ net' = net /\ SitesOK(site') /\ QueuesOK(queue') /\ EndsOK(open')
        /\ inactive' \in [Sites -> [Sites -> Nat]]
        /\ clock' \in [Sites -> Nat] /\ floods' \in Nat
    BY <1>1 DEF NetInv
  <1>5. faults' \in Nat
    BY <1>1 DEF NetInv, Fault
  <1> QED BY <1>1, <1>3, <1>4, <1>5, NetNext

LEMMA NetStep ==
  ASSUME NetInv, [Next]_vars PROVE NetInv'
  <1>1. CASE UNCHANGED vars
    <2>1. UNCHANGED <<net, site, open, queue, inactive, keyDir, clock, rounds, begun, floods, faults>>
      BY <1>1 DEF vars
    <2> QED BY <2>1, NetNext DEF NetInv
  <1> QED BY <1>1, ConnectStep, DisconnectedStep, ReceiveStep, CheckLinkStep, BreakStep, CrashStep,
             KeyChangeStep DEF Next

LEMMA NetInvariant == Spec => []NetInv
  <1>1. NetInv /\ [Next]_vars => NetInv'
    BY NetStep
  <1> QED BY <1>1, NetInit, PTL DEF Spec

-----------------------------------------------------------------------------
(* Theorems.                                                                *)

\* The type of every variable, in every network and after any faults: timers,
\* pending connections and connections are those of configured links.
THEOREM TypeCorrect == Spec => []TypeOK
  <1>1. ASSUME NetInv PROVE TypeOK
    <2>1. \A x \in Sites :
         /\ site[x].all \in [Sites -> 0 .. MaxObj] /\ site[x].nbr \in [Sites -> 0 .. MaxObj]
         /\ site[x].stamp \in [Objs -> Nat]
         /\ site[x].conn \subseteq Objs /\ site[x].chan \subseteq Objs /\ site[x].nulls \subseteq Objs
         /\ site[x].adj \subseteq Objs \X Objs
         /\ site[x].timers \subseteq Neighbours(x) /\ site[x].pend \subseteq Neighbours(x)
      BY <1>1 DEF NetInv, SitesOK, RouterOK, Routers, Maps
    <2>2. \A x \in Sites : open[x] \subseteq Neighbours(x) /\ keyDir[x] \subseteq Neighbours(x)
      BY <1>1 DEF NetInv, EndsOK
    <2> QED BY <1>1, <2>1, <2>2 DEF NetInv, TypeOK
  <1> QED BY <1>1, NetInvariant, PTL

\* In every network and after any faults, late and repeated messages included,
\* a site's topology shows configured links only and it floods to configured
\* neighbours only.
THEOREM OnlyConfiguredLinks == Spec => []LinksConfigured
  <1>1. NetInv => LinksConfigured
    BY DEF NetInv, SitesOK, RouterOK, LinksConfigured
  <1> QED BY <1>1, NetInvariant, PTL

\* In every network: a copy of a flood makes fewer hops than there are sites,
\* unless the network has a cycle that does not pass the flood's originator.
THEOREM FloodsEnd == Spec => []FloodsDieOut
  <1>1. ASSUME NetInv PROVE FloodsDieOut
    <2> SUFFICES ASSUME NEW x \in Sites, NEW y \in Sites, NEW i \in 1 .. Len(queue[x][y]),
                        queue[x][y][i].hops >= Cardinality(Sites)
                 PROVE  CycleAvoids(queue[x][y][i].orig)
      BY DEF FloodsDieOut
    <2>1. PICK m : m = queue[x][y][i]
      OBVIOUS
    <2>2. MsgWay(x, y, m) /\ MsgOK(m)
      BY <1>1, <2>1 DEF NetInv, QueuesOK, GoodQueue, GoodMsg
    <2>3. m.orig \in Sites /\ m.hops \in Nat
      BY <2>2 DEF MsgOK, Messages
    <2>4. ASSUME NEW p \in Seq(Sites), IsPath(p, m.orig), Len(p) = m.hops PROVE FALSE
      <3>1. Len(p) < Cardinality(Sites) /\ Cardinality(Sites) \in Nat
        BY <2>3, <2>4, PathLength
      <3> QED BY <2>1, <2>3, <2>4, <3>1
    <2> QED BY <2>1, <2>2, <2>4 DEF MsgWay
  <1> QED BY <1>1, NetInvariant, PTL

=============================================================================
