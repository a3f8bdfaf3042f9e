------------------------- MODULE LSRPHealing_proofs -------------------------
(***************************************************************************)
(* Proof that the routing heals: in every joined network, whatever has     *)
(* failed before, two rounds of floods after the network has become calm,  *)
(* with no null neighbour left in a Node, every site has the true          *)
(* topology, and that a calm network stays calm.                           *)
(* A network in which two neighbours have forgotten each other never       *)
(* becomes calm without a restart: they stay strangers (last part).        *)
(*                                                                         *)
(* The argument: in a calm network messages are complete, so nothing that  *)
(* a router has is removed, and a flood reaches every site, because a site *)
(* that has had it has passed it on (PassedOn).  A time stamp that is new  *)
(* since the round began is only on Nodes whose flood has been taken in as *)
(* an update (AllLearnt).  The first round so puts every site into         *)
(* allNodes (a site's only neighbour cannot have lost it: LeafOK); from    *)
(* then on its Node stays the same, and the second round links the Nodes.  *)
(***************************************************************************)
EXTENDS LSRP_proofs

\* The messages in a queue.
Copies(q) == {q[i] : i \in 1 .. Len(q)}

\* Time stamps are of floods that were made, with clocks ck: those of Nodes and
\* those of messages.
StampsOK(s, ck) == \A o \in Objs : s.stamp[o] <= ck[Name(o)]

TimesOK(st, qs, ck) ==
    /\ \A x \in Sites : StampsOK(st[x], ck)
    /\ \A x, y \in Sites : \A m \in Copies(qs[x][y]) : m.stamp <= ck[m.orig]

\* A site that x has no Node for in allNodes has a neighbour other than x that
\* will name it, unless it is no neighbour of x now.
LeafOK(x, s) ==
    \A b \in Sites : s.all[b] = None =>
      \/ \E c \in Sites \ {x} : b \in Neighbours(c)
      \/ b # x /\ s.nbr[b] = None

BaseOK(st, qs, ck) == TimesOK(st, qs, ck) /\ \A x \in Sites : LeafOK(x, st[x])

\* Since the clocks stood at bg: a message of a flood, and a router that has had
\* one of a.
Fresh(m, bg) == m.stamp > bg[m.orig]
Heard(s, a, bg) == \E o \in Known(s, a) : s.stamp[o] > bg[a]

\* The site u has had, or has itself sent, a flood of a.
Has(st, ck, bg, u, a) == IF u = a THEN ck[a] > bg[a] ELSE Heard(st[u], a, bg)

\* The Nodes of a and b in allNodes are linked, both ways.
Linked(s, a, b) ==
    /\ s.all[a] # None /\ s.all[b] # None
    /\ <<InMap(s.all, a), InMap(s.all, b)>> \in s.adj
    /\ <<InMap(s.all, b), InMap(s.all, a)>> \in s.adj

Whole(s) == \A b \in Sites : s.all[b] # None
LinkedAs(s, a) == \A b \in Neighbours(a) : Linked(s, a, b)

\* What a router has learnt of a flood of a in the first and in later rounds.
Learnt(s, a, rd) ==
    /\ \A b \in Neighbours(a) : s.all[b] # None
    /\ rd >= 2 => LinkedAs(s, a)

FullQueues(qs) ==
    \A x, y \in Sites : \A m \in Copies(qs[x][y]) : m.nbrs = Neighbours(m.orig)

\* A site passes on only what it has had.
SendersHave(st, qs, ck, bg) ==
    \A x, y \in Sites : \A m \in Copies(qs[x][y]) : Fresh(m, bg) => Has(st, ck, bg, x, m.orig)

\* What a site has, its neighbours have or are about to get.
PassedOn(st, qs, ck, bg) ==
    \A a, u \in Sites : \A v \in Neighbours(u) \ {a} :
      Has(st, ck, bg, u, a) =>
        Heard(st[v], a, bg) \/ \E m \in Copies(qs[u][v]) : m.orig = a /\ Fresh(m, bg)

AllLearnt(st, bg, rd) ==
    \A x, a \in Sites : x # a /\ Heard(st[x], a, bg) => Learnt(st[x], a, rd)

\* The rounds before the current one, rd, have left their mark.
RoundsDone(st, rd) ==
    /\ rd >= 2 => \A x \in Sites : Whole(st[x])
    /\ rd >= 3 => \A x, a \in Sites : x # a => LinkedAs(st[x], a)

RoundOK(st, qs, ck, bg, rd) ==
    /\ FullQueues(qs) /\ SendersHave(st, qs, ck, bg) /\ PassedOn(st, qs, ck, bg)
    /\ AllLearnt(st, bg, rd) /\ RoundsDone(st, rd)

HealInv ==
    /\ NetInv /\ BaseOK(site, queue, clock)
    /\ Joined /\ rounds >= 1 => Calm /\ NoNulls /\ RoundOK(site, queue, clock, begun, rounds)

-----------------------------------------------------------------------------
(* Queues.                                                                  *)

LEMMA CopiesEmpty == Copies(<<>>) = {}
  BY EmptySeq DEF Copies

LEMMA CopiesAppend ==
  ASSUME NEW q \in Seq(Messages), NEW m \in Messages
  PROVE  Copies(Append(q, m)) = Copies(q) \cup {m}
  <1>1. PICK n \in Nat : n = Len(q)
    BY LenProperties
  <1>2. PICK r : /\ r = Append(q, m) /\ Len(r) = n + 1 /\ r[n + 1] = m
                 /\ \A i \in 1 .. n : r[i] = q[i]
    <2>1. /\ Len(Append(q, m)) = Len(q) + 1 /\ Append(q, m)[Len(q) + 1] = m
          /\ \A i \in 1 .. Len(q) : Append(q, m)[i] = q[i]
      BY AppendProperties
    <2> QED BY <1>1, <2>1, Zenon
  <1>3. \A i \in 1 .. n + 1 : i = n + 1 \/ i \in 1 .. n
    OBVIOUS
  <1>4. (n + 1) \in 1 .. n + 1 /\ \A i \in 1 .. n : i \in 1 .. n + 1
    OBVIOUS
  <1> QED BY <1>1, <1>2, <1>3, <1>4 DEF Copies

LEMMA CopiesTail ==
  ASSUME NEW q \in Seq(Messages), q # <<>>
  PROVE  /\ Head(q) \in Copies(q) /\ Copies(Tail(q)) \subseteq Copies(q)
         /\ Copies(q) \subseteq Copies(Tail(q)) \cup {Head(q)}
  <1>1. PICK n \in Nat \ {0} : n = Len(q)
    BY EmptySeq, LenProperties
  <1>2. PICK r : /\ r = Tail(q) /\ Len(r) = n - 1
                 /\ \A i \in 1 .. n - 1 : r[i] = q[i + 1]
    <2>1. /\ Len(Tail(q)) = Len(q) - 1
          /\ \A i \in 1 .. Len(Tail(q)) : Tail(q)[i] = q[i + 1]
      BY HeadTailProperties
    <2> QED BY <1>1, <2>1
  <1>3. Head(q) = q[1]
    OBVIOUS
  <1>4. \A i \in 1 .. n - 1 : i + 1 \in 1 .. n
    OBVIOUS
  <1>5. \A i \in 1 .. n : i = 1 \/ (i - 1 \in 1 .. n - 1 /\ (i - 1) + 1 = i)
    OBVIOUS
  <1>6. Copies(r) \subseteq Copies(q)
    BY <1>1, <1>2, <1>4 DEF Copies
  <1>7. Copies(q) \subseteq Copies(r) \cup {Head(q)}
    <2> SUFFICES ASSUME NEW i \in 1 .. n, i # 1 PROVE q[i] \in Copies(r)
      BY <1>1, <1>3 DEF Copies
    <2>1. i - 1 \in 1 .. n - 1 /\ r[i - 1] = q[i]
      BY <1>2, <1>5
    <2> QED BY <1>2, <2>1 DEF Copies
  <1> QED BY <1>1, <1>2, <1>3, <1>6, <1>7 DEF Copies

-----------------------------------------------------------------------------
(* Routers.                                                                 *)

\* The Nodes of a name in the two maps.
LEMMA KnownFacts ==
  ASSUME NEW s \in Routers, NEW a \in Sites
  PROVE  /\ s.nbr[a] # None => InMap(s.nbr, a) \in Known(s, a)
         /\ s.all[a] # None => InMap(s.all, a) \in Known(s, a)
         /\ \A o \in Known(s, a) : /\ o \in Objs /\ Name(o) = a /\ o \in InMaps(s)
                                   /\ \/ s.nbr[a] # None /\ o = InMap(s.nbr, a)
                                      \/ s.all[a] # None /\ o = InMap(s.all, a)
  <1>1. s.all \in Maps /\ s.nbr \in Maps
    BY DEF Routers
  <1>2. InMap(s.nbr, a)[2] = s.nbr[a] /\ InMap(s.all, a)[2] = s.all[a]
    BY DEF InMap
  <1>3. /\ s.nbr[a] # None => InMap(s.nbr, a) \in Known(s, a)
        /\ s.all[a] # None => InMap(s.all, a) \in Known(s, a)
    BY <1>2 DEF Known
  <1>4. ASSUME NEW o \in Known(s, a)
        PROVE  /\ o \in Objs /\ Name(o) = a /\ o \in InMaps(s)
               /\ \/ s.nbr[a] # None /\ o = InMap(s.nbr, a)
                  \/ s.all[a] # None /\ o = InMap(s.all, a)
    <2>1. \/ s.nbr[a] # None /\ o = InMap(s.nbr, a)
          \/ s.all[a] # None /\ o = InMap(s.all, a)
      BY <1>2 DEF Known
    <2>2. o \in Objs /\ Name(o) = a
      BY <1>1, <2>1, InMapFacts
    <2>3. o \in InMaps(s)
      BY <1>2, <2>1, <2>2 DEF InMaps
    <2> QED BY <2>1, <2>2, <2>3
  <1> QED BY <1>3, <1>4

LEMMA KnownCases ==
  \A s \in Routers : \A a \in Sites : \A o \in Known(s, a) :
    \/ s.nbr[a] # None /\ o = InMap(s.nbr, a)
    \/ s.all[a] # None /\ o = InMap(s.all, a)
  BY KnownFacts

\* Nothing that a map names is garbage.
LEMMA CollectKeeps ==
  ASSUME NEW s \in Routers, NEW c, c = Collect(s)
  PROVE  /\ c.all = s.all /\ c.nbr = s.nbr /\ c.pend = s.pend /\ c.timers = s.timers
         /\ c.nulls \subseteq s.nulls
         /\ \A o \in Objs : c.stamp[o] \in Nat /\ c.stamp[o] <= s.stamp[o]
         /\ \A o \in InMaps(s) : /\ c.stamp[o] = s.stamp[o]
                                 /\ o \in s.conn => o \in c.conn
                                 /\ o \in s.chan => o \in c.chan
         /\ \A o, p \in InMaps(s) : <<o, p>> \in s.adj => <<o, p>> \in c.adj
  <1>1. PICK live : live = Live(s)
    OBVIOUS
  <1> DEFINE st == [o \in Objs |-> IF o \in live THEN s.stamp[o] ELSE 0]
             ad == {l \in s.adj : l[1] \in live /\ l[2] \in live}
             d == [s EXCEPT !.stamp = st, !.conn = s.conn \cap live, !.chan = s.chan \cap live,
                            !.nulls = s.nulls \cap live, !.adj = ad]
  <1>2. c = d
    BY <1>1 DEF Collect
  <1>3. InMaps(s) \subseteq live /\ InMaps(s) \subseteq Objs
    BY <1>1 DEF Live, InMaps
  <1>4. s.stamp \in [Objs -> Nat]
    BY DEF Routers
  <1>5. \A o \in Objs : st[o] \in Nat /\ st[o] <= s.stamp[o] /\ (o \in live => st[o] = s.stamp[o])
    BY <1>4
  <1>6. \A o, p \in live : <<o, p>> \in s.adj => <<o, p>> \in ad
    OBVIOUS
  <1> HIDE DEF st, ad
  <1>7. /\ d.all = s.all /\ d.nbr = s.nbr /\ d.pend = s.pend /\ d.timers = s.timers
        /\ d.nulls = s.nulls \cap live
        /\ d.stamp = st /\ d.conn = s.conn \cap live /\ d.chan = s.chan \cap live /\ d.adj = ad
    BY DEF Routers
  <1> HIDE DEF d
  <1> QED BY <1>2, <1>3, <1>5, <1>6, <1>7

LEMMA CollectSame ==
  ASSUME NEW x \in Sites, NEW s, RouterOK(x, s), NEW c, c = Collect(s)
  PROVE  /\ \A bg : \A a \in Sites : Heard(c, a, bg) <=> Heard(s, a, bg)
         /\ \A a, b \in Sites : Linked(s, a, b) => Linked(c, a, b)
         /\ \A ck : StampsOK(s, ck) /\ ck \in [Sites -> Nat] => StampsOK(c, ck)
         /\ LeafOK(x, s) => LeafOK(x, c)
  <1>1. s \in Routers /\ c \in Routers
    BY CollectOK DEF RouterOK
  <1>2. c.all = s.all /\ c.nbr = s.nbr
    BY <1>1, CollectKeeps
  <1>3. \A bg : \A a \in Sites : Heard(c, a, bg) <=> Heard(s, a, bg)
    <2>1. \A a \in Sites : Known(c, a) = Known(s, a)
      BY <1>2 DEF Known
    <2>2. \A a \in Sites : \A o \in Known(s, a) : c.stamp[o] = s.stamp[o]
      BY <1>1, CollectKeeps, KnownFacts
    <2> QED BY <2>1, <2>2 DEF Heard
  <1>4. \A a, b \in Sites : Linked(s, a, b) => Linked(c, a, b)
    <2> SUFFICES ASSUME NEW a \in Sites, NEW b \in Sites, Linked(s, a, b) PROVE Linked(c, a, b)
      OBVIOUS
    <2>1. PICK o, p : o = InMap(s.all, a) /\ p = InMap(s.all, b)
      OBVIOUS
    <2>2. o \in InMaps(s) /\ p \in InMaps(s)
      BY <1>1, <2>1, KnownFacts DEF Linked
    <2>3. <<o, p>> \in s.adj /\ <<p, o>> \in s.adj
      BY <2>1 DEF Linked
    <2>4. <<o, p>> \in c.adj /\ <<p, o>> \in c.adj
      BY <1>1, <2>2, <2>3, CollectKeeps
    <2> QED BY <1>2, <2>1, <2>4 DEF Linked
  <1>5. ASSUME NEW ck \in [Sites -> Nat], StampsOK(s, ck) PROVE StampsOK(c, ck)
    <2> SUFFICES ASSUME NEW o \in Objs PROVE c.stamp[o] <= ck[Name(o)]
      BY DEF StampsOK
    <2>1. c.stamp[o] \in Nat /\ c.stamp[o] <= s.stamp[o] /\ s.stamp[o] \in Nat
      BY <1>1, CollectKeeps DEF Routers
    <2>2. s.stamp[o] <= ck[Name(o)] /\ ck[Name(o)] \in Nat
      BY <1>5, ObjFacts DEF StampsOK
    <2> QED BY <2>1, <2>2
  <1>6. LeafOK(x, s) => LeafOK(x, c)
    BY <1>2 DEF LeafOK
  <1> QED BY <1>3, <1>4, <1>5, <1>6

-----------------------------------------------------------------------------
(* onLSRP, part by part.                                                    *)

\* A new object has no time stamp yet.
LEMMA NewObjStamp ==
  ASSUME NEW s \in Routers, NEW y \in Sites, CanMake(s, y)
  PROVE  /\ NewObj(s, y) \in 1 .. MaxObj /\ NewObj(s, y) # None
         /\ s.stamp[<<y, NewObj(s, y)>>] = 0
  <1>1. PICK k \in 1 .. MaxObj : k = NewObj(s, y) /\ <<y, k>> \notin Used(s)
    BY NewObjFacts
  <1>2. <<y, k>> \in Objs
    BY ObjFacts
  <1>3. s.stamp[<<y, k>>] = 0
    BY <1>1, <1>2 DEF Used
  <1>4. k # None
    BY BoundAssumption DEF None
  <1> QED BY <1>1, <1>3, <1>4

\* The originator a's Nodes get the time stamp of the message m, unless they
\* have a later one.
StampTaken(s, m, a, r) ==
    /\ r.nbr = s.nbr /\ r.adj = s.adj
    /\ r.conn = s.conn /\ r.chan = s.chan /\ r.nulls = s.nulls /\ r.timers = s.timers /\ r.pend = s.pend
    /\ \A z \in Sites : z # a \/ Known(s, a) # {} => r.all[z] = s.all[z]
    /\ Known(s, a) = {} => r.all[a] # None /\ s.stamp[InMap(r.all, a)] = 0
    /\ \A o \in Objs : \/ r.stamp[o] = s.stamp[o]
                       \/ Name(o) = a /\ m.stamp > s.stamp[o] /\ r.stamp[o] = m.stamp
    /\ \A o \in Known(r, a) : o \in Objs /\ r.stamp[o] >= m.stamp

LEMMA OriginatorEffect ==
  ASSUME NEW x \in Sites, NEW s, RouterOK(x, s), NEW m, MsgOK(m), NEW a, a = m.orig,
         s.all[a] = None => CanMake(s, a), NEW r, r = Originator(s, m)
  PROVE  StampTaken(s, m, a, r)
  <1>1. s \in Routers /\ a \in Sites /\ m.stamp \in Nat
    BY DEF RouterOK, MsgOK, Messages
  <1>2. PICK old : old = Known(s, a)
    OBVIOUS
  <1>3. PICK k : k = IF s.all[a] # None THEN s.all[a] ELSE IF s.nbr[a] # None THEN s.nbr[a] ELSE NewObj(s, a)
    OBVIOUS
  <1>4. \A o \in old : o \in Objs /\ Name(o) = a
    BY <1>1, <1>2, KnownFacts
  <1>5. old = {} => s.all[a] = None /\ s.nbr[a] = None
    BY <1>1, <1>2, KnownFacts
  <1>6. k \in 1 .. MaxObj /\ k # None /\ <<a, k>> \in Objs /\ Name(<<a, k>>) = a
    <2>1. s.all[a] \in 0 .. MaxObj /\ s.nbr[a] \in 0 .. MaxObj
      BY <1>1 DEF Routers, Maps
    <2>2. s.all[a] = None => NewObj(s, a) \in 1 .. MaxObj
      BY <1>1, NewObjStamp
    <2>3. k \in 1 .. MaxObj
      BY <1>3, <2>1, <2>2, BoundAssumption DEF None
    <2>4. k # None
      BY <2>3, BoundAssumption DEF None
    <2> QED BY <1>1, <2>3, <2>4, ObjFacts
  <1>7. old = {} => s.stamp[<<a, k>>] = 0
    BY <1>1, <1>3, <1>5, NewObjStamp
  <1> DEFINE al == [s.all EXCEPT ![a] = IF old = {} THEN k ELSE @]
             st == [o \in Objs |-> IF o \in old \cup {<<a, k>>} /\ m.stamp > s.stamp[o]
                                   THEN m.stamp ELSE s.stamp[o]]
             d == [s EXCEPT !.all = al, !.stamp = st]
  <1>8. r = d
    BY <1>2, <1>3 DEF Originator
  <1>9. al[a] = (IF old = {} THEN k ELSE s.all[a]) /\ \A z \in Sites \ {a} : al[z] = s.all[z]
    BY <1>1 DEF Routers, Maps
  <1>10. \A o \in Objs : st[o] = IF o \in old \cup {<<a, k>>} /\ m.stamp > s.stamp[o]
                                 THEN m.stamp ELSE s.stamp[o]
    OBVIOUS
  <1> HIDE DEF al, st
  <1>11. /\ d.all = al /\ d.stamp = st /\ d.nbr = s.nbr /\ d.adj = s.adj
         /\ d.conn = s.conn /\ d.chan = s.chan /\ d.nulls = s.nulls /\ d.timers = s.timers /\ d.pend = s.pend
    BY <1>1 DEF Routers
  <1> HIDE DEF d
  <1>12. \A z \in Sites : z # a \/ old # {} => r.all[z] = s.all[z]
    BY <1>8, <1>9, <1>11
  <1>13. old = {} => r.all[a] # None /\ s.stamp[InMap(r.all, a)] = 0
    BY <1>6, <1>7, <1>8, <1>9, <1>11 DEF InMap
  <1>14. \A o \in Objs : \/ r.stamp[o] = s.stamp[o]
                         \/ Name(o) = a /\ m.stamp > s.stamp[o] /\ r.stamp[o] = m.stamp
    BY <1>4, <1>6, <1>8, <1>10, <1>11
  <1>15. ASSUME NEW o \in Known(r, a) PROVE o \in Objs /\ r.stamp[o] >= m.stamp
    <2>0. RouterOK(x, r)
      BY OriginatorOK
    <2>1. r \in Routers
      BY <2>0 DEF RouterOK
    <2>2. /\ o \in Objs
          /\ \/ r.nbr[a] # None /\ o = InMap(r.nbr, a)
             \/ r.all[a] # None /\ o = InMap(r.all, a)
      <3>1. \A q \in Routers : \A p \in Known(q, a) :
              /\ p \in Objs
              /\ \/ q.nbr[a] # None /\ p = InMap(q.nbr, a)
                 \/ q.all[a] # None /\ p = InMap(q.all, a)
        BY <1>1, KnownFacts
      <3> QED BY <2>1, <3>1
    <2>3. o \in old \cup {<<a, k>>}
      <3>1. CASE o = InMap(r.nbr, a) /\ r.nbr[a] # None
        BY <1>1, <1>2, <1>8, <1>11, <3>1, KnownFacts
      <3>2. CASE o = InMap(r.all, a) /\ r.all[a] # None /\ old # {}
        <4>1. r.all[a] = s.all[a] /\ o = InMap(s.all, a)
          BY <1>1, <1>12, <3>2 DEF InMap
        <4> QED BY <1>1, <1>2, <3>2, <4>1, KnownFacts
      <3>3. CASE o = InMap(r.all, a) /\ old = {}
        BY <1>8, <1>9, <1>11, <3>3 DEF InMap
      <3> QED BY <2>2, <3>1, <3>2, <3>3
    <2>4. s.stamp[o] \in Nat
      BY <1>1, <2>2 DEF Routers
    <2> QED BY <1>1, <1>8, <1>10, <1>11, <2>2, <2>3, <2>4
  <1> QED BY <1>2, <1>8, <1>11, <1>12, <1>13, <1>14, <1>15 DEF StampTaken

LEMMA InsertEffect ==
  ASSUME NEW s \in Routers, NEW m, m.nbrs \subseteq Sites,
         \A z \in m.nbrs : s.all[z] = None => CanMake(s, z), NEW r, r = Insert(s, m)
  PROVE  /\ r.nbr = s.nbr /\ r.adj = s.adj /\ r.stamp = s.stamp
         /\ r.conn = s.conn /\ r.chan = s.chan /\ r.nulls = s.nulls /\ r.timers = s.timers /\ r.pend = s.pend
         /\ \A z \in Sites : s.all[z] # None \/ z \notin m.nbrs => r.all[z] = s.all[z]
         /\ \A z \in m.nbrs : r.all[z] # None
         /\ \A z \in m.nbrs : s.all[z] = None => s.stamp[InMap(r.all, z)] = 0
  <1> DEFINE al == [y \in Sites |-> IF y \in m.nbrs /\ s.all[y] = None THEN NewObj(s, y) ELSE s.all[y]]
             d == [s EXCEPT !.all = al]
  <1>1. r = d
    BY DEF Insert
  <1>2. \A z \in Sites : al[z] = IF z \in m.nbrs /\ s.all[z] = None THEN NewObj(s, z) ELSE s.all[z]
    OBVIOUS
  <1> HIDE DEF al
  <1>3. /\ d.all = al /\ d.nbr = s.nbr /\ d.adj = s.adj /\ d.stamp = s.stamp
        /\ d.conn = s.conn /\ d.chan = s.chan /\ d.nulls = s.nulls /\ d.timers = s.timers /\ d.pend = s.pend
    BY DEF Routers
  <1> HIDE DEF d
  <1>4. \A z \in m.nbrs : s.all[z] = None => /\ NewObj(s, z) # None
                                             /\ s.stamp[<<z, NewObj(s, z)>>] = 0
    BY NewObjStamp
  <1>5. \A z \in m.nbrs : r.all[z] # None
    BY <1>1, <1>2, <1>3, <1>4
  <1>6. \A z \in m.nbrs : s.all[z] = None => s.stamp[InMap(r.all, z)] = 0
    BY <1>1, <1>2, <1>3, <1>4 DEF InMap
  <1> QED BY <1>1, <1>2, <1>3, <1>5, <1>6

\* A neighbour that is known as one is not added again.
LEMMA ReAddEffect ==
  ASSUME NEW s \in Routers, NEW x, NEW y, NEW m, NEW o, m.orig \in Sites,
         NEW r, r = ReAdd(s, x, y, m, o)
  PROVE  /\ r.all = s.all /\ r.adj = s.adj /\ r.stamp = s.stamp
         /\ r.conn = s.conn /\ r.chan = s.chan /\ r.nulls = s.nulls /\ r.timers = s.timers
         /\ \A z \in Sites \ {m.orig} : r.nbr[z] = s.nbr[z]
         /\ ~ FromNeighbour(x, y, m) \/ s.nbr[m.orig] # None => r = s
  <1>1. CASE ~ FromNeighbour(x, y, m) \/ s.nbr[m.orig] # None
    BY <1>1 DEF ReAdd
  <1>2. CASE FromNeighbour(x, y, m) /\ s.nbr[m.orig] = None
    <2>1. PICK pe : pe = (IF o \in s.conn THEN s.pend ELSE s.pend \cup {m.orig})
      OBVIOUS
    <2>2. PICK nr : nr = [s.nbr EXCEPT ![m.orig] = o[2]]
      OBVIOUS
    <2>3. r = [s EXCEPT !.nbr = nr, !.pend = pe]
      BY <1>2, <2>1, <2>2 DEF ReAdd
    <2>4. \A z \in Sites \ {m.orig} : nr[z] = s.nbr[z]
      BY <2>2 DEF Routers, Maps
    <2>5. /\ r.all = s.all /\ r.adj = s.adj /\ r.stamp = s.stamp /\ r.nbr = nr
          /\ r.conn = s.conn /\ r.chan = s.chan /\ r.nulls = s.nulls /\ r.timers = s.timers
      BY <2>3 DEF Routers
    <2> QED BY <1>2, <2>4, <2>5
  <1> QED BY <1>1, <1>2

\* A Node leaves allNodes only when the originator no longer lists it.
LEMMA RemoveEffect ==
  ASSUME NEW x \in Sites, NEW s, RouterOK(x, s), NEW m, NEW o, NEW r, r = Remove(s, m, o)
  PROVE  /\ r.nbr = s.nbr /\ r.stamp = s.stamp
         /\ r.conn = s.conn /\ r.chan = s.chan /\ r.nulls = s.nulls /\ r.timers = s.timers /\ r.pend = s.pend
         /\ \A b \in Sites : r.all[b] = s.all[b] \/ {Name(o), b} \in links
         /\ (\A b \in Sites : {Name(o), b} \in links => b \in m.nbrs) => r.all = s.all /\ r.adj = s.adj
  <1>1. s \in Routers /\ s.all \in Maps /\ s.adj \subseteq Objs \X Objs
    BY DEF RouterOK, Routers
  <1>2. PICK gone : gone = {n \in Objs : <<o, n>> \in s.adj /\ Name(n) \notin m.nbrs}
    OBVIOUS
  <1>3. PICK ad : ad = {l \in s.adj : ~(l[1] = o /\ l[2] \in gone) /\ ~(l[2] = o /\ l[1] \in gone)}
    OBVIOUS
  <1>4. PICK bare : bare = {n \in gone \ s.nulls : ~\E l \in ad : l[1] = n}
    OBVIOUS
  <1> DEFINE al == [y \in Sites |-> IF \E n \in bare : Name(n) = y THEN None ELSE s.all[y]]
             d == [s EXCEPT !.adj = ad, !.all = al]
  <1>5. r = d
    BY <1>2, <1>3, <1>4 DEF Remove
  <1>6. \A n \in gone : {Name(o), Name(n)} \in links /\ Name(n) \in Sites /\ Name(n) \notin m.nbrs
    <2> SUFFICES ASSUME NEW n \in gone
                 PROVE  {Name(o), Name(n)} \in links /\ Name(n) \in Sites /\ Name(n) \notin m.nbrs
      OBVIOUS
    <2>1. <<o, n>> \in s.adj /\ n \in Objs /\ Name(n) \notin m.nbrs
      BY <1>2
    <2>2. {Name(<<o, n>>[1]), Name(<<o, n>>[2])} \in links
      BY <2>1 DEF RouterOK
    <2> QED BY <2>1, <2>2, ObjFacts
  <1>7. \A b \in Sites : al[b] = s.all[b] \/ {Name(o), b} \in links
    BY <1>4, <1>6
  <1>8. gone = {} => al = s.all /\ ad = s.adj
    <2>1. gone = {} => bare = {} /\ ad = s.adj
      BY <1>3, <1>4
    <2>2. bare = {} => al = s.all
      BY <1>1 DEF Maps
    <2> QED BY <2>1, <2>2
  <1> HIDE DEF al
  <1>9. /\ d.nbr = s.nbr /\ d.stamp = s.stamp /\ d.adj = ad /\ d.all = al
        /\ d.conn = s.conn /\ d.chan = s.chan /\ d.nulls = s.nulls /\ d.timers = s.timers /\ d.pend = s.pend
    BY <1>1 DEF Routers
  <1> HIDE DEF d
  <1>10. (\A b \in Sites : {Name(o), b} \in links => b \in m.nbrs) => gone = {}
    BY <1>6
  <1> QED BY <1>5, <1>7, <1>8, <1>9, <1>10

LEMMA RelinkEffect ==
  ASSUME NEW s \in Routers, NEW m, NEW o, NEW r, r = Relink(s, m, o)
  PROVE  /\ r.nbr = s.nbr /\ r.all = s.all /\ r.stamp = s.stamp
         /\ r.conn = s.conn /\ r.chan = s.chan /\ r.nulls = s.nulls /\ r.timers = s.timers /\ r.pend = s.pend
         /\ \A l \in s.adj : l[1] # o => l \in r.adj
         /\ \A b \in m.nbrs : s.all[b] # None => /\ <<o, InMap(s.all, b)>> \in r.adj
                                                 /\ <<InMap(s.all, b), o>> \in r.adj
  <1>1. PICK to : to = {InMap(s.all, y) : y \in {z \in m.nbrs : s.all[z] # None}}
    OBVIOUS
  <1>2. PICK ad : ad = {l \in s.adj : l[1] # o} \cup {<<o, n>> : n \in to} \cup {<<n, o>> : n \in to}
    OBVIOUS
  <1>3. r = [s EXCEPT !.adj = ad]
    BY <1>1, <1>2 DEF Relink
  <1>4. /\ r.nbr = s.nbr /\ r.all = s.all /\ r.stamp = s.stamp /\ r.adj = ad
        /\ r.conn = s.conn /\ r.chan = s.chan /\ r.nulls = s.nulls /\ r.timers = s.timers /\ r.pend = s.pend
    BY <1>3 DEF Routers
  <1>5. \A b \in m.nbrs : s.all[b] # None => InMap(s.all, b) \in to
    BY <1>1
  <1>6. \A n \in to : <<o, n>> \in ad /\ <<n, o>> \in ad
    BY <1>2
  <1>7. \A l \in s.adj : l[1] # o => l \in ad
    BY <1>2
  <1> QED BY <1>4, <1>5, <1>6, <1>7

\* The parts of onLSRP, one after the other.
LEMMA LearnParts ==
  ASSUME net \in Networks, NEW x \in Sites, NEW s, RouterOK(x, s), NEW y \in Sites,
         {y, x} \in links, NEW m, MsgOK(m),
         \A z \in m.nbrs \cup {m.orig} : s.all[z] = None => CanMake(s, z),
         NEW s1, s1 = Originator(s, m), NEW o, o = OriginatorObj(s1, m.orig),
         NEW s2, s2 = Insert(s1, m), NEW s3, s3 = ReAdd(s2, x, y, m, o),
         NEW s4, s4 = Remove(s3, m, o), NEW s5, s5 = Relink(s4, m, o)
  PROVE  /\ RouterOK(x, s1) /\ RouterOK(x, s2) /\ RouterOK(x, s3) /\ RouterOK(x, s4) /\ RouterOK(x, s5)
         /\ o \in Objs /\ Name(o) = m.orig
         /\ m.orig \in Sites /\ m.nbrs \subseteq Sites /\ m.orig \notin m.nbrs
         /\ \A z \in m.nbrs : s1.all[z] = None => CanMake(s1, z)
         /\ Learn(s, x, y, m) = IF ~Update(s, m) THEN s1 ELSE IF o \in s.nulls THEN s3 ELSE s5
  <1>0. m.orig \in Sites /\ m.nbrs \subseteq Sites /\ m.orig \notin m.nbrs
    BY LinkFacts DEF MsgOK, Messages
  <1>1. /\ RouterOK(x, s1) /\ o \in Objs /\ Name(o) = m.orig
        /\ \A z \in Sites \ {m.orig} : s1.all[z] = s.all[z] /\ (CanMake(s, z) => CanMake(s1, z))
    BY OriginatorOK
  <1>2. \A z \in m.nbrs : s1.all[z] = None => CanMake(s1, z)
    BY <1>0, <1>1
  <1>3. RouterOK(x, s2)
    BY <1>1, <1>2, InsertOK
  <1>4. RouterOK(x, s3)
    BY <1>1, <1>3, ReAddOK
  <1>5. RouterOK(x, s4)
    BY <1>4, RemoveOK
  <1>6. RouterOK(x, s5)
    BY <1>1, <1>5, RelinkOK
  <1>7. Learn(s, x, y, m) = IF ~Update(s, m) THEN s1 ELSE IF o \in s.nulls THEN s3 ELSE s5
    BY DEF Learn
  <1> QED BY <1>0, <1>1, <1>2, <1>3, <1>4, <1>5, <1>6, <1>7

\* The time stamps after a message are those before it and that of the message.
LEMMA LearnStamps ==
  ASSUME net \in Networks, NEW x \in Sites, NEW s, RouterOK(x, s), NEW y \in Sites,
         {y, x} \in links, NEW m, MsgOK(m),
         \A z \in m.nbrs \cup {m.orig} : s.all[z] = None => CanMake(s, z),
         NEW ck \in [Sites -> Nat], StampsOK(s, ck), m.stamp <= ck[m.orig]
  PROVE  StampsOK(Learn(s, x, y, m), ck)
  <1>1. PICK s1 : s1 = Originator(s, m)
    OBVIOUS
  <1>2. PICK o : o = OriginatorObj(s1, m.orig)
    OBVIOUS
  <1>3. PICK s2 : s2 = Insert(s1, m)
    OBVIOUS
  <1>4. PICK s3 : s3 = ReAdd(s2, x, y, m, o)
    OBVIOUS
  <1>5. PICK s4 : s4 = Remove(s3, m, o)
    OBVIOUS
  <1>6. PICK s5 : s5 = Relink(s4, m, o)
    OBVIOUS
  <1>7. /\ RouterOK(x, s1) /\ RouterOK(x, s2) /\ RouterOK(x, s3) /\ RouterOK(x, s4)
        /\ m.orig \in Sites /\ m.nbrs \subseteq Sites /\ \A z \in m.nbrs : s1.all[z] = None => CanMake(s1, z)
        /\ Learn(s, x, y, m) = IF ~Update(s, m) THEN s1 ELSE IF o \in s.nulls THEN s3 ELSE s5
    BY <1>1, <1>2, <1>3, <1>4, <1>5, <1>6, LearnParts
  <1>8. s1 \in Routers /\ s2 \in Routers /\ s3 \in Routers /\ s4 \in Routers
    BY <1>7 DEF RouterOK
  <1>9. s2.stamp = s1.stamp
    BY <1>3, <1>7, <1>8, InsertEffect
  <1>10. s3.stamp = s2.stamp
    BY <1>4, <1>7, <1>8, ReAddEffect
  <1>11. s4.stamp = s3.stamp
    BY <1>5, <1>7, RemoveEffect
  <1>12. s5.stamp = s4.stamp
    BY <1>6, <1>8, RelinkEffect
  <1>13. StampsOK(s1, ck)
    <2>1. \A p \in Objs : s1.stamp[p] = s.stamp[p] \/ (Name(p) = m.orig /\ s1.stamp[p] = m.stamp)
      <3>1. StampTaken(s, m, m.orig, s1)
        BY <1>1, OriginatorEffect
      <3> QED BY <3>1 DEF StampTaken
    <2> QED BY <2>1 DEF StampsOK
  <1> QED BY <1>7, <1>9, <1>10, <1>11, <1>12, <1>13 DEF StampsOK

\* A site that is left out of allNodes has another neighbour that names it, or
\* is no neighbour.
LEMMA LearnLeaf ==
  ASSUME net \in Networks, NEW x \in Sites, NEW s, RouterOK(x, s), NEW y \in Sites,
         {y, x} \in links, NEW m, MsgOK(m), m.orig # x,
         \A z \in m.nbrs \cup {m.orig} : s.all[z] = None => CanMake(s, z), LeafOK(x, s)
  PROVE  LeafOK(x, Learn(s, x, y, m))
  <1>1. PICK s1 : s1 = Originator(s, m)
    OBVIOUS
  <1>2. PICK o : o = OriginatorObj(s1, m.orig)
    OBVIOUS
  <1>3. PICK s2 : s2 = Insert(s1, m)
    OBVIOUS
  <1>4. PICK s3 : s3 = ReAdd(s2, x, y, m, o)
    OBVIOUS
  <1>5. PICK s4 : s4 = Remove(s3, m, o)
    OBVIOUS
  <1>6. PICK s5 : s5 = Relink(s4, m, o)
    OBVIOUS
  <1>7. /\ RouterOK(x, s1) /\ RouterOK(x, s2) /\ RouterOK(x, s3) /\ RouterOK(x, s4)
        /\ m.orig \in Sites /\ m.nbrs \subseteq Sites /\ \A z \in m.nbrs : s1.all[z] = None => CanMake(s1, z)
        /\ Name(o) = m.orig
        /\ Learn(s, x, y, m) = IF ~Update(s, m) THEN s1 ELSE IF o \in s.nulls THEN s3 ELSE s5
    BY <1>1, <1>2, <1>3, <1>4, <1>5, <1>6, LearnParts
  <1>8. s \in Routers /\ s1 \in Routers /\ s2 \in Routers /\ s3 \in Routers /\ s4 \in Routers
    BY <1>7 DEF RouterOK
  <1>9. PICK a \in Sites : a = m.orig /\ a # x
    BY <1>7
  <1>10. /\ s1.nbr = s.nbr
         /\ \A b \in Sites : s1.all[b] = None => s.all[b] = None
         /\ s1.all[a] = None => s.nbr[a] # None
    <2>1. /\ s1.nbr = s.nbr
          /\ \A z \in Sites : z # a \/ Known(s, a) # {} => s1.all[z] = s.all[z]
          /\ Known(s, a) = {} => s1.all[a] # None
      <3>1. StampTaken(s, m, a, s1)
        BY <1>1, <1>7, <1>9, OriginatorEffect
      <3> QED BY <3>1 DEF StampTaken
    <2>2. s.all[a] = None /\ s.nbr[a] = None => Known(s, a) = {}
      BY <1>8, KnownFacts
    <2> QED BY <2>1, <2>2
  <1>11. LeafOK(x, s1)
    BY <1>10 DEF LeafOK
  <1>12. s2.nbr = s.nbr /\ \A b \in Sites : s2.all[b] = None => s1.all[b] = None
    BY <1>3, <1>7, <1>8, <1>10, InsertEffect
  <1>13. s3.all = s2.all /\ \A b \in Sites \ {a} : s3.nbr[b] = s.nbr[b]
    BY <1>4, <1>7, <1>8, <1>9, <1>12, ReAddEffect
  <1>14. s4.nbr = s3.nbr /\ \A b \in Sites : s4.all[b] = s3.all[b] \/ {a, b} \in links
    BY <1>5, <1>7, <1>9, RemoveEffect
  <1>15. s5.nbr = s4.nbr /\ s5.all = s4.all
    BY <1>6, <1>8, RelinkEffect
  <1>16. ASSUME NEW t, t \in {s3, s5} PROVE LeafOK(x, t)
    <2> SUFFICES ASSUME NEW b \in Sites, t.all[b] = None
                 PROVE  \/ \E c \in Sites \ {x} : b \in Neighbours(c)
                        \/ b # x /\ t.nbr[b] = None
      BY DEF LeafOK
    <2>0. t.nbr = s3.nbr /\ (t.all[b] = s3.all[b] \/ {a, b} \in links)
      BY <1>14, <1>15, <1>16
    <2>1. CASE {a, b} \in links
      BY <1>9, <2>1, LinkFacts
    <2>2. CASE {a, b} \notin links
      <3>1. s1.all[b] = None
        BY <1>12, <1>13, <2>0, <2>2
      <3>2. s.all[b] = None /\ (b = a => s.nbr[b] # None)
        BY <1>10, <3>1
      <3>3. \/ \E c \in Sites \ {x} : b \in Neighbours(c)
            \/ b # x /\ s.nbr[b] = None
        BY <3>2 DEF LeafOK
      <3> QED BY <1>13, <2>0, <3>2, <3>3
    <2> QED BY <2>1, <2>2
  <1> QED BY <1>7, <1>11, <1>16

\* After a message a router has heard of its originator, and of no one else
\* that it had not heard of.
LEMMA HeardAfter ==
  ASSUME NEW x \in Sites, NEW s, RouterOK(x, s), NEW m, MsgOK(m), NEW a \in Sites, a = m.orig,
         s.all[a] = None => CanMake(s, a), NEW s1, s1 = Originator(s, m),
         NEW r \in Routers, r.stamp = s1.stamp, r.nbr = s.nbr, r.all[a] = s1.all[a],
         \A z \in Sites : s1.all[z] # None => r.all[z] = s1.all[z],
         \A z \in Sites : s1.all[z] = None /\ r.all[z] # None => s1.stamp[InMap(r.all, z)] = 0,
         NEW bg \in [Sites -> Nat], NEW c \in Sites
  PROVE  Heard(r, c, bg) <=> Heard(s, c, bg) \/ (c = a /\ m.stamp > bg[a])
  <1>1. /\ s1.nbr = s.nbr
        /\ \A z \in Sites : z # a \/ Known(s, a) # {} => s1.all[z] = s.all[z]
        /\ Known(s, a) = {} => s1.all[a] # None /\ s.stamp[InMap(s1.all, a)] = 0
        /\ \A o \in Objs : \/ s1.stamp[o] = s.stamp[o]
                           \/ Name(o) = a /\ m.stamp > s.stamp[o] /\ s1.stamp[o] = m.stamp
        /\ \A o \in Known(s1, a) : o \in Objs /\ s1.stamp[o] >= m.stamp
    <2>1. StampTaken(s, m, a, s1)
      BY OriginatorEffect
    <2> QED BY <2>1 DEF StampTaken
  <1>2. s \in Routers /\ m.stamp \in Nat /\ bg[c] \in Nat /\ \A o \in Objs : s.stamp[o] \in Nat
    BY DEF RouterOK, MsgOK, Messages, Routers
  <1>3. s1 \in Routers
    <2>1. RouterOK(x, s1)
      BY OriginatorOK
    <2> QED BY <2>1 DEF RouterOK
  <1>4. CASE c # a
    <2>1. s1.all[c] = s.all[c]
      BY <1>1, <1>4
    <2>2. Known(s, c) \subseteq Known(r, c)
      BY <2>1 DEF Known, InMap
    <2>3. \A o \in Known(s, c) : r.stamp[o] = s.stamp[o]
      BY <1>1, <1>2, <1>4, KnownFacts
    <2>4. ASSUME NEW o \in Known(r, c), r.stamp[o] > bg[c] PROVE o \in Known(s, c)
      <3>1. \/ r.nbr[c] # None /\ o = InMap(r.nbr, c)
            \/ r.all[c] # None /\ o = InMap(r.all, c)
        BY KnownCases
      <3>2. CASE r.nbr[c] # None /\ o = InMap(r.nbr, c)
        BY <1>2, <3>2, KnownFacts
      <3>3. CASE r.all[c] # None /\ o = InMap(r.all, c) /\ s.all[c] # None
        <4>1. r.all[c] = s.all[c] /\ o = InMap(s.all, c)
          BY <2>1, <3>3 DEF InMap
        <4> QED BY <1>2, <3>3, <4>1, KnownFacts
      <3>4. CASE r.all[c] # None /\ o = InMap(r.all, c) /\ s.all[c] = None
        BY <1>2, <2>1, <2>4, <3>4
      <3> QED BY <3>1, <3>2, <3>3, <3>4
    <2> QED BY <1>4, <2>2, <2>3, <2>4 DEF Heard
  <1>5. CASE c = a
    <2>1. Known(r, a) = Known(s1, a)
      BY <1>1 DEF Known, InMap
    <2>2. ASSUME Known(s, a) = {} PROVE Known(s1, a) # {} /\ \A o \in Known(s1, a) : s.stamp[o] = 0
      <3>1. s1.all[a] # None /\ s.stamp[InMap(s1.all, a)] = 0
        BY <1>1, <2>2
      <3>2. s1.nbr[a] = None
        BY <1>1, <1>2, <2>2, KnownFacts
      <3> QED BY <1>3, <3>1, <3>2, KnownFacts
    <2>3. ASSUME Known(s, a) # {} PROVE Known(s1, a) = Known(s, a)
      <3>1. s1.all[a] = s.all[a]
        BY <1>1, <2>3
      <3> QED BY <1>1, <3>1 DEF Known, InMap
    <2>4. \A o \in Known(s, a) : o \in Objs /\ s1.stamp[o] >= s.stamp[o]
      <3>1. \A o \in Known(s, a) : o \in Objs
        BY <1>2, KnownFacts
      <3> QED BY <1>1, <1>2, <3>1
    <2>5. Heard(r, a, bg) <=> \E o \in Known(s1, a) : s1.stamp[o] > bg[a]
      BY <2>1 DEF Heard
    <2>6. ASSUME NEW o \in Known(s1, a), s1.stamp[o] > bg[a]
          PROVE  Heard(s, a, bg) \/ m.stamp > bg[a]
      <3>1. o \in Objs
        BY <1>1
      <3>2. CASE s1.stamp[o] = m.stamp
        BY <2>6, <3>2
      <3>3. CASE s1.stamp[o] = s.stamp[o]
        BY <1>2, <1>5, <2>2, <2>3, <2>6, <3>3 DEF Heard
      <3> QED BY <1>1, <3>1, <3>2, <3>3
    <2>7. ASSUME Heard(s, a, bg) PROVE \E o \in Known(s1, a) : s1.stamp[o] > bg[a]
      <3>1. PICK o \in Known(s, a) : s.stamp[o] > bg[a]
        BY <2>7 DEF Heard
      <3>2. o \in Known(s1, a)
        BY <2>3
      <3>3. s1.stamp[o] >= s.stamp[o] /\ s.stamp[o] \in Nat /\ (s1.stamp[o] = s.stamp[o] \/ s1.stamp[o] = m.stamp)
        BY <1>1, <1>2, <2>4
      <3> QED BY <1>2, <1>5, <3>1, <3>2, <3>3
    <2>8. ASSUME m.stamp > bg[a] PROVE \E o \in Known(s1, a) : s1.stamp[o] > bg[a]
      <3>1. PICK o \in Known(s1, a) : TRUE
        <4>1. CASE Known(s, a) = {}
          BY <2>2, <4>1
        <4>2. CASE Known(s, a) # {}
          BY <2>3, <4>2
        <4> QED BY <4>1, <4>2
      <3>2. o \in Objs /\ s1.stamp[o] >= m.stamp
        BY <1>1
      <3>3. s1.stamp[o] \in Nat
        BY <1>3, <3>2 DEF Routers
      <3> QED BY <1>2, <1>5, <2>8, <3>2, <3>3
    <2> QED BY <1>5, <2>5, <2>6, <2>7, <2>8
  <1> QED BY <1>4, <1>5

\* What a complete message does to the router of a site that has all its
\* neighbours: it forgets nothing, and an update links the originator.
LEMMA LearnFull ==
  ASSUME net \in Networks, NEW x \in Sites, NEW s, RouterOK(x, s), NEW y \in Sites,
         {y, x} \in links, NEW m, MsgOK(m), NEW a \in Sites, a = m.orig, a # x,
         \A z \in m.nbrs \cup {m.orig} : s.all[z] = None => CanMake(s, z),
         m.nbrs = Neighbours(a), \A z \in Neighbours(x) : s.nbr[z] # None, s.nulls = {},
         NEW r, r = Learn(s, x, y, m)
  PROVE  /\ r.nbr = s.nbr /\ r.pend = s.pend /\ r.conn = s.conn /\ r.chan = s.chan
         /\ r.nulls = s.nulls
         /\ \A z \in Sites : s.all[z] # None => r.all[z] = s.all[z]
         /\ \A bg \in [Sites -> Nat] : \A c \in Sites :
              Heard(r, c, bg) <=> Heard(s, c, bg) \/ (c = a /\ m.stamp > bg[a])
         /\ \A b, c \in Sites : Linked(s, b, c) => Linked(r, b, c)
         /\ Update(s, m) => \A b \in Neighbours(a) : /\ r.all[b] # None
                                                     /\ s.all[a] # None => Linked(r, a, b)
  <1>1. PICK s1 : s1 = Originator(s, m)
    OBVIOUS
  <1>2. PICK o : o = OriginatorObj(s1, m.orig)
    OBVIOUS
  <1>3. PICK s2 : s2 = Insert(s1, m)
    OBVIOUS
  <1>4. PICK s3 : s3 = ReAdd(s2, x, y, m, o)
    OBVIOUS
  <1>5. PICK s4 : s4 = Remove(s3, m, o)
    OBVIOUS
  <1>6. PICK s5 : s5 = Relink(s4, m, o)
    OBVIOUS
  <1>7. /\ RouterOK(x, s1) /\ RouterOK(x, s2) /\ RouterOK(x, s3) /\ RouterOK(x, s4) /\ RouterOK(x, s5)
        /\ m.nbrs \subseteq Sites /\ a \notin m.nbrs /\ \A z \in m.nbrs : s1.all[z] = None => CanMake(s1, z)
        /\ Name(o) = a
        /\ r = IF Update(s, m) THEN s5 ELSE s1
    BY <1>1, <1>2, <1>3, <1>4, <1>5, <1>6, LearnParts
  <1>8. /\ s \in Routers /\ s1 \in Routers /\ s2 \in Routers /\ s3 \in Routers /\ s4 \in Routers
        /\ s5 \in Routers
    BY <1>7 DEF RouterOK
  <1>9. /\ s1.nbr = s.nbr /\ s1.adj = s.adj /\ s1.conn = s.conn /\ s1.chan = s.chan /\ s1.nulls = s.nulls /\ s1.pend = s.pend
        /\ \A z \in Sites : s.all[z] # None => s1.all[z] = s.all[z]
    <2>1. StampTaken(s, m, a, s1)
      BY <1>1, OriginatorEffect
    <2>2. s.all[a] # None => Known(s, a) # {}
      BY <1>8, KnownFacts
    <2> QED BY <2>1, <2>2 DEF StampTaken
  <1>10. /\ s2.nbr = s1.nbr /\ s2.adj = s1.adj /\ s2.stamp = s1.stamp
         /\ s2.conn = s1.conn /\ s2.chan = s1.chan /\ s2.nulls = s1.nulls /\ s2.pend = s1.pend
         /\ s2.all[a] = s1.all[a]
         /\ \A z \in Sites : s1.all[z] # None => s2.all[z] = s1.all[z]
         /\ \A z \in m.nbrs : s2.all[z] # None
         /\ \A z \in Sites : s1.all[z] = None /\ s2.all[z] # None => s1.stamp[InMap(s2.all, z)] = 0
    BY <1>3, <1>7, <1>8, InsertEffect
  <1>11. s3 = s2
    <2>1. FromNeighbour(x, y, m) => a \in Neighbours(x)
      BY LinkFacts DEF FromNeighbour
    <2>2. ~ FromNeighbour(x, y, m) \/ s2.nbr[m.orig] # None
      BY <1>9, <1>10, <2>1
    <2> QED BY <1>4, <1>8, <2>2, ReAddEffect
  <1>12. /\ s4.nbr = s2.nbr /\ s4.adj = s2.adj /\ s4.stamp = s2.stamp /\ s4.all = s2.all
         /\ s4.conn = s2.conn /\ s4.chan = s2.chan /\ s4.nulls = s2.nulls /\ s4.pend = s2.pend
    <2>1. \A b \in Sites : {Name(o), b} \in links => b \in m.nbrs
      BY <1>7, LinkFacts
    <2>2. s4 = Remove(s2, m, o) /\ RouterOK(x, s2)
      BY <1>5, <1>7, <1>11
    <2> QED BY <2>1, <2>2, RemoveEffect
  <1>13. /\ s5.nbr = s4.nbr /\ s5.all = s4.all /\ s5.stamp = s4.stamp
         /\ s5.conn = s4.conn /\ s5.chan = s4.chan /\ s5.nulls = s4.nulls /\ s5.pend = s4.pend
         /\ \A l \in s4.adj : l[1] # o => l \in s5.adj
         /\ \A b \in m.nbrs : s4.all[b] # None => /\ <<o, InMap(s4.all, b)>> \in s5.adj
                                                  /\ <<InMap(s4.all, b), o>> \in s5.adj
    BY <1>6, <1>8, RelinkEffect
  <1>14. /\ r.nbr = s.nbr /\ r.pend = s.pend /\ r.conn = s.conn /\ r.chan = s.chan
         /\ r.nulls = s.nulls
    BY <1>7, <1>9, <1>10, <1>12, <1>13
  <1>15. \A z \in Sites : s.all[z] # None => r.all[z] = s.all[z]
    BY <1>7, <1>9, <1>10, <1>12, <1>13
  <1>16. ASSUME NEW bg \in [Sites -> Nat], NEW c \in Sites
         PROVE  Heard(r, c, bg) <=> Heard(s, c, bg) \/ (c = a /\ m.stamp > bg[a])
    <2>1. Heard(s1, c, bg) <=> Heard(s, c, bg) \/ (c = a /\ m.stamp > bg[a])
      BY <1>1, <1>8, <1>9, HeardAfter
    <2>2. Heard(s5, c, bg) <=> Heard(s, c, bg) \/ (c = a /\ m.stamp > bg[a])
      <3>1. /\ s5.stamp = s1.stamp /\ s5.nbr = s.nbr /\ s5.all[a] = s1.all[a]
            /\ \A z \in Sites : s1.all[z] # None => s5.all[z] = s1.all[z]
            /\ \A z \in Sites : s1.all[z] = None /\ s5.all[z] # None => s1.stamp[InMap(s5.all, z)] = 0
        BY <1>9, <1>10, <1>12, <1>13
      <3> QED BY <1>1, <1>8, <3>1, HeardAfter
    <2> QED BY <1>7, <2>1, <2>2
  <1>17. s1.all[a] # None => o = InMap(s1.all, a)
    BY <1>2 DEF OriginatorObj
  <1>18. \A b \in m.nbrs : s5.all[b] # None /\ (s1.all[a] # None => Linked(s5, a, b))
    <2> SUFFICES ASSUME NEW b \in m.nbrs
                 PROVE  s5.all[b] # None /\ (s1.all[a] # None => Linked(s5, a, b))
      OBVIOUS
    <2>1. s5.all[b] # None /\ s5.all = s4.all /\ s5.all[a] = s1.all[a]
      BY <1>10, <1>12, <1>13
    <2>2. s1.all[a] # None => o = InMap(s5.all, a)
      BY <1>17, <2>1 DEF InMap
    <2> QED BY <1>13, <2>1, <2>2 DEF Linked
  <1>19. ASSUME NEW b \in Sites, NEW c \in Sites, Linked(s, b, c) PROVE Linked(r, b, c)
    <2>1. PICK p, q : p = InMap(s.all, b) /\ q = InMap(s.all, c)
      OBVIOUS
    <2>2. /\ s.all[b] # None /\ s.all[c] # None /\ <<p, q>> \in s.adj /\ <<q, p>> \in s.adj
      BY <1>19, <2>1 DEF Linked
    <2>3. /\ r.all[b] = s.all[b] /\ r.all[c] = s.all[c] /\ p = InMap(r.all, b) /\ q = InMap(r.all, c)
      BY <1>15, <2>1, <2>2 DEF InMap
    <2>4. CASE ~ Update(s, m)
      BY <1>7, <1>9, <2>2, <2>3, <2>4 DEF Linked
    <2>5. CASE Update(s, m)
      <3>1. r = s5 /\ s4.adj = s.adj
        BY <1>7, <1>9, <1>10, <1>12, <2>5
      <3>2. Name(p) = b /\ Name(q) = c /\ {b, c} \in links
        <4>1. {Name(<<p, q>>[1]), Name(<<p, q>>[2])} \in links
          BY <2>2 DEF RouterOK
        <4> QED BY <2>1, <4>1 DEF InMap, Name
      <3>3. CASE o # p /\ o # q
        BY <1>13, <2>2, <2>3, <3>1, <3>3 DEF Linked
      <3>4. CASE o = p
        <4>1. b = a /\ c \in m.nbrs
          BY <1>7, <3>2, <3>4, LinkFacts
        <4>2. s1.all[a] # None
          BY <1>9, <2>2, <4>1
        <4> QED BY <1>18, <3>1, <4>1, <4>2
      <3>5. CASE o = q
        <4>1. c = a /\ b \in m.nbrs
          BY <1>7, <3>2, <3>5, LinkFacts
        <4>2. s1.all[a] # None
          BY <1>9, <2>2, <4>1
        <4>3. Linked(r, c, b)
          BY <1>18, <3>1, <4>1, <4>2
        <4> QED BY <4>3 DEF Linked
      <3> QED BY <3>3, <3>4, <3>5
    <2> QED BY <2>4, <2>5
  <1>20. ASSUME Update(s, m), NEW b \in Neighbours(a)
         PROVE  r.all[b] # None /\ (s.all[a] # None => Linked(r, a, b))
    BY <1>7, <1>9, <1>18, <1>20
  <1> QED BY <1>14, <1>15, <1>16, <1>19, <1>20

-----------------------------------------------------------------------------
(* What steps do to queues and clocks.                                      *)

\* The queues q1 and q2 before and after x sends m to Y.
Sent(q1, q2, x, Y, m) ==
    /\ \A v \in Y : Copies(q2[x][v]) = Copies(q1[x][v]) \cup {m}
    /\ \A u, v \in Sites : u # x \/ v \notin Y => Copies(q2[u][v]) = Copies(q1[u][v])

LEMMA SentCopies ==
  ASSUME NEW qs, QueuesOK(qs), NEW x \in Sites, NEW Y \in SUBSET Sites, NEW m \in Messages,
         NEW q2, q2 = [qs EXCEPT ![x] = [y \in Sites |-> IF y \in Y THEN Append(qs[x][y], m) ELSE qs[x][y]]]
  PROVE  Sent(qs, q2, x, Y, m)
  <1>1. qs \in [Sites -> [Sites -> Seq(Messages)]]
    BY DEF QueuesOK
  <1>2. \A v \in Y : q2[x][v] = Append(qs[x][v], m)
    BY <1>1
  <1>3. \A u, v \in Sites : u # x \/ v \notin Y => q2[u][v] = qs[u][v]
    BY <1>1
  <1>4. \A v \in Y : Copies(Append(qs[x][v], m)) = Copies(qs[x][v]) \cup {m}
    BY <1>1, CopiesAppend
  <1> QED BY <1>2, <1>3, <1>4 DEF Sent

\* A flood of x, with a list of the neighbours it has connections to.
Flooded(x, s, chans, done, threw, dt, Y, m, d) ==
    /\ clock' = [clock EXCEPT ![x] = @ + dt]
    /\ m.orig = x /\ m.stamp = clock[x] + dt /\ m.nbrs = Connected(s)
    /\ site' = [site EXCEPT ![x] = Collect(d)]
    /\ Sent(queue, queue', x, Y \cap chans, m)
    /\ d \in {done, threw} /\ Y \subseteq Connected(s)
    /\ Unsendable(s, Connected(s)) = {} => Y = Connected(s) /\ d = done

LEMMA FloodEffect ==
  ASSUME NetInv, NEW x \in Sites, NEW s, RouterOK(x, s), NEW chans, NEW done, NEW threw,
         Flood(x, s, chans, done, threw)
  PROVE  \E dt \in Nat : \E Y \in SUBSET Sites : \E m \in Messages : \E d \in {done, threw} :
           Flooded(x, s, chans, done, threw, dt, Y, m, d)
  <1>1. PICK C : C = Connected(s) /\ C \subseteq Sites
    BY ConnectedFacts, LinkFacts DEF NetInv
  <1>2. PICK dt \in net.steps, Y \in Sendings(s, C) :
          /\ clock' = [clock EXCEPT ![x] = @ + dt]
          /\ Put(x, chans, Y, [orig |-> x, stamp |-> clock[x] + dt, nbrs |-> C, hops |-> 1])
          /\ site' = [site EXCEPT ![x] = Collect(IF Unsendable(s, C) = {} THEN done ELSE threw)]
    BY <1>1 DEF Flood
  <1>3. dt \in Nat /\ clock[x] + dt \in Nat
    BY NetworkFacts DEF NetInv
  <1>4. PICK m : m = [orig |-> x, stamp |-> clock[x] + dt, nbrs |-> C, hops |-> 1]
    OBVIOUS
  <1>5. m \in Messages /\ m.orig = x /\ m.stamp = clock[x] + dt /\ m.nbrs = C
    BY <1>1, <1>3, <1>4 DEF Messages
  <1>6. Y \in SUBSET Sites /\ Y \subseteq C /\ (Unsendable(s, C) = {} => Y = C)
    BY <1>1, <1>2 DEF Sendings
  <1>7. PICK Z \in SUBSET Sites : Z = Y \cap chans
    BY <1>6
  <1>8. queue' = [queue EXCEPT ![x] = [y \in Sites |-> IF y \in Z THEN Append(queue[x][y], m)
                                                                ELSE queue[x][y]]]
    BY <1>2, <1>4, <1>7 DEF Put, NetInv, QueuesOK
  <1>9. Sent(queue, queue', x, Y \cap chans, m)
    <2>1. QueuesOK(queue)
      BY DEF NetInv
    <2> QED BY <1>5, <1>7, <1>8, <2>1, SentCopies
  <1>10. PICK d : d = IF Unsendable(s, C) = {} THEN done ELSE threw
    OBVIOUS
  <1>11. site' = [site EXCEPT ![x] = Collect(d)]
    BY <1>2, <1>10
  <1>12. d \in {done, threw} /\ (Unsendable(s, C) = {} => Y = C /\ d = done)
    BY <1>6, <1>10
  <1>13. Flooded(x, s, chans, done, threw, dt, Y, m, d)
    BY <1>1, <1>2, <1>5, <1>6, <1>9, <1>11, <1>12 DEF Flooded
  <1> QED BY <1>3, <1>5, <1>6, <1>12, <1>13

\* A message m that x takes from y, and the copies c of it that x sends on to Z.
Received(x, y, m, c, Z) ==
    /\ GoodMsg(y, x, m) /\ m \in Copies(queue[y][x])
    /\ \A z \in m.nbrs \cup {m.orig} : site[x].all[z] = None => CanMake(site[x], z)
    /\ c.orig = m.orig /\ c.stamp = m.stamp /\ c.nbrs = m.nbrs
    /\ m.orig = x => site' = site /\ Z = {}
    /\ m.orig # x =>
         /\ site' = [site EXCEPT ![x] = Collect(Learn(site[x], x, y, m))]
         /\ \E T \in IF Throws(site[x], site'[x], m) THEN {{}} ELSE Sendings(site'[x], ForwardTo(site'[x], y, m)) :
              Z = T \cap open[x]
    /\ \A u, v \in Sites : \A n \in Copies(queue'[u][v]) :
         n \in Copies(queue[u][v]) \/ (u = x /\ v \in Z /\ n = c)
    /\ \A u, v \in Sites : \A n \in Copies(queue[u][v]) :
         n \in Copies(queue'[u][v]) \/ (u = y /\ v = x /\ n = m)
    /\ \A v \in Z : c \in Copies(queue'[x][v])
    /\ UNCHANGED <<net, clock>>

LEMMA ReceiveEffect ==
  ASSUME NetInv, NEW x \in Sites, NEW y \in Sites, Receive(x, y)
  PROVE  \E m, c \in Messages : \E Z \in SUBSET Sites : Received(x, y, m, c, Z)
  <1> DEFINE m == Head(queue[y][x])
             s == Collect(Learn(site[x], x, y, m))
             rest == [queue EXCEPT ![y][x] = Tail(queue[y][x])]
             zs == IF Throws(site[x], s, m) THEN {{}} ELSE Sendings(s, ForwardTo(s, y, m))
  <1>1. m = Head(queue[y][x]) /\ s = Collect(Learn(site[x], x, y, m))
    OBVIOUS
  <1>2. rest = [queue EXCEPT ![y][x] = Tail(queue[y][x])]
    OBVIOUS
  <1>3. /\ queue[y][x] # <<>>
        /\ \A z \in {z \in (m.nbrs \cup {m.orig}) : site[x].all[z] = None} : CanMake(site[x], z)
        /\ IF m.orig = x
           THEN queue' = rest /\ UNCHANGED site
           ELSE /\ site' = [site EXCEPT ![x] = s]
                /\ \E T \in zs :
                     queue' = [rest EXCEPT ![x] = [z \in Sites |->
                                 IF z \in T \cap open[x] THEN Append(rest[x][z], [m EXCEPT !.hops = @ + 1])
                                                         ELSE rest[x][z]]]
        /\ UNCHANGED <<net, clock>>
    BY DEF Receive
  <1> HIDE DEF m, s, rest, zs
  <1>4. /\ QueuesOK(queue) /\ queue \in [Sites -> [Sites -> Seq(Messages)]] /\ open[x] \subseteq Sites
        /\ site \in [Sites -> Routers]
    BY DEF NetInv, QueuesOK, EndsOK, SitesOK
  <1>5. GoodMsg(y, x, m) /\ GoodQueue(y, x, Tail(queue[y][x])) /\ m \in Messages
    <2>1. GoodQueue(y, x, queue[y][x])
      BY <1>4 DEF QueuesOK
    <2> QED BY <1>1, <1>3, <2>1, QueueTail DEF GoodMsg, MsgOK
  <1>6. QueuesOK(rest)
    BY <1>2, <1>4, <1>5, OneQueue
  <1>7. PICK q : q = queue[y][x] /\ q \in Seq(Messages) /\ q # <<>>
    BY <1>3, <1>4
  <1>8. /\ m \in Copies(q) /\ Copies(Tail(q)) \subseteq Copies(q)
        /\ Copies(q) \subseteq Copies(Tail(q)) \cup {m}
    BY <1>1, <1>7, CopiesTail
  <1>9. \A u, v \in Sites : rest[u][v] = IF u = y /\ v = x THEN Tail(q) ELSE queue[u][v]
    BY <1>2, <1>4, <1>7
  <1>10. /\ \A u, v \in Sites : Copies(rest[u][v]) \subseteq Copies(queue[u][v])
         /\ \A u, v \in Sites : \A n \in Copies(queue[u][v]) :
              n \in Copies(rest[u][v]) \/ (u = y /\ v = x /\ n = m)
    BY <1>7, <1>8, <1>9
  <1>11. PICK c : c = [m EXCEPT !.hops = @ + 1]
    OBVIOUS
  <1>12. c \in Messages /\ c.orig = m.orig /\ c.stamp = m.stamp /\ c.nbrs = m.nbrs
    BY <1>5, <1>11 DEF Messages
  <1>13. \A z \in m.nbrs \cup {m.orig} : site[x].all[z] = None => CanMake(site[x], z)
    BY <1>3
  <1>14. UNCHANGED <<net, clock>> /\ m \in Copies(queue[y][x])
    BY <1>3, <1>7, <1>8
  <1>15. CASE m.orig = x
    <2>1. queue' = rest /\ site' = site
      BY <1>3, <1>15
    <2>2. Received(x, y, m, c, {})
      BY <1>5, <1>10, <1>12, <1>13, <1>14, <1>15, <2>1 DEF Received
    <2> QED BY <1>5, <1>12, <2>2
  <1>16. CASE m.orig # x
    <2>1. site' = [site EXCEPT ![x] = s] /\ site'[x] = s
      BY <1>3, <1>4, <1>16
    <2>2. PICK T \in zs :
             queue' = [rest EXCEPT ![x] = [z \in Sites |->
                         IF z \in T \cap open[x] THEN Append(rest[x][z], c) ELSE rest[x][z]]]
      BY <1>3, <1>11, <1>16
    <2>3. PICK Z \in SUBSET Sites : Z = T \cap open[x]
      BY <1>4
    <2>4. Sent(rest, queue', x, Z, c)
      BY <1>6, <1>12, <2>2, <2>3, SentCopies
    <2>5. \A u, v \in Sites : \A n \in Copies(queue'[u][v]) :
                n \in Copies(queue[u][v]) \/ (u = x /\ v \in Z /\ n = c)
      <3>1. \A u, v \in Sites : \A n \in Copies(queue'[u][v]) :
                n \in Copies(rest[u][v]) \/ (u = x /\ v \in Z /\ n = c)
        BY <2>4 DEF Sent
      <3> QED BY <1>10, <3>1
    <2>6. \A u, v \in Sites : \A n \in Copies(queue[u][v]) :
                n \in Copies(queue'[u][v]) \/ (u = y /\ v = x /\ n = m)
      <3>1. \A u, v \in Sites : Copies(rest[u][v]) \subseteq Copies(queue'[u][v])
        BY <2>4 DEF Sent
      <3> QED BY <1>10, <3>1
    <2>7. \A v \in Z : c \in Copies(queue'[x][v])
      BY <2>4 DEF Sent
    <2>8. \E T1 \in IF Throws(site[x], site'[x], m) THEN {{}} ELSE Sendings(site'[x], ForwardTo(site'[x], y, m)) :
            Z = T1 \cap open[x]
      BY <2>1, <2>2, <2>3 DEF zs
    <2>9. site' = [site EXCEPT ![x] = Collect(Learn(site[x], x, y, m))]
      BY <1>1, <2>1
    <2>10. Received(x, y, m, c, Z)
      BY <1>5, <1>12, <1>13, <1>14, <1>16, <2>5, <2>6, <2>7, <2>8, <2>9 DEF Received
    <2> QED BY <1>5, <1>12, <2>10
  <1> QED BY <1>15, <1>16

-----------------------------------------------------------------------------
(* BaseOK holds in every network.                                           *)

LEMMA CopiesTyped ==
  ASSUME NEW qs, QueuesOK(qs), NEW u \in Sites, NEW v \in Sites, NEW n \in Copies(qs[u][v])
  PROVE  n \in Messages /\ GoodMsg(u, v, n)
  <1>1. GoodQueue(u, v, qs[u][v])
    BY DEF QueuesOK
  <1>2. GoodMsg(u, v, n)
    BY <1>1 DEF GoodQueue, Copies
  <1> QED BY <1>2 DEF GoodMsg, MsgOK

\* Routers that have not changed, or have only true time stamps, and messages
\* that were there, or have the time of their originator.
LEMMA BaseNext ==
  ASSUME NetInv, BaseOK(site, queue, clock), NEW st, NEW qs, NEW ck \in [Sites -> Nat],
         \A z \in Sites : clock[z] <= ck[z],
         \A z \in Sites : st[z] = site[z] \/ (StampsOK(st[z], ck) /\ LeafOK(z, st[z])),
         \A u, v \in Sites : \A n \in Copies(qs[u][v]) :
           n \in Copies(queue[u][v]) \/ n.stamp <= ck[n.orig]
  PROVE  BaseOK(st, qs, ck)
  <1>1. clock \in [Sites -> Nat]
    BY DEF NetInv
  <1>2. \A z \in Sites : StampsOK(st[z], ck)
    <2>1. ASSUME NEW z \in Sites PROVE StampsOK(site[z], ck)
      <3> SUFFICES ASSUME NEW o \in Objs PROVE site[z].stamp[o] <= ck[Name(o)]
        BY DEF StampsOK
      <3>1. site[z].stamp[o] \in Nat
        BY DEF NetInv, SitesOK, Routers
      <3>2. PICK b \in Sites : b = Name(o)
        BY ObjFacts
      <3>3. site[z].stamp[o] <= clock[b]
        BY <3>2 DEF BaseOK, TimesOK, StampsOK
      <3>4. clock[b] \in Nat /\ ck[b] \in Nat /\ clock[b] <= ck[b]
        BY <1>1
      <3> QED BY <3>1, <3>2, <3>3, <3>4
    <2> QED BY <2>1
  <1>3. \A z \in Sites : LeafOK(z, st[z])
    BY DEF BaseOK
  <1>4. ASSUME NEW u \in Sites, NEW v \in Sites, NEW n \in Copies(qs[u][v])
        PROVE  n.stamp <= ck[n.orig]
    <2>1. CASE n \in Copies(queue[u][v])
      <3>1. QueuesOK(queue)
        BY DEF NetInv
      <3>2. n.stamp \in Nat /\ n.orig \in Sites
        BY <2>1, <3>1, CopiesTyped DEF Messages
      <3>3. PICK b \in Sites : b = n.orig
        BY <3>2
      <3>4. n.stamp <= clock[b]
        BY <2>1, <3>3 DEF BaseOK, TimesOK
      <3>5. clock[b] \in Nat /\ ck[b] \in Nat /\ clock[b] <= ck[b]
        BY <1>1
      <3> QED BY <3>2, <3>3, <3>4, <3>5
    <2> QED BY <2>1
  <1> QED BY <1>2, <1>3, <1>4 DEF BaseOK, TimesOK

\* A flood after which the router is d, which has the time stamps of before.
LEMMA FloodBase ==
  ASSUME NetInv, BaseOK(site, queue, clock), NEW x \in Sites, NEW s, RouterOK(x, s), NEW chans,
         NEW done, RouterOK(x, done), NEW threw, RouterOK(x, threw),
         Flood(x, s, chans, done, threw), clock' \in [Sites -> Nat],
         \A d \in {done, threw} : d.stamp = site[x].stamp /\ LeafOK(x, d)
  PROVE  BaseOK(site', queue', clock')
  <1>1. PICK dt \in Nat, Y \in SUBSET Sites, m \in Messages, d \in {done, threw} :
          Flooded(x, s, chans, done, threw, dt, Y, m, d)
    BY FloodEffect
  <1>2. PICK ck : ck = clock'
    OBVIOUS
  <1>3. PICK qs : qs = queue'
    OBVIOUS
  <1>4. PICK st : st = site'
    OBVIOUS
  <1>5. /\ ck = [clock EXCEPT ![x] = @ + dt] /\ m.orig = x /\ m.stamp = clock[x] + dt
        /\ st = [site EXCEPT ![x] = Collect(d)] /\ Sent(queue, qs, x, Y \cap chans, m)
        /\ d \in {done, threw}
    BY <1>1, <1>2, <1>3, <1>4 DEF Flooded
  <1>6. clock \in [Sites -> Nat] /\ site \in [Sites -> Routers]
    BY DEF NetInv, SitesOK
  <1>7. ck \in [Sites -> Nat] /\ ck[x] = clock[x] + dt /\ \A z \in Sites : clock[z] <= ck[z]
    BY <1>2, <1>5, <1>6
  <1>8. StampsOK(Collect(d), ck) /\ LeafOK(x, Collect(d))
    <2>1. RouterOK(x, d) /\ d.stamp = site[x].stamp /\ LeafOK(x, d)
      BY <1>5
    <2>2. StampsOK(d, ck)
      <3> SUFFICES ASSUME NEW o \in Objs PROVE d.stamp[o] <= ck[Name(o)]
        BY DEF StampsOK
      <3>1. d.stamp[o] \in Nat
        BY <2>1 DEF RouterOK, Routers
      <3>2. PICK b \in Sites : b = Name(o)
        BY ObjFacts
      <3>3. d.stamp[o] <= clock[b]
        BY <2>1, <3>2 DEF BaseOK, TimesOK, StampsOK
      <3>4. clock[b] \in Nat /\ ck[b] \in Nat /\ clock[b] <= ck[b]
        BY <1>6, <1>7
      <3> QED BY <3>1, <3>2, <3>3, <3>4
    <2> QED BY <1>7, <2>1, <2>2, CollectSame
  <1>9. \A z \in Sites : st[z] = site[z] \/ (StampsOK(st[z], ck) /\ LeafOK(z, st[z]))
    BY <1>5, <1>6, <1>8
  <1>10. \A u, v \in Sites : \A n \in Copies(qs[u][v]) :
           n \in Copies(queue[u][v]) \/ n.stamp <= ck[n.orig]
    <2>1. m.stamp <= ck[m.orig]
      BY <1>5, <1>7 DEF Messages
    <2>2. \A u, v \in Sites : \A n \in Copies(qs[u][v]) : n \in Copies(queue[u][v]) \/ n = m
      BY <1>5 DEF Sent
    <2> QED BY <2>1, <2>2
  <1>11. BaseOK(st, qs, ck)
    BY <1>7, <1>9, <1>10, BaseNext
  <1> QED BY <1>2, <1>3, <1>4, <1>11

LEMMA NoFloodBase ==
  ASSUME NetInv, BaseOK(site, queue, clock), NEW x \in Sites, NEW s, NoFlood(x, s),
         StampsOK(s, clock), LeafOK(x, s)
  PROVE  BaseOK(site', queue', clock')
  <1>1. PICK st : st = site'
    OBVIOUS
  <1>2. st = [site EXCEPT ![x] = s] /\ queue' = queue /\ clock' = clock
    BY <1>1 DEF NoFlood
  <1>3. clock \in [Sites -> Nat] /\ site \in [Sites -> Routers]
    BY DEF NetInv, SitesOK
  <1>4. \A z \in Sites : clock[z] <= clock[z]
    BY <1>3
  <1>5. \A z \in Sites : st[z] = site[z] \/ (StampsOK(st[z], clock) /\ LeafOK(z, st[z]))
    BY <1>2, <1>3
  <1>6. BaseOK(st, queue, clock)
    BY <1>3, <1>4, <1>5, BaseNext
  <1> QED BY <1>1, <1>2, <1>6

\* What checkLink leaves of a router s: with the keys there, it takes nothing away.
Checked(x, y, s, r) ==
    /\ RouterOK(x, r)
    /\ r.all = s.all /\ r.nbr = s.nbr /\ r.stamp = s.stamp /\ r.chan = s.chan /\ r.pend = s.pend
    /\ y \in keyDir[x] => s.conn \subseteq r.conn /\ s.adj \subseteq r.adj

LEMMA CheckLinkEffect ==
  ASSUME NetInv, NEW x \in Sites, NEW y \in Sites, CheckLink(x, y)
  PROVE  /\ y \in Neighbours(x)
         /\ \/ \E u : Checked(x, y, site[x], u) /\ NoFlood(x, Collect(u))
            \/ \E r, e : /\ Checked(x, y, site[x], r) /\ Checked(x, y, site[x], e)
                         /\ Flood(x, r, open[x], r, e)
  <1>1. PICK s : s = site[x] /\ RouterOK(x, s)
    BY DEF NetInv, SitesOK
  <1>2. PICK n, me : n = InMap(s.all, y) /\ me = InMap(s.all, x)
    OBVIOUS
  <1>3. PICK back : back = [s EXCEPT !.conn = @ \cup {n}, !.adj = @ \cup {<<n, me>>, <<me, n>>}]
    OBVIOUS
  <1>4. PICK gone : gone = [s EXCEPT !.conn = @ \ {n}, !.adj = @ \ {<<n, me>>, <<me, n>>}]
    OBVIOUS
  <1> DEFINE restored == y \in keyDir[x] /\ n \notin s.conn
             broken == y \notin keyDir[x] /\ n \in s.conn
             r == CASE restored -> back [] broken -> gone [] OTHER -> s
             ends == [s EXCEPT !.timers = @ \ {y}]
             nu == IF restored THEN ends.nulls \cup {n} ELSE ends.nulls \ {n}
  <1>5. /\ y \in s.timers
        /\ IF s.all[y] = None \/ (s.all[x] = None /\ (restored \/ broken))
           THEN NoFlood(x, Collect(IF s.all[y] = None THEN ends
                                   ELSE [ends EXCEPT !.conn = r.conn, !.nulls = nu]))
           ELSE Flood(x, r, open[x], r, [r EXCEPT !.timers = @ \ {y}])
    BY <1>1, <1>2, <1>3, <1>4 DEF CheckLink, Broken
  <1>6. \/ restored /\ ~ broken /\ r = back
        \/ ~ restored /\ broken /\ r = gone
        \/ ~ restored /\ ~ broken /\ r = s
    OBVIOUS
  <1>7. broken => y \notin keyDir[x]
    OBVIOUS
  <1>8. net \in Networks /\ s \in Routers /\ s.conn \subseteq Objs /\ y \in Neighbours(x)
    BY <1>1, <1>5 DEF NetInv, RouterOK, Routers
  <1>16. nu \subseteq s.nulls \cup {n} /\ s.nulls \subseteq Objs
    BY <1>8 DEF Routers
  <1> HIDE DEF r, restored, broken, nu
  <1>9. ASSUME s.all[y] # None
        PROVE  n \in Objs /\ RouterOK(x, gone) /\ (s.all[x] # None => RouterOK(x, back))
    BY <1>1, <1>2, <1>3, <1>4, <1>5, <1>8, <1>9, CheckLinkRouter, ZenonT(60)
  <1>10. /\ back.all = s.all /\ back.nbr = s.nbr /\ back.stamp = s.stamp /\ back.chan = s.chan
         /\ back.pend = s.pend /\ back.conn = s.conn \cup {n} /\ s.adj \subseteq back.adj
    BY <1>3, <1>8 DEF Routers
  <1>11. /\ gone.all = s.all /\ gone.nbr = s.nbr /\ gone.stamp = s.stamp /\ gone.chan = s.chan
         /\ gone.pend = s.pend /\ gone.conn = s.conn \ {n}
    BY <1>4, <1>8 DEF Routers
  <1>12. ASSUME NEW c, c \subseteq Objs, y \in keyDir[x] => s.conn \subseteq c,
                NEW d, d \subseteq Objs, NoFlood(x, Collect([ends EXCEPT !.conn = c, !.nulls = d]))
         PROVE  \E u : Checked(x, y, s, u) /\ NoFlood(x, Collect(u))
    <2>1. PICK u : u = [ends EXCEPT !.conn = c, !.nulls = d]
      OBVIOUS
    <2>2. RouterOK(x, u)
      BY <1>1, <1>12, <2>1, TimerRouter
    <2>3. /\ u.all = s.all /\ u.nbr = s.nbr /\ u.stamp = s.stamp /\ u.chan = s.chan
          /\ u.pend = s.pend /\ u.conn = c /\ u.adj = s.adj
      BY <1>8, <2>1 DEF Routers
    <2> QED BY <1>12, <2>1, <2>2, <2>3 DEF Checked
  <1>13. CASE s.all[y] = None
    <2>1. PICK u : u = ends
      OBVIOUS
    <2>2. RouterOK(x, u) /\ NoFlood(x, Collect(u))
      BY <1>1, <1>5, <1>8, <1>13, <2>1, TimerRouter
    <2>3. /\ u.all = s.all /\ u.nbr = s.nbr /\ u.stamp = s.stamp /\ u.chan = s.chan
          /\ u.pend = s.pend /\ u.conn = s.conn /\ u.adj = s.adj
      BY <1>8, <2>1 DEF Routers
    <2>4. Checked(x, y, s, u)
      BY <2>2, <2>3 DEF Checked
    <2> QED BY <1>1, <1>8, <2>2, <2>4
  <1>14. CASE s.all[y] # None /\ s.all[x] = None /\ (restored \/ broken)
    <2>1. r.conn \subseteq Objs
      BY <1>6, <1>8, <1>9, <1>10, <1>11, <1>14
    <2>2. y \in keyDir[x] => s.conn \subseteq r.conn
      BY <1>6, <1>7, <1>10
    <2>3. NoFlood(x, Collect([ends EXCEPT !.conn = r.conn, !.nulls = nu]))
      BY <1>5, <1>14
    <2>4. nu \subseteq Objs
      BY <1>9, <1>14, <1>16
    <2> QED BY <1>1, <1>8, <1>12, <2>1, <2>2, <2>3, <2>4
  <1>15. CASE s.all[y] # None /\ ~ (s.all[x] = None /\ (restored \/ broken))
    <2>1. RouterOK(x, r)
      BY <1>1, <1>6, <1>9, <1>15
    <2>2. /\ r.all = s.all /\ r.nbr = s.nbr /\ r.stamp = s.stamp /\ r.chan = s.chan
          /\ r.pend = s.pend
          /\ y \in keyDir[x] => s.conn \subseteq r.conn /\ s.adj \subseteq r.adj
      BY <1>6, <1>7, <1>10, <1>11
    <2>3. PICK e : e = [r EXCEPT !.timers = @ \ {y}]
      OBVIOUS
    <2>4. RouterOK(x, e)
      BY <2>1, <2>3, TimerRouter
    <2>5. /\ e.all = r.all /\ e.nbr = r.nbr /\ e.stamp = r.stamp /\ e.chan = r.chan
          /\ e.pend = r.pend /\ e.conn = r.conn /\ e.adj = r.adj
      BY <2>1, <2>3 DEF RouterOK, Routers
    <2>6. Flood(x, r, open[x], r, e)
      BY <1>5, <1>15, <2>3
    <2>7. Checked(x, y, s, r) /\ Checked(x, y, s, e)
      BY <2>1, <2>2, <2>4, <2>5 DEF Checked
    <2> QED BY <1>1, <1>8, <2>6, <2>7
  <1> QED BY <1>13, <1>14, <1>15

LEMMA BaseFacts ==
  ASSUME NetInv, BaseOK(site, queue, clock), NEW x \in Sites
  PROVE  /\ net \in Networks /\ RouterOK(x, site[x]) /\ site[x] \in Routers
         /\ StampsOK(site[x], clock) /\ LeafOK(x, site[x]) /\ clock \in [Sites -> Nat]
  BY DEF NetInv, SitesOK, BaseOK, TimesOK

LEMMA ConnectBase ==
  ASSUME NetInv, NetInv', BaseOK(site, queue, clock), NEW x \in Sites, NEW y \in Sites, Connect(x, y)
  PROVE  BaseOK(site', queue', clock')
  <1>1. PICK s : s = [site[x] EXCEPT !.pend = @ \ {y}]
    OBVIOUS
  <1>2. PICK n : n = InMap(s.nbr, y)
    OBVIOUS
  <1>3. PICK up : up = [s EXCEPT !.conn = @ \cup {n}, !.chan = @ \cup {n}]
    OBVIOUS
  <1>4. PICK v : v = [up EXCEPT !.timers = @ \cup {y}]
    OBVIOUS
  <1>5. PICK ch : ch = open[x] \cup {y}
    OBVIOUS
  <1>6. /\ y \in site[x].pend
        /\ IF s.nbr[y] = None THEN NoFlood(x, s) ELSE Flood(x, up, ch, v, up)
    BY <1>1, <1>2, <1>3, <1>4, <1>5 DEF Connect
  <1>7. /\ net \in Networks /\ RouterOK(x, site[x]) /\ site[x] \in Routers
        /\ StampsOK(site[x], clock) /\ LeafOK(x, site[x])
    BY BaseFacts
  <1>8. RouterOK(x, s) /\ (s.nbr[y] # None => RouterOK(x, up) /\ RouterOK(x, v))
    BY <1>1, <1>2, <1>3, <1>4, <1>6, <1>7, ConnectRouter
  <1>9. s.all = site[x].all /\ s.nbr = site[x].nbr /\ s.stamp = site[x].stamp
    BY <1>1, <1>7 DEF Routers
  <1>10. /\ up.all = s.all /\ up.nbr = s.nbr /\ up.stamp = s.stamp
         /\ v.all = s.all /\ v.nbr = s.nbr /\ v.stamp = s.stamp
    <2>1. up.all = s.all /\ up.nbr = s.nbr /\ up.stamp = s.stamp
      BY <1>3, <1>8 DEF RouterOK, Routers
    <2>2. DOMAIN up = DOMAIN s
      BY <1>3
    <2>3. v.all = up.all /\ v.nbr = up.nbr /\ v.stamp = up.stamp
      BY <1>4, <1>8, <2>2 DEF RouterOK, Routers
    <2> QED BY <2>1, <2>3
  <1>11. StampsOK(s, clock) /\ LeafOK(x, s)
    BY <1>7, <1>9 DEF StampsOK, LeafOK
  <1>12. CASE s.nbr[y] = None
    BY <1>6, <1>11, <1>12, NoFloodBase
  <1>13. CASE s.nbr[y] # None
    <2>1. \A d \in {v, up} : d.stamp = site[x].stamp /\ LeafOK(x, d)
      BY <1>9, <1>10, <1>11 DEF LeafOK
    <2>2. clock' \in [Sites -> Nat] /\ Flood(x, up, ch, v, up)
      BY <1>6, <1>13 DEF NetInv
    <2> QED BY <1>8, <1>13, <2>1, <2>2, FloodBase
  <1> QED BY <1>12, <1>13

LEMMA DisconnectedBase ==
  ASSUME NetInv, NetInv', BaseOK(site, queue, clock), NEW x \in Sites, NEW y \in Sites,
         Disconnected(x, y)
  PROVE  BaseOK(site', queue', clock')
  <1>1. PICK s : s = [site[x] EXCEPT !.nbr[y] = None, !.all[y] = None,
                                     !.nulls = @ \ {InMap(site[x].all, x)}]
    OBVIOUS
  <1>2. IF site[x].nbr[y] = None THEN NoFlood(x, site[x]) ELSE Flood(x, s, open[x], s, s)
    BY <1>1 DEF Disconnected
  <1>3. /\ net \in Networks /\ RouterOK(x, site[x]) /\ site[x] \in Routers
        /\ StampsOK(site[x], clock) /\ LeafOK(x, site[x])
    BY BaseFacts
  <1>4. CASE site[x].nbr[y] = None
    BY <1>2, <1>3, <1>4, NoFloodBase
  <1>5. CASE site[x].nbr[y] # None
    <2>1. RouterOK(x, s)
      BY <1>1, <1>3, DisconnectedRouter
    <2>2. y # x
      BY <1>3, <1>5, LinkFacts DEF RouterOK
    <2>3. /\ s.stamp = site[x].stamp
          /\ \A z \in Sites : s.all[z] = IF z = y THEN None ELSE site[x].all[z]
          /\ \A z \in Sites : s.nbr[z] = IF z = y THEN None ELSE site[x].nbr[z]
      BY <1>1, <1>3 DEF Routers, Maps
    <2>4. LeafOK(x, s)
      BY <1>3, <2>2, <2>3 DEF LeafOK
    <2>5. clock' \in [Sites -> Nat] /\ Flood(x, s, open[x], s, s)
      BY <1>2, <1>5 DEF NetInv
    <2> QED BY <2>1, <2>3, <2>4, <2>5, FloodBase
  <1> QED BY <1>4, <1>5

LEMMA CheckLinkBase ==
  ASSUME NetInv, NetInv', BaseOK(site, queue, clock), NEW x \in Sites, NEW y \in Sites, CheckLink(x, y)
  PROVE  BaseOK(site', queue', clock')
  <1>1. /\ net \in Networks /\ RouterOK(x, site[x]) /\ site[x] \in Routers
        /\ StampsOK(site[x], clock) /\ LeafOK(x, site[x]) /\ clock \in [Sites -> Nat]
    BY BaseFacts
  <1>2. ASSUME NEW u, Checked(x, y, site[x], u) PROVE RouterOK(x, u) /\ u.stamp = site[x].stamp /\ LeafOK(x, u)
    BY <1>1, <1>2 DEF Checked, LeafOK
  <1>3. ASSUME NEW u, Checked(x, y, site[x], u), NoFlood(x, Collect(u))
        PROVE  BaseOK(site', queue', clock')
    <2>1. RouterOK(x, u) /\ StampsOK(u, clock) /\ LeafOK(x, u)
      BY <1>1, <1>2, <1>3 DEF StampsOK
    <2>2. StampsOK(Collect(u), clock) /\ LeafOK(x, Collect(u))
      BY <1>1, <2>1, CollectSame
    <2> QED BY <1>3, <2>2, NoFloodBase
  <1>4. ASSUME NEW r, NEW e, Checked(x, y, site[x], r), Checked(x, y, site[x], e),
               Flood(x, r, open[x], r, e)
        PROVE  BaseOK(site', queue', clock')
    <2>1. clock' \in [Sites -> Nat]
      BY DEF NetInv
    <2>2. RouterOK(x, r) /\ RouterOK(x, e)
      BY <1>2, <1>4
    <2>3. \A d \in {r, e} : d.stamp = site[x].stamp /\ LeafOK(x, d)
      BY <1>2, <1>4
    <2> QED BY <1>4, <2>1, <2>2, <2>3, FloodBase
  <1> QED BY <1>3, <1>4, CheckLinkEffect

LEMMA ReceiveBase ==
  ASSUME NetInv, BaseOK(site, queue, clock), NEW x \in Sites, NEW y \in Sites, Receive(x, y)
  PROVE  BaseOK(site', queue', clock')
  <1>1. PICK m \in Messages, c \in Messages, Z \in SUBSET Sites : Received(x, y, m, c, Z)
    BY ReceiveEffect
  <1>2. PICK st : st = site'
    OBVIOUS
  <1>3. PICK qs : qs = queue'
    OBVIOUS
  <1>4. /\ net \in Networks /\ RouterOK(x, site[x]) /\ site \in [Sites -> Routers]
        /\ StampsOK(site[x], clock) /\ LeafOK(x, site[x]) /\ clock \in [Sites -> Nat]
    BY BaseFacts DEF NetInv, SitesOK
  <1>5. /\ {y, x} \in links /\ MsgOK(m)
        /\ \A z \in m.nbrs \cup {m.orig} : site[x].all[z] = None => CanMake(site[x], z)
    BY <1>1 DEF Received, GoodMsg
  <1>6. m.stamp <= clock[m.orig]
    BY <1>1 DEF Received, BaseOK, TimesOK
  <1>7. \A z \in Sites : st[z] = site[z] \/ (StampsOK(st[z], clock) /\ LeafOK(z, st[z]))
    <2>1. CASE m.orig = x
      BY <1>1, <1>2, <2>1 DEF Received
    <2>2. CASE m.orig # x
      <3>1. PICK r : r = Learn(site[x], x, y, m)
        OBVIOUS
      <3>2. st = [site EXCEPT ![x] = Collect(r)]
        BY <1>1, <1>2, <2>2, <3>1 DEF Received
      <3>3. RouterOK(x, r)
        BY <1>4, <1>5, <3>1, LearnOK
      <3>4. StampsOK(r, clock)
        BY <1>4, <1>5, <1>6, <3>1, LearnStamps
      <3>5. LeafOK(x, r)
        BY <1>4, <1>5, <2>2, <3>1, LearnLeaf
      <3>6. StampsOK(Collect(r), clock) /\ LeafOK(x, Collect(r))
        BY <1>4, <3>3, <3>4, <3>5, CollectSame
      <3> QED BY <1>4, <3>2, <3>6
    <2> QED BY <2>1, <2>2
  <1>8. \A u, v \in Sites : \A n \in Copies(qs[u][v]) :
          n \in Copies(queue[u][v]) \/ n.stamp <= clock[n.orig]
    <2>1. c.stamp <= clock[c.orig]
      BY <1>1, <1>6 DEF Received
    <2>2. \A u, v \in Sites : \A n \in Copies(qs[u][v]) : n \in Copies(queue[u][v]) \/ n = c
      BY <1>1, <1>3 DEF Received
    <2> QED BY <2>1, <2>2
  <1>9. \A z \in Sites : clock[z] <= clock[z]
    BY <1>4
  <1>10. BaseOK(st, qs, clock)
    BY <1>4, <1>7, <1>8, <1>9, BaseNext
  <1>11. clock' = clock
    BY <1>1 DEF Received
  <1> QED BY <1>2, <1>3, <1>10, <1>11

\* A router that has just started.
LEMMA StartUpBase ==
  ASSUME net \in Networks, NEW x \in Sites, NEW ck \in [Sites -> Nat]
  PROVE  /\ StampsOK(StartUp(x), ck) /\ LeafOK(x, StartUp(x))
         /\ (\A z \in Sites : ck[z] = 1) => StampsOK(SteadyState(x), ck) /\ LeafOK(x, SteadyState(x))
  <1>1. PICK s : s = StartUp(x)
    OBVIOUS
  <1>2. /\ \A o \in Objs : s.stamp[o] = 0
        /\ \A z \in Sites : s.all[z] = IF z \in Neighbours(x) \cup {x} THEN 1 ELSE None
        /\ \A z \in Sites : s.nbr[z] = IF z \in Neighbours(x) THEN 1 ELSE None
    BY <1>1 DEF StartUp
  <1>3. StampsOK(s, ck)
    <2>1. \A o \in Objs : Name(o) \in Sites
      BY ObjFacts
    <2> QED BY <1>2, <2>1 DEF StampsOK
  <1>4. LeafOK(x, s)
    BY <1>2 DEF LeafOK, None
  <1>5. ASSUME \A z \in Sites : ck[z] = 1
        PROVE  StampsOK(SteadyState(x), ck) /\ LeafOK(x, SteadyState(x))
    <2>1. PICK t : t = SteadyState(x)
      OBVIOUS
    <2>2. /\ \A o \in Objs : t.stamp[o] = 0 \/ t.stamp[o] = 1
          /\ \A z \in Sites : t.all[z] = 1
      BY <2>1 DEF SteadyState, StartUp
    <2>3. \A o \in Objs : ck[Name(o)] = 1
      BY <1>5, ObjFacts
    <2>4. StampsOK(t, ck)
      BY <2>2, <2>3 DEF StampsOK
    <2>5. LeafOK(x, t)
      BY <2>2 DEF LeafOK, None
    <2> QED BY <2>1, <2>4, <2>5
  <1> QED BY <1>1, <1>3, <1>4, <1>5

LEMMA FaultBase ==
  ASSUME NetInv, BaseOK(site, queue, clock), NEW x \in Sites,
         Crash(x) \/ \E y \in Sites : Break(x, y) \/ KeyChange(x, y)
  PROVE  BaseOK(site', queue', clock')
  <1>1. PICK st : st = site'
    OBVIOUS
  <1>2. PICK qs : qs = queue'
    OBVIOUS
  <1>3. net \in Networks /\ clock \in [Sites -> Nat] /\ site \in [Sites -> Routers]
    BY DEF NetInv, SitesOK
  <1>4. queue \in [Sites -> [Sites -> Seq(Messages)]]
    BY DEF NetInv, QueuesOK
  <1>5. clock' = clock
    BY DEF Crash, Break, KeyChange
  <1>6. \A u, v \in Sites : qs[u][v] = queue[u][v] \/ qs[u][v] = <<>>
    <2>1. CASE Crash(x)
      <3>1. qs = [y \in Sites |-> [z \in Sites |-> IF x \in {y, z} THEN <<>> ELSE queue[y][z]]]
        BY <1>2, <2>1 DEF Crash
      <3> QED BY <3>1
    <2>2. CASE \E y \in Sites : Break(x, y)
      <3>1. PICK y \in Sites : Break(x, y)
        BY <2>2
      <3>2. qs = [queue EXCEPT ![x][y] = <<>>]
        BY <1>2, <3>1 DEF Break
      <3> QED BY <1>4, <3>2
    <2>3. CASE \E y \in Sites : KeyChange(x, y)
      <3>1. qs = queue
        BY <1>2, <2>3 DEF KeyChange
      <3> QED BY <3>1
    <2> QED BY <2>1, <2>2, <2>3
  <1>7. \A z \in Sites : st[z] = site[z] \/ (StampsOK(st[z], clock) /\ LeafOK(z, st[z]))
    <2>1. CASE Crash(x)
      <3>1. st = [site EXCEPT ![x] = StartUp(x)]
        BY <1>1, <2>1 DEF Crash
      <3> QED BY <1>3, <3>1, StartUpBase
    <2>2. CASE \E y \in Sites : Break(x, y) \/ KeyChange(x, y)
      BY <1>1, <2>2 DEF Break, KeyChange
    <2> QED BY <2>1, <2>2
  <1>8. \A u, v \in Sites : \A n \in Copies(qs[u][v]) :
          n \in Copies(queue[u][v]) \/ n.stamp <= clock[n.orig]
    BY <1>6, CopiesEmpty
  <1>9. \A z \in Sites : clock[z] <= clock[z]
    BY <1>3
  <1>10. BaseOK(st, qs, clock)
    BY <1>3, <1>7, <1>8, <1>9, BaseNext
  <1> QED BY <1>1, <1>2, <1>5, <1>10

LEMMA BaseStep ==
  ASSUME NetInv, NetInv', BaseOK(site, queue, clock), Next
  PROVE  BaseOK(site', queue', clock')
  BY ConnectBase, DisconnectedBase, CheckLinkBase, ReceiveBase, FaultBase DEF Next

LEMMA BaseInit == Init => BaseOK(site, queue, clock)
  <1> SUFFICES ASSUME Init PROVE BaseOK(site, queue, clock)
    OBVIOUS
  <1>1. /\ net \in Networks /\ clock = [z \in Sites |-> 1]
        /\ site = [x \in Sites |-> IF net.warm THEN SteadyState(x) ELSE StartUp(x)]
        /\ queue = [x \in Sites |-> [y \in Sites |-> <<>>]]
    BY DEF Init
  <1>2. clock \in [Sites -> Nat] /\ \A z \in Sites : clock[z] = 1
    BY <1>1
  <1>3. ASSUME NEW x \in Sites PROVE StampsOK(site[x], clock) /\ LeafOK(x, site[x])
    <2>1. site[x] = SteadyState(x) \/ site[x] = StartUp(x)
      BY <1>1
    <2>2. /\ StampsOK(StartUp(x), clock) /\ LeafOK(x, StartUp(x))
          /\ StampsOK(SteadyState(x), clock) /\ LeafOK(x, SteadyState(x))
      BY <1>1, <1>2, StartUpBase
    <2> QED BY <2>1, <2>2
  <1>4. \A x, y \in Sites : Copies(queue[x][y]) = {}
    BY <1>1, CopiesEmpty
  <1> QED BY <1>3, <1>4 DEF BaseOK, TimesOK

-----------------------------------------------------------------------------
(* What a step has to leave in order during a round.                        *)

\* A site that hears of a flood passes it on and learns from it; a message that
\* is taken from a queue is heard; nothing known is forgotten.
LEMMA RoundKeeps ==
  ASSUME net \in Networks, NEW st, NEW qs, NEW ck, NEW st2, NEW q2, NEW ck2, NEW bg, NEW rd,
         RoundOK(st, qs, ck, bg, rd),
         \A u, c \in Sites : Has(st, ck, bg, u, c) => Has(st2, ck2, bg, u, c),
         \A z, b \in Sites : st[z].all[b] # None => st2[z].all[b] # None,
         \A z, b, c \in Sites : Linked(st[z], b, c) => Linked(st2[z], b, c),
         \A u, v \in Sites : \A n \in Copies(q2[u][v]) :
           \/ n \in Copies(qs[u][v])
           \/ n.nbrs = Neighbours(n.orig) /\ (Fresh(n, bg) => Has(st2, ck2, bg, u, n.orig)),
         \A u, v \in Sites : \A n \in Copies(qs[u][v]) :
           \/ n.orig \in Sites /\ n \in Copies(q2[u][v])
           \/ n.orig \in Sites /\ (Fresh(n, bg) /\ v # n.orig => Has(st2, ck2, bg, v, n.orig)),
         \A u, c \in Sites : ~ Has(st, ck, bg, u, c) /\ Has(st2, ck2, bg, u, c) =>
           \A v \in Neighbours(u) \ {c} :
             Has(st2, ck2, bg, v, c) \/ \E n \in Copies(q2[u][v]) : n.orig = c /\ Fresh(n, bg),
         \A u, c \in Sites : u # c /\ ~ Has(st, ck, bg, u, c) /\ Has(st2, ck2, bg, u, c) =>
           Learnt(st2[u], c, rd)
  PROVE  RoundOK(st2, q2, ck2, bg, rd)
  <1>1. FullQueues(q2)
    BY DEF RoundOK, FullQueues
  <1>2. SendersHave(st2, q2, ck2, bg)
    <2> SUFFICES ASSUME NEW u \in Sites, NEW v \in Sites, NEW n \in Copies(q2[u][v]), Fresh(n, bg)
                 PROVE  Has(st2, ck2, bg, u, n.orig)
      BY DEF SendersHave
    <2>1. CASE n \in Copies(qs[u][v])
      <3>1. Has(st, ck, bg, u, n.orig)
        BY <2>1 DEF RoundOK, SendersHave
      <3>2. n.orig \in Sites
        BY <2>1
      <3> QED BY <3>1, <3>2
    <2> QED BY <2>1
  <1>3. PassedOn(st2, q2, ck2, bg)
    <2> SUFFICES ASSUME NEW a \in Sites, NEW u \in Sites, NEW v \in Neighbours(u) \ {a},
                        Has(st2, ck2, bg, u, a)
                 PROVE  Heard(st2[v], a, bg) \/ \E n \in Copies(q2[u][v]) : n.orig = a /\ Fresh(n, bg)
      BY DEF PassedOn
    <2>0. v \in Sites /\ v # a
      BY DEF Neighbours
    <2>1. Has(st2, ck2, bg, v, a) => Heard(st2[v], a, bg)
      BY <2>0 DEF Has
    <2>2. Heard(st[v], a, bg) => Has(st, ck, bg, v, a)
      BY <2>0 DEF Has
    <2>3. CASE Has(st, ck, bg, u, a)
      <3>1. Heard(st[v], a, bg) \/ \E n \in Copies(qs[u][v]) : n.orig = a /\ Fresh(n, bg)
        BY <2>3 DEF RoundOK, PassedOn
      <3>2. CASE Heard(st[v], a, bg)
        BY <2>0, <2>1, <2>2, <3>2
      <3>3. ASSUME NEW n \in Copies(qs[u][v]), n.orig = a, Fresh(n, bg)
            PROVE  Heard(st2[v], a, bg) \/ \E k \in Copies(q2[u][v]) : k.orig = a /\ Fresh(k, bg)
        BY <2>0, <2>1, <3>3
      <3> QED BY <3>1, <3>2, <3>3
    <2>4. CASE ~ Has(st, ck, bg, u, a)
      BY <2>1, <2>4
    <2> QED BY <2>3, <2>4
  <1>4. ASSUME NEW z \in Sites, NEW a \in Sites, Learnt(st[z], a, rd) PROVE Learnt(st2[z], a, rd)
    <2>1. Neighbours(a) \subseteq Sites
      BY LinkFacts
    <2> QED BY <1>4, <2>1 DEF Learnt, LinkedAs
  <1>5. AllLearnt(st2, bg, rd)
    <2> SUFFICES ASSUME NEW z \in Sites, NEW a \in Sites, z # a, Heard(st2[z], a, bg)
                 PROVE  Learnt(st2[z], a, rd)
      BY DEF AllLearnt
    <2>1. Has(st2, ck2, bg, z, a) /\ (Has(st, ck, bg, z, a) => Heard(st[z], a, bg))
      BY DEF Has
    <2>2. Heard(st[z], a, bg) => Learnt(st[z], a, rd)
      BY DEF RoundOK, AllLearnt
    <2> QED BY <1>4, <2>1, <2>2
  <1>6. RoundsDone(st2, rd)
    <2>1. \A z \in Sites : Whole(st[z]) => Whole(st2[z])
      BY DEF Whole
    <2>2. \A z, a \in Sites : LinkedAs(st[z], a) => LinkedAs(st2[z], a)
      BY LinkFacts DEF LinkedAs
    <2> QED BY <2>1, <2>2 DEF RoundOK, RoundsDone
  <1> QED BY <1>1, <1>2, <1>3, <1>5, <1>6 DEF RoundOK

-----------------------------------------------------------------------------
(* Calm networks.                                                           *)

\* The router of x has a Node with a connection for every neighbour.
CalmRouter(x, s) ==
    /\ s.pend = {}
    /\ \A z \in Neighbours(x) : s.nbr[z] # None /\ InMap(s.nbr, z) \in s.conn \cap s.chan

LEMMA CalmFacts ==
  ASSUME Calm, NEW x \in Sites
  PROVE  CalmRouter(x, site[x]) /\ open[x] = Neighbours(x) /\ keyDir[x] = Neighbours(x)
  BY DEF Calm, CalmRouter

LEMMA CalmCollect ==
  ASSUME net \in Networks, NEW x \in Sites, NEW s, RouterOK(x, s), CalmRouter(x, s)
  PROVE  CalmRouter(x, Collect(s))
  <1>1. PICK c : c = Collect(s)
    OBVIOUS
  <1>2. s \in Routers
    BY DEF RouterOK
  <1>3. /\ c.nbr = s.nbr /\ c.pend = s.pend
        /\ \A o \in InMaps(s) : (o \in s.conn => o \in c.conn) /\ (o \in s.chan => o \in c.chan)
    BY <1>1, <1>2, CollectKeeps
  <1>4. ASSUME NEW z \in Neighbours(x)
        PROVE  c.nbr[z] # None /\ InMap(c.nbr, z) \in c.conn \cap c.chan
    <2>1. z \in Sites
      BY LinkFacts
    <2>2. PICK o : o = InMap(s.nbr, z)
      OBVIOUS
    <2>3. s.nbr[z] # None /\ o \in s.conn /\ o \in s.chan
      BY <2>2 DEF CalmRouter
    <2>4. o \in InMaps(s)
      BY <1>2, <2>1, <2>2, <2>3, KnownFacts
    <2> QED BY <1>3, <2>2, <2>3, <2>4
  <1> QED BY <1>1, <1>3, <1>4 DEF CalmRouter

\* It sends to all of them.
LEMMA CalmConnected ==
  ASSUME net \in Networks, NEW x \in Sites, NEW s, RouterOK(x, s), CalmRouter(x, s)
  PROVE  /\ Connected(s) = Neighbours(x)
         /\ \A Y \in SUBSET Neighbours(x) : Unsendable(s, Y) = {} /\ Sendings(s, Y) = {Y}
  <1>1. Connected(s) \subseteq Neighbours(x)
    BY ConnectedFacts
  <1>2. Neighbours(x) \subseteq Connected(s)
    BY LinkFacts DEF Connected, CalmRouter
  <1>3. \A Y \in SUBSET Neighbours(x) : Unsendable(s, Y) = {}
    BY DEF Unsendable, CalmRouter
  <1> QED BY <1>1, <1>2, <1>3 DEF Sendings

\* A message, however old, changes no neighbour while all are there.
LEMMA LearnCalm ==
  ASSUME net \in Networks, NEW x \in Sites, NEW s, RouterOK(x, s), NEW y \in Sites,
         {y, x} \in links, NEW m, MsgOK(m),
         \A z \in m.nbrs \cup {m.orig} : s.all[z] = None => CanMake(s, z),
         CalmRouter(x, s)
  PROVE  CalmRouter(x, Learn(s, x, y, m)) /\ Learn(s, x, y, m).nulls = s.nulls
  <1>1. PICK s1 : s1 = Originator(s, m)
    OBVIOUS
  <1>2. PICK o : o = OriginatorObj(s1, m.orig)
    OBVIOUS
  <1>3. PICK s2 : s2 = Insert(s1, m)
    OBVIOUS
  <1>4. PICK s3 : s3 = ReAdd(s2, x, y, m, o)
    OBVIOUS
  <1>5. PICK s4 : s4 = Remove(s3, m, o)
    OBVIOUS
  <1>6. PICK s5 : s5 = Relink(s4, m, o)
    OBVIOUS
  <1>7. /\ RouterOK(x, s1) /\ RouterOK(x, s2) /\ RouterOK(x, s3) /\ RouterOK(x, s4)
        /\ m.orig \in Sites /\ m.nbrs \subseteq Sites
        /\ \A z \in m.nbrs : s1.all[z] = None => CanMake(s1, z)
        /\ Learn(s, x, y, m) = IF ~Update(s, m) THEN s1 ELSE IF o \in s.nulls THEN s3 ELSE s5
    BY <1>1, <1>2, <1>3, <1>4, <1>5, <1>6, LearnParts
  <1>8. s1 \in Routers /\ s2 \in Routers /\ s4 \in Routers
    BY <1>7 DEF RouterOK
  <1>9. s1.nbr = s.nbr /\ s1.conn = s.conn /\ s1.chan = s.chan /\ s1.nulls = s.nulls /\ s1.pend = s.pend
    <2>1. PICK a : a = m.orig
      OBVIOUS
    <2>2. StampTaken(s, m, a, s1)
      BY <1>1, <2>1, OriginatorEffect
    <2> QED BY <2>2 DEF StampTaken
  <1>10. s2.nbr = s.nbr /\ s2.conn = s.conn /\ s2.chan = s.chan /\ s2.nulls = s.nulls /\ s2.pend = s.pend
    BY <1>3, <1>7, <1>8, <1>9, InsertEffect
  <1>11. s3 = s2
    <2>1. FromNeighbour(x, y, m) => s2.nbr[m.orig] # None
      <3>1. y \in Neighbours(x)
        BY LinkFacts
      <3> QED BY <1>10, <3>1 DEF FromNeighbour, CalmRouter
    <2> QED BY <1>4, <1>7, <1>8, <2>1, ReAddEffect
  <1>12. s4.nbr = s.nbr /\ s4.conn = s.conn /\ s4.chan = s.chan /\ s4.nulls = s.nulls /\ s4.pend = s.pend
    BY <1>5, <1>7, <1>10, <1>11, RemoveEffect
  <1>13. s5.nbr = s.nbr /\ s5.conn = s.conn /\ s5.chan = s.chan /\ s5.nulls = s.nulls /\ s5.pend = s.pend
    BY <1>6, <1>8, <1>12, RelinkEffect
  <1> QED BY <1>7, <1>9, <1>10, <1>11, <1>13 DEF CalmRouter

\* Without a fault, only messages arrive and timers fire.
LEMMA CalmActions ==
  ASSUME NetInv, Calm, Next, faults' = faults
  PROVE  \E x, y \in Sites : Receive(x, y) \/ CheckLink(x, y)
  <1>1. \A k : ~ Fault(k)
    BY DEF NetInv, Fault
  <1>2. \A x, y \in Sites : ~ Connect(x, y)
    BY DEF Calm, Connect
  <1>3. \A x, y \in Sites : ~ Disconnected(x, y)
    BY DEF Calm, Disconnected
  <1>4. \A x, y \in Sites : ~ Break(x, y) /\ ~ KeyChange(x, y)
    BY <1>1 DEF Break, KeyChange
  <1>5. \A x \in Sites : ~ Crash(x)
    BY <1>1 DEF Crash
  <1> QED BY <1>2, <1>3, <1>4, <1>5 DEF Next

\* checkLink in a calm network: the router d before what is left over from it is
\* collected, and the flood, if there is one.
CalmChecked(x, d) ==
    /\ RouterOK(x, d) /\ CalmRouter(x, d)
    /\ d.all = site[x].all /\ d.nbr = site[x].nbr /\ d.stamp = site[x].stamp
    /\ site[x].adj \subseteq d.adj
    /\ site' = [site EXCEPT ![x] = Collect(d)]

CalmFlood(x, dt, m) ==
    /\ clock' = [clock EXCEPT ![x] = @ + dt]
    /\ m.orig = x /\ m.stamp = clock[x] + dt /\ m.nbrs = Neighbours(x)
    /\ Sent(queue, queue', x, Neighbours(x), m)

LEMMA CheckLinkCalm ==
  ASSUME NetInv, Calm, NEW x \in Sites, NEW y \in Sites, CheckLink(x, y)
  PROVE  \E d : /\ CalmChecked(x, d)
                /\ \/ queue' = queue /\ clock' = clock
                   \/ \E dt \in Nat : \E m \in Messages : CalmFlood(x, dt, m)
  <1>1. CalmRouter(x, site[x]) /\ open[x] = Neighbours(x) /\ keyDir[x] = Neighbours(x)
    BY CalmFacts
  <1>2. y \in keyDir[x] /\ net \in Networks
    BY <1>1, CheckLinkEffect DEF NetInv
  <1>3. ASSUME NEW u, Checked(x, y, site[x], u)
        PROVE  /\ RouterOK(x, u) /\ CalmRouter(x, u)
               /\ u.all = site[x].all /\ u.nbr = site[x].nbr /\ u.stamp = site[x].stamp
               /\ site[x].adj \subseteq u.adj
    BY <1>1, <1>2, <1>3 DEF Checked, CalmRouter
  <1>4. ASSUME NEW u, Checked(x, y, site[x], u), NoFlood(x, Collect(u))
        PROVE  CalmChecked(x, u) /\ queue' = queue /\ clock' = clock
    BY <1>3, <1>4 DEF CalmChecked, NoFlood
  <1>5. ASSUME NEW r, NEW e, Checked(x, y, site[x], r), Checked(x, y, site[x], e),
               Flood(x, r, open[x], r, e)
        PROVE  CalmChecked(x, r) /\ \E dt \in Nat : \E m \in Messages : CalmFlood(x, dt, m)
    <2>1. RouterOK(x, r) /\ CalmRouter(x, r)
      BY <1>3, <1>5
    <2>2. PICK dt \in Nat, Y \in SUBSET Sites, m \in Messages, d \in {r, e} :
            Flooded(x, r, open[x], r, e, dt, Y, m, d)
      BY <1>5, <2>1, FloodEffect
    <2>3. Connected(r) = Neighbours(x) /\ Unsendable(r, Connected(r)) = {}
      BY <1>2, <2>1, CalmConnected
    <2>4. d = r /\ Y = Neighbours(x) /\ Y \cap open[x] = Neighbours(x)
      BY <1>1, <2>2, <2>3 DEF Flooded
    <2>5. CalmChecked(x, r)
      BY <1>3, <1>5, <2>2, <2>4 DEF CalmChecked, Flooded
    <2>6. CalmFlood(x, dt, m)
      BY <2>2, <2>3, <2>4 DEF CalmFlood, Flooded
    <2> QED BY <2>5, <2>6
  <1> QED BY <1>4, <1>5, CheckLinkEffect

\* A message of another site in a calm network is passed on to all others, when
\* no null neighbour makes onLSRP throw.
LEMMA ReceiveCalm ==
  ASSUME NetInv, Calm, NEW x \in Sites, NEW y \in Sites, NEW m, NEW c, NEW Z,
         Received(x, y, m, c, Z), m.orig # x
  PROVE  /\ RouterOK(x, Learn(site[x], x, y, m)) /\ CalmRouter(x, Learn(site[x], x, y, m))
         /\ site' = [site EXCEPT ![x] = Collect(Learn(site[x], x, y, m))]
         /\ site[x].nulls = {} => Z = Neighbours(x) \ {y, m.orig}
  <1>1. CalmRouter(x, site[x]) /\ open[x] = Neighbours(x)
    BY CalmFacts
  <1>2. net \in Networks /\ RouterOK(x, site[x]) /\ site \in [Sites -> Routers]
    BY DEF NetInv, SitesOK
  <1>3. /\ {y, x} \in links /\ MsgOK(m)
        /\ \A z \in m.nbrs \cup {m.orig} : site[x].all[z] = None => CanMake(site[x], z)
    BY DEF Received, GoodMsg
  <1>4. PICK r : r = Learn(site[x], x, y, m)
    OBVIOUS
  <1>5. RouterOK(x, r)
    BY <1>2, <1>3, <1>4, LearnOK
  <1>6. CalmRouter(x, r) /\ r.nulls = site[x].nulls
    BY <1>1, <1>2, <1>3, <1>4, LearnCalm
  <1>7. PICK s : s = Collect(r)
    OBVIOUS
  <1>8. RouterOK(x, s) /\ CalmRouter(x, s)
    BY <1>2, <1>5, <1>6, <1>7, CollectOK, CalmCollect
  <1>9. site' = [site EXCEPT ![x] = s]
    BY <1>4, <1>7 DEF Received
  <1>10. site'[x] = s
    BY <1>2, <1>9
  <1>11. PICK T \in IF Throws(site[x], s, m) THEN {{}} ELSE Sendings(s, ForwardTo(s, y, m)) : Z = T \cap open[x]
    BY <1>10 DEF Received
  <1>16. site[x].nulls = {} => ~ Throws(site[x], s, m)
    <2>1. s.nulls \subseteq r.nulls
      BY <1>5, <1>7, CollectKeeps DEF RouterOK
    <2> QED BY <1>6, <2>1 DEF Throws, NullNode
  <1>12. ForwardTo(s, y, m) = Neighbours(x) \ {y, m.orig}
    BY <1>2, <1>8, CalmConnected DEF ForwardTo
  <1>13. PICK F \in SUBSET Neighbours(x) : F = ForwardTo(s, y, m)
    BY <1>12
  <1>14. Sendings(s, F) = {F}
    BY <1>2, <1>8, CalmConnected
  <1>15. site[x].nulls = {} => Z = F
    BY <1>1, <1>11, <1>13, <1>14, <1>16
  <1> QED BY <1>4, <1>5, <1>6, <1>7, <1>9, <1>12, <1>13, <1>15

LEMMA CalmNext ==
  ASSUME NetInv, Calm, Next, faults' = faults
  PROVE  Calm'
  <1>1. PICK x \in Sites, y \in Sites : Receive(x, y) \/ CheckLink(x, y)
    BY CalmActions
  <1>2. UNCHANGED <<net, open, inactive, keyDir>>
    BY <1>1 DEF Receive, CheckLink
  <1>3. PICK st : st = site'
    OBVIOUS
  <1>4. net \in Networks /\ site \in [Sites -> Routers]
    BY DEF NetInv, SitesOK
  <1>5. \A z \in Sites : CalmRouter(z, site[z])
    BY CalmFacts
  <1>6. \A z \in Sites : CalmRouter(z, st[z])
    <2>1. ASSUME NEW r, RouterOK(x, r), CalmRouter(x, r), st = [site EXCEPT ![x] = Collect(r)]
          PROVE  \A z \in Sites : CalmRouter(z, st[z])
      <3>1. CalmRouter(x, Collect(r))
        BY <1>4, <2>1, CalmCollect
      <3> QED BY <1>4, <1>5, <2>1, <3>1
    <2>2. CASE CheckLink(x, y)
      <3>1. PICK d : CalmChecked(x, d)
        BY <2>2, CheckLinkCalm
      <3> QED BY <1>3, <2>1, <3>1 DEF CalmChecked
    <2>3. CASE Receive(x, y)
      <3>1. PICK m \in Messages, c \in Messages, Z \in SUBSET Sites : Received(x, y, m, c, Z)
        BY <2>3, ReceiveEffect
      <3>2. CASE m.orig = x
        BY <1>3, <1>5, <3>1, <3>2 DEF Received
      <3>3. CASE m.orig # x
        <4>1. PICK r : r = Learn(site[x], x, y, m)
          OBVIOUS
        <4>2. RouterOK(x, r) /\ CalmRouter(x, r) /\ st = [site EXCEPT ![x] = Collect(r)]
          BY <1>3, <3>1, <3>3, <4>1, ReceiveCalm
        <4> QED BY <2>1, <4>2
      <3> QED BY <3>2, <3>3
    <2> QED BY <1>1, <2>2, <2>3
  <1>7. \A z \in Sites : /\ open[z] = Neighbours(z) /\ keyDir[z] = Neighbours(z)
                         /\ \A v \in Sites : inactive[z][v] = 0
    BY DEF Calm
  <1>8. \A z \in Sites : Neighbours(z)' = Neighbours(z)
    BY <1>2 DEF Neighbours, links
  <1>9. \A z \in Sites :
          /\ open'[z] = Neighbours(z) /\ keyDir'[z] = Neighbours(z) /\ st[z].pend = {}
          /\ \A v \in Sites : inactive'[z][v] = 0
          /\ \A v \in Neighbours(z) : st[z].nbr[v] # None /\ InMap(st[z].nbr, v) \in st[z].conn \cap st[z].chan
    BY <1>2, <1>6, <1>7 DEF CalmRouter
  <1> QED BY <1>3, <1>8, <1>9 DEF Calm, InMap

-----------------------------------------------------------------------------
(* The steps of a round.                                                    *)

LEMMA FullUpdate ==
  ASSUME net \in Networks, NEW x \in Sites, NEW s, RouterOK(x, s), NEW y \in Sites,
         {y, x} \in links, NEW m, MsgOK(m), NEW a \in Sites, a = m.orig, a # x,
         \A z \in m.nbrs \cup {m.orig} : s.all[z] = None => CanMake(s, z),
         m.nbrs = Neighbours(a), \A z \in Neighbours(x) : s.nbr[z] # None, s.nulls = {},
         NEW r, r = Learn(s, x, y, m), Update(s, m)
  PROVE  \A b \in Neighbours(a) : r.all[b] # None /\ (s.all[a] # None => Linked(r, a, b))
  BY LearnFull

\* What a router takes in of a message that is new to it.
LEMMA LearnsNew ==
  ASSUME net \in Networks, NEW x \in Sites, NEW s, RouterOK(x, s), NEW y \in Sites,
         {y, x} \in links, NEW m, MsgOK(m), NEW a \in Sites, a = m.orig, a # x,
         \A z \in m.nbrs \cup {m.orig} : s.all[z] = None => CanMake(s, z),
         m.nbrs = Neighbours(a), CalmRouter(x, s), s.nulls = {}, NEW bg \in [Sites -> Nat], NEW rd,
         rd >= 2 => Whole(s), m.stamp > bg[a], ~ Heard(s, a, bg),
         NEW r, r = Learn(s, x, y, m)
  PROVE  Learnt(r, a, rd)
  <1>1. \A z \in Neighbours(x) : s.nbr[z] # None
    BY DEF CalmRouter
  <1>2. Update(s, m)
    <2>1. ASSUME NEW o \in Known(s, a) PROVE m.stamp > s.stamp[o]
      <3>1. s \in Routers /\ m.stamp \in Nat /\ bg[a] \in Nat
        BY DEF RouterOK, MsgOK, Messages
      <3>2. o \in Objs
        BY <3>1, KnownFacts
      <3>3. s.stamp[o] \in Nat
        BY <3>1, <3>2 DEF Routers
      <3>4. ~ (s.stamp[o] > bg[a])
        BY DEF Heard
      <3> QED BY <3>1, <3>3, <3>4
    <2> QED BY <2>1 DEF Update, Newer
  <1>3. \A b \in Neighbours(a) : r.all[b] # None /\ (s.all[a] # None => Linked(r, a, b))
    BY <1>1, <1>2, FullUpdate
  <1>4. rd >= 2 => s.all[a] # None
    BY DEF Whole
  <1> QED BY <1>3, <1>4 DEF Learnt, LinkedAs

LEMMA ReceiveRound ==
  ASSUME NetInv, Calm, NoNulls, NEW x \in Sites, NEW y \in Sites, Receive(x, y),
         NEW bg \in [Sites -> Nat], NEW rd \in Nat, RoundOK(site, queue, clock, bg, rd)
  PROVE  RoundOK(site', queue', clock', bg, rd)
  <1>1. PICK m \in Messages, c \in Messages, Z \in SUBSET Sites : Received(x, y, m, c, Z)
    BY ReceiveEffect
  <1>2. PICK st : st = site'
    OBVIOUS
  <1>3. PICK qs : qs = queue'
    OBVIOUS
  <1>4. net \in Networks /\ RouterOK(x, site[x]) /\ site \in [Sites -> Routers] /\ QueuesOK(queue)
    BY DEF NetInv, SitesOK
  <1>5. PICK a \in Sites : a = m.orig
    BY DEF Messages
  <1>6. /\ {y, x} \in links /\ MsgOK(m) /\ m \in Copies(queue[y][x])
        /\ \A z \in m.nbrs \cup {m.orig} : site[x].all[z] = None => CanMake(site[x], z)
        /\ c.orig = m.orig /\ c.stamp = m.stamp /\ c.nbrs = m.nbrs
        /\ \A u, v \in Sites : \A n \in Copies(qs[u][v]) :
             n \in Copies(queue[u][v]) \/ (u = x /\ v \in Z /\ n = c)
        /\ \A u, v \in Sites : \A n \in Copies(queue[u][v]) :
             n \in Copies(qs[u][v]) \/ (u = y /\ v = x /\ n = m)
        /\ \A v \in Z : c \in Copies(qs[x][v])
        /\ clock' = clock
    BY <1>1, <1>3 DEF Received, GoodMsg
  <1>7. m.nbrs = Neighbours(a)
    BY <1>5, <1>6 DEF RoundOK, FullQueues
  <1>8. \A u, v \in Sites : \A n \in Copies(queue[u][v]) : n.orig \in Sites
    BY <1>4, CopiesTyped DEF Messages
  <1>9. /\ Fresh(m, bg) <=> m.stamp > bg[a]
        /\ Fresh(c, bg) <=> m.stamp > bg[a]
    BY <1>5, <1>6 DEF Fresh
  <1>10. CASE m.orig = x
    <2>1. st = site /\ Z = {}
      BY <1>1, <1>2, <1>10 DEF Received
    <2>2. \A u, v \in Sites : \A n \in Copies(queue[u][v]) :
            \/ n.orig \in Sites /\ n \in Copies(qs[u][v])
            \/ n.orig \in Sites /\ (Fresh(n, bg) /\ v # n.orig => Has(st, clock, bg, v, n.orig))
      BY <1>6, <1>8, <1>10
    <2>3. \A u, v \in Sites : \A n \in Copies(qs[u][v]) : n \in Copies(queue[u][v])
      BY <1>6, <2>1
    <2>4. RoundOK(st, qs, clock, bg, rd)
      BY <1>4, <2>1, <2>2, <2>3, RoundKeeps
    <2> QED BY <1>2, <1>3, <1>6, <2>4
  <1>11. CASE m.orig # x
    <2>1. PICK r : r = Learn(site[x], x, y, m)
      OBVIOUS
    <2>2. PICK e : e = Collect(r)
      OBVIOUS
    <2>3. RouterOK(x, r) /\ CalmRouter(x, r) /\ st = [site EXCEPT ![x] = e]
      BY <1>1, <1>2, <1>11, <2>1, <2>2, ReceiveCalm
    <2>4. Z = Neighbours(x) \ {y, a}
      BY <1>1, <1>5, <1>11, ReceiveCalm DEF NoNulls
    <2>5. CalmRouter(x, site[x]) /\ site[x].nulls = {}
      BY CalmFacts DEF NoNulls
    <2>6. /\ \A z \in Sites : site[x].all[z] # None => r.all[z] = site[x].all[z]
          /\ \A b \in Sites : Heard(r, b, bg) <=> Heard(site[x], b, bg) \/ (b = a /\ m.stamp > bg[a])
          /\ \A b, d \in Sites : Linked(site[x], b, d) => Linked(r, b, d)
      <3>1. \A z \in Neighbours(x) : site[x].nbr[z] # None
        BY <2>5 DEF CalmRouter
      <3>2. PICK s : s = site[x]
        OBVIOUS
      <3> QED BY <1>4, <1>5, <1>6, <1>7, <1>11, <2>1, <2>5, <3>1, <3>2, LearnFull
    <2>7. e.all = r.all /\ (\A b \in Sites : Heard(e, b, bg) <=> Heard(r, b, bg))
      <3>1. r \in Routers
        BY <2>3 DEF RouterOK
      <3>2. e.all = r.all
        BY <2>2, <3>1, CollectKeeps
      <3> QED BY <2>2, <2>3, <3>2, CollectSame
    <2>8. \A b, d \in Sites : Linked(r, b, d) => Linked(e, b, d)
      BY <2>2, <2>3, CollectSame
    <2>9. st[x] = e /\ \A z \in Sites \ {x} : st[z] = site[z]
      BY <1>4, <2>3
    <2>10. \A u, b \in Sites : Has(st, clock, bg, u, b) <=>
             Has(site, clock, bg, u, b) \/ (u = x /\ b = a /\ m.stamp > bg[a])
      BY <1>5, <1>11, <2>6, <2>7, <2>9 DEF Has
    <2>11. \A z, b \in Sites : site[z].all[b] # None => st[z].all[b] # None
      BY <2>6, <2>7, <2>9
    <2>12. \A z, b, d \in Sites : Linked(site[z], b, d) => Linked(st[z], b, d)
      BY <2>6, <2>8, <2>9
    <2>13. \A u, v \in Sites : \A n \in Copies(qs[u][v]) :
             \/ n \in Copies(queue[u][v])
             \/ n.nbrs = Neighbours(n.orig) /\ (Fresh(n, bg) => Has(st, clock, bg, u, n.orig))
      BY <1>5, <1>6, <1>7, <1>9, <2>10
    <2>14. \A u, v \in Sites : \A n \in Copies(queue[u][v]) :
             \/ n.orig \in Sites /\ n \in Copies(qs[u][v])
             \/ n.orig \in Sites /\ (Fresh(n, bg) /\ v # n.orig => Has(st, clock, bg, v, n.orig))
      BY <1>5, <1>6, <1>8, <1>9, <2>10
    <2>15. ASSUME NEW u \in Sites, NEW b \in Sites, ~ Has(site, clock, bg, u, b), Has(st, clock, bg, u, b)
           PROVE  u = x /\ b = a /\ m.stamp > bg[a]
      BY <2>10, <2>15
    <2>16. ASSUME NEW u \in Sites, NEW b \in Sites, ~ Has(site, clock, bg, u, b), Has(st, clock, bg, u, b),
                  NEW v \in Neighbours(u) \ {b}
           PROVE  Has(st, clock, bg, v, b) \/ \E n \in Copies(qs[u][v]) : n.orig = b /\ Fresh(n, bg)
      <3>1. u = x /\ b = a /\ m.stamp > bg[a]
        BY <2>15, <2>16
      <3>2. CASE v = y
        <4>1. Has(site, clock, bg, y, a)
          BY <1>5, <1>6, <1>9, <3>1 DEF RoundOK, SendersHave
        <4> QED BY <2>10, <3>1, <3>2, <4>1
      <3>3. CASE v # y
        <4>1. v \in Z
          BY <2>4, <2>16, <3>1, <3>3
        <4>2. c \in Copies(qs[x][v]) /\ c.orig = a /\ Fresh(c, bg)
          BY <1>5, <1>6, <1>9, <3>1, <4>1
        <4> QED BY <3>1, <4>2
      <3> QED BY <3>2, <3>3
    <2>17. ASSUME NEW u \in Sites, NEW b \in Sites, u # b,
                  ~ Has(site, clock, bg, u, b), Has(st, clock, bg, u, b)
           PROVE  Learnt(st[u], b, rd)
      <3>1. u = x /\ b = a /\ m.stamp > bg[a]
        BY <2>15, <2>17
      <3>2. ~ Heard(site[x], a, bg)
        BY <2>17, <3>1 DEF Has
      <3>3. rd >= 2 => Whole(site[x])
        BY DEF RoundOK, RoundsDone
      <3>4. Learnt(r, a, rd)
        <4>1. PICK s : s = site[x]
          OBVIOUS
        <4> QED BY <1>4, <1>5, <1>6, <1>7, <1>11, <2>1, <2>5, <3>1, <3>2, <3>3, <4>1, LearnsNew
      <3>5. Learnt(e, a, rd)
        BY <1>4, <2>7, <2>8, <3>4, LinkFacts DEF Learnt, LinkedAs
      <3> QED BY <2>9, <3>1, <3>5
    <2>18. RoundOK(st, qs, clock, bg, rd)
      <3>1. \A u, b \in Sites : Has(site, clock, bg, u, b) => Has(st, clock, bg, u, b)
        BY <2>10
      <3>2. \A u, b \in Sites : ~ Has(site, clock, bg, u, b) /\ Has(st, clock, bg, u, b) =>
              \A v \in Neighbours(u) \ {b} :
                Has(st, clock, bg, v, b) \/ \E n \in Copies(qs[u][v]) : n.orig = b /\ Fresh(n, bg)
        BY <2>16
      <3>3. \A u, b \in Sites : u # b /\ ~ Has(site, clock, bg, u, b) /\ Has(st, clock, bg, u, b) =>
              Learnt(st[u], b, rd)
        BY <2>17
      <3> QED BY <1>4, <2>11, <2>12, <2>13, <2>14, <3>1, <3>2, <3>3, RoundKeeps
    <2> QED BY <1>2, <1>3, <1>6, <2>18
  <1> QED BY <1>10, <1>11

LEMMA CheckLinkRound ==
  ASSUME NetInv, Calm, NEW x \in Sites, NEW y \in Sites, CheckLink(x, y),
         NEW bg \in [Sites -> Nat], NEW rd \in Nat, RoundOK(site, queue, clock, bg, rd)
  PROVE  RoundOK(site', queue', clock', bg, rd)
  <1>1. PICK d : /\ CalmChecked(x, d)
                 /\ \/ queue' = queue /\ clock' = clock
                    \/ \E dt \in Nat : \E m \in Messages : CalmFlood(x, dt, m)
    BY CheckLinkCalm
  <1>2. PICK st : st = site'
    OBVIOUS
  <1>3. PICK qs : qs = queue'
    OBVIOUS
  <1>4. PICK ck : ck = clock'
    OBVIOUS
  <1>5. /\ net \in Networks /\ site \in [Sites -> Routers] /\ QueuesOK(queue)
        /\ clock \in [Sites -> Nat] /\ site[x] \in Routers
    BY DEF NetInv, SitesOK
  <1>6. PICK e : e = Collect(d)
    OBVIOUS
  <1>7. st[x] = e /\ \A z \in Sites \ {x} : st[z] = site[z]
    BY <1>1, <1>2, <1>5, <1>6 DEF CalmChecked
  <1>8. RouterOK(x, d) /\ d \in Routers
    BY <1>1 DEF CalmChecked, RouterOK
  <1>9. e.all = site[x].all
    BY <1>1, <1>6, <1>8, CollectKeeps DEF CalmChecked
  <1>10. \A b \in Sites : Heard(e, b, bg) <=> Heard(site[x], b, bg)
    <2>1. \A b \in Sites : Heard(d, b, bg) <=> Heard(site[x], b, bg)
      BY <1>1 DEF CalmChecked, Heard, Known
    <2> QED BY <1>6, <1>8, <2>1, CollectSame
  <1>11. \A b, c \in Sites : Linked(site[x], b, c) => Linked(e, b, c)
    <2>1. \A b, c \in Sites : Linked(site[x], b, c) => Linked(d, b, c)
      BY <1>1 DEF CalmChecked, Linked
    <2> QED BY <1>6, <1>8, <2>1, CollectSame
  <1>12. \A z, b \in Sites : site[z].all[b] # None => st[z].all[b] # None
    BY <1>7, <1>9
  <1>13. \A z, b, c \in Sites : Linked(site[z], b, c) => Linked(st[z], b, c)
    BY <1>7, <1>11
  <1>14. \A z, b \in Sites : Heard(st[z], b, bg) <=> Heard(site[z], b, bg)
    BY <1>7, <1>10
  <1>15. \A u, v \in Sites : \A n \in Copies(queue[u][v]) : n.orig \in Sites
    BY <1>5, CopiesTyped DEF Messages
  <1>16. CASE queue' = queue /\ clock' = clock
    <2>1. qs = queue /\ ck = clock
      BY <1>3, <1>4, <1>16
    <2>2. \A u, b \in Sites : Has(st, ck, bg, u, b) <=> Has(site, clock, bg, u, b)
      BY <1>14, <2>1 DEF Has
    <2>3. RoundOK(st, qs, ck, bg, rd)
      BY <1>5, <1>12, <1>13, <1>15, <2>1, <2>2, RoundKeeps
    <2> QED BY <1>2, <1>3, <1>4, <2>3
  <1>17. ASSUME NEW dt \in Nat, NEW m \in Messages, CalmFlood(x, dt, m)
         PROVE  RoundOK(site', queue', clock', bg, rd)
    <2>1. /\ ck = [clock EXCEPT ![x] = @ + dt] /\ m.orig = x /\ m.stamp = clock[x] + dt
          /\ m.nbrs = Neighbours(x) /\ Sent(queue, qs, x, Neighbours(x), m)
      BY <1>3, <1>4, <1>17 DEF CalmFlood
    <2>2. ck[x] = m.stamp /\ \A z \in Sites : clock[z] \in Nat /\ clock[z] <= ck[z] /\ (z # x => ck[z] = clock[z])
      BY <1>5, <2>1
    <2>3. Fresh(m, bg) <=> ck[x] > bg[x]
      BY <2>1, <2>2 DEF Fresh
    <2>4. \A z \in Sites : clock[z] > bg[z] => ck[z] > bg[z]
      <3>1. \A z \in Sites : clock[z] \in Nat /\ ck[z] \in Nat /\ bg[z] \in Nat /\ clock[z] <= ck[z]
        BY <1>5, <2>1
      <3> QED BY <3>1
    <2>5. \A u, b \in Sites : Has(site, clock, bg, u, b) => Has(st, ck, bg, u, b)
      BY <1>14, <2>4 DEF Has
    <2>6. ASSUME NEW u \in Sites, NEW b \in Sites, ~ Has(site, clock, bg, u, b), Has(st, ck, bg, u, b)
          PROVE  u = x /\ b = x /\ Fresh(m, bg)
      BY <1>14, <2>2, <2>3, <2>6 DEF Has
    <2>7. \A u, v \in Sites : \A n \in Copies(qs[u][v]) : n \in Copies(queue[u][v]) \/ (u = x /\ n = m)
      <3>1. ASSUME NEW u \in Sites, NEW v \in Sites, NEW n \in Copies(qs[u][v])
            PROVE  n \in Copies(queue[u][v]) \/ (u = x /\ n = m)
        <4>1. CASE u = x /\ v \in Neighbours(x)
          BY <2>1, <4>1 DEF Sent
        <4>2. CASE ~ (u = x /\ v \in Neighbours(x))
          BY <2>1, <4>2 DEF Sent
        <4> QED BY <4>1, <4>2
      <3> QED BY <3>1
    <2>8. \A u, v \in Sites : \A n \in Copies(queue[u][v]) : n \in Copies(qs[u][v])
      <3>1. ASSUME NEW u \in Sites, NEW v \in Sites, NEW n \in Copies(queue[u][v]) PROVE n \in Copies(qs[u][v])
        <4>1. CASE u = x /\ v \in Neighbours(x)
          BY <2>1, <4>1 DEF Sent
        <4>2. CASE ~ (u = x /\ v \in Neighbours(x))
          BY <2>1, <4>2 DEF Sent
        <4> QED BY <4>1, <4>2
      <3> QED BY <3>1
    <2>9. Fresh(m, bg) => Has(st, ck, bg, x, m.orig)
      BY <2>1, <2>3 DEF Has
    <2>10. \A u, v \in Sites : \A n \in Copies(qs[u][v]) :
             \/ n \in Copies(queue[u][v])
             \/ n.nbrs = Neighbours(n.orig) /\ (Fresh(n, bg) => Has(st, ck, bg, u, n.orig))
      BY <2>1, <2>7, <2>9
    <2>11. \A u, v \in Sites : \A n \in Copies(queue[u][v]) :
             \/ n.orig \in Sites /\ n \in Copies(qs[u][v])
             \/ n.orig \in Sites /\ (Fresh(n, bg) /\ v # n.orig => Has(st, ck, bg, v, n.orig))
      BY <1>15, <2>8
    <2>12. \A u, b \in Sites : ~ Has(site, clock, bg, u, b) /\ Has(st, ck, bg, u, b) =>
             \A v \in Neighbours(u) \ {b} :
               Has(st, ck, bg, v, b) \/ \E n \in Copies(qs[u][v]) : n.orig = b /\ Fresh(n, bg)
      <3>1. \A v \in Neighbours(x) : m \in Copies(qs[x][v])
        BY <2>1 DEF Sent
      <3> QED BY <2>1, <2>6, <3>1
    <2>13. \A u, b \in Sites : u # b /\ ~ Has(site, clock, bg, u, b) /\ Has(st, ck, bg, u, b) =>
             Learnt(st[u], b, rd)
      BY <2>6
    <2>14. RoundOK(st, qs, ck, bg, rd)
      BY <1>5, <1>12, <1>13, <2>5, <2>10, <2>11, <2>12, <2>13, RoundKeeps
    <2> QED BY <1>2, <1>3, <1>4, <2>14
  <1> QED BY <1>1, <1>16, <1>17

-----------------------------------------------------------------------------
(* The end of a round and the start of the next.                            *)

\* When no message is on its way, everyone has had a flood of everyone.
LEMMA AllHeard ==
  ASSUME net \in Networks, Joined, NEW st, NEW qs, NEW ck, NEW bg, PassedOn(st, qs, ck, bg),
         \A u, v \in Sites : Copies(qs[u][v]) = {}, \A z \in Sites : ck[z] > bg[z]
  PROVE  \A u, a \in Sites : u # a => Heard(st[u], a, bg)
  <1> SUFFICES ASSUME NEW a \in Sites PROVE \A u \in Sites : Has(st, ck, bg, u, a)
    BY DEF Has
  <1>1. PICK S : S = {u \in Sites : Has(st, ck, bg, u, a)}
    OBVIOUS
  <1>2. a \in S
    BY <1>1 DEF Has
  <1>3. ASSUME NEW u \in S, NEW v \in Neighbours(u) PROVE v \in S
    <2>1. u \in Sites /\ v \in Sites /\ Has(st, ck, bg, u, a)
      BY <1>1, <1>3 DEF Neighbours
    <2>2. CASE v = a
      BY <1>2, <2>2
    <2>3. CASE v # a
      <3>1. Heard(st[v], a, bg)
        BY <2>1, <2>3 DEF PassedOn
      <3> QED BY <1>1, <2>1, <2>3, <3>1 DEF Has
    <2> QED BY <2>2, <2>3
  <1>4. S \in SUBSET Sites /\ S # {} /\ \A u \in S : Neighbours(u) \subseteq S
    BY <1>1, <1>2, <1>3
  <1>5. S = Sites
    BY <1>4 DEF Joined
  <1> QED BY <1>1, <1>5

LEMMA RoundEnd ==
  ASSUME net \in Networks, Joined, NEW st, NEW qs, NEW ck, NEW bg, NEW rd \in Nat,
         RoundOK(st, qs, ck, bg, rd),
         \A u, v \in Sites : Copies(qs[u][v]) = {}, \A z \in Sites : ck[z] > bg[z],
         \A z \in Sites : CalmRouter(z, st[z]) /\ LeafOK(z, st[z])
  PROVE  RoundsDone(st, rd + 1)
  <1>1. \A x, a \in Sites : x # a => Learnt(st[x], a, rd)
    BY AllHeard DEF RoundOK, AllLearnt
  <1>2. ASSUME NEW x \in Sites, NEW b \in Sites, st[x].all[b] = None PROVE FALSE
    <2>1. ASSUME NEW c \in Sites \ {x}, b \in Neighbours(c) PROVE FALSE
      BY <1>1, <1>2, <2>1 DEF Learnt
    <2>2. b # x /\ st[x].nbr[b] = None
      BY <1>2, <2>1 DEF LeafOK
    <2>3. b \notin Neighbours(x)
      BY <2>2 DEF CalmRouter
    <2>4. PICK c \in Neighbours(b) : TRUE
      <3>1. Neighbours(b) # {}
        <4>1. Neighbours(b) = {} => {b} = Sites
          BY DEF Joined
        <4> QED BY <2>2, <4>1
      <3> QED BY <3>1
    <2>5. c \in Sites /\ b \in Neighbours(c)
      BY <2>4, LinkFacts
    <2> QED BY <2>1, <2>3, <2>5
  <1>3. \A x \in Sites : Whole(st[x])
    BY <1>2 DEF Whole
  <1>4. rd + 1 >= 3 => \A x, a \in Sites : x # a => LinkedAs(st[x], a)
    <2>1. rd + 1 >= 3 => rd >= 2
      OBVIOUS
    <2> QED BY <1>1, <2>1 DEF Learnt
  <1> QED BY <1>3, <1>4 DEF RoundsDone

LEMMA RoundStart ==
  ASSUME net \in Networks, NEW st \in [Sites -> Routers], NEW qs, NEW ck \in [Sites -> Nat], NEW rd,
         BaseOK(st, qs, ck), \A u, v \in Sites : Copies(qs[u][v]) = {}, RoundsDone(st, rd)
  PROVE  RoundOK(st, qs, ck, ck, rd)
  <1>1. ASSUME NEW x \in Sites, NEW a \in Sites, Heard(st[x], a, ck) PROVE FALSE
    <2>1. PICK o \in Known(st[x], a) : st[x].stamp[o] > ck[a]
      BY <1>1 DEF Heard
    <2>2. o \in Objs /\ Name(o) = a /\ st[x] \in Routers
      BY KnownFacts
    <2>3. st[x].stamp[o] \in Nat /\ ck[a] \in Nat
      BY <2>2 DEF Routers
    <2>4. st[x].stamp[o] <= ck[a]
      BY <2>2 DEF BaseOK, TimesOK, StampsOK
    <2> QED BY <2>1, <2>3, <2>4
  <1>2. ASSUME NEW x \in Sites, NEW a \in Sites, Has(st, ck, ck, x, a) PROVE FALSE
    <2>1. ck[a] \in Nat
      OBVIOUS
    <2> QED BY <1>1, <1>2, <2>1 DEF Has
  <1>3. FullQueues(qs) /\ SendersHave(st, qs, ck, ck)
    BY DEF FullQueues, SendersHave
  <1>4. PassedOn(st, qs, ck, ck)
    BY <1>2 DEF PassedOn
  <1>5. AllLearnt(st, ck, rd)
    BY <1>1 DEF AllLearnt
  <1> QED BY <1>3, <1>4, <1>5 DEF RoundOK

-----------------------------------------------------------------------------
(* The invariant.                                                           *)

LEMMA SameHealing ==
  ASSUME net' = net
  PROVE  /\ \A st, qs, ck : BaseOK(st, qs, ck)' <=> BaseOK(st, qs, ck)
         /\ \A st, qs, ck, bg, rd : RoundOK(st, qs, ck, bg, rd)' <=> RoundOK(st, qs, ck, bg, rd)
         /\ Joined' <=> Joined
  <1>1. \A x \in Sites : Neighbours(x)' = Neighbours(x)
    BY DEF Neighbours, links
  <1>2. Joined' <=> Joined
    BY <1>1 DEF Joined
  <1>3. \A x, s : x \in Sites => (LeafOK(x, s)' <=> LeafOK(x, s))
    BY <1>1 DEF LeafOK
  <1>4. \A st, qs, ck : TimesOK(st, qs, ck)' <=> TimesOK(st, qs, ck)
    BY DEF TimesOK, StampsOK, Copies, Name, Objs
  <1>5. \A st, qs, ck : BaseOK(st, qs, ck)' <=> BaseOK(st, qs, ck)
    BY <1>3, <1>4 DEF BaseOK
  <1>6. \A z : Neighbours(z)' = Neighbours(z)
    BY DEF Neighbours, links
  <1>7. \A qs : FullQueues(qs)' <=> FullQueues(qs)
    BY <1>6 DEF FullQueues, Copies
  <1>8. \A s, a, b : Linked(s, a, b)' <=> Linked(s, a, b)
    BY DEF Linked, InMap, None
  <1>9. \A s, a : LinkedAs(s, a)' <=> LinkedAs(s, a)
    BY <1>6, <1>8 DEF LinkedAs
  <1>10. \A s, a, rd : Learnt(s, a, rd)' <=> Learnt(s, a, rd)
    BY <1>6, <1>9 DEF Learnt, None
  <1>11. \A s, a, bg : Heard(s, a, bg)' <=> Heard(s, a, bg)
    BY DEF Heard, Known, InMap, None
  <1>12. \A st, ck, bg, u, a : Has(st, ck, bg, u, a)' <=> Has(st, ck, bg, u, a)
    BY <1>11 DEF Has
  <1>13. \A st, qs, ck, bg : SendersHave(st, qs, ck, bg)' <=> SendersHave(st, qs, ck, bg)
    BY <1>12 DEF SendersHave, Fresh, Copies
  <1>14. \A st, qs, ck, bg : PassedOn(st, qs, ck, bg)' <=> PassedOn(st, qs, ck, bg)
    BY <1>6, <1>11, <1>12 DEF PassedOn, Fresh, Copies
  <1>15. \A st, bg, rd : AllLearnt(st, bg, rd)' <=> AllLearnt(st, bg, rd)
    BY <1>10, <1>11 DEF AllLearnt
  <1>16. \A st, rd : RoundsDone(st, rd)' <=> RoundsDone(st, rd)
    BY <1>9 DEF RoundsDone, Whole, None
  <1>17. \A st, qs, ck, bg, rd : RoundOK(st, qs, ck, bg, rd)' <=> RoundOK(st, qs, ck, bg, rd)
    BY <1>7, <1>13, <1>14, <1>15, <1>16 DEF RoundOK
  <1> QED BY <1>2, <1>5, <1>17

\* After a step, from what holds of the new state in the network as it was.
LEMMA HealNext ==
  ASSUME NetInv', net' = net, BaseOK(site', queue', clock'),
         Joined /\ rounds' >= 1 => Calm' /\ NoNulls' /\ RoundOK(site', queue', clock', begun', rounds')
  PROVE  HealInv'
  <1>1. PICK st, qs, ck, bg, rd : st = site' /\ qs = queue' /\ ck = clock' /\ bg = begun' /\ rd = rounds'
    OBVIOUS
  <1>2. BaseOK(st, qs, ck)'
    BY <1>1, SameHealing
  <1>3. BaseOK(site, queue, clock)'
    BY <1>1, <1>2
  <1>4. Joined' /\ rd >= 1 => Calm' /\ NoNulls' /\ RoundOK(st, qs, ck, bg, rd)'
    BY <1>1, SameHealing
  <1>5. (Joined /\ rounds >= 1 => Calm /\ NoNulls /\ RoundOK(site, queue, clock, begun, rounds))'
    BY <1>1, <1>4
  <1> QED BY <1>3, <1>5 DEF HealInv

\* A calm network that stays so goes through its rounds.
LEMMA RoundStep ==
  ASSUME NetInv, NetInv', BaseOK(site, queue, clock), BaseOK(site', queue', clock'),
         Joined, rounds >= 1 => Calm /\ NoNulls /\ RoundOK(site, queue, clock, begun, rounds),
         Next, net' = net, Rounds, rounds' >= 1
  PROVE  Calm' /\ NoNulls' /\ RoundOK(site', queue', clock', begun', rounds')
  <1>1. PICK st, qs, ck, bg, rd, bg2, rd2 :
          /\ st = site' /\ qs = queue' /\ ck = clock' /\ bg = begun /\ rd = rounds
          /\ bg2 = begun' /\ rd2 = rounds'
    OBVIOUS
  <1>2. Calm' /\ NoNulls' /\ faults' = faults
    BY DEF Rounds
  <1>3. /\ rd2 = IF rd < 3 /\ Quiet' /\ RoundOver THEN rd + 1 ELSE rd
        /\ bg2 = IF rd2 > rd THEN ck ELSE bg
    BY <1>1, <1>2 DEF Rounds
  <1>4. rd \in 0 .. 3 /\ bg \in [Sites -> Nat] /\ net \in Networks
    BY <1>1 DEF NetInv
  <1>5. SitesOK(st) /\ ck \in [Sites -> Nat]
    <2>1. SitesOK(st)' /\ ck \in [Sites -> Nat]
      BY <1>1 DEF NetInv
    <2> QED BY <2>1, SameNetwork
  <1>6. st \in [Sites -> Routers] /\ \A z \in Sites : RouterOK(z, st[z])
    BY <1>5 DEF SitesOK
  <1>7. \A z \in Sites : Neighbours(z)' = Neighbours(z)
    BY DEF Neighbours, links
  <1>8. \A z \in Sites : CalmRouter(z, st[z])
    BY <1>1, <1>2, <1>7 DEF Calm, CalmRouter, InMap
  <1>9. BaseOK(st, qs, ck) /\ \A z \in Sites : LeafOK(z, st[z])
    BY <1>1 DEF BaseOK
  <1>10. rd >= 1 => RoundOK(st, qs, ck, bg, rd)
    <2> SUFFICES ASSUME rd >= 1 PROVE RoundOK(site', queue', clock', bg, rd)
      BY <1>1
    <2>1. Calm /\ NoNulls /\ RoundOK(site, queue, clock, bg, rd) /\ rd \in Nat
      BY <1>1, <1>4
    <2>2. PICK x \in Sites, y \in Sites : Receive(x, y) \/ CheckLink(x, y)
      BY <1>2, <2>1, CalmActions
    <2> QED BY <1>4, <2>1, <2>2, ReceiveRound, CheckLinkRound
  <1>11. CASE rd < 3 /\ Quiet' /\ RoundOver
    <2>1. rd2 = rd + 1 /\ bg2 = ck
      BY <1>3, <1>4, <1>11
    <2>2. \A u, v \in Sites : Copies(qs[u][v]) = {}
      <3>1. \A u, v \in Sites : qs[u][v] = <<>>
        BY <1>1, <1>11 DEF Quiet
      <3> QED BY <3>1, CopiesEmpty
    <2>3. RoundsDone(st, rd + 1)
      <3>1. CASE rd = 0
        <4>1. ~ (rd + 1 >= 2) /\ ~ (rd + 1 >= 3)
          BY <3>1
        <4> QED BY <4>1 DEF RoundsDone
      <3>2. CASE rd # 0
        <4>1. rd \in Nat /\ rd >= 1
          BY <1>4, <3>2
        <4>2. \A z \in Sites : ck[z] > bg[z]
          BY <1>1, <1>11, <3>2 DEF RoundOver
        <4> QED BY <1>4, <1>8, <1>9, <1>10, <2>2, <4>1, <4>2, RoundEnd
      <3> QED BY <3>1, <3>2
    <2>4. RoundOK(st, qs, ck, ck, rd + 1)
      BY <1>4, <1>5, <1>6, <1>9, <2>2, <2>3, RoundStart
    <2>5. RoundOK(st, qs, ck, bg2, rd2)
      BY <2>1, <2>4
    <2> QED BY <1>1, <1>2, <2>5
  <1>12. CASE ~ (rd < 3 /\ Quiet' /\ RoundOver)
    <2>1. rd2 = rd
      BY <1>3, <1>12
    <2>2. bg2 = bg /\ rd >= 1
      BY <1>1, <1>3, <1>4, <2>1
    <2>3. RoundOK(st, qs, ck, bg2, rd2)
      BY <1>10, <2>1, <2>2
    <2> QED BY <1>1, <1>2, <2>3
  <1> QED BY <1>11, <1>12

LEMMA HealStep ==
  ASSUME HealInv, [Next]_vars PROVE HealInv'
  <1>1. NetInv /\ NetInv' /\ BaseOK(site, queue, clock)
    BY NetStep DEF HealInv
  <1>2. CASE UNCHANGED vars
    <2>1. UNCHANGED <<net, site, open, queue, inactive, keyDir, clock, rounds, begun, floods, faults>>
      BY <1>2 DEF vars
    <2>2. (Calm => Calm') /\ (NoNulls => NoNulls')
      BY <2>1 DEF Calm, NoNulls, Neighbours, links, InMap
    <2> QED BY <1>1, <2>1, <2>2, HealNext DEF HealInv
  <1>3. CASE Next
    <2>1. net' = net /\ Rounds
      <3>1. \A x \in Sites : Crash(x) => net' = net /\ Rounds
        BY DEF Crash
      <3>2. \A x, y \in Sites : Connect(x, y) => net' = net /\ Rounds
        BY DEF Connect
      <3>3. \A x, y \in Sites : Disconnected(x, y) => net' = net /\ Rounds
        BY DEF Disconnected
      <3>4. \A x, y \in Sites : Receive(x, y) => net' = net /\ Rounds
        BY DEF Receive
      <3>5. \A x, y \in Sites : CheckLink(x, y) => net' = net /\ Rounds
        BY DEF CheckLink
      <3>6. \A x, y \in Sites : Break(x, y) \/ KeyChange(x, y) => net' = net /\ Rounds
        BY DEF Break, KeyChange
      <3> QED BY <1>3, <3>1, <3>2, <3>3, <3>4, <3>5, <3>6 DEF Next
    <2>2. BaseOK(site', queue', clock')
      BY <1>1, <1>3, BaseStep
    <2>3. Joined /\ rounds' >= 1 => Calm' /\ NoNulls' /\ RoundOK(site', queue', clock', begun', rounds')
      BY <1>1, <1>3, <2>1, <2>2, RoundStep DEF HealInv
    <2> QED BY <1>1, <2>1, <2>2, <2>3, HealNext
  <1> QED BY <1>2, <1>3

LEMMA HealInit == Init => HealInv
  <1>1. Init => rounds = 0
    BY DEF Init
  <1> QED BY <1>1, NetInit, BaseInit DEF HealInv

LEMMA HealInvariant == Spec => []HealInv
  <1>1. HealInv /\ [Next]_vars => HealInv'
    BY HealStep
  <1> QED BY <1>1, HealInit, PTL DEF Spec

-----------------------------------------------------------------------------
(* Strangers.                                                               *)

LEMMA CopiesNone ==
  ASSUME NEW q \in Seq(Messages)
  PROVE  Copies(q) = {} <=> q = <<>>
  <1>1. q # <<>> => Copies(q) # {}
    <2>1. q # <<>> => Len(q) \in Nat /\ Len(q) # 0
      BY EmptySeq, LenProperties
    <2>2. q # <<>> => 1 \in 1 .. Len(q)
      BY <2>1
    <2> QED BY <2>2 DEF Copies
  <1> QED BY <1>1, CopiesEmpty

\* Forgot, of the parts of a state.
Apart(st, qs, z, w) == st[z].nbr[w] = None /\ w \notin st[z].pend /\ Copies(qs[w][z]) = {}

\* A step of z alone in which it does not turn to sites that it is apart from.
Polite(z) ==
    /\ \A u \in Sites \ {z} : site'[u] = site[u]
    /\ \A w \in Sites : Apart(site, queue, z, w) => site'[z].nbr[w] = None /\ w \notin site'[z].pend
    /\ \A u, v \in Sites : Copies(queue'[u][v]) # {} =>
         Copies(queue[u][v]) # {} \/ (u = z /\ ~ Apart(site, queue, z, v))

LEMMA PoliteStays ==
  ASSUME NetInv, NetInv', NEW z \in Sites, Polite(z), NEW x \in Sites, NEW y \in Sites,
         Forgot(x, y), Forgot(y, x)
  PROVE  (Forgot(x, y) /\ Forgot(y, x))'
  <1>1. PICK st, qs : st = site' /\ qs = queue'
    OBVIOUS
  <1>2. queue \in [Sites -> [Sites -> Seq(Messages)]] /\ qs \in [Sites -> [Sites -> Seq(Messages)]]
    <2>1. (queue \in [Sites -> [Sites -> Seq(Messages)]])'
      BY DEF NetInv, QueuesOK, Messages
    <2> QED BY <1>1, <2>1 DEF NetInv, QueuesOK, Messages
  <1>3. Apart(site, queue, x, y) /\ Apart(site, queue, y, x)
    BY <1>2, CopiesNone DEF Forgot, Apart
  <1>4. Apart(st, qs, x, y) /\ Apart(st, qs, y, x)
    BY <1>1, <1>3 DEF Apart, Polite
  <1>5. qs[x][y] = <<>> /\ qs[y][x] = <<>>
    BY <1>2, <1>4, CopiesNone DEF Apart
  <1> QED BY <1>1, <1>4, <1>5 DEF Apart, Forgot, None

\* A flood goes to neighbours that the router has a Node for.
LEMMA FloodPolite ==
  ASSUME NetInv, NEW x \in Sites, NEW s, RouterOK(x, s), NEW chans, NEW done, NEW threw,
         Flood(x, s, chans, done, threw),
         RouterOK(x, done), RouterOK(x, threw),
         \A w \in Sites : site[x].nbr[w] = None =>
           s.nbr[w] = None /\ \A d \in {done, threw} : d.nbr[w] = None,
         \A d \in {done, threw} : d.pend \subseteq site[x].pend
  PROVE  Polite(x)
  <1>1. PICK dt \in Nat, Y \in SUBSET Sites, m \in Messages, d \in {done, threw} :
          Flooded(x, s, chans, done, threw, dt, Y, m, d)
    BY FloodEffect
  <1>2. PICK st, qs : st = site' /\ qs = queue'
    OBVIOUS
  <1>3. PICK e : e = Collect(d)
    OBVIOUS
  <1>4. /\ st = [site EXCEPT ![x] = e] /\ Sent(queue, qs, x, Y \cap chans, m)
        /\ d \in {done, threw} /\ Y \subseteq Connected(s)
    BY <1>1, <1>2, <1>3 DEF Flooded
  <1>5. e.nbr = d.nbr /\ e.pend = d.pend
    <2>1. d \in Routers
      BY <1>4 DEF RouterOK
    <2> QED BY <1>3, <2>1, CollectKeeps
  <1>6. st[x] = e /\ \A u \in Sites \ {x} : st[u] = site[u]
    BY <1>4 DEF NetInv, SitesOK
  <1>7. \A w \in Sites : Apart(site, queue, x, w) => st[x].nbr[w] = None /\ w \notin st[x].pend
    BY <1>4, <1>5, <1>6 DEF Apart
  <1>8. \A v \in Y : site[x].nbr[v] # None
    BY <1>4 DEF Connected
  <1>9. ASSUME NEW u \in Sites, NEW v \in Sites, Copies(qs[u][v]) # {}
        PROVE  Copies(queue[u][v]) # {} \/ (u = x /\ ~ Apart(site, queue, x, v))
    <2>1. CASE u = x /\ v \in Y \cap chans
      BY <1>8, <2>1 DEF Apart
    <2>2. CASE ~ (u = x /\ v \in Y \cap chans)
      BY <1>4, <1>9, <2>2 DEF Sent
    <2> QED BY <2>1, <2>2
  <1> QED BY <1>2, <1>6, <1>7, <1>9 DEF Polite

LEMMA NoFloodPolite ==
  ASSUME NetInv, NEW x \in Sites, NEW s, NoFlood(x, s),
         \A w \in Sites : site[x].nbr[w] = None => s.nbr[w] = None, s.pend \subseteq site[x].pend
  PROVE  Polite(x)
  <1>1. PICK st, qs : st = site' /\ qs = queue'
    OBVIOUS
  <1>2. st = [site EXCEPT ![x] = s] /\ qs = queue
    BY <1>1 DEF NoFlood
  <1>3. st[x] = s /\ \A u \in Sites \ {x} : st[u] = site[u]
    BY <1>2 DEF NetInv, SitesOK
  <1> QED BY <1>1, <1>2, <1>3 DEF Polite, Apart

LEMMA ConnectPolite ==
  ASSUME NetInv, NEW x \in Sites, NEW y \in Sites, Connect(x, y)
  PROVE  Polite(x)
  <1>1. PICK s : s = [site[x] EXCEPT !.pend = @ \ {y}]
    OBVIOUS
  <1>2. PICK n : n = InMap(s.nbr, y)
    OBVIOUS
  <1>3. PICK up : up = [s EXCEPT !.conn = @ \cup {n}, !.chan = @ \cup {n}]
    OBVIOUS
  <1>4. PICK v : v = [up EXCEPT !.timers = @ \cup {y}]
    OBVIOUS
  <1>5. PICK ch : ch = open[x] \cup {y}
    OBVIOUS
  <1>6. /\ y \in site[x].pend
        /\ IF s.nbr[y] = None THEN NoFlood(x, s) ELSE Flood(x, up, ch, v, up)
    BY <1>1, <1>2, <1>3, <1>4, <1>5 DEF Connect
  <1>7. net \in Networks /\ RouterOK(x, site[x]) /\ site[x] \in Routers
    BY DEF NetInv, SitesOK
  <1>8. RouterOK(x, s) /\ (s.nbr[y] # None => RouterOK(x, up) /\ RouterOK(x, v))
    BY <1>1, <1>2, <1>3, <1>4, <1>6, <1>7, ConnectRouter
  <1>9. s.nbr = site[x].nbr /\ s.pend \subseteq site[x].pend
    BY <1>1, <1>7 DEF Routers
  <1>10. up.nbr = s.nbr /\ up.pend = s.pend /\ v.nbr = s.nbr /\ v.pend = s.pend
    <2>1. up.nbr = s.nbr /\ up.pend = s.pend
      BY <1>3, <1>8 DEF RouterOK, Routers
    <2>2. DOMAIN up = DOMAIN s
      BY <1>3
    <2>3. v.nbr = up.nbr /\ v.pend = up.pend
      BY <1>4, <1>8, <2>2 DEF RouterOK, Routers
    <2> QED BY <2>1, <2>3
  <1>11. CASE s.nbr[y] = None
    BY <1>6, <1>9, <1>11, NoFloodPolite
  <1>12. CASE s.nbr[y] # None
    <2>1. Flood(x, up, ch, v, up) /\ RouterOK(x, up) /\ RouterOK(x, v)
      BY <1>6, <1>8, <1>12
    <2>2. \A d \in {v, up} : d.nbr = site[x].nbr /\ d.pend \subseteq site[x].pend
      BY <1>9, <1>10
    <2> QED BY <1>9, <1>10, <2>1, <2>2, FloodPolite
  <1> QED BY <1>11, <1>12

LEMMA DisconnectedPolite ==
  ASSUME NetInv, NEW x \in Sites, NEW y \in Sites, Disconnected(x, y)
  PROVE  Polite(x)
  <1>1. PICK s : s = [site[x] EXCEPT !.nbr[y] = None, !.all[y] = None,
                                     !.nulls = @ \ {InMap(site[x].all, x)}]
    OBVIOUS
  <1>2. IF site[x].nbr[y] = None THEN NoFlood(x, site[x]) ELSE Flood(x, s, open[x], s, s)
    BY <1>1 DEF Disconnected
  <1>3. RouterOK(x, site[x]) /\ site[x] \in Routers
    BY DEF NetInv, SitesOK
  <1>4. CASE site[x].nbr[y] = None
    BY <1>2, <1>4, NoFloodPolite
  <1>5. CASE site[x].nbr[y] # None
    <2>1. RouterOK(x, s)
      BY <1>1, <1>3, DisconnectedRouter
    <2>2. /\ s.pend = site[x].pend
          /\ \A w \in Sites : s.nbr[w] = IF w = y THEN None ELSE site[x].nbr[w]
      BY <1>1, <1>3 DEF Routers, Maps
    <2>3. Flood(x, s, open[x], s, s)
      BY <1>2, <1>5
    <2> QED BY <2>1, <2>2, <2>3, FloodPolite
  <1> QED BY <1>4, <1>5

LEMMA CheckLinkPolite ==
  ASSUME NetInv, NEW x \in Sites, NEW y \in Sites, CheckLink(x, y)
  PROVE  Polite(x)
  <1>1. ASSUME NEW u, Checked(x, y, site[x], u), NoFlood(x, Collect(u)) PROVE Polite(x)
    <2>1. u \in Routers /\ u.nbr = site[x].nbr /\ u.pend = site[x].pend
      BY <1>1 DEF Checked, RouterOK
    <2>2. PICK e : e = Collect(u)
      OBVIOUS
    <2>3. e.nbr = site[x].nbr /\ e.pend = site[x].pend
      BY <2>1, <2>2, CollectKeeps
    <2> QED BY <1>1, <2>2, <2>3, NoFloodPolite
  <1>2. ASSUME NEW r, NEW e, Checked(x, y, site[x], r), Checked(x, y, site[x], e),
               Flood(x, r, open[x], r, e)
        PROVE  Polite(x)
    <2>1. \A d \in {r, e} : RouterOK(x, d) /\ d.nbr = site[x].nbr /\ d.pend = site[x].pend
      BY <1>2 DEF Checked
    <2> QED BY <1>2, <2>1, FloodPolite
  <1> QED BY <1>1, <1>2, CheckLinkEffect

LEMMA ReAddOthers ==
  ASSUME NEW s \in Routers, NEW x, NEW y, NEW m, NEW o, m.orig \in Sites,
         NEW r, r = ReAdd(s, x, y, m, o), NEW w \in Sites, w # y
  PROVE  r.nbr[w] = s.nbr[w] /\ (w \in r.pend <=> w \in s.pend)
  <1>1. CASE ~ (FromNeighbour(x, y, m) /\ s.nbr[m.orig] = None)
    BY <1>1 DEF ReAdd
  <1>2. CASE FromNeighbour(x, y, m) /\ s.nbr[m.orig] = None
    <2>1. m.orig = y /\ y \in Sites
      BY <1>2 DEF FromNeighbour
    <2>2. PICK nr : nr = [s.nbr EXCEPT ![y] = o[2]]
      OBVIOUS
    <2>3. PICK pe : pe = IF o \in s.conn THEN s.pend ELSE s.pend \cup {y}
      OBVIOUS
    <2>4. r = [s EXCEPT !.nbr = nr, !.pend = pe]
      BY <1>2, <2>1, <2>2, <2>3 DEF ReAdd
    <2>5. r.nbr = nr /\ r.pend = pe
      BY <2>4 DEF Routers
    <2>6. nr[w] = s.nbr[w]
      BY <2>2 DEF Routers, Maps
    <2> QED BY <2>3, <2>5, <2>6
  <1> QED BY <1>1, <1>2

\* A message makes a neighbour only of the site it comes from.
LEMMA LearnOthers ==
  ASSUME net \in Networks, NEW x \in Sites, NEW s, RouterOK(x, s), NEW y \in Sites,
         {y, x} \in links, NEW m, MsgOK(m),
         \A z \in m.nbrs \cup {m.orig} : s.all[z] = None => CanMake(s, z),
         NEW w \in Sites, w # y, NEW r, r = Learn(s, x, y, m)
  PROVE  r.nbr[w] = s.nbr[w] /\ (w \in r.pend <=> w \in s.pend)
  <1>1. PICK s1 : s1 = Originator(s, m)
    OBVIOUS
  <1>2. PICK o : o = OriginatorObj(s1, m.orig)
    OBVIOUS
  <1>3. PICK s2 : s2 = Insert(s1, m)
    OBVIOUS
  <1>4. PICK s3 : s3 = ReAdd(s2, x, y, m, o)
    OBVIOUS
  <1>5. PICK s4 : s4 = Remove(s3, m, o)
    OBVIOUS
  <1>6. PICK s5 : s5 = Relink(s4, m, o)
    OBVIOUS
  <1>7. /\ RouterOK(x, s1) /\ RouterOK(x, s2) /\ RouterOK(x, s3) /\ RouterOK(x, s4)
        /\ m.orig \in Sites /\ m.nbrs \subseteq Sites
        /\ \A z \in m.nbrs : s1.all[z] = None => CanMake(s1, z)
        /\ Learn(s, x, y, m) = IF ~Update(s, m) THEN s1 ELSE IF o \in s.nulls THEN s3 ELSE s5
    BY <1>1, <1>2, <1>3, <1>4, <1>5, <1>6, LearnParts
  <1>8. s1 \in Routers /\ s2 \in Routers /\ s4 \in Routers
    BY <1>7 DEF RouterOK
  <1>9. s1.nbr = s.nbr /\ s1.pend = s.pend
    <2>1. PICK a : a = m.orig
      OBVIOUS
    <2>2. StampTaken(s, m, a, s1)
      BY <1>1, <2>1, OriginatorEffect
    <2> QED BY <2>2 DEF StampTaken
  <1>10. s2.nbr = s.nbr /\ s2.pend = s.pend
    BY <1>3, <1>7, <1>8, <1>9, InsertEffect
  <1>11. s3.nbr[w] = s.nbr[w] /\ (w \in s3.pend <=> w \in s.pend)
    BY <1>4, <1>7, <1>8, <1>10, ReAddOthers
  <1>12. s4.nbr = s3.nbr /\ s4.pend = s3.pend
    BY <1>5, <1>7, RemoveEffect
  <1>13. s5.nbr = s4.nbr /\ s5.pend = s4.pend
    BY <1>6, <1>8, RelinkEffect
  <1> QED BY <1>7, <1>9, <1>11, <1>12, <1>13

LEMMA ReceivePolite ==
  ASSUME NetInv, NEW x \in Sites, NEW y \in Sites, Receive(x, y)
  PROVE  Polite(x)
  <1>1. PICK m \in Messages, c \in Messages, Z \in SUBSET Sites : Received(x, y, m, c, Z)
    BY ReceiveEffect
  <1>2. PICK st, qs : st = site' /\ qs = queue'
    OBVIOUS
  <1>3. net \in Networks /\ RouterOK(x, site[x]) /\ site \in [Sites -> Routers]
    BY DEF NetInv, SitesOK
  <1>4. /\ {y, x} \in links /\ MsgOK(m) /\ m \in Copies(queue[y][x])
        /\ \A z \in m.nbrs \cup {m.orig} : site[x].all[z] = None => CanMake(site[x], z)
        /\ \A u, v \in Sites : \A n \in Copies(qs[u][v]) :
             n \in Copies(queue[u][v]) \/ (u = x /\ v \in Z /\ n = c)
    BY <1>1, <1>2 DEF Received, GoodMsg
  <1>5. \A w \in Sites : Apart(site, queue, x, w) => w # y
    BY <1>4 DEF Apart
  <1>6. /\ \A u \in Sites \ {x} : st[u] = site[u]
        /\ \A w \in Sites : Apart(site, queue, x, w) => st[x].nbr[w] = None /\ w \notin st[x].pend
        /\ \A v \in Z : ~ Apart(site, queue, x, v)
    <2>1. CASE m.orig = x
      <3>1. st = site /\ Z = {}
        BY <1>1, <1>2, <2>1 DEF Received
      <3> QED BY <3>1 DEF Apart
    <2>2. CASE m.orig # x
      <3>1. PICK r : r = Learn(site[x], x, y, m)
        OBVIOUS
      <3>2. PICK e : e = Collect(r)
        OBVIOUS
      <3>3. st = [site EXCEPT ![x] = e]
        BY <1>1, <1>2, <2>2, <3>1, <3>2 DEF Received
      <3>4. st[x] = e /\ \A u \in Sites \ {x} : st[u] = site[u]
        BY <1>3, <3>3
      <3>5. e.nbr = r.nbr /\ e.pend = r.pend
        <4>1. RouterOK(x, r)
          BY <1>3, <1>4, <3>1, LearnOK
        <4>2. r \in Routers
          BY <4>1 DEF RouterOK
        <4> QED BY <3>2, <4>2, CollectKeeps
      <3>6. ASSUME NEW w \in Sites, w # y
            PROVE  r.nbr[w] = site[x].nbr[w] /\ (w \in r.pend <=> w \in site[x].pend)
        <4>1. PICK s : s = site[x]
          OBVIOUS
        <4> QED BY <1>3, <1>4, <3>1, <3>6, <4>1, LearnOthers
      <3>7. \A w \in Sites : Apart(site, queue, x, w) => e.nbr[w] = None /\ w \notin e.pend
        BY <1>5, <3>5, <3>6 DEF Apart
      <3>8. \A v \in Z : e.nbr[v] # None
        <4>1. PICK T \in IF Throws(site[x], e, m) THEN {{}} ELSE Sendings(e, ForwardTo(e, y, m)) :
                Z = T \cap open[x]
          BY <1>1, <1>2, <2>2, <3>4 DEF Received
        <4>2. T \subseteq ForwardTo(e, y, m)
          BY DEF Sendings
        <4> QED BY <4>1, <4>2 DEF ForwardTo, Connected
      <3> QED BY <3>4, <3>7, <3>8
    <2> QED BY <2>1, <2>2
  <1>7. \A u, v \in Sites : Copies(qs[u][v]) # {} =>
          Copies(queue[u][v]) # {} \/ (u = x /\ ~ Apart(site, queue, x, v))
    BY <1>4, <1>6
  <1> QED BY <1>2, <1>6, <1>7 DEF Polite

LEMMA FaultPolite ==
  ASSUME NetInv, NEW x \in Sites, NEW y \in Sites, Break(x, y) \/ KeyChange(x, y)
  PROVE  Polite(x)
  <1>1. PICK st, qs : st = site' /\ qs = queue'
    OBVIOUS
  <1>2. st = site
    BY <1>1 DEF Break, KeyChange
  <1>3. \A u, v \in Sites : qs[u][v] = queue[u][v] \/ qs[u][v] = <<>>
    <2>1. qs = queue \/ qs = [queue EXCEPT ![x][y] = <<>>]
      BY <1>1 DEF Break, KeyChange
    <2>2. queue \in [Sites -> [Sites -> Seq(Messages)]]
      BY DEF NetInv, QueuesOK
    <2>3. CASE qs = queue
      BY <2>3
    <2>4. CASE qs = [queue EXCEPT ![x][y] = <<>>]
      BY <2>2, <2>4
    <2> QED BY <2>1, <2>3, <2>4
  <1> QED BY <1>1, <1>2, <1>3, CopiesEmpty DEF Polite, Apart

\* A restart of another site.
LEMMA CrashElsewhere ==
  ASSUME NetInv, NEW z \in Sites, Crash(z), NEW x \in Sites \ {z}, NEW y \in Sites \ {z},
         Forgot(x, y), Forgot(y, x)
  PROVE  (Forgot(x, y) /\ Forgot(y, x))'
  <1>1. PICK st, qs : st = site' /\ qs = queue'
    OBVIOUS
  <1>2. st = [site EXCEPT ![z] = StartUp(z)]
    BY <1>1 DEF Crash
  <1>3. qs = [u \in Sites |-> [v \in Sites |-> IF z \in {u, v} THEN <<>> ELSE queue[u][v]]]
    BY <1>1 DEF Crash
  <1>4. st[x] = site[x] /\ st[y] = site[y]
    BY <1>2 DEF NetInv, SitesOK
  <1>5. qs[x][y] = queue[x][y] /\ qs[y][x] = queue[y][x]
    BY <1>3
  <1> QED BY <1>1, <1>4, <1>5 DEF Forgot, None

-----------------------------------------------------------------------------
(* Theorems.                                                                *)

\* The routing heals: in every joined network, after any crashes, broken
\* connections, missing keys, failed sendings and late messages, the topology
\* of every site is true two rounds of floods after the network became calm
\* and the last null neighbour that checkLink had left in a Node was gone, and
\* stays so as long as nothing fails.
THEOREM RoutingHeals == Spec => []TopologyWhenSettled
  <1>1. ASSUME HealInv PROVE TopologyWhenSettled
    <2> SUFFICES ASSUME rounds = 3, Joined, NEW x \in Sites, NEW a \in Sites, NEW b \in Sites
                 PROVE  /\ site[x].all[a] # None
                        /\ <<InMap(site[x].all, a), InMap(site[x].all, b)>> \in site[x].adj <=> {a, b} \in links
      BY DEF TopologyWhenSettled, TrueTopology
    <2>1. RoundOK(site, queue, clock, begun, 3) /\ net \in Networks /\ RouterOK(x, site[x])
      BY <1>1 DEF HealInv, NetInv, SitesOK
    <2>2. Whole(site[x]) /\ \A c \in Sites : x # c => LinkedAs(site[x], c)
      BY <2>1 DEF RoundOK, RoundsDone
    <2>3. site[x].all[a] # None /\ site[x].all[b] # None
      BY <2>2 DEF Whole
    <2>4. ASSUME {a, b} \in links
          PROVE  <<InMap(site[x].all, a), InMap(site[x].all, b)>> \in site[x].adj
      <3>1. a # b /\ b \in Neighbours(a) /\ a \in Neighbours(b)
        BY <2>1, <2>4, LinkFacts
      <3>2. Linked(site[x], a, b) \/ Linked(site[x], b, a)
        BY <2>2, <3>1 DEF LinkedAs
      <3> QED BY <3>2 DEF Linked
    <2>5. ASSUME <<InMap(site[x].all, a), InMap(site[x].all, b)>> \in site[x].adj
          PROVE  {a, b} \in links
      <3>1. PICK o, p : o = InMap(site[x].all, a) /\ p = InMap(site[x].all, b)
        OBVIOUS
      <3>2. site[x].all \in Maps
        BY <2>1 DEF RouterOK, Routers
      <3>3. Name(o) = a /\ Name(p) = b
        BY <2>3, <3>1, <3>2, InMapFacts
      <3>4. {Name(<<o, p>>[1]), Name(<<o, p>>[2])} \in links
        BY <2>1, <2>5, <3>1 DEF RouterOK
      <3> QED BY <3>3, <3>4
    <2> QED BY <2>3, <2>4, <2>5
  <1> QED BY <1>1, HealInvariant, PTL

\* In every network: without a new fault a calm network stays calm, whatever
\* messages arrive, however old, and whatever timers fire.
THEOREM CalmStays == Spec => CalmLasts
  <1>1. ASSUME NetInv, [Next]_vars PROVE [Calm /\ faults' = faults => Calm']_vars
    <2>1. CASE UNCHANGED vars
      BY <2>1
    <2>2. CASE Next
      BY <1>1, <2>2, CalmNext
    <2> QED BY <1>1, <2>1, <2>2
  <1> QED BY <1>1, NetInvariant, PTL DEF Spec, CalmLasts

\* In every network: the ends of a link that have forgotten each other stay
\* strangers, whatever arrives and whatever timers fire, until the service of
\* one of them starts again.
THEOREM StrangersForGood == Spec => StrangersStay
  <1>1. ASSUME NetInv, [Next]_vars
        PROVE  [\A x, y \in Sites : ({x, y} \in links /\ Forgot(x, y) /\ Forgot(y, x)) =>
                  (Forgot(x, y) /\ Forgot(y, x))' \/ Crash(x) \/ Crash(y)]_vars
    <2>1. CASE UNCHANGED vars
      BY <2>1
    <2>2. CASE Next
      <3> SUFFICES ASSUME NEW x \in Sites, NEW y \in Sites, Forgot(x, y), Forgot(y, x)
                   PROVE  (Forgot(x, y) /\ Forgot(y, x))' \/ Crash(x) \/ Crash(y)
        OBVIOUS
      <3>1. NetInv'
        BY <1>1, NetStep
      <3>2. PICK z \in Sites : Polite(z) \/ Crash(z)
        BY <1>1, <2>2, ConnectPolite, DisconnectedPolite, ReceivePolite, CheckLinkPolite, FaultPolite
           DEF Next
      <3>3. CASE Polite(z)
        BY <1>1, <3>1, <3>3, PoliteStays
      <3>4. CASE Crash(z)
        BY <1>1, <3>4, CrashElsewhere
      <3> QED BY <3>2, <3>3, <3>4
    <2> QED BY <1>1, <2>1, <2>2
  <1> QED BY <1>1, NetInvariant, PTL DEF Spec, StrangersStay

=============================================================================
