---------------------------- MODULE MCKeyRouting ----------------------------
(* Instances of KeyRouting for TLC: a line of four sites, where routes are  *)
(* unique, and a ring of four, where opposite sites have two equal paths.   *)
EXTENDS KeyRouting, TLC

MCSites == 1..4

LineLinks == {{1, 2}, {2, 3}, {3, 4}}
LineTable == [x \in MCSites |-> [d \in MCSites |->
                 IF d > x THEN x + 1 ELSE IF d < x THEN x - 1 ELSE NoSite]]
LineTables == {LineTable}
\* Across the line both ways; and both ways over the link of 1 and 2, so that 1
\* tests for the file of one block while it reads another one.
LineRequests == {<<1, 4>>, <<4, 1>>}
SharedLinkRequests == {<<1, 4>>, <<2, 1>>}
AllRequests == {r \in MCSites \X MCSites : r[1] # r[2]}
OppositeRequests == {<<1, 3>>, <<3, 1>>}

Symmetry == Permutations(Sessions)

\* On a line the condition of the theorems about key agreement holds ...
ASSUME LineRoutesAreSymmetric == SymmetricRoutes(LineTables, AllRequests)

RingLinks == LineLinks \cup {{4, 1}}
RingTable(pick) == [x \in MCSites |-> [d \in MCSites |->
                      IF d = x THEN NoSite
                      ELSE IF {x, d} \in RingLinks THEN d ELSE pick[x]]]
RingPicks == {pick \in [MCSites -> MCSites] : \A x \in MCSites : {x, pick[x]} \in RingLinks}
RingTables == {RingTable(pick) : pick \in RingPicks}

\* ... and on a ring it may fail: the two ends choose among two equal paths.
ASSUME RingRoutesAreNot == ~ SymmetricRoutes(RingTables, OppositeRequests)

\* Both ways round between 1 and 3; a table of the time when nobody but its
\* neighbours knows site 3 yet; and one where 2 has lost its connection to 3
\* and 1 has not heard of it, so that requests for 3 go to and fro.
Clockwise == RingTable(<<2, 3, 4, 1>>)
Anticlockwise == RingTable(<<4, 1, 2, 3>>)
Unknown3 == [Clockwise EXCEPT ![1][3] = NoSite]
Bouncing == [Clockwise EXCEPT ![2][3] = 1]
RerouteTables == {Clockwise, Anticlockwise, Unknown3, Bouncing}

=============================================================================
