---------------------------- MODULE BlockDelivery ----------------------------
(***************************************************************************)
(* What the key routing network promises to two key management services:  *)
(* a block of keys is first stored at the destination's KMS under a fresh  *)
(* id, and only then given to the source's KMS, with the same contents     *)
(* unless one of them was made from a key file that was still being        *)
(* written: such an id is spoilt.                                          *)
(***************************************************************************)
EXTENDS Naturals

CONSTANTS Sites, Ids, Contents

VARIABLES stored, delivered,    \* sets of copies: [src, dst, uuid, block]
          spoilt                \* ids with a block made from an incomplete file

Copies == [src : Sites, dst : Sites, uuid : Ids, block : Contents]

Init == stored = {} /\ delivered = {} /\ spoilt = {}

\* The destination's KMS stores a block under an id not seen before.
Store == \E c \in stored' \ stored :
    /\ c \in Copies
    /\ \A old \in stored : old.uuid # c.uuid
    /\ stored' = stored \cup {c}
    /\ UNCHANGED <<delivered, spoilt>>

\* The source's KMS receives the block the destination has, once; if the id is
\* spoilt its contents may be others.
Deliver == \E c \in delivered' \ delivered :
    /\ c \in Copies
    /\ \A old \in delivered : old.uuid # c.uuid
    /\ \E s \in stored : /\ s.src = c.src /\ s.dst = c.dst /\ s.uuid = c.uuid
                         /\ s.block = c.block \/ c.uuid \in spoilt
    /\ delivered' = delivered \cup {c}
    /\ UNCHANGED <<stored, spoilt>>

\* A block is read from an incomplete file for an id not delivered yet.
Spoil == \E i \in spoilt' \ spoilt :
    /\ i \in Ids /\ \A c \in delivered : c.uuid # i
    /\ spoilt' = spoilt \cup {i}
    /\ UNCHANGED <<stored, delivered>>

Next == Store \/ Deliver \/ Spoil

Spec == Init /\ [][Next]_<<stored, delivered, spoilt>>
=============================================================================
