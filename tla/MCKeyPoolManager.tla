-------------------------- MODULE MCKeyPoolManager --------------------------
(* Instances of KeyPoolManager for TLC: one peer, hence one source pool     *)
(* (newKey) and one destination pool (getKey), which share initPoolLock.    *)
EXTENDS KeyPoolManager, TLC

CONSTANTS t1, t2, t3, b1, b2, bLost, A, B

MCThreads2 == {t1, t2}
MCThreads3 == {t1, t2, t3}
MCPeers == {B}
MCBlocks1 == {b1}
MCBlocks2 == {b1, b2}
MCStored == {<<B, b>> : b \in PeerBlocks \ {bLost}}
=============================================================================
