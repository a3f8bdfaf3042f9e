------------------------ MODULE KeyPoolManager_proofs ------------------------
(***************************************************************************)
(* Proofs about KeyPoolManager, for any number of threads, peers, blocks   *)
(* and calls, and any block size.                                          *)
(***************************************************************************)
EXTENDS KeyPoolManager, TLAPS

-----------------------------------------------------------------------------
(* The inductive invariant, in parts.                                       *)

\* A thread past the test or the loop of fetchKey refers to a real object, and
\* a call in progress has its number.
RefInv ==
    \A t \in Threads :
        /\ pc[t] # "idle" => args[t].call \in 1..calls
        /\ pc[t] = "idle" => kp[t] = 0
        /\ pc[t] \in {"remove", "put", "take"} => kp[t] # 0

\* Who believes to be inside lines 122-151 owns initPoolLock; the pool is
\* claimed only from there.
LockInv ==
    \A t \in Threads :
        /\ inLock[t] => /\ initPoolLock.owner = t
                        /\ pc[t] \in {"contains", "isValid", "test", "claim",
                                      "lookup", "take"}
        /\ pc[t] = "claim" => inLock[t]

\* inProgress is set exactly while a thread fetches, or after a fetch threw.
FlagInv ==
    /\ \A t \in Threads : Fetching(t) => inProgress[Pool(t)]
    /\ \A t \in Threads : pc[t] = "claim" => ~ inProgress[Pool(t)]
    /\ \A t \in Threads : pc[t] = "wait" => inProgress[Pool(t)]
    /\ \A p \in Pools : inProgress[p] =>
          p \in failed \/ \E u \in Threads : Fetching(u) /\ Pool(u) = p

ControlInv == TypeOK /\ RefInv /\ LockInv /\ FlagInv /\ SingleFetcher

-----------------------------------------------------------------------------
USE SizeAssumption, NameAssumption

\* The cast of line 91 yields an integer.
LEMMA CastIntType == ASSUME NEW i \in Int PROVE CastInt(i) \in Int
  BY DEF CastInt

\* The pool of a thread's call is one of the site's pools (lines 93-101).
LEMMA PoolType == ASSUME TypeOK, NEW t \in Threads PROVE Pool(t) \in Pools
  BY DEF TypeOK, Pool, PoolOf, Pools, Args

\* The arguments of a thread outside fetchKey are of the right type.
LEMMA NoArgsType == NoArgs \in Args
  BY DEF NoArgs, Args, Blocks

\* The control invariant holds before the first request.
LEMMA InitControl == Init => ControlInv
  <1> SUFFICES ASSUME Init PROVE ControlInv
    OBVIOUS
  <1>1. TypeOK
    BY NoArgsType DEF Init, TypeOK, Labels, KeyPool, Blocks, CallIds
  <1>2. RefInv /\ LockInv /\ FlagInv /\ SingleFetcher
    BY DEF Init, RefInv, LockInv, FlagInv, SingleFetcher, Fetching
  <1> QED BY <1>1, <1>2 DEF ControlInv

\* Keys, and the answer that carries none, are of the right type.
LEMMA KeyType ==
  /\ NoKey \in Blocks \X Int
  /\ \A b \in Blocks, i \in Nat : <<b, i>> \in Blocks \X Int
  BY DEF NoKey, Blocks

\* Unlocking a lock that its owner holds keeps its bookkeeping right.
LEMMA UnlockedType ==
  ASSUME NEW l \in [owner : Threads \cup {NoThread}, count : Nat],
         (l.count = 0) <=> (l.owner = NoThread), l.owner \in Threads
  PROVE  /\ Unlocked(l) \in [owner : Threads \cup {NoThread}, count : Nat]
         /\ (Unlocked(l).count = 0) <=> (Unlocked(l).owner = NoThread)
         /\ Unlocked(l).owner \in {l.owner, NoThread}
  BY DEF Unlocked

\* Returning from a call keeps the types of the variables it changes.
LEMMA ReturnType ==
  ASSUME TypeOK, NEW t \in Threads, NEW key \in Blocks \X Int, Return(t, key)
  PROVE  /\ pc' \in [Threads -> Labels]
         /\ inLock' \in [Threads -> BOOLEAN]
         /\ args' \in [Threads -> Args]
         /\ kp' \in [Threads -> 0..MaxCalls]
         /\ results' \subseteq [args : Args, key : Blocks \X Int]
  <1>1. [args |-> args[t], key |-> key] \in [args : Args, key : Blocks \X Int]
    BY DEF TypeOK
  <1>2. QED
    BY <1>1, NoArgsType DEF TypeOK, Return, GoTo, Labels

\* Every step keeps the types and the bookkeeping of initPoolLock.
LEMMA TypeStep ==
  ASSUME ControlInv, [Next]_vars PROVE TypeOK'
  <1> USE DEF ControlInv
  <1>0. ASSUME UNCHANGED vars PROVE TypeOK'
    BY <1>0 DEF vars, TypeOK
  <1>1. ASSUME NEW t \in Threads, NEW s \in Peers, NEW b \in Blocks, NEW i \in Int,
               StartCall(t, s, b, i)
        PROVE  TypeOK'
    <2>1. [call |-> calls + 1, site |-> s, block |-> b, index |-> CastInt(i)] \in Args
      BY <1>1, CastIntType DEF StartCall, TypeOK, Args
    <2> QED BY <1>1, <2>1 DEF StartCall, GoTo, TypeOK, Labels
  <1>2. ASSUME NEW t \in Threads, ContainsKey(t) PROVE TypeOK'
    BY <1>2 DEF ContainsKey, GoTo, TypeOK, Labels
  <1>3. ASSUME NEW t \in Threads, IsValid(t) PROVE TypeOK'
    <2>1. CASE keyPools[Pool(t)] = 0
      BY <1>3, <2>1, ReturnType, KeyType DEF IsValid, Throw, TypeOK
    <2>2. CASE keyPools[Pool(t)] # 0
      BY <1>3, <2>2 DEF IsValid, GoTo, TypeOK, Labels
    <2> QED BY <2>1, <2>2
  <1>4. ASSUME NEW t \in Threads, TestInProgress(t) PROVE TypeOK'
    <2>1. CASE inLock[t]
      <3>1. /\ Unlocked(initPoolLock) \in [owner : Threads \cup {NoThread}, count : Nat]
            /\ (Unlocked(initPoolLock).count = 0) <=> (Unlocked(initPoolLock).owner = NoThread)
        BY <2>1, UnlockedType DEF TypeOK, LockInv
      <3> QED BY <1>4, <2>1, <3>1, ZenonT(60) DEF TestInProgress, GoTo, TypeOK, Labels
    <2>2. CASE ~ inLock[t]
      <3>1. inLock' \in [Threads -> BOOLEAN] /\ initPoolLock' = initPoolLock
        BY <1>4, <2>2 DEF TestInProgress, TypeOK
      <3>2. pc' \in [Threads -> Labels]
        BY <1>4, <2>2 DEF TestInProgress, GoTo, TypeOK, Labels
      <3> QED BY <1>4, <3>1, <3>2 DEF TestInProgress, TypeOK
    <2> QED BY <2>1, <2>2
  <1>5. ASSUME NEW t \in Threads, Loop(t) PROVE TypeOK'
    BY <1>5 DEF Loop, GoTo, TypeOK, Labels
  <1>6. ASSUME NEW t \in Threads, Acquire(t) PROVE TypeOK'
    BY <1>6 DEF Acquire, GoTo, TypeOK, Labels
  <1>7. ASSUME NEW t \in Threads, Claim(t) PROVE TypeOK'
    BY <1>7, UnlockedType, PoolType DEF Claim, GoTo, TypeOK, LockInv, Labels
  <1>8. ASSUME NEW t \in Threads, Fetch(t) PROVE TypeOK'
    <2>1. ASSUME NEW b \in Blocks, NEW k \in 0..BlockSz, Fetched(t, b, k) PROVE TypeOK'
      <3>1. [block |-> b, keys |-> k, index |-> 0] \in KeyPool
        BY DEF KeyPool
      <3>2. args[t].call \in 0..MaxCalls
        BY DEF TypeOK, Args
      <3> QED BY <1>8, <2>1, <3>1, <3>2 DEF Fetch, Fetched, GoTo, TypeOK, Labels
    <2>2. ASSUME FetchThrows(t) PROVE TypeOK'
      BY <1>8, <2>2, ReturnType, KeyType, PoolType DEF Fetch, FetchThrows, TypeOK
    <2>3. /\ args[t].block \in Blocks /\ NoBlock \in Blocks /\ args[t].call \in Blocks
          /\ BlockSz \in 0..BlockSz /\ 0 \in 0..BlockSz
      BY <1>8 DEF Fetch, TypeOK, RefInv, Args, Blocks, CallIds
    <2> QED BY <1>8, <2>1, <2>2, <2>3 DEF Fetch
  <1>9. ASSUME NEW t \in Threads, RemovePool(t) PROVE TypeOK'
    BY <1>9, PoolType DEF RemovePool, GoTo, TypeOK, Labels
  <1>10. ASSUME NEW t \in Threads, PutPool(t) PROVE TypeOK'
    BY <1>10 DEF PutPool, GoTo, TypeOK, Labels
  <1>11. ASSUME NEW t \in Threads, NotifyAll(t) PROVE TypeOK'
    BY <1>11 DEF NotifyAll, TypeOK, Labels
  <1>12. ASSUME NEW t \in Threads, LookUp(t) PROVE TypeOK'
    <2>1. CASE keyPools[Pool(t)] = 0
      BY <1>12, <2>1, ReturnType, KeyType DEF LookUp, Throw, TypeOK
    <2>2. CASE keyPools[Pool(t)] # 0
      BY <1>12, <2>2, PoolType DEF LookUp, GoTo, TypeOK, Labels
    <2> QED BY <2>1, <2>2
  <1>13. ASSUME NEW t \in Threads, TakeKey(t) PROVE TypeOK'
    <2> DEFINE o == heap[kp[t]]
               i == IF args[t].index < 0 THEN o.index ELSE args[t].index
               k == IF i < o.keys THEN <<o.block, i>> ELSE NoKey
    <2>1. kp[t] \in CallIds
      BY <1>13 DEF TakeKey, TypeOK, RefInv, CallIds
    <2>2. o \in KeyPool /\ i \in Nat
      BY <2>1 DEF TypeOK, KeyPool, Args
    <2>3. k \in Blocks \X Int
      BY <2>2, KeyType DEF KeyPool
    <2>4. Return(t, k)
      BY <1>13 DEF TakeKey
    <2>5. Counted(t, i) \in Nat
      BY <2>2 DEF Counted, KeyPool
    <2>6. [heap EXCEPT ![kp[t]].index = Counted(t, i)] \in [CallIds -> KeyPool]
      BY <2>5, ZenonT(60) DEF TypeOK, KeyPool
    <2>7. heap' \in [CallIds -> KeyPool]
      BY <1>13, <2>6 DEF TakeKey
    <2>8. /\ initPoolLock' \in [owner : Threads \cup {NoThread}, count : Nat]
          /\ (initPoolLock'.count = 0) <=> (initPoolLock'.owner = NoThread)
      BY <1>13, UnlockedType DEF TakeKey, TypeOK, LockInv
    <2> QED BY <1>13, <2>3, <2>4, <2>7, <2>8, ReturnType DEF TakeKey, TypeOK
  <1> QED
    <2>1. ASSUME NEW t \in Threads, NewKey(t) \/ GetKey(t) PROVE TypeOK'
      BY <1>1, <2>1 DEF NewKey, GetKey, Blocks
    <2> QED BY <1>0, <2>1, <1>2, <1>3, <1>4, <1>5, <1>6, <1>7, <1>8, <1>9, <1>10,
               <1>11, <1>12, <1>13 DEF Next, Step, Finished

\* Every step keeps the references: RefInv is preserved.
LEMMA RefStep ==
  ASSUME ControlInv, [Next]_vars PROVE RefInv'
  <1> USE DEF ControlInv
  <1>0. ASSUME UNCHANGED vars PROVE RefInv'
    BY <1>0 DEF vars, RefInv
  <1>1. ASSUME NEW t \in Threads, NEW s, NEW b, NEW i, StartCall(t, s, b, i) PROVE RefInv'
    BY <1>1 DEF StartCall, GoTo, TypeOK, RefInv
  <1>2. ASSUME NEW t \in Threads, ContainsKey(t) PROVE RefInv'
    BY <1>2 DEF ContainsKey, GoTo, RefInv
  <1>3. ASSUME NEW t \in Threads, IsValid(t) PROVE RefInv'
    BY <1>3 DEF IsValid, Throw, Return, GoTo, TypeOK, RefInv
  <1>4. ASSUME NEW t \in Threads, TestInProgress(t) PROVE RefInv'
    BY <1>4 DEF TestInProgress, GoTo, TypeOK, RefInv
  <1>5. ASSUME NEW t \in Threads, Loop(t) PROVE RefInv'
    BY <1>5 DEF Loop, GoTo, RefInv
  <1>6. ASSUME NEW t \in Threads, Acquire(t) PROVE RefInv'
    BY <1>6 DEF Acquire, GoTo, RefInv
  <1>7. ASSUME NEW t \in Threads, Claim(t) PROVE RefInv'
    BY <1>7 DEF Claim, GoTo, RefInv
  <1>8. ASSUME NEW t \in Threads, Fetch(t) PROVE RefInv'
    <2>1. ASSUME NEW b, NEW k, Fetched(t, b, k) PROVE RefInv'
      <3>1. args[t].call \in 1..calls
        BY <1>8 DEF Fetch, RefInv
      <3> QED BY <1>8, <2>1, <3>1 DEF Fetch, Fetched, GoTo, TypeOK, RefInv
    <2>2. ASSUME FetchThrows(t) PROVE RefInv'
      BY <1>8, <2>2 DEF Fetch, FetchThrows, Return, GoTo, TypeOK, RefInv
    <2> QED BY <1>8, <2>1, <2>2 DEF Fetch
  <1>9. ASSUME NEW t \in Threads, RemovePool(t) PROVE RefInv'
    BY <1>9 DEF RemovePool, GoTo, RefInv
  <1>10. ASSUME NEW t \in Threads, PutPool(t) PROVE RefInv'
    BY <1>10 DEF PutPool, GoTo, RefInv
  <1>11. ASSUME NEW t \in Threads, NotifyAll(t) PROVE RefInv'
    BY <1>11 DEF NotifyAll, RefInv
  <1>12. ASSUME NEW t \in Threads, LookUp(t) PROVE RefInv'
    BY <1>12 DEF LookUp, Throw, Return, GoTo, TypeOK, RefInv
  <1>13. ASSUME NEW t \in Threads, TakeKey(t) PROVE RefInv'
    BY <1>13 DEF TakeKey, Return, GoTo, TypeOK, RefInv
  <1> QED BY <1>0, <1>1, <1>2, <1>3, <1>4, <1>5, <1>6, <1>7, <1>8, <1>9, <1>10, <1>11,
               <1>12, <1>13 DEF Next, NewKey, GetKey, Step, Finished

\* Who is in the locked section stays the owner of the lock: Acquire excludes
\* others, and only the owner unlocks.
LEMMA LockStep ==
  ASSUME ControlInv, [Next]_vars PROVE LockInv'
  <1> USE DEF ControlInv
  <1>0. ASSUME UNCHANGED vars PROVE LockInv'
    BY <1>0 DEF vars, LockInv
  <1>1. ASSUME NEW t \in Threads, NewKey(t) \/ GetKey(t) PROVE LockInv'
    BY <1>1 DEF NewKey, GetKey, StartCall, GoTo, TypeOK, LockInv
  <1>2. ASSUME NEW t \in Threads, ContainsKey(t) PROVE LockInv'
    BY <1>2 DEF ContainsKey, GoTo, LockInv
  <1>3. ASSUME NEW t \in Threads, IsValid(t) PROVE LockInv'
    BY <1>3 DEF IsValid, Throw, Return, GoTo, TypeOK, LockInv
  <1>4. ASSUME NEW t \in Threads, TestInProgress(t) PROVE LockInv'
    BY <1>4 DEF TestInProgress, GoTo, TypeOK, LockInv
  <1>5. ASSUME NEW t \in Threads, Loop(t) PROVE LockInv'
    BY <1>5 DEF Loop, GoTo, LockInv
  <1>6. ASSUME NEW t \in Threads, Acquire(t) PROVE LockInv'
    BY <1>6 DEF Acquire, GoTo, TypeOK, LockInv
  <1>7. ASSUME NEW t \in Threads, Claim(t) PROVE LockInv'
    BY <1>7 DEF Claim, GoTo, TypeOK, LockInv
  <1>8. ASSUME NEW t \in Threads, Fetch(t) PROVE LockInv'
    BY <1>8 DEF Fetch, Fetched, FetchThrows, Return, GoTo, TypeOK, LockInv
  <1>9. ASSUME NEW t \in Threads, RemovePool(t) PROVE LockInv'
    BY <1>9 DEF RemovePool, GoTo, LockInv
  <1>10. ASSUME NEW t \in Threads, PutPool(t) PROVE LockInv'
    BY <1>10 DEF PutPool, GoTo, LockInv
  <1>11. ASSUME NEW t \in Threads, NotifyAll(t) PROVE LockInv'
    BY <1>11 DEF NotifyAll, LockInv
  <1>12. ASSUME NEW t \in Threads, LookUp(t) PROVE LockInv'
    BY <1>12 DEF LookUp, Throw, Return, GoTo, TypeOK, LockInv
  <1>13. ASSUME NEW t \in Threads, TakeKey(t) PROVE LockInv'
    BY <1>13 DEF TakeKey, Return, GoTo, TypeOK, LockInv
  <1> QED BY <1>0, <1>1, <1>2, <1>3, <1>4, <1>5, <1>6, <1>7, <1>8, <1>9, <1>10, <1>11,
               <1>12, <1>13 DEF Next, Step, Finished

\* inProgress stays in step with the fetchers: Claim sets it for the new one,
\* NotifyAll clears it for the old one, FetchThrows records the failure.
LEMMA FlagStep ==
  ASSUME ControlInv, [Next]_vars PROVE FlagInv'
  <1> USE DEF ControlInv
  <1>0. ASSUME UNCHANGED vars PROVE FlagInv'
    BY <1>0 DEF vars, FlagInv, Fetching, Pool
  <1>1. ASSUME NEW t \in Threads, NewKey(t) \/ GetKey(t) PROVE FlagInv'
    BY <1>1 DEF NewKey, GetKey, StartCall, GoTo, TypeOK, FlagInv, Fetching, Pool
  <1>2. ASSUME NEW t \in Threads, ContainsKey(t) PROVE FlagInv'
    BY <1>2, PoolType DEF ContainsKey, GoTo, TypeOK, LockInv, FlagInv, SingleFetcher,
         Fetching, Pool
  <1>3. ASSUME NEW t \in Threads, IsValid(t) PROVE FlagInv'
    BY <1>3 DEF IsValid, Throw, Return, GoTo, TypeOK, FlagInv, SingleFetcher, Fetching, Pool
  <1>4. ASSUME NEW t \in Threads, TestInProgress(t) PROVE FlagInv'
    BY <1>4 DEF TestInProgress, GoTo, TypeOK, FlagInv, Fetching, Pool
  <1>5. ASSUME NEW t \in Threads, Loop(t) PROVE FlagInv'
    BY <1>5 DEF Loop, GoTo, FlagInv, Fetching, Pool
  <1>6. ASSUME NEW t \in Threads, Acquire(t) PROVE FlagInv'
    BY <1>6 DEF Acquire, GoTo, FlagInv, Fetching, Pool
  <1>7. ASSUME NEW t \in Threads, Claim(t) PROVE FlagInv'
    BY <1>7, PoolType DEF Claim, GoTo, TypeOK, LockInv, FlagInv, Fetching, Pool
  <1>8. ASSUME NEW t \in Threads, Fetch(t) PROVE FlagInv'
    BY <1>8 DEF Fetch, Fetched, FetchThrows, Return, GoTo, TypeOK, FlagInv, Fetching, Pool
  <1>9. ASSUME NEW t \in Threads, RemovePool(t) PROVE FlagInv'
    BY <1>9 DEF RemovePool, GoTo, FlagInv, Fetching, Pool
  <1>10. ASSUME NEW t \in Threads, PutPool(t) PROVE FlagInv'
    BY <1>10 DEF PutPool, GoTo, FlagInv, Fetching, Pool
  <1>11. ASSUME NEW t \in Threads, NotifyAll(t) PROVE FlagInv'
    BY <1>11 DEF NotifyAll, TypeOK, FlagInv, SingleFetcher, Fetching, Pool
  <1>12. ASSUME NEW t \in Threads, LookUp(t) PROVE FlagInv'
    BY <1>12 DEF LookUp, Throw, Return, GoTo, TypeOK, FlagInv, Fetching, Pool
  <1>13. ASSUME NEW t \in Threads, TakeKey(t) PROVE FlagInv'
    BY <1>13 DEF TakeKey, Return, GoTo, FlagInv, Fetching, Pool
  <1> QED BY <1>0, <1>1, <1>2, <1>3, <1>4, <1>5, <1>6, <1>7, <1>8, <1>9, <1>10, <1>11,
               <1>12, <1>13 DEF Next, Step, Finished

\* A second fetcher cannot appear: Claim needs inProgress to be clear, and
\* then FlagInv says that nobody fetches for the pool.
LEMMA SingleStep ==
  ASSUME ControlInv, [Next]_vars PROVE SingleFetcher'
  <1> USE DEF ControlInv
  <1>0. ASSUME UNCHANGED vars PROVE SingleFetcher'
    BY <1>0 DEF vars, FlagInv, SingleFetcher, Fetching, Pool
  <1>1. ASSUME NEW t \in Threads, NewKey(t) \/ GetKey(t) PROVE SingleFetcher'
    BY <1>1 DEF NewKey, GetKey, StartCall, GoTo, TypeOK, FlagInv, SingleFetcher, Fetching,
         Pool
  <1>2. ASSUME NEW t \in Threads, ContainsKey(t) PROVE SingleFetcher'
    BY <1>2 DEF ContainsKey, GoTo, FlagInv, SingleFetcher, Fetching, Pool
  <1>3. ASSUME NEW t \in Threads, IsValid(t) PROVE SingleFetcher'
    BY <1>3 DEF IsValid, Throw, Return, GoTo, TypeOK, FlagInv, SingleFetcher, Fetching, Pool
  <1>4. ASSUME NEW t \in Threads, TestInProgress(t) PROVE SingleFetcher'
    BY <1>4 DEF TestInProgress, GoTo, TypeOK, FlagInv, SingleFetcher, Fetching, Pool
  <1>5. ASSUME NEW t \in Threads, Loop(t) PROVE SingleFetcher'
    BY <1>5 DEF Loop, GoTo, FlagInv, SingleFetcher, Fetching, Pool
  <1>6. ASSUME NEW t \in Threads, Acquire(t) PROVE SingleFetcher'
    BY <1>6 DEF Acquire, GoTo, FlagInv, SingleFetcher, Fetching, Pool
  <1>7. ASSUME NEW t \in Threads, Claim(t) PROVE SingleFetcher'
    BY <1>7 DEF Claim, GoTo, FlagInv, SingleFetcher, Fetching, Pool
  <1>8. ASSUME NEW t \in Threads, Fetch(t) PROVE SingleFetcher'
    BY <1>8 DEF Fetch, Fetched, FetchThrows, Return, GoTo, TypeOK, FlagInv, SingleFetcher,
         Fetching, Pool
  <1>9. ASSUME NEW t \in Threads, RemovePool(t) PROVE SingleFetcher'
    BY <1>9 DEF RemovePool, GoTo, FlagInv, SingleFetcher, Fetching, Pool
  <1>10. ASSUME NEW t \in Threads, PutPool(t) PROVE SingleFetcher'
    BY <1>10 DEF PutPool, GoTo, FlagInv, SingleFetcher, Fetching, Pool
  <1>11. ASSUME NEW t \in Threads, NotifyAll(t) PROVE SingleFetcher'
    BY <1>11 DEF NotifyAll, FlagInv, SingleFetcher, Fetching, Pool
  <1>12. ASSUME NEW t \in Threads, LookUp(t) PROVE SingleFetcher'
    BY <1>12 DEF LookUp, Throw, Return, GoTo, TypeOK, FlagInv, SingleFetcher, Fetching, Pool
  <1>13. ASSUME NEW t \in Threads, TakeKey(t) PROVE SingleFetcher'
    BY <1>13 DEF TakeKey, Return, GoTo, FlagInv, SingleFetcher, Fetching, Pool
  <1> QED BY <1>0, <1>1, <1>2, <1>3, <1>4, <1>5, <1>6, <1>7, <1>8, <1>9, <1>10, <1>11,
               <1>12, <1>13 DEF Next, Step, Finished

-----------------------------------------------------------------------------
(* Which objects are in use, and where their blocks come from.              *)

\* The call has not yet reached the end of its fetch, if it makes one.
PreFetch(t) == pc[t] \in {"contains", "isValid", "test", "lock", "claim", "loop",
                          "wait", "fetch"}

\* heap[c] is an object made by a call, not one a call may still make.
Used(c) == c \in 1..calls /\ \A t \in Threads : PreFetch(t) => args[t].call # c

CallInv ==
    \A t, u \in Threads :
        pc[t] # "idle" /\ pc[u] # "idle" /\ args[t].call = args[u].call => t = u

\* newKey has the index -1 and no block, getKey a peer's block and, after the
\* cast, any index.
ArgInv ==
    \A t \in Threads : /\ \/ args[t].block = NoBlock /\ args[t].index = -1
                          \/ args[t].block \in PeerBlocks
                       /\ pc[t] = "idle" => args[t].block = NoBlock

UsedInv ==
    /\ \A p \in Pools : keyPools[p] # 0 => Used(keyPools[p])
    /\ \A t \in Threads : kp[t] # 0 => Used(kp[t])

\* An object fit for pool p: a source pool holds the block its own call
\* obtained from the QNL, or no key, or what a misdirected call has loaded; a
\* destination pool a peer's block.
FromPeer(b) == CastWrapped /\ b \in PeerBlocks

Fits(p, c) ==
    IF p[1] = Local THEN heap[c].keys # 0 => heap[c].block = c \/ FromPeer(heap[c].block)
                    ELSE heap[c].block \in PeerBlocks

OriginInv ==
    /\ \A p \in Pools : keyPools[p] # 0 => Fits(p, keyPools[p])
    /\ \A t \in Threads : kp[t] # 0 => Fits(Pool(t), kp[t])

\* A key returned by newKey lies below the counter of its block's object.
IssuedInv ==
    \A r \in NewKeys : \/ Used(r.key[1]) /\ r.key[2] < heap[r.key[1]].index
                       \/ FromPeer(r.key[1])

KeyInv == /\ ControlInv /\ CallInv /\ ArgInv /\ UsedInv /\ OriginInv
          /\ IssuedInv /\ NoKeyIssuedTwice /\ GetKeyFromSourceSite

\* An index that fits an int is not changed by the cast of line 91.
LEMMA CastFits ==
  ASSUME NEW i \in Int, -1 <= i, i <= IntMax PROVE CastInt(i) = i
  BY DEF CastInt

\* An object that a call has made stays made.
LEMMA UsedMonotone ==
  ASSUME KeyInv, [Next]_vars PROVE \A c : Used(c) => Used(c)'
  <1> USE DEF KeyInv, ControlInv
  <1>0. ASSUME UNCHANGED vars PROVE \A c : Used(c) => Used(c)'
    BY <1>0 DEF vars, Used, PreFetch
  <1>1. ASSUME NEW t \in Threads, NewKey(t) \/ GetKey(t) PROVE \A c : Used(c) => Used(c)'
    BY <1>1 DEF NewKey, GetKey, StartCall, GoTo, TypeOK, Used, PreFetch
  <1>2. ASSUME NEW t \in Threads, ContainsKey(t) PROVE \A c : Used(c) => Used(c)'
    BY <1>2 DEF ContainsKey, GoTo, Used, PreFetch
  <1>3. ASSUME NEW t \in Threads, IsValid(t) PROVE \A c : Used(c) => Used(c)'
    BY <1>3 DEF IsValid, Throw, Return, GoTo, TypeOK, Used, PreFetch
  <1>4. ASSUME NEW t \in Threads, TestInProgress(t) PROVE \A c : Used(c) => Used(c)'
    BY <1>4 DEF TestInProgress, GoTo, TypeOK, Used, PreFetch
  <1>5. ASSUME NEW t \in Threads, Loop(t) PROVE \A c : Used(c) => Used(c)'
    BY <1>5 DEF Loop, GoTo, Used, PreFetch
  <1>6. ASSUME NEW t \in Threads, Acquire(t) PROVE \A c : Used(c) => Used(c)'
    BY <1>6 DEF Acquire, GoTo, Used, PreFetch
  <1>7. ASSUME NEW t \in Threads, Claim(t) PROVE \A c : Used(c) => Used(c)'
    BY <1>7 DEF Claim, GoTo, Used, PreFetch
  <1>8. ASSUME NEW t \in Threads, Fetch(t) PROVE \A c : Used(c) => Used(c)'
    BY <1>8 DEF Fetch, Fetched, FetchThrows, Return, GoTo, TypeOK, Used, PreFetch
  <1>9. ASSUME NEW t \in Threads, RemovePool(t) PROVE \A c : Used(c) => Used(c)'
    BY <1>9 DEF RemovePool, GoTo, Used, PreFetch
  <1>10. ASSUME NEW t \in Threads, PutPool(t) PROVE \A c : Used(c) => Used(c)'
    BY <1>10 DEF PutPool, GoTo, Used, PreFetch
  <1>11. ASSUME NEW t \in Threads, NotifyAll(t) PROVE \A c : Used(c) => Used(c)'
    BY <1>11 DEF NotifyAll, Used, PreFetch
  <1>12. ASSUME NEW t \in Threads, LookUp(t) PROVE \A c : Used(c) => Used(c)'
    BY <1>12 DEF LookUp, Throw, Return, GoTo, TypeOK, Used, PreFetch
  <1>13. ASSUME NEW t \in Threads, TakeKey(t) PROVE \A c : Used(c) => Used(c)'
    BY <1>13 DEF TakeKey, Return, GoTo, Used, PreFetch
  <1> QED BY <1>0, <1>1, <1>2, <1>3, <1>4, <1>5, <1>6, <1>7, <1>8, <1>9, <1>10, <1>11,
               <1>12, <1>13 DEF Next, Step, Finished

\* Call numbers stay with one thread.
LEMMA CallStep ==
  ASSUME KeyInv, [Next]_vars PROVE CallInv'
  <1> USE DEF KeyInv, ControlInv
  <1>0. ASSUME UNCHANGED vars PROVE CallInv'
    BY <1>0 DEF vars, CallInv
  <1>1. ASSUME NEW t \in Threads, NewKey(t) \/ GetKey(t) PROVE CallInv'
    BY <1>1 DEF NewKey, GetKey, StartCall, GoTo, TypeOK, RefInv, CallInv
  <1>2. ASSUME NEW t \in Threads, ContainsKey(t) PROVE CallInv'
    BY <1>2 DEF ContainsKey, GoTo, CallInv
  <1>3. ASSUME NEW t \in Threads, IsValid(t) PROVE CallInv'
    BY <1>3 DEF IsValid, Throw, Return, GoTo, TypeOK, CallInv
  <1>4. ASSUME NEW t \in Threads, TestInProgress(t) PROVE CallInv'
    BY <1>4 DEF TestInProgress, GoTo, TypeOK, CallInv
  <1>5. ASSUME NEW t \in Threads, Loop(t) PROVE CallInv'
    BY <1>5 DEF Loop, GoTo, CallInv
  <1>6. ASSUME NEW t \in Threads, Acquire(t) PROVE CallInv'
    BY <1>6 DEF Acquire, GoTo, CallInv
  <1>7. ASSUME NEW t \in Threads, Claim(t) PROVE CallInv'
    BY <1>7 DEF Claim, GoTo, CallInv
  <1>8. ASSUME NEW t \in Threads, Fetch(t) PROVE CallInv'
    BY <1>8 DEF Fetch, Fetched, FetchThrows, Return, GoTo, TypeOK, CallInv
  <1>9. ASSUME NEW t \in Threads, RemovePool(t) PROVE CallInv'
    BY <1>9 DEF RemovePool, GoTo, CallInv
  <1>10. ASSUME NEW t \in Threads, PutPool(t) PROVE CallInv'
    BY <1>10 DEF PutPool, GoTo, CallInv
  <1>11. ASSUME NEW t \in Threads, NotifyAll(t) PROVE CallInv'
    BY <1>11 DEF NotifyAll, CallInv
  <1>12. ASSUME NEW t \in Threads, LookUp(t) PROVE CallInv'
    BY <1>12 DEF LookUp, Throw, Return, GoTo, TypeOK, CallInv
  <1>13. ASSUME NEW t \in Threads, TakeKey(t) PROVE CallInv'
    BY <1>13 DEF TakeKey, Return, GoTo, TypeOK, CallInv
  <1> QED BY <1>0, <1>1, <1>2, <1>3, <1>4, <1>5, <1>6, <1>7, <1>8, <1>9, <1>10, <1>11,
               <1>12, <1>13 DEF Next, Step, Finished

\* newKey and getKey calls stay apart by their blocks.
LEMMA ArgStep ==
  ASSUME KeyInv, [Next]_vars PROVE ArgInv'
  <1> USE DEF KeyInv, ControlInv
  <1>0. ASSUME UNCHANGED vars PROVE ArgInv'
    BY <1>0 DEF vars, ArgInv
  <1>1. ASSUME NEW t \in Threads, NewKey(t) \/ GetKey(t) PROVE ArgInv'
    BY <1>1, CastFits DEF NewKey, GetKey, StartCall, GoTo, TypeOK, ArgInv
  <1>2. ASSUME NEW t \in Threads, ContainsKey(t) PROVE ArgInv'
    BY <1>2 DEF ContainsKey, GoTo, ArgInv
  <1>3. ASSUME NEW t \in Threads, IsValid(t) PROVE ArgInv'
    BY <1>3 DEF IsValid, Throw, Return, GoTo, TypeOK, ArgInv, NoArgs
  <1>4. ASSUME NEW t \in Threads, TestInProgress(t) PROVE ArgInv'
    BY <1>4 DEF TestInProgress, GoTo, TypeOK, ArgInv
  <1>5. ASSUME NEW t \in Threads, Loop(t) PROVE ArgInv'
    BY <1>5 DEF Loop, GoTo, ArgInv
  <1>6. ASSUME NEW t \in Threads, Acquire(t) PROVE ArgInv'
    BY <1>6 DEF Acquire, GoTo, ArgInv
  <1>7. ASSUME NEW t \in Threads, Claim(t) PROVE ArgInv'
    BY <1>7 DEF Claim, GoTo, ArgInv
  <1>8. ASSUME NEW t \in Threads, Fetch(t) PROVE ArgInv'
    BY <1>8 DEF Fetch, Fetched, FetchThrows, Return, GoTo, TypeOK, ArgInv, NoArgs
  <1>9. ASSUME NEW t \in Threads, RemovePool(t) PROVE ArgInv'
    BY <1>9 DEF RemovePool, GoTo, ArgInv
  <1>10. ASSUME NEW t \in Threads, PutPool(t) PROVE ArgInv'
    BY <1>10 DEF PutPool, GoTo, ArgInv
  <1>11. ASSUME NEW t \in Threads, NotifyAll(t) PROVE ArgInv'
    BY <1>11 DEF NotifyAll, ArgInv
  <1>12. ASSUME NEW t \in Threads, LookUp(t) PROVE ArgInv'
    BY <1>12 DEF LookUp, Throw, Return, GoTo, TypeOK, ArgInv, NoArgs
  <1>13. ASSUME NEW t \in Threads, TakeKey(t) PROVE ArgInv'
    BY <1>13 DEF TakeKey, Return, GoTo, TypeOK, ArgInv, NoArgs
  <1> QED BY <1>0, <1>1, <1>2, <1>3, <1>4, <1>5, <1>6, <1>7, <1>8, <1>9, <1>10, <1>11,
               <1>12, <1>13 DEF Next, Step, Finished

\* A misdirected call is remembered, in work and when it has returned.
LEMMA CastStays ==
  ASSUME KeyInv, [Next]_vars, CastWrapped PROVE CastWrapped'
  <1> USE DEF KeyInv, ControlInv
  <1>1. ASSUME UNCHANGED args, results \subseteq results' PROVE CastWrapped'
    BY <1>1 DEF CastWrapped
  <1>2. ASSUME NEW t \in Threads, NewKey(t) \/ GetKey(t) PROVE CastWrapped'
    <2>1. ~ Misdirected(args[t]) /\ results' = results
      BY <1>2 DEF NewKey, GetKey, StartCall, ArgInv, Misdirected, IsNewKey
    <2>2. \A u \in Threads : u # t => args'[u] = args[u]
      BY <1>2 DEF NewKey, GetKey, StartCall, TypeOK
    <2> QED BY <2>1, <2>2 DEF CastWrapped
  <1>3. ASSUME NEW t \in Threads, NEW k, Return(t, k) PROVE CastWrapped'
    <2>1. \A u \in Threads : u # t => args'[u] = args[u]
      BY <1>3 DEF Return, TypeOK
    <2>2. [args |-> args[t], key |-> k] \in results' /\ results \subseteq results'
      BY <1>3 DEF Return
    <2> QED BY <2>1, <2>2 DEF CastWrapped
  <1>4. ASSUME NEW t \in Threads, Step(t) PROVE CastWrapped'
    BY <1>1, <1>3, <1>4
       DEF Step, ContainsKey, IsValid, TestInProgress, Loop, Acquire, Claim, Fetch, Fetched,
           FetchThrows, RemovePool, PutPool, NotifyAll, LookUp, Throw, TakeKey
  <1> QED BY <1>1, <1>2, <1>4 DEF Next, Finished, vars

\* Pools and references keep pointing to objects that exist.
LEMMA UsedStep ==
  ASSUME KeyInv, [Next]_vars PROVE UsedInv'
  <1> USE DEF KeyInv, ControlInv
  <1>0. ASSUME UNCHANGED vars PROVE UsedInv'
    BY <1>0, UsedMonotone DEF vars, UsedInv
  <1>1. ASSUME NEW t \in Threads, NewKey(t) \/ GetKey(t) PROVE UsedInv'
    BY <1>1, UsedMonotone DEF NewKey, GetKey, StartCall, GoTo, UsedInv
  <1>2. ASSUME NEW t \in Threads, ContainsKey(t) PROVE UsedInv'
    BY <1>2, UsedMonotone DEF ContainsKey, GoTo, UsedInv
  <1>3. ASSUME NEW t \in Threads, IsValid(t) PROVE UsedInv'
    BY <1>3, UsedMonotone DEF IsValid, Throw, Return, GoTo, TypeOK, UsedInv
  <1>4. ASSUME NEW t \in Threads, TestInProgress(t) PROVE UsedInv'
    BY <1>4, UsedMonotone DEF TestInProgress, GoTo, UsedInv
  <1>5. ASSUME NEW t \in Threads, Loop(t) PROVE UsedInv'
    BY <1>5, UsedMonotone DEF Loop, GoTo, UsedInv
  <1>6. ASSUME NEW t \in Threads, Acquire(t) PROVE UsedInv'
    BY <1>6, UsedMonotone DEF Acquire, GoTo, UsedInv
  <1>7. ASSUME NEW t \in Threads, Claim(t) PROVE UsedInv'
    BY <1>7, UsedMonotone DEF Claim, GoTo, UsedInv
  <1>8. ASSUME NEW t \in Threads, Fetch(t) PROVE UsedInv'
    <2>1. ASSUME NEW b, NEW k, Fetched(t, b, k) PROVE UsedInv'
      <3>1. Used(args[t].call)'
        BY <1>8, <2>1 DEF Fetch, Fetched, GoTo, TypeOK, RefInv, CallInv, Used, PreFetch
      <3> QED BY <1>8, <2>1, <3>1, UsedMonotone DEF Fetch, Fetched, GoTo, TypeOK, UsedInv
    <2>2. ASSUME FetchThrows(t) PROVE UsedInv'
      BY <1>8, <2>2, UsedMonotone DEF Fetch, FetchThrows, Return, GoTo, UsedInv
    <2> QED BY <1>8, <2>1, <2>2 DEF Fetch
  <1>9. ASSUME NEW t \in Threads, RemovePool(t) PROVE UsedInv'
    BY <1>9, UsedMonotone DEF RemovePool, GoTo, UsedInv
  <1>10. ASSUME NEW t \in Threads, PutPool(t) PROVE UsedInv'
    BY <1>10, UsedMonotone DEF PutPool, GoTo, UsedInv
  <1>11. ASSUME NEW t \in Threads, NotifyAll(t) PROVE UsedInv'
    BY <1>11, UsedMonotone DEF NotifyAll, UsedInv
  <1>12. ASSUME NEW t \in Threads, LookUp(t) PROVE UsedInv'
    BY <1>12, UsedMonotone, PoolType DEF LookUp, Throw, Return, GoTo, TypeOK, UsedInv
  <1>13. ASSUME NEW t \in Threads, TakeKey(t) PROVE UsedInv'
    BY <1>13, UsedMonotone DEF TakeKey, Return, GoTo, UsedInv
  <1> QED BY <1>0, <1>1, <1>2, <1>3, <1>4, <1>5, <1>6, <1>7, <1>8, <1>9, <1>10, <1>11,
               <1>12, <1>13 DEF Next, Step, Finished

\* Taking a key changes nothing of an object but its counter, which grows.
LEMMA TakeKeepsBlocks ==
  ASSUME KeyInv, NEW t \in Threads, TakeKey(t), NEW c \in CallIds
  PROVE  /\ heap'[c].block = heap[c].block
         /\ heap'[c].keys = heap[c].keys
         /\ heap'[c].index >= heap[c].index
  <1> DEFINE i == IF args[t].index < 0 THEN heap[kp[t]].index ELSE args[t].index
  <1>1. heap' = [heap EXCEPT ![kp[t]].index = Counted(t, i)]
    BY DEF TakeKey
  <1>2. kp[t] \in CallIds
    BY DEF TakeKey, KeyInv, ControlInv, TypeOK, RefInv, CallIds
  <1>3. Counted(t, i) \in {heap[kp[t]].index, heap[kp[t]].index + 1}
    BY DEF Counted
  <1>4. heap \in [CallIds -> KeyPool]
    BY DEF KeyInv, ControlInv, TypeOK
  <1> QED BY <1>1, <1>2, <1>3, <1>4 DEF KeyPool

\* A fetch writes only the object of its own call, which nobody refers to.
LEMMA FetchKeepsUsed ==
  ASSUME KeyInv, NEW t \in Threads, Fetch(t), NEW c, Used(c)
  PROVE  heap'[c] = heap[c] /\ c # args[t].call
  <1>1. c # args[t].call
    BY DEF Fetch, Used, PreFetch
  <1>2. c \in CallIds
    BY DEF Used, CallIds, KeyInv, ControlInv, TypeOK
  <1> QED BY <1>1, <1>2 DEF Fetch, Fetched, FetchThrows, KeyInv, ControlInv, TypeOK

\* The object a fetch makes fits the pool it is made for.
LEMMA FetchFits ==
  ASSUME KeyInv, NEW t \in Threads, Fetch(t), kp'[t] # 0
  PROVE  kp'[t] = args[t].call /\ Fits(Pool(t), kp[t])'
  <1> USE DEF KeyInv, ControlInv
  <1>1. args[t].call \in CallIds
    BY DEF Fetch, TypeOK, RefInv, CallIds
  <1>2. ~ FetchThrows(t)
    BY DEF FetchThrows, Return, TypeOK
  <1>3. Pool(t)' = Pool(t)
    BY <1>2 DEF Fetch, Fetched, Pool
  <1>4. CASE args[t].block = NoBlock
    <2>1. Pool(t)[1] = Local /\ args[t].index = -1
      BY <1>4 DEF ArgInv, Pool, PoolOf
    <2>2. Fetched(t, args[t].call, BlockSz) \/ Fetched(t, NoBlock, 0)
      BY <1>2, <1>4, <2>1 DEF Fetch
    <2> QED BY <1>1, <1>3, <2>1, <2>2 DEF Fetched, Fits, TypeOK
  <1>5. CASE args[t].block \in PeerBlocks
    <2>1. args[t].block # NoBlock
      BY <1>5
    <2>2. PICK k : Fetched(t, args[t].block, k)
      BY <2>1 DEF Fetch
    <2>3. kp'[t] = args[t].call /\ heap'[args[t].call].block = args[t].block
      BY <1>1, <2>2 DEF Fetched, TypeOK
    <2>4. Pool(t)[1] = Local => CastWrapped'
      <3>1. Pool(t)[1] = Local => args[t].index < 0
        BY DEF Pool, PoolOf, TypeOK, Args
      <3> QED BY <2>1, <2>2, <3>1 DEF Fetched, CastWrapped, Misdirected, IsNewKey
    <2> QED BY <1>3, <1>5, <2>3, <2>4 DEF Fits, FromPeer
  <1> QED BY <1>4, <1>5 DEF ArgInv

\* Source pools keep to blocks obtained by this site, destination pools to
\* blocks of peers.
LEMMA OriginStep ==
  ASSUME KeyInv, [Next]_vars PROVE OriginInv'
  <1> USE DEF KeyInv, ControlInv
  <1>c. CastWrapped => CastWrapped'
    BY CastStays
  <1>0. ASSUME UNCHANGED vars PROVE OriginInv'
    BY <1>c, <1>0 DEF vars, OriginInv, Fits, FromPeer, Pool
  <1>1. ASSUME NEW t \in Threads, NewKey(t) \/ GetKey(t) PROVE OriginInv'
    BY <1>c, <1>1 DEF NewKey, GetKey, StartCall, TypeOK, RefInv, OriginInv, Fits, FromPeer, Pool
  <1>2. ASSUME NEW t \in Threads,
               \/ ContainsKey(t) \/ TestInProgress(t) \/ Loop(t) \/ Acquire(t)
               \/ Claim(t) \/ NotifyAll(t)
        PROVE  OriginInv'
    BY <1>c, <1>2 DEF ContainsKey, TestInProgress, Loop, Acquire, Claim, NotifyAll,
                OriginInv, Fits, FromPeer, Pool
  <1>3. ASSUME NEW t \in Threads, Throw(t), UNCHANGED heap PROVE OriginInv'
    BY <1>c, <1>3 DEF Throw, Return, TypeOK, OriginInv, Fits, FromPeer, Pool
  <1>4. ASSUME NEW t \in Threads, IsValid(t), ~ Throw(t) PROVE OriginInv'
    BY <1>c, <1>4 DEF IsValid, OriginInv, Fits, FromPeer, Pool
  <1>5. ASSUME NEW t \in Threads, LookUp(t), ~ Throw(t) PROVE OriginInv'
    BY <1>c, <1>5, PoolType DEF LookUp, TypeOK, OriginInv, Fits, FromPeer, Pool
  <1>6. ASSUME NEW t \in Threads, RemovePool(t) \/ PutPool(t) PROVE OriginInv'
    BY <1>c, <1>6, PoolType DEF RemovePool, PutPool, TypeOK, OriginInv, Fits, FromPeer, Pool
  <1>7. ASSUME NEW t \in Threads, Fetch(t) PROVE OriginInv'
    <2>1. \A p \in Pools : keyPools'[p] # 0 => Fits(p, keyPools[p])'
      BY <1>c, <1>7, FetchKeepsUsed DEF Fetch, UsedInv, OriginInv, Fits, FromPeer
    <2>2. \A u \in Threads : u # t /\ kp'[u] # 0 => Fits(Pool(u), kp[u])'
      <3> SUFFICES ASSUME NEW u \in Threads, u # t, kp'[u] # 0 PROVE Fits(Pool(u), kp[u])'
        OBVIOUS
      <3>1. kp'[u] = kp[u] /\ Pool(u)' = Pool(u)
        BY <1>7 DEF Fetch, Fetched, FetchThrows, Return, Pool, TypeOK
      <3> QED BY <1>c, <1>7, <3>1, FetchKeepsUsed DEF UsedInv, OriginInv, Fits, FromPeer
    <2>3. kp'[t] # 0 => Fits(Pool(t), kp[t])'
      BY <1>7, FetchFits
    <2> QED BY <2>1, <2>2, <2>3 DEF OriginInv
  <1>8. ASSUME NEW t \in Threads, TakeKey(t) PROVE OriginInv'
    <2>1. \A c \in 0..MaxCalls : c # 0 => c \in CallIds
      BY DEF CallIds
    <2>2. \A p \in Pools : keyPools'[p] # 0 => Fits(p, keyPools[p])'
      BY <1>c, <1>8, <2>1, TakeKeepsBlocks DEF TakeKey, TypeOK, OriginInv, Fits, FromPeer
    <2>3. \A u \in Threads : kp'[u] # 0 => Fits(Pool(u), kp[u])'
      <3> SUFFICES ASSUME NEW u \in Threads, kp'[u] # 0 PROVE Fits(Pool(u), kp[u])'
        OBVIOUS
      <3>1. kp'[u] = kp[u] /\ Pool(u)' = Pool(u) /\ kp[u] \in CallIds
        BY <1>8, <2>1 DEF TakeKey, Return, Pool, TypeOK
      <3> QED BY <1>c, <1>8, <3>1, TakeKeepsBlocks DEF OriginInv, Fits, FromPeer
    <2> QED BY <2>2, <2>3 DEF OriginInv
  <1> QED BY <1>0, <1>1, <1>2, <1>3, <1>4, <1>5, <1>6, <1>7, <1>8
          DEF Next, Step, Finished, IsValid, LookUp

\* A key that newKey returns carries the index of its object's counter, and
\* its block is the object itself or one that a misdirected call has loaded.
LEMMA TakenKey ==
  ASSUME KeyInv, NEW t \in Threads, TakeKey(t),
         NEW r \in NewKeys', r \notin results
  PROVE  /\ r.args = args[t] /\ args[t].index = -1
         /\ kp[t] \in CallIds /\ Used(kp[t])
         /\ r.key = <<heap[kp[t]].block, heap[kp[t]].index>>
         /\ heap[kp[t]].block = kp[t] \/ FromPeer(heap[kp[t]].block)
         /\ heap'[kp[t]].index = heap[kp[t]].index + 1
  <1> USE DEF KeyInv, ControlInv
  <1> DEFINE o == heap[kp[t]]
             i == IF args[t].index < 0 THEN o.index ELSE args[t].index
  <1>1. kp[t] \in CallIds /\ Used(kp[t])
    BY DEF TakeKey, TypeOK, RefInv, CallIds, UsedInv
  <1>2. r = [args |-> args[t], key |-> IF i < o.keys THEN <<o.block, i>> ELSE NoKey]
    BY DEF TakeKey, Return, NewKeys
  <1>3. args[t].index = -1
    BY <1>2 DEF NewKeys, IsNewKey, ArgInv
  <1>4. i = o.index /\ i < o.keys /\ r.key = <<o.block, o.index>>
    BY <1>2, <1>3 DEF NewKeys
  <1>5. o.keys # 0 /\ o \in KeyPool
    BY <1>1, <1>4 DEF TypeOK, KeyPool
  <1>6. o.block = kp[t] \/ FromPeer(o.block)
    BY <1>1, <1>3, <1>5 DEF OriginInv, Fits, Pool, PoolOf, CallIds
  <1>7. Counted(t, i) = o.index + 1
    BY <1>3, <1>5 DEF Counted
  <1>8. heap' = [heap EXCEPT ![kp[t]].index = Counted(t, i)]
    BY DEF TakeKey
  <1>9. heap'[kp[t]].index = o.index + 1
    BY <1>1, <1>5, <1>7, <1>8 DEF TypeOK, KeyPool
  <1> QED BY <1>1, <1>2, <1>3, <1>4, <1>6, <1>9

\* A call that ends without a key adds no new key to the history.
LEMMA NoNewKey ==
  ASSUME NEW t \in Threads, Return(t, NoKey) PROVE NewKeys' = NewKeys
  BY DEF Return, NewKeys

\* Issued keys stay below the counter of their object.
LEMMA IssuedStep ==
  ASSUME KeyInv, [Next]_vars PROVE IssuedInv'
  <1> USE DEF KeyInv, ControlInv
  <1>c. \A b : FromPeer(b) => FromPeer(b)'
    BY CastStays DEF FromPeer
  <1>1. ASSUME NewKeys' = NewKeys, UNCHANGED heap PROVE IssuedInv'
    BY <1>c, <1>1, UsedMonotone DEF IssuedInv
  <1>2. ASSUME NEW t \in Threads, Fetch(t) PROVE IssuedInv'
    <2>1. NewKeys' = NewKeys
      BY <1>2, NoNewKey DEF Fetch, Fetched, FetchThrows, NewKeys
    <2> QED BY <1>c, <1>2, <2>1, UsedMonotone, FetchKeepsUsed DEF IssuedInv
  <1>3. ASSUME NEW t \in Threads, TakeKey(t) PROVE IssuedInv'
    <2> SUFFICES ASSUME NEW r \in NewKeys'
                 PROVE  \/ Used(r.key[1])' /\ r.key[2] < heap'[r.key[1]].index
                        \/ FromPeer(r.key[1])'
      BY DEF IssuedInv
    <2>1. CASE r \in results
      <3>1. r \in NewKeys
        BY <2>1 DEF NewKeys
      <3>2. CASE Used(r.key[1]) /\ r.key[2] < heap[r.key[1]].index
        <4>1. r.key[1] \in CallIds
          BY <3>2 DEF Used, CallIds, TypeOK
        <4>2. r.key[2] \in Int /\ heap[r.key[1]].index \in Int /\ heap'[r.key[1]].index \in Int
          BY <2>1, <4>1, TypeStep DEF TypeOK, KeyPool
        <4> QED BY <1>3, <3>2, <4>1, <4>2, UsedMonotone, TakeKeepsBlocks
      <3>3. CASE FromPeer(r.key[1])
        BY <1>c, <3>3
      <3> QED BY <3>1, <3>2, <3>3 DEF IssuedInv
    <2>2. CASE r \notin results
      <3>1. heap[kp[t]].index \in Nat
        BY <1>3, <2>2, TakenKey DEF TypeOK, KeyPool
      <3> QED BY <1>c, <1>3, <2>2, <3>1, TakenKey, UsedMonotone
    <2> QED BY <2>1, <2>2
  <1> QED BY <1>1, <1>2, <1>3, NoNewKey
          DEF Next, NewKey, GetKey, StartCall, Step, ContainsKey, IsValid, TestInProgress,
              Loop, Acquire, Claim, RemovePool, PutPool, NotifyAll, LookUp, Throw,
              Finished, NewKeys, vars

\* A key taken now differs from every key issued before.
LEMMA UniqueStep ==
  ASSUME KeyInv, [Next]_vars PROVE NoKeyIssuedTwice'
  <1> USE DEF KeyInv, ControlInv
  <1>c. CastWrapped => CastWrapped'
    BY CastStays
  <1>1. ASSUME NewKeys' = NewKeys PROVE NoKeyIssuedTwice'
    BY <1>c, <1>1 DEF NoKeyIssuedTwice
  <1>2. ASSUME NEW t \in Threads, TakeKey(t) PROVE NoKeyIssuedTwice'
    <2>1. \A r \in NewKeys' : r \in results => r \in NewKeys
      BY DEF NewKeys
    <2>2. ASSUME NEW r \in NewKeys', r \notin results, NEW q \in NewKeys, r.key = q.key
          PROVE  FromPeer(r.key[1])
      <3>1. r.key = <<heap[kp[t]].block, heap[kp[t]].index>>
        BY <1>2, <2>2, TakenKey
      <3>2. heap[kp[t]].index \in Int /\ kp[t] \in CallIds
        BY <1>2, <2>2, TakenKey DEF TypeOK, KeyPool
      <3>3. ASSUME heap[kp[t]].block = kp[t] PROVE FALSE
        <4>1. r.key[1] = kp[t] /\ r.key[2] = heap[kp[t]].index
          BY <3>1, <3>3
        <4>2. ~ FromPeer(q.key[1])
          BY <2>2, <3>2, <4>1, NameAssumption DEF FromPeer, CallIds
        <4>3. q.key[2] < heap[q.key[1]].index
          BY <4>2 DEF IssuedInv
        <4> QED BY <2>2, <3>2, <4>1, <4>3
      <3> QED BY <1>2, <2>2, <3>1, <3>3, TakenKey
    <2>3. ASSUME NEW r \in NewKeys', r \notin results PROVE r.args = args[t]
      BY <1>2, <2>3, TakenKey
    <2> QED BY <1>c, <2>1, <2>2, <2>3 DEF NoKeyIssuedTwice, FromPeer
  <1> QED BY <1>1, <1>2, NoNewKey
          DEF Next, NewKey, GetKey, StartCall, Step, ContainsKey, IsValid, TestInProgress,
              Loop, Acquire, Claim, Fetch, Fetched, FetchThrows, RemovePool, PutPool,
              NotifyAll, LookUp, Throw, Finished, NewKeys, vars

\* A key that getKey takes comes from a destination pool.
LEMMA SourceStep ==
  ASSUME KeyInv, [Next]_vars PROVE GetKeyFromSourceSite'
  <1> USE DEF KeyInv, ControlInv
  <1>1. ASSUME results' = results PROVE GetKeyFromSourceSite'
    BY <1>1 DEF GetKeyFromSourceSite
  <1>2. ASSUME NEW t \in Threads, Return(t, NoKey) PROVE GetKeyFromSourceSite'
    BY <1>2, NameAssumption DEF Return, GetKeyFromSourceSite, NoKey, CallIds
  <1>3. ASSUME NEW t \in Threads, TakeKey(t) PROVE GetKeyFromSourceSite'
    <2>1. CASE IsNewKey(args[t]) \/ Misdirected(args[t])
      BY <1>3, <2>1 DEF TakeKey, Return, GetKeyFromSourceSite
    <2>2. CASE ~ IsNewKey(args[t]) /\ ~ Misdirected(args[t])
      <3>1. heap[kp[t]].block \in PeerBlocks
        <4>1. kp[t] # 0 /\ Pool(t)[1] # Local
          BY <1>3, <2>2, NameAssumption
             DEF TakeKey, RefInv, Misdirected, Pool, PoolOf, TypeOK, Args
        <4> QED BY <4>1 DEF OriginInv, Fits
      <3> QED BY <1>3, <3>1, NameAssumption, SMTT(20)
              DEF TakeKey, Return, GetKeyFromSourceSite, NoKey, CallIds
    <2> QED BY <2>1, <2>2
  <1> QED BY <1>1, <1>2, <1>3
          DEF Next, NewKey, GetKey, StartCall, Step, ContainsKey, IsValid, TestInProgress,
              Loop, Acquire, Claim, Fetch, Fetched, FetchThrows, RemovePool, PutPool,
              NotifyAll, LookUp, Throw, Finished, vars

\* The key invariant holds before the first request.
LEMMA InitKey == Init => KeyInv
  BY InitControl DEF KeyInv, Init, CallInv, ArgInv, NoArgs, UsedInv, OriginInv, IssuedInv,
                     NoKeyIssuedTwice, GetKeyFromSourceSite, NewKeys

-----------------------------------------------------------------------------
\* Every step preserves the control invariant.
LEMMA ControlStep == ControlInv /\ [Next]_vars => ControlInv'
  BY TypeStep, RefStep, LockStep, FlagStep, SingleStep DEF ControlInv

\* The variables keep their types, for any number of threads and calls, and
\* initPoolLock has an owner exactly while it is held: fetchKey never unlocks
\* it when it is free (KeyPoolManager.fetchKey, lines 122-151).
THEOREM TypeCorrect == Spec => []TypeOK
  <1>1. ControlInv => TypeOK
    BY DEF ControlInv
  <1> QED BY <1>1, InitControl, ControlStep, PTL DEF Spec

\* At most one thread at a time fetches a block for a pool (fetchKey, lines
\* 122-176), for any number of threads, calls and pools.
THEOREM FetchExclusive == Spec => []SingleFetcher
  <1>1. ControlInv => SingleFetcher
    BY DEF ControlInv
  <1> QED BY <1>1, InitControl, ControlStep, PTL DEF Spec

\* A thread waiting in fetchKey (lines 113, 134) has a fetcher that will
\* notify it, unless a fetch of its pool threw.
THEOREM WaitersHaveFetcher == Spec => []NoLostWakeup
  <1>1. ControlInv => NoLostWakeup
    BY PoolType DEF ControlInv, FlagInv, NoLostWakeup
  <1> QED BY <1>1, InitControl, ControlStep, PTL DEF Spec

\* newKey never returns the same key twice, unless a getKey whose index the
\* cast made negative has loaded a peer's block into the source pool, and then
\* only keys of that block (KeyPool.getKey, fetchKey line 91).
THEOREM KeysAreFresh == Spec => []NoKeyIssuedTwice
  <1>1. KeyInv /\ [Next]_vars => KeyInv'
    BY ControlStep, CallStep, ArgStep, UsedStep, OriginStep, IssuedStep, UniqueStep,
       SourceStep DEF KeyInv
  <1>2. KeyInv => NoKeyIssuedTwice
    BY DEF KeyInv
  <1> QED BY <1>1, <1>2, InitKey, PTL DEF Spec

\* getKey answers with a key of a block this site obtained as the source only
\* when the cast has made its own index negative, whatever indices the other
\* requests have (fetchKey, lines 91-101).
THEOREM GetKeyKeepsDirection == Spec => []GetKeyFromSourceSite
  <1>1. KeyInv /\ [Next]_vars => KeyInv'
    BY ControlStep, CallStep, ArgStep, UsedStep, OriginStep, IssuedStep, UniqueStep,
       SourceStep DEF KeyInv
  <1>2. KeyInv => GetKeyFromSourceSite
    BY DEF KeyInv
  <1> QED BY <1>1, <1>2, InitKey, PTL DEF Spec

=============================================================================
