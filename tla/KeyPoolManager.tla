--------------------------- MODULE KeyPoolManager ---------------------------
(***************************************************************************)
(* The key pools of one KMS site: KeyPoolManager.fetchKey and the KeyPool  *)
(* objects it shares between the HTTP request threads, at the granularity  *)
(* of the accesses to shared objects (the two concurrent maps, the         *)
(* AtomicLong of a pool, PoolLock.inProgress and its monitor, and the      *)
(* reentrant lock initPoolLock).                                           *)
(*                                                                         *)
(* Representation.  Calls are numbered.  A call fetches at most once, so   *)
(* the KeyPool object a call creates is heap[call], and the UUID of the    *)
(* block it obtains from the QNL is named by the same number: UUIDs are    *)
(* fresh.  A key is the pair <<block, index>>.  A pool name is the pair    *)
(* <<source site, destination site>>.                                      *)
(***************************************************************************)
EXTENDS Integers, FiniteSets

CONSTANTS
    Threads,        \* request threads of the servlet container
    Local,          \* localSiteId
    Peers,          \* the siteid parameters of requests
    PeerBlocks,     \* blockid parameters of /getkey requests
    Stored,         \* <<peer, block>>: key files kms-qnl-service has written
    Indices,        \* index parameters of /getkey requests (Java long, >= 0)
    BlockSz,        \* kms.keys.blocksize: keys per block
    FetchOutcomes,  \* how QNLKeyReader.read from the QNL may end
    IntMax,         \* Integer.MAX_VALUE
    MaxCalls,       \* bound: calls of newKey and getKey in a behaviour
    NoThread, NoBlock

ASSUME SizeAssumption == BlockSz \in Nat \ {0} /\ MaxCalls \in Nat /\ IntMax \in Nat

ASSUME NameAssumption ==
    /\ Peers # {}
    /\ Indices \subseteq Nat
    /\ Stored \subseteq Peers \X PeerBlocks
    /\ FetchOutcomes \subseteq {"full", "empty", "throws"}
    /\ NoThread \notin Threads
    /\ Local \notin Peers
    /\ NoBlock \notin PeerBlocks \cup (1..MaxCalls)
    /\ PeerBlocks \cap (1..MaxCalls) = {}

VARIABLES
    pc,             \* where each thread is in fetchKey
    inLock,         \* thread is between lines 122 and 151 of its current call
    args,           \* arguments of each thread's current call
    kp,             \* the KeyPool each thread holds a reference to
    keyPools,       \* pool name -> KeyPool object (0: no entry)
    heap,           \* KeyPool objects, by the call that created them
    inProgress,     \* poolLocks[p].inProgress (no entry: FALSE)
    initPoolLock,   \* owner and hold count of the reentrant lock
    calls,          \* number of calls made
    results,        \* history: what each finished call returned
    failed          \* history: pools with a fetch that ended in an exception

vars == <<pc, inLock, args, kp, keyPools, heap, inProgress, initPoolLock,
          calls, results, failed>>

CallIds == 1..MaxCalls
Blocks == CallIds \cup PeerBlocks \cup {NoBlock}
Pools == (Peers \X {Local}) \cup ({Local} \X Peers)
NoKey == <<NoBlock, -2>>

\* The cast (int)ind: 2's complement wrap-around.
CastInt(i) == ((i + IntMax + 1) % (2 * (IntMax + 1))) - (IntMax + 1)

\* newKey passes no block and index -1; getKey passes both.
Args == [call : 0..MaxCalls, site : Peers, block : Blocks, index : Int]

\* The dead local variables of a thread outside fetchKey.
NoArgs == [call |-> 0, site |-> CHOOSE s \in Peers : TRUE, block |-> NoBlock, index |-> -1]

KeyPool == [block : Blocks, keys : 0..BlockSz, index : Nat]

IsNewKey(a) == a.block = NoBlock

\* srcSiteId, dstSiteId and poolName are chosen by the sign of the int index.
PoolOf(a) == IF a.index < 0 THEN <<Local, a.site>> ELSE <<a.site, Local>>

Pool(t) == PoolOf(args[t])

-----------------------------------------------------------------------------
(* Leaving fetchKey.  A call ends with a key or with NoKey: exceptions at   *)
(* line 105 or 119 reach newKey and getKey, which answer an empty Key; the  *)
(* ones inside the try block are swallowed at line 179 and fetchKey returns *)
(* null.  Neither path releases initPoolLock.                               *)

GoTo(t, label) == pc' = [pc EXCEPT ![t] = label]

Return(t, key) ==
    /\ GoTo(t, "idle")
    /\ inLock' = [inLock EXCEPT ![t] = FALSE]
    /\ args' = [args EXCEPT ![t] = NoArgs]
    /\ kp' = [kp EXCEPT ![t] = 0]
    /\ results' = results \cup {[args |-> args[t], key |-> key]}

Throw(t) ==
    /\ Return(t, NoKey)
    /\ UNCHANGED <<keyPools, inProgress, initPoolLock, calls>>

UnlockedKeepingOwner(l) == [l EXCEPT !.count = @ - 1]    \* mutant: owner not cleared

Unlocked(l) ==
    IF l.count = 1 THEN [owner |-> NoThread, count |-> 0]
                   ELSE [l EXCEPT !.count = @ - 1]

-----------------------------------------------------------------------------
Init ==
    /\ pc = [t \in Threads |-> "idle"]
    /\ inLock = [t \in Threads |-> FALSE]
    /\ args = [t \in Threads |-> NoArgs]
    /\ kp = [t \in Threads |-> 0]
    /\ keyPools = [p \in Pools |-> 0]
    /\ heap = [c \in CallIds |-> [block |-> NoBlock, keys |-> 0, index |-> 0]]
    /\ inProgress = [p \in Pools |-> FALSE]
    /\ initPoolLock = [owner |-> NoThread, count |-> 0]
    /\ calls = 0
    /\ results = {}
    /\ failed = {}

StartCall(t, s, b, i) ==
    /\ pc[t] = "idle"
    /\ calls < MaxCalls
    /\ calls' = calls + 1
    /\ args' = [args EXCEPT ![t] = [call |-> calls + 1, site |-> s,
                                    block |-> b, index |-> CastInt(i)]]
    /\ GoTo(t, "contains")
    /\ UNCHANGED <<inLock, kp, keyPools, heap, inProgress, initPoolLock, results, failed>>

NewKey(t) == \E s \in Peers : StartCall(t, s, NoBlock, -1)

GetKey(t) == \E s \in Peers, b \in PeerBlocks, i \in Indices : StartCall(t, s, b, i)

\* containsPool, first half: keyPools.containsKey(poolName).
ContainsKey(t) ==
    /\ pc[t] = "contains"
    /\ GoTo(t, IF keyPools[Pool(t)] = 0 THEN "test" ELSE "isValid")
    /\ UNCHANGED <<inLock, args, kp, keyPools, heap, inProgress, initPoolLock,
                   calls, results, failed>>

Valid(o) == o.index < BlockSz /\ o.keys # 0

\* containsPool, second half: get(poolName).isValid(); the entry may be gone.
IsValid(t) ==
    /\ pc[t] = "isValid"
    /\ IF keyPools[Pool(t)] = 0
       THEN Throw(t)
       ELSE /\ GoTo(t, IF Valid(heap[keyPools[Pool(t)]]) THEN "lookup" ELSE "test")
            /\ UNCHANGED <<inLock, args, kp, keyPools, inProgress, initPoolLock,
                           calls, results>>
    /\ UNCHANGED <<heap, failed>>

\* Lines 106-107, and 127-131 where the caller holds initPoolLock.
TestInProgress(t) ==
    /\ pc[t] = "test"
    /\ IF inProgress[Pool(t)]
       THEN /\ GoTo(t, "loop")
            /\ inLock' = [inLock EXCEPT ![t] = FALSE]
            /\ initPoolLock' = IF inLock[t] THEN Unlocked(initPoolLock) ELSE initPoolLock
       ELSE /\ GoTo(t, IF inLock[t] THEN "claim" ELSE "lock")
            /\ UNCHANGED <<inLock, initPoolLock>>
    /\ UNCHANGED <<args, kp, keyPools, heap, inProgress, calls, results, failed>>

\* The while loop on inProgress inside the monitor; wait() releases it.
Loop(t) ==
    /\ pc[t] = "loop"
    /\ GoTo(t, IF inProgress[Pool(t)] THEN "wait" ELSE "lookup")
    /\ UNCHANGED <<inLock, args, kp, keyPools, heap, inProgress, initPoolLock,
                   calls, results, failed>>

\* initPoolLock.lock(): reentrant.
AcquireUnguarded(t) ==          \* mutant: the lock does not exclude
    /\ pc[t] = "lock"
    /\ initPoolLock' = [owner |-> t, count |-> 1]
    /\ inLock' = [inLock EXCEPT ![t] = TRUE]
    /\ GoTo(t, "contains")
    /\ UNCHANGED <<args, kp, keyPools, heap, inProgress, calls, results, failed>>

Acquire(t) ==
    /\ pc[t] = "lock"
    /\ initPoolLock.owner \in {NoThread, t}
    /\ initPoolLock' = [owner |-> t, count |-> initPoolLock.count + 1]
    /\ inLock' = [inLock EXCEPT ![t] = TRUE]
    /\ GoTo(t, "contains")
    /\ UNCHANGED <<args, kp, keyPools, heap, inProgress, calls, results, failed>>

\* Lines 142-152: become the fetcher of the pool.
Claim(t) ==
    /\ pc[t] = "claim"
    /\ inProgress' = [inProgress EXCEPT ![Pool(t)] = TRUE]
    /\ initPoolLock' = Unlocked(initPoolLock)
    /\ inLock' = [inLock EXCEPT ![t] = FALSE]
    /\ GoTo(t, "fetch")
    /\ UNCHANGED <<args, kp, keyPools, heap, calls, results, failed>>

\* The block goes into a new KeyPool, still private to the thread.
Fetched(t, block, keys) ==
    /\ heap' = [heap EXCEPT ![args[t].call] = [block |-> block, keys |-> keys, index |-> 0]]
    /\ kp' = [kp EXCEPT ![t] = args[t].call]
    /\ GoTo(t, "remove")
    /\ UNCHANGED <<inLock, args, results, failed>>

\* A refused connection throws; line 165 rethrows it past lines 168-176.
FetchThrows(t) ==
    /\ Return(t, NoKey)
    /\ failed' = failed \cup {Pool(t)}
    /\ UNCHANGED heap

\* Lines 154-166.  A closed channel or the 40 s read timeout leaves the block
\* id null and the vector empty; a missing key file leaves the vector empty.
Fetch(t) ==
    /\ pc[t] = "fetch"
    /\ IF args[t].block = NoBlock /\ args[t].index = -1
       THEN \/ "full" \in FetchOutcomes /\ Fetched(t, args[t].call, BlockSz)
            \/ "empty" \in FetchOutcomes /\ Fetched(t, NoBlock, 0)
            \/ "throws" \in FetchOutcomes /\ FetchThrows(t)
       ELSE Fetched(t, args[t].block,
                    IF <<args[t].site, args[t].block>> \in Stored THEN BlockSz ELSE 0)
    /\ UNCHANGED <<keyPools, inProgress, initPoolLock, calls>>

RemovePool(t) ==
    /\ pc[t] = "remove"
    /\ keyPools' = [keyPools EXCEPT ![Pool(t)] = 0]
    /\ GoTo(t, "put")
    /\ UNCHANGED <<inLock, args, kp, heap, inProgress, initPoolLock, calls, results, failed>>

PutPool(t) ==
    /\ pc[t] = "put"
    /\ keyPools' = [keyPools EXCEPT ![Pool(t)] = kp[t]]
    /\ GoTo(t, "notify")
    /\ UNCHANGED <<inLock, args, kp, heap, inProgress, initPoolLock, calls, results, failed>>

\* Lines 173-176, in the monitor: waiters of the pool run their loop again.
ClearInProgressOnly(t) ==       \* mutant: notifyAll() forgotten
    /\ pc[t] = "notify"
    /\ inProgress' = [inProgress EXCEPT ![Pool(t)] = FALSE]
    /\ GoTo(t, "lookup")
    /\ UNCHANGED <<inLock, args, kp, keyPools, heap, initPoolLock, calls, results, failed>>

NotifyOne(t) ==                 \* mutant: notify() instead of notifyAll()
    /\ pc[t] = "notify"
    /\ inProgress' = [inProgress EXCEPT ![Pool(t)] = FALSE]
    /\ LET waiting == {u \in Threads : pc[u] = "wait" /\ Pool(u) = Pool(t)}
       IN  \/ \E u \in waiting : pc' = [pc EXCEPT ![t] = "lookup", ![u] = "loop"]
           \/ waiting = {} /\ GoTo(t, "lookup")
    /\ UNCHANGED <<inLock, args, kp, keyPools, heap, initPoolLock, calls, results, failed>>

NotifyAll(t) ==
    /\ pc[t] = "notify"
    /\ inProgress' = [inProgress EXCEPT ![Pool(t)] = FALSE]
    /\ pc' = [u \in Threads |->
                 IF u = t THEN "lookup"
                 ELSE IF pc[u] = "wait" /\ Pool(u) = Pool(t) THEN "loop" ELSE pc[u]]
    /\ UNCHANGED <<inLock, args, kp, keyPools, heap, initPoolLock, calls, results, failed>>

\* key(): keyPools.get(poolName), null when another fetcher has removed it.
LookUp(t) ==
    /\ pc[t] = "lookup"
    /\ IF keyPools[Pool(t)] = 0
       THEN Throw(t)
       ELSE /\ kp' = [kp EXCEPT ![t] = keyPools[Pool(t)]]
            /\ GoTo(t, "take")
            /\ UNCHANGED <<inLock, args, keyPools, inProgress, initPoolLock, calls, results>>
    /\ UNCHANGED <<heap, failed>>

CountedForClients(t, i) ==      \* mutant: getKey() reads the index without incrementing
    LET o == heap[kp[t]]
    IN  IF args[t].index >= 0 /\ i < o.keys THEN o.index + 1 ELSE o.index

\* The pool's AtomicLong after an attempt: KeyPool.getKey() counts every
\* attempt on a nonempty pool, getKey(int) the ones that find their key.
Counted(t, i) ==
    LET o == heap[kp[t]]
    IN  IF (args[t].index < 0 /\ o.keys # 0) \/ i < o.keys THEN o.index + 1 ELSE o.index

\* key(), second half.  An empty pool answers newKey with index -2; an index
\* beyond the keys makes keys.get throw, past the unlock of line 126.
TakeKey(t) ==
    /\ pc[t] = "take"
    /\ LET o == heap[kp[t]]
           i == IF args[t].index < 0 THEN o.index ELSE args[t].index
           emptyPool == args[t].index < 0 /\ o.keys = 0
       IN  /\ heap' = [heap EXCEPT ![kp[t]].index = Counted(t, i)]
           /\ Return(t, IF i < o.keys THEN <<o.block, i>> ELSE NoKey)
           /\ initPoolLock' = IF inLock[t] /\ (i < o.keys \/ emptyPool)
                              THEN Unlocked(initPoolLock) ELSE initPoolLock
    /\ UNCHANGED <<keyPools, inProgress, calls, failed>>

-----------------------------------------------------------------------------
Step(t) ==
    \/ ContainsKey(t) \/ IsValid(t) \/ TestInProgress(t) \/ Loop(t)
    \/ Acquire(t) \/ Claim(t) \/ Fetch(t) \/ RemovePool(t) \/ PutPool(t)
    \/ NotifyAll(t) \/ LookUp(t) \/ TakeKey(t)

\* The bound on calls is reached and every call has returned.
Finished ==
    /\ calls = MaxCalls
    /\ \A t \in Threads : pc[t] = "idle"
    /\ UNCHANGED vars

Next == (\E t \in Threads : NewKey(t) \/ GetKey(t) \/ Step(t)) \/ Finished

\* A thread inside fetchKey keeps running: the JVM schedules it, wait() is
\* re-tested after notifyAll, and the connect and read timeouts end a fetch.
Spec == Init /\ [][Next]_vars /\ \A t \in Threads : WF_vars(Step(t))

-----------------------------------------------------------------------------
Labels == {"idle", "contains", "isValid", "test", "lock", "claim", "fetch", "remove",
           "put", "notify", "loop", "wait", "lookup", "take"}

\* Types, and the reentrant lock's bookkeeping: it has an owner exactly while
\* its hold count is positive.
TypeOK ==
    /\ pc \in [Threads -> Labels]
    /\ inLock \in [Threads -> BOOLEAN]
    /\ args \in [Threads -> Args]
    /\ kp \in [Threads -> 0..MaxCalls]
    /\ keyPools \in [Pools -> 0..MaxCalls]
    /\ heap \in [CallIds -> KeyPool]
    /\ inProgress \in [Pools -> BOOLEAN]
    /\ initPoolLock \in [owner : Threads \cup {NoThread}, count : Nat]
    /\ (initPoolLock.count = 0) <=> (initPoolLock.owner = NoThread)
    /\ calls \in 0..MaxCalls
    /\ results \subseteq [args : Args, key : Blocks \X Int]
    /\ failed \subseteq Pools

\* The calls of newKey that returned a key.
NewKeys == {r \in results : IsNewKey(r.args) /\ r.key # NoKey}

\* A getKey whose index the cast of line 91 has made negative: it works on the
\* source pool, and loads the peer's block it asks for into it.
Misdirected(a) == ~ IsNewKey(a) /\ a.index < 0

\* Such a call has been made.
CastWrapped ==
    (\E t \in Threads : Misdirected(args[t])) \/ \E r \in results : Misdirected(r.args)

\* Two calls of newKey never return the same key, however their threads are
\* interleaved in fetchKey: KeyPool.getKey hands out each index of a block
\* once and no block is ever loaded into two source pools, except a peer's
\* block that a getKey with a wrapped index has put there.
NoKeyIssuedTwice ==
    \A r1, r2 \in NewKeys : r1.key = r2.key =>
        \/ r1.args.call = r2.args.call
        \/ CastWrapped /\ r1.key[1] \in PeerBlocks

Fetching(t) == pc[t] \in {"fetch", "remove", "put", "notify"}

\* At most one thread fetches a block for a pool at a time, which is what the
\* inProgress flag, tested and set under initPoolLock, is for.
SingleFetcher ==
    \A t, u \in Threads :
        Fetching(t) /\ Fetching(u) /\ Pool(t) = Pool(u) => t = u

\* No wake-up is lost: a thread in wait() on a pool's monitor still has a
\* fetcher that is going to notify it, unless a fetch of that pool ended in
\* the exception of line 165 and left inProgress set for good.
NoLostWakeup ==
    \A t \in Threads : pc[t] = "wait" =>
        \/ \E u \in Threads : Fetching(u) /\ Pool(u) = Pool(t)
        \/ Pool(t) \in failed

\* initPoolLock is held beyond what the owner's current call will release.
LockLeaked ==
    /\ initPoolLock.owner # NoThread
    /\ initPoolLock.count > (IF inLock[initPoolLock.owner] THEN 1 ELSE 0)

\* Every call of newKey and getKey returns, unless one of two accidents has
\* happened: initPoolLock was never released by a call that threw at line
\* 124 or 125, or a fetch of the same pool threw at line 165.
CallReturns ==
    \A t \in Threads :
        pc[t] # "idle" ~> pc[t] = "idle" \/ LockLeaked \/ Pool(t) \in failed

\* /getkey answers from the pool whose source is the supplied site as long as
\* the index is not negative as an int, also while other requests, misdirected
\* ones among them, fill and empty the source pool of the same peer: it never
\* returns a key of a block this site obtained as the source.
GetKeyFromSourceSite ==
    \A r \in results :
        ~ IsNewKey(r.args) /\ ~ Misdirected(r.args) => r.key[1] \notin CallIds

(* Statements of the repository's comments that the code does not meet.     *)

\* KMSController, comment on getKey: "Get a key from the supplied blockid at
\* a given index."
GetKeyFromSuppliedBlock ==
    \A r \in results : ~ IsNewKey(r.args) /\ r.key # NoKey
                           => r.key = <<r.args.block, r.args.index>>

\* KeyPoolManager line 122, "block until condition holds": a thread that
\* calls initPoolLock.lock() obtains the lock.
LockObtained == \A t \in Threads : pc[t] = "lock" ~> pc[t] # "lock"

=============================================================================
