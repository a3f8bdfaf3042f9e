--------------------------- MODULE LinkKeys_proofs ---------------------------
(***************************************************************************)
(* Proofs about LinkKeys, for any number of event loops, any sizes of      *)
(* blocks and files, and any number of calls.                              *)
(***************************************************************************)
EXTENDS LinkKeys, FiniteSetTheorems, SequenceTheorems, TLAPS

-----------------------------------------------------------------------------
(* The invariant of the calls.                                              *)

Keys == 1 .. MaxFiles * QllBlockSz

Calls == [kind : {"none", "reserve", "take", "readAt"},
          pc : {"create", "test", "undo", "read", "done"},
          index : Indices \cup {0}, data : Seq(Keys), start : Nat, skip : BOOLEAN,
          there : BOOLEAN]

\* What a call has at each of its accesses: before its first pass over a file
\* a read has nothing; later it has fewer keys than a block, from a file that
\* exists, and goes on in the first file.
CallOK(o) ==
    /\ Len(o.data) <= KeyBlockSz
    /\ o.pc \in {"create", "done"} => o.kind = "none"
    /\ o.pc = "test" => o.kind = "reserve"
    /\ o.pc = "undo" => o.kind \in {"reserve", "take"}
    /\ o.pc = "read" =>
          /\ o.kind \in {"take", "readAt"} /\ Len(o.data) < KeyBlockSz
          /\ \/ o.data = <<>> /\ o.start = o.index - KeyBlockSz /\ o.skip
             \/ o.start < KeyBlockSz /\ Exists(BlockFile(o.index)) /\ ~ o.there
          /\ o.there => BlockThere(o.index)
    /\ o.pc \in {"test", "undo", "read"} => o.index \in Indices

\* Key files appear in order.
FilesOK ==
    /\ lines \in [Files -> -1 .. QllBlockSz]
    /\ \A f, g \in Files : g < f /\ lines[f] >= 0 => lines[g] = QllBlockSz

CallInv ==
    /\ op \in [Threads -> Calls]
    /\ \A t \in Threads : CallOK(op[t])
    /\ \A h \in Handlers : op[h].pc # "create"
    /\ FilesOK
    /\ misread = {} /\ raced \in BOOLEAN /\ ops \in 0 .. MaxOps

-----------------------------------------------------------------------------
(* The invariant of the counter.                                            *)

\* A call that has added to the counter and not yet handed out or undone.
Active(o) == o.pc \in {"test", "undo"} \/ (o.kind = "take" /\ o.pc = "read")

\* The times that index i has been handed out.
Times(i) == {p \in issued : p[1] = i}

Used == Cardinality(issued) + Cardinality(InFlight)
Begun == ops + (IF op[Main].pc = "create" THEN 0 ELSE 1)

\* The counter is what was handed out and what is under way, and no more calls
\* did that than have begun; the times of an index are numbered from 1.
CountInv ==
    /\ IsFiniteSet(issued) /\ issued \subseteq Indices \X (1 .. MaxOps + 1)
    /\ \A p \in issued : p[2] <= Cardinality(Times(p[1]))
    /\ counter = KeyBlockSz * Used /\ Used <= Begun

-----------------------------------------------------------------------------
(* The invariant of fresh blocks.                                           *)

\* A call under way that will not find its file, if no file appears.
Doomed(o) ==
    /\ Active(o)
    /\ \/ o.pc = "undo"
       \/ o.kind = "reserve" /\ ~ Exists(o.index \div QllBlockSz)
       \/ o.kind = "take" /\ ~ Exists(BlockFile(o.index))

Good == {t \in InFlight : ~ Doomed(op[t])}
Kept == Cardinality(issued) + Cardinality(Good)

\* Blocks that are handed out or will be are the first ones, each only once,
\* and while a call is doomed there is no file for the one after them.
FreshInv ==
    /\ \A p \in issued : p[2] = 1 /\ p[1] <= KeyBlockSz * Kept
    /\ \A t \in Good : op[t].index <= KeyBlockSz * Kept /\ Times(op[t].index) = {}
    /\ \A t, u \in Good : op[t].index = op[u].index => t = u
    /\ Good # InFlight => ~ Exists((KeyBlockSz * (Kept + 1)) \div QllBlockSz)

-----------------------------------------------------------------------------
(* Arithmetic of files and blocks.                                          *)

\* A block is no longer than a file.
LEMMA Sizes ==
  /\ KeyBlockSz \in Nat /\ KeyBlockSz > 0 /\ QllBlockSz \in Nat /\ QllBlockSz > 0
  /\ KeyBlockSz <= QllBlockSz /\ MaxFiles \in Nat /\ MaxOps \in Nat
  <1>1. /\ KeyBlockSz \in Nat \ {0} /\ QllBlockSz \in Nat \ {0}
        /\ QllBlockSz % KeyBlockSz = 0 /\ MaxFiles \in Nat /\ MaxOps \in Nat
    BY SizeAssumption
  <1>2. QllBlockSz < KeyBlockSz => QllBlockSz % KeyBlockSz = QllBlockSz
    BY <1>1
  <1> QED BY <1>1, <1>2

\* The smaller of two numbers.
LEMMA MinPair ==
  ASSUME NEW a \in Int, NEW b \in Int
  PROVE  /\ Min({a, b}) \in {a, b} /\ Min({a, b}) <= a /\ Min({a, b}) <= b
  <1>1. \E x \in {a, b} : \A y \in {a, b} : x <= y
    <2>1. CASE a <= b
      BY <2>1
    <2>2. CASE ~ (a <= b)
      BY <2>2
    <2> QED BY <2>1, <2>2
  <1> QED BY <1>1 DEF Min

\* Division by the size of a file.
LEMMA Division ==
  ASSUME NEW a \in Nat, NEW b \in Nat, a <= b
  PROVE  /\ a \div QllBlockSz \in Nat /\ a \div QllBlockSz <= b \div QllBlockSz
         /\ a < QllBlockSz => a \div QllBlockSz = 0
         /\ a = QllBlockSz * (a \div QllBlockSz) + (a % QllBlockSz)
         /\ a % QllBlockSz \in Nat /\ a % QllBlockSz < QllBlockSz
  <1> DEFINE Q == QllBlockSz
  <1>0. Q \in Nat /\ Q > 0
    BY Sizes
  <1> HIDE DEF Q
  <1>1. /\ a \div Q \in Nat /\ (a < Q => a \div Q = 0)
        /\ a = Q * (a \div Q) + (a % Q) /\ a % Q \in Nat /\ a % Q < Q
    <2>1. a \div Q \in Nat
      BY <1>0
    <2>2. a < Q => a \div Q = 0
      BY <1>0
    <2>3. a = Q * (a \div Q) + (a % Q)
      BY <1>0
    <2>4. a % Q \in Nat /\ a % Q < Q
      BY <1>0
    <2> QED BY <2>1, <2>2, <2>3, <2>4
  <1>2. a \div Q <= b \div Q
    <2> DEFINE x == a \div Q
               y == b \div Q
    <2>1. x \in Nat /\ y \in Nat /\ Q * x <= a /\ b < Q * y + Q
      BY <1>0
    <2> HIDE DEF x, y
    <2>2. Q * x < Q * y + Q
      <3>1. Q * x \in Nat /\ Q * y \in Nat
        BY <1>0, <2>1
      <3> QED BY <1>0, <2>1, <3>1
    <2>3. Q * y + Q = Q * (y + 1)
      BY <1>0, <2>1
    <2>4. ASSUME x >= y + 1 PROVE Q * x >= Q * (y + 1)
      BY <1>0, <2>1, <2>4
    <2>5. x <= y
      <3>1. Q * x \in Nat /\ Q * (y + 1) \in Nat
        BY <1>0, <2>1
      <3> QED BY <2>1, <2>2, <2>3, <2>4, <3>1
    <2> QED BY <2>5 DEF x, y
  <1> QED BY <1>1, <1>2 DEF Q

\* An index is a positive multiple of a block's size.
LEMMA IndexFacts ==
  ASSUME NEW i \in Indices
  PROVE  i \in Nat /\ i >= KeyBlockSz /\ i - KeyBlockSz \in Nat /\ BlockFile(i) \in Nat
  <1>1. PICK n \in 1 .. (MaxOps + 1) : i = KeyBlockSz * n
    BY DEF Indices
  <1>2. n \in Nat /\ n >= 1
    BY Sizes
  <1>3. KeyBlockSz * n \in Nat /\ KeyBlockSz * n >= KeyBlockSz
    BY <1>2, Sizes
  <1>4. i - KeyBlockSz \in Nat
    BY <1>1, <1>3, Sizes
  <1> QED BY <1>1, <1>3, <1>4, Division DEF BlockFile

\* The files before an existing file exist.
LEMMA ExistsDown ==
  ASSUME FilesOK, NEW f \in Nat, NEW g \in Nat, g <= f, Exists(f)
  PROVE  Exists(g)
  BY Sizes DEF FilesOK, Exists, Files

-----------------------------------------------------------------------------
(* A pass over a file.                                                      *)

\* The keys that a pass appends are keys of the file, after those it skips.
LEMMA PassKeys ==
  ASSUME FilesOK, NEW f \in Files, lines[f] >= 0, NEW first \in Nat, NEW count \in Nat,
         first + count <= lines[f]
  PROVE  [j \in 1 .. count |-> f * QllBlockSz + first + j] \in Seq(Keys)
  <1>1. f \in Nat /\ f + 1 <= MaxFiles /\ lines[f] \in Nat /\ lines[f] <= QllBlockSz
    BY Sizes DEF Files, FilesOK
  <1>2. f * QllBlockSz \in Nat /\ (f + 1) * QllBlockSz <= MaxFiles * QllBlockSz
    BY <1>1, Sizes
  <1>3. (f + 1) * QllBlockSz = f * QllBlockSz + QllBlockSz /\ MaxFiles * QllBlockSz \in Nat
    BY <1>1, Sizes
  <1> DEFINE base == f * QllBlockSz
             all == MaxFiles * QllBlockSz
  <1>4. base \in Nat /\ base + QllBlockSz <= all /\ all \in Nat
    BY <1>2, <1>3
  <1> HIDE DEF base, all
  <1>5. \A j \in 1 .. count : base + first + j \in 1 .. all
    BY <1>1, <1>4, Sizes
  <1>6. [j \in 1 .. count |-> base + first + j] \in Seq(1 .. all)
    BY <1>5, IsASeq
  <1> QED BY <1>6 DEF base, all, Keys

\* A pass reads further, in the first file if it has not read the block, and
\* reads the block if it was all there.
LEMMA PassProperties ==
  ASSUME FilesOK, NEW o \in Calls, CallOK(o), o.pc = "read", Exists(o.start \div QllBlockSz),
         NEW r, r = Pass(o, lines[o.start \div QllBlockSz])
  PROVE  /\ r \in Calls /\ r.pc \in {"read", "done"}
         /\ r.kind = o.kind /\ r.index = o.index /\ r.there = o.there
         /\ r.pc = "read" => CallOK(r)
         /\ r.pc = "done" /\ r.there => r.data = BlockKeys(r.index)
         /\ Exists(BlockFile(o.index))
  <1> DEFINE f == o.start \div QllBlockSz
             n == lines[f]
             skips == LinesToSkip(o) > 0 /\ o.skip
             first == IF skips THEN Min({LinesToSkip(o), n}) ELSE 0
             count == Min({KeyBlockSz - Len(o.data), n - first})
             more == [j \in 1 .. count |-> f * QllBlockSz + first + j]
             data == o.data \o more
  <1>1. f \in Files /\ n >= 0 /\ n \in Nat /\ n <= QllBlockSz
    BY Sizes DEF Exists, FilesOK, Files
  <1>2. /\ o.index \in Indices /\ o.start \in Nat /\ o.data \in Seq(Keys)
        /\ Len(o.data) \in Nat /\ Len(o.data) < KeyBlockSz /\ o.skip \in BOOLEAN
        /\ o.kind \in {"take", "readAt"}
    BY DEF Calls, CallOK
  <1>3. LinesToSkip(o) \in Nat /\ o.start = QllBlockSz * f + LinesToSkip(o)
    BY <1>2, Division, SMTT(20) DEF LinesToSkip
  <1>4. /\ first \in Nat /\ first <= n /\ first <= LinesToSkip(o)
        /\ o.skip /\ LinesToSkip(o) <= n => first = LinesToSkip(o)
    <2> DEFINE k == LinesToSkip(o)
    <2>1. n \in Int /\ k \in Int
      BY <1>1, <1>3
    <2> HIDE DEF n, f, k
    <2>2. Min({k, n}) \in {k, n} /\ Min({k, n}) <= k /\ Min({k, n}) <= n
      BY <2>1, MinPair
    <2> QED BY <1>1, <1>3, <2>2 DEF k
  <1> HIDE DEF first
  <1>5. /\ count \in Nat /\ first + count <= n /\ count <= KeyBlockSz - Len(o.data)
        /\ KeyBlockSz - Len(o.data) <= n - first => count = KeyBlockSz - Len(o.data)
    <2> DEFINE k == KeyBlockSz - Len(o.data)
               m == n - first
    <2>1. n \in Nat /\ k \in Nat /\ m \in Nat /\ m = n - first /\ count = Min({k, m})
      BY <1>1, <1>2, <1>4, Sizes
    <2> HIDE DEF n, f, k, m, count
    <2>2. count \in {k, m} /\ count <= k /\ count <= m
      <3>1. k \in Int /\ m \in Int
        BY <2>1
      <3>2. Min({k, m}) \in {k, m} /\ Min({k, m}) <= k /\ Min({k, m}) <= m
        BY <3>1, MinPair
      <3> QED BY <2>1, <3>2
    <2>3. first + count <= n
      BY <1>4, <2>1, <2>2
    <2> QED BY <2>1, <2>2, <2>3 DEF k, m
  <1> HIDE DEF count
  <1>6. more \in Seq(Keys) /\ Len(more) = count
    <2>1. more \in Seq(Keys)
      <3> HIDE DEF f
      <3> QED BY <1>1, <1>4, <1>5, PassKeys
    <2> QED BY <1>5, <2>1, LenProperties
  <1>7. data \in Seq(Keys) /\ Len(data) = Len(o.data) + count
    <2> HIDE DEF more
    <2> QED BY <1>2, <1>6, ConcatProperties
  <1>8. Len(data) \in Nat /\ Len(data) <= KeyBlockSz
    BY <1>2, <1>5, <1>7, Sizes
  <1>9. r = [o EXCEPT !.data = data, !.skip = @ /\ ~skips, !.start = Len(data),
                  !.pc = IF Len(data) < KeyBlockSz THEN "read" ELSE "done"]
    BY DEF Pass, first, count
  <1> HIDE DEF data, skips
  <1>10. /\ r \in Calls /\ r.kind = o.kind /\ r.index = o.index /\ r.there = o.there
         /\ r.data = data /\ r.start = Len(data)
         /\ r.pc = IF Len(data) < KeyBlockSz THEN "read" ELSE "done"
    BY <1>7, <1>8, <1>9 DEF Calls
  <1>11. Exists(BlockFile(o.index))
    BY DEF CallOK, BlockFile
  <1>12. ASSUME o.there PROVE Len(data) = KeyBlockSz /\ data = BlockKeys(o.index)
    <2>1. o.data = <<>> /\ o.start = o.index - KeyBlockSz /\ o.skip /\ BlockThere(o.index)
      BY <1>12 DEF CallOK
    <2>2. o.index <= f * QllBlockSz + n
      BY <2>1 DEF BlockThere, BlockFile
    <2>3. f * QllBlockSz = QllBlockSz * f /\ f * QllBlockSz \in Nat
      BY <1>1, Sizes DEF Files
    <2>4. o.index \in Nat
      BY <1>2, IndexFacts
    <2> DEFINE base == f * QllBlockSz
    <2>5. base \in Nat /\ o.index <= base + n /\ o.index - KeyBlockSz = base + LinesToSkip(o)
      BY <1>3, <2>1, <2>2, <2>3
    <2>6. LinesToSkip(o) + KeyBlockSz <= n
      <3> HIDE DEF n, base
      <3> QED BY <1>1, <1>3, <2>4, <2>5, Sizes
    <2>7. Len(o.data) = 0
      BY <2>1
    <2>8. first = LinesToSkip(o) /\ count = KeyBlockSz
      <3>1. first = LinesToSkip(o)
        <4> HIDE DEF n
        <4> QED BY <1>1, <1>3, <1>4, <2>1, <2>6, Sizes
      <3> HIDE DEF n
      <3> QED BY <1>1, <1>3, <1>5, <2>6, <2>7, <3>1, Sizes
    <2>9. data = more
      <3> HIDE DEF more
      <3> QED BY <1>6, <2>1 DEF data
    <2>10. more = [j \in 1 .. KeyBlockSz |-> o.index - KeyBlockSz + j]
      BY <2>3, <2>5, <2>8
    <2> QED BY <1>7, <2>7, <2>8, <2>9, <2>10, Sizes DEF BlockKeys
  <1>13. ASSUME r.pc = "read" PROVE CallOK(r)
    <2>1. Len(data) < KeyBlockSz /\ ~ o.there
      BY <1>10, <1>12, <1>13, Sizes
    <2> QED BY <1>2, <1>8, <1>10, <1>11, <1>13, <2>1 DEF CallOK
  <1> QED BY <1>10, <1>11, <1>12, <1>13

-----------------------------------------------------------------------------
(* What the steps of the threads do to the calls and the counter.           *)

\* Thread t's call becomes o; the files stay, and nothing is misread.
Becomes(t, o) ==
    /\ op' = [op EXCEPT ![t] = o] /\ o \in Calls /\ CallOK(o) /\ o.pc # "create"
    /\ UNCHANGED <<lines, misread, raced>> /\ ops' \in ops .. MaxOps

\* A call adds to the counter.
Starts(t, o) ==
    /\ Becomes(t, o) /\ ~ Active(op[t]) /\ Active(o) /\ o.pc # "undo"
    /\ o.index = counter + KeyBlockSz /\ counter' = counter + KeyBlockSz
    /\ UNCHANGED issued /\ Begun' = Begun + 1

\* A call hands out its block, which is possible only when it is not doomed.
Finishes(t, o) ==
    /\ Becomes(t, o) /\ Active(op[t]) /\ ~ Active(o) /\ ~ Doomed(op[t])
    /\ Handout(op[t].index) /\ UNCHANGED counter

\* A call takes back what it added.
Undoes(t, o) ==
    /\ Becomes(t, o) /\ op[t].pc = "undo" /\ ~ Active(o)
    /\ counter' = counter - KeyBlockSz /\ UNCHANGED issued

\* A call goes on, or one that adds nothing begins or ends.
GoesOn(t, o) ==
    /\ Becomes(t, o) /\ (Active(o) <=> Active(op[t])) /\ (Doomed(o) <=> Doomed(op[t]))
    /\ Active(o) => o.index = op[t].index
    /\ UNCHANGED <<counter, issued>>

Steps(t) == \E o : Starts(t, o) \/ Finishes(t, o) \/ Undoes(t, o) \/ GoesOn(t, o)

\* A call just begun is one.
LEMMA CallProperties ==
  ASSUME NEW i \in Indices, NEW kind \in {"reserve", "take", "readAt"},
         NEW pc \in {"test", "read"}, pc = "test" <=> kind = "reserve"
  PROVE  /\ Call(kind, pc, i) \in Calls /\ CallOK(Call(kind, pc, i))
         /\ Call(kind, pc, i).pc = pc /\ Call(kind, pc, i).kind = kind
         /\ Call(kind, pc, i).index = i
  <1> DEFINE o == Call(kind, pc, i)
  <1>0. BlockThere(i) \in BOOLEAN
    BY DEF BlockThere, Exists
  <1>1. /\ o.kind = kind /\ o.pc = pc /\ o.index = i /\ o.data = <<>>
        /\ o.start = i - KeyBlockSz /\ o.skip = TRUE /\ o.there = BlockThere(i)
    BY DEF Call
  <1>2. <<>> \in Seq(Keys) /\ Len(<<>>) = 0
    OBVIOUS
  <1>3. o \in Calls
    <2> DEFINE b == BlockThere(i)
               n == i - KeyBlockSz
    <2>1. b \in BOOLEAN /\ n \in Nat
      BY <1>0, IndexFacts
    <2>2. o = [kind |-> kind, pc |-> pc, index |-> i, data |-> <<>>, start |-> n,
               skip |-> TRUE, there |-> b]
      BY DEF Call
    <2> HIDE DEF o, b, n
    <2> QED BY <1>2, <2>1, <2>2 DEF Calls
  <1>4. CallOK(o)
    <2> HIDE DEF o
    <2> QED BY <1>1, <1>2, Sizes DEF CallOK
  <1> QED BY <1>1, <1>3, <1>4

\* So is none.
LEMMA IdleProperties ==
  /\ Idle \in Calls /\ CallOK(Idle) /\ ~ Active(Idle) /\ Idle.pc = "done"
  <1>1. Idle \in Calls
    BY DEF Idle, Calls
  <1>2. CallOK(Idle)
    BY Sizes DEF Idle, CallOK
  <1> QED BY <1>1, <1>2 DEF Idle, Active

\* The calls and the numbers that the counter is made of.
LEMMA CountFacts ==
  ASSUME CallInv, CountInv
  PROVE  /\ IsFiniteSet(InFlight) /\ Cardinality(InFlight) \in Nat
         /\ Cardinality(issued) \in Nat /\ Used \in Nat /\ Begun \in Nat
         /\ Begun <= MaxOps + 1 /\ counter \in Nat
         /\ InFlight = {t \in Threads : Active(op[t])}
  <1>1. IsFiniteSet(Threads)
    BY ThreadAssumption, FS_AddElement DEF Threads
  <1>2. InFlight = {t \in Threads : Active(op[t])}
    BY DEF InFlight, Active
  <1>3. IsFiniteSet(InFlight)
    BY <1>1, <1>2, FS_Subset
  <1>4. Cardinality(InFlight) \in Nat /\ Cardinality(issued) \in Nat
    BY <1>3, FS_CardinalityType DEF CountInv
  <1>5. Used \in Nat
    BY <1>4 DEF Used
  <1>6. Begun \in Nat /\ Begun <= MaxOps + 1
    BY Sizes DEF CallInv, Begun
  <1>7. counter \in Nat
    BY <1>5, Sizes DEF CountInv
  <1> QED BY <1>2, <1>3, <1>4, <1>5, <1>6, <1>7

\* The sum of a call that may begin is an index.
LEMMA NextIndex ==
  ASSUME CallInv, CountInv, ops < MaxOps \/ op[Main].pc = "create"
  PROVE  counter + KeyBlockSz \in Indices
  <1>1. Used \in Nat /\ Used <= Begun /\ Begun <= MaxOps
    BY CountFacts, Sizes DEF CountInv, CallInv, Begun
  <1>2. Used + 1 \in 1 .. (MaxOps + 1)
    BY <1>1, Sizes, CountFacts
  <1>3. counter + KeyBlockSz = KeyBlockSz * (Used + 1)
    BY <1>1, Sizes DEF CountInv
  <1> HIDE DEF Used
  <1> QED BY <1>2, <1>3 DEF Indices

\* createKey and the calls of handlers that add to the counter.
LEMMA AddSteps ==
  ASSUME CallInv, CountInv, NEW t \in Threads, op[t].pc \in {"create", "done"},
         NEW kind \in {"reserve", "take"}, NEW pc \in {"test", "read"},
         pc = "test" <=> kind = "reserve", Add(t, kind, pc),
         UNCHANGED <<lines, issued, misread, raced>>,
         \/ t = Main /\ op[t].pc = "create" /\ UNCHANGED ops
         \/ t # Main /\ op[Main].pc = "done" /\ ops < MaxOps /\ ops' = ops + 1
  PROVE  Steps(t)
  <1> DEFINE i == counter + KeyBlockSz
             o == Call(kind, pc, i)
  <1>1. i \in Indices
    BY NextIndex
  <1>2. /\ o \in Calls /\ CallOK(o) /\ o.pc = pc /\ o.kind = kind /\ o.index = i
    <2> HIDE DEF i
    <2> QED BY <1>1, CallProperties
  <1> HIDE DEF o
  <1>3. counter' = i /\ op' = [op EXCEPT ![t] = o]
    BY DEF Add, o
  <1>4. ops \in Nat /\ ops <= MaxOps
    BY Sizes DEF CallInv
  <1>5. Becomes(t, o)
    BY <1>2, <1>3, <1>4, Sizes DEF Becomes
  <1>6. ~ Active(op[t]) /\ Active(o)
    BY <1>2 DEF Active, CallInv, CallOK
  <1>7. Begun' = Begun + 1
    <2>1. Main \in Threads /\ op'[Main].pc # "create"
      BY <1>2, <1>3 DEF CallInv, Threads
    <2> QED BY <1>4, <2>1 DEF Begun
  <1>8. Starts(t, o)
    BY <1>2, <1>3, <1>5, <1>6, <1>7 DEF Starts
  <1> QED BY <1>8 DEF Steps

\* A call that adds nothing.
LEMMA ReadAtSteps ==
  ASSUME CallInv, NEW h \in Handlers, NEW i \in Indices \cup {-1}, ReadAt(h, i)
  PROVE  Steps(h)
  <1> DEFINE o == StartReadAt(i)
  <1>1. o \in Calls /\ CallOK(o) /\ ~ Active(o) /\ o.pc # "create"
    <2>1. CASE i \in Indices
      <3>1. o = Call("readAt", "read", i)
        BY <2>1, IndexFacts, Sizes DEF StartReadAt
      <3> QED BY <2>1, <3>1, CallProperties DEF Active
    <2>2. CASE i = -1
      <3>1. o = Idle
        BY <2>2 DEF StartReadAt
      <3> QED BY <3>1, IdleProperties
    <2> QED BY <2>1, <2>2
  <1> HIDE DEF o
  <1>2. op' = [op EXCEPT ![h] = o] /\ op[h].pc = "done"
    BY DEF ReadAt, Begin, o
  <1>3. ~ Active(op[h])
    BY <1>2 DEF Active, CallInv, CallOK, Threads
  <1>4. ops' \in ops .. MaxOps
    BY Sizes DEF ReadAt, Begin, CallInv
  <1>5. GoesOn(h, o)
    BY <1>1, <1>2, <1>3, <1>4 DEF GoesOn, Becomes, ReadAt, Begin, Doomed
  <1> QED BY <1>5 DEF Steps

\* What a call returns to: nothing, or the pad's read.
LEMMA ReturnProperties ==
  ASSUME NEW t \in Threads, NEW i \in Indices \cup {-1}, Return(t, i)
  PROVE  \E o \in Calls : op' = [op EXCEPT ![t] = o] /\ CallOK(o) /\ ~ Active(o) /\ o.pc # "create"
  <1> DEFINE o == IF t = Main THEN StartReadAt(i) ELSE Idle
  <1>1. o \in Calls /\ CallOK(o) /\ ~ Active(o) /\ o.pc # "create"
    <2>1. CASE i \in Indices /\ t = Main
      <3>1. o = Call("readAt", "read", i)
        BY <2>1, IndexFacts, Sizes DEF StartReadAt
      <3> QED BY <2>1, <3>1, CallProperties DEF Active
    <2>2. CASE i = -1 \/ t # Main
      <3>1. o = Idle
        BY <2>2 DEF StartReadAt
      <3> QED BY <3>1, IdleProperties
    <2> QED BY <2>1, <2>2
  <1>2. op' = [op EXCEPT ![t] = o]
    BY DEF Return
  <1> HIDE DEF o
  <1> QED BY <1>1, <1>2

\* The test hands out the block or is about to undo.
LEMMA TestSteps ==
  ASSUME CallInv, NEW t \in Threads, Test(t)
  PROVE  Steps(t)
  <1>1. /\ op[t].pc = "test" /\ op[t].kind = "reserve" /\ op[t].index \in Indices
        /\ op[t] \in Calls /\ CallOK(op[t]) /\ ops \in 0 .. MaxOps
    BY DEF Test, CallInv, CallOK
  <1>2. UNCHANGED <<counter, lines, misread, raced, ops>> /\ ops' \in ops .. MaxOps
    BY <1>1, Sizes DEF Test
  <1>3. CASE Exists(op[t].index \div QllBlockSz)
    <2>1. Handout(op[t].index) /\ Return(t, op[t].index)
      BY <1>3 DEF Test
    <2>2. PICK o \in Calls : op' = [op EXCEPT ![t] = o] /\ CallOK(o) /\ ~ Active(o) /\ o.pc # "create"
      BY <1>1, <2>1, ReturnProperties
    <2>3. Active(op[t]) /\ ~ Doomed(op[t])
      BY <1>1, <1>3 DEF Active, Doomed
    <2>4. Finishes(t, o)
      BY <1>2, <2>1, <2>2, <2>3 DEF Finishes, Becomes
    <2> QED BY <2>4 DEF Steps
  <1>4. CASE ~ Exists(op[t].index \div QllBlockSz)
    <2> DEFINE o == [op[t] EXCEPT !.pc = "undo"]
    <2>1. op' = [op EXCEPT ![t] = o] /\ UNCHANGED issued
      BY <1>4 DEF Test, CallInv
    <2>2. /\ o \in Calls /\ o.pc = "undo" /\ o.index = op[t].index /\ o.kind = op[t].kind
          /\ o.data = op[t].data
      BY <1>1 DEF Calls
    <2> HIDE DEF o
    <2>3. CallOK(o)
      BY <1>1, <2>2 DEF CallOK
    <2>4. Active(op[t]) /\ Doomed(op[t]) /\ Active(o) /\ Doomed(o)
      BY <1>1, <1>4, <2>2 DEF Active, Doomed
    <2>5. GoesOn(t, o)
      BY <1>2, <2>1, <2>2, <2>3, <2>4 DEF GoesOn, Becomes
    <2> QED BY <2>5 DEF Steps
  <1> QED BY <1>3, <1>4

LEMMA UndoSteps ==
  ASSUME CallInv, NEW t \in Threads, Undo(t)
  PROVE  Steps(t)
  <1>1. PICK o \in Calls : op' = [op EXCEPT ![t] = o] /\ CallOK(o) /\ ~ Active(o) /\ o.pc # "create"
    BY ReturnProperties DEF Undo
  <1>2. ops' \in ops .. MaxOps
    BY Sizes DEF Undo, CallInv
  <1>3. Undoes(t, o)
    BY <1>1, <1>2 DEF Undo, Undoes, Becomes
  <1> QED BY <1>3 DEF Steps

\* A pass over a file reads further, hands out the block, or ends without.
LEMMA ReadFileSteps ==
  ASSUME CallInv, NEW t \in Threads, ReadFile(t)
  PROVE  Steps(t)
  <1> DEFINE c == op[t]
             f == c.start \div QllBlockSz
             o == IF Exists(f) THEN Pass(c, lines[f]) ELSE Missing(c)
             new == IF o.pc = "done" THEN Idle ELSE o
  <1>1. /\ c.pc = "read" /\ c.kind \in {"take", "readAt"} /\ c.index \in Indices
        /\ c \in Calls /\ CallOK(c) /\ ops \in 0 .. MaxOps /\ FilesOK /\ c.start \in Nat
    BY DEF ReadFile, CallInv, CallOK, Calls
  <1>2. /\ op' = [op EXCEPT ![t] = new]
        /\ IF o.kind = "take" /\ o.pc = "done" THEN Handout(o.index) ELSE UNCHANGED issued
        /\ misread' = IF o.pc = "done" /\ o.there /\ o.data # BlockKeys(o.index)
                      THEN misread \cup {<<o.index, o.data>>} ELSE misread
        /\ UNCHANGED <<counter, lines, raced, ops>>
    BY DEF ReadFile
  <1>3. UNCHANGED <<counter, lines, raced>> /\ ops' \in ops .. MaxOps
    <2>1. ops' = ops /\ UNCHANGED <<counter, lines, raced>>
      BY <1>2, Zenon
    <2>2. ops \in ops .. MaxOps
      <3>1. ops \in 0 .. MaxOps
        BY <1>1
      <3> QED BY ONLY <3>1, Sizes
    <2> QED BY ONLY <2>1, <2>2, Zenon
  <1>4. CASE Exists(f)
    <2>1. /\ o \in Calls /\ o.pc \in {"read", "done"}
          /\ o.kind = c.kind /\ o.index = c.index /\ o.there = c.there
          /\ o.pc = "read" => CallOK(o)
          /\ o.pc = "done" /\ o.there => o.data = BlockKeys(o.index)
          /\ Exists(BlockFile(c.index))
      BY <1>1, <1>4, PassProperties
    <2> HIDE DEF o, c
    <2>2. UNCHANGED misread
      BY <1>2, <2>1
    <2>3. CASE o.pc = "read"
      <3>1. op' = [op EXCEPT ![t] = o] /\ UNCHANGED issued
        BY <1>2, <2>3
      <3>2. (Active(o) <=> Active(c)) /\ (Doomed(o) <=> Doomed(c))
        BY <1>1, <2>1, <2>3 DEF Active, Doomed
      <3>3. GoesOn(t, o)
        BY <1>3, <2>1, <2>2, <2>3, <3>1, <3>2 DEF GoesOn, Becomes, c
      <3> QED BY <3>3 DEF Steps
    <2>4. CASE o.pc = "done"
      <3>1. op' = [op EXCEPT ![t] = Idle]
        BY <1>2, <2>4
      <3>2. Becomes(t, Idle) /\ ~ Active(Idle) /\ ~ Doomed(Idle)
        BY <1>3, <2>2, <3>1, IdleProperties DEF Becomes, Doomed
      <3>3. CASE c.kind = "take"
        <4>1. Handout(c.index)
          BY <1>2, <2>1, <2>4, <3>3
        <4>2. Active(c) /\ ~ Doomed(c)
          BY <1>1, <2>1, <3>3 DEF Active, Doomed
        <4>3. Finishes(t, Idle)
          BY <1>3, <3>2, <4>1, <4>2 DEF Finishes, c
        <4> QED BY <4>3 DEF Steps
      <3>4. CASE c.kind = "readAt"
        <4>1. ~ Active(c) /\ ~ Doomed(c) /\ UNCHANGED issued
          BY <1>1, <1>2, <2>1, <3>4 DEF Active, Doomed
        <4>2. GoesOn(t, Idle)
          BY <1>3, <3>2, <4>1 DEF GoesOn, c
        <4> QED BY <4>2 DEF Steps
      <3> QED BY <1>1, <3>3, <3>4
    <2> QED BY <2>1, <2>3, <2>4
  <1>5. CASE ~ Exists(f)
    <2>1. /\ o \in Calls /\ o.pc = IF c.kind = "take" THEN "undo" ELSE "done"
          /\ o.kind = c.kind /\ o.index = c.index /\ o.there = c.there /\ o.data = c.data
      <3> HIDE DEF c
      <3> QED BY <1>1, <1>5 DEF Missing, Calls
    <2>2. ~ Exists(BlockFile(c.index)) /\ ~ c.there
      <3>1. CASE c.start = c.index - KeyBlockSz
        <4>1. ~ Exists(BlockFile(c.index))
          BY <1>5, <3>1 DEF BlockFile
        <4> QED BY <1>1, <4>1 DEF CallOK, BlockThere
      <3>2. CASE c.start < KeyBlockSz /\ Exists(BlockFile(c.index)) /\ ~ c.there
        <4>1. f = 0
          BY <1>1, <3>2, Sizes, Division
        <4>2. BlockFile(c.index) \in Nat
          BY <1>1, IndexFacts
        <4>3. Exists(0)
          <5> HIDE DEF c
          <5> QED BY <1>1, <3>2, <4>2, ExistsDown
        <4> QED BY <1>5, <4>1, <4>3
      <3> QED BY <1>1, <3>1, <3>2 DEF CallOK
    <2> HIDE DEF o, c
    <2>3. UNCHANGED misread
      BY <1>2, <2>1, <2>2
    <2>4. CASE c.kind = "take"
      <3>1. op' = [op EXCEPT ![t] = o] /\ UNCHANGED issued
        BY <1>2, <2>1, <2>4
      <3>2. Active(o) /\ Active(c) /\ Doomed(o) /\ Doomed(c)
        BY <1>1, <2>1, <2>2, <2>4 DEF Active, Doomed
      <3>3. CallOK(o)
        BY <1>1, <2>1, <2>4 DEF CallOK
      <3>4. GoesOn(t, o)
        BY <1>3, <2>1, <2>3, <2>4, <3>1, <3>2, <3>3 DEF GoesOn, Becomes, c
      <3> QED BY <3>4 DEF Steps
    <2>5. CASE c.kind = "readAt"
      <3>1. op' = [op EXCEPT ![t] = Idle] /\ UNCHANGED issued
        BY <1>2, <2>1, <2>5
      <3>2. ~ Active(c) /\ ~ Doomed(c) /\ ~ Active(Idle) /\ ~ Doomed(Idle)
        BY <1>1, <2>5, IdleProperties DEF Active, Doomed
      <3>3. GoesOn(t, Idle)
        BY <1>3, <2>3, <3>1, <3>2, IdleProperties DEF GoesOn, Becomes, c
      <3> QED BY <3>3 DEF Steps
    <2> QED BY <1>1, <2>4, <2>5
  <1> QED BY <1>4, <1>5

\* Every step is one of these, or the device's.
LEMMA StepCases ==
  ASSUME CallInv, CountInv, Next
  PROVE  CreateFile \/ WriteLine \/ \E t \in Threads : Steps(t)
  <1>1. ASSUME CreateKey PROVE Steps(Main)
    <2>1. Main \in Threads /\ op[Main].pc = "create"
      BY <1>1 DEF CreateKey, Threads
    <2> QED BY <1>1, <2>1, AddSteps DEF CreateKey
  <1>2. ASSUME NEW h \in Handlers, GetNextBlockIndex(h) \/ ReadNext(h) PROVE Steps(h)
    <2>1. h \in Threads /\ h # Main
      BY ThreadAssumption DEF Threads
    <2>2. Begin(h) /\ \E kind \in {"reserve", "take"}, pc \in {"test", "read"} :
             (pc = "test" <=> kind = "reserve") /\ Add(h, kind, pc)
      BY <1>2 DEF GetNextBlockIndex, ReadNext
    <2> QED BY <2>1, <2>2, AddSteps DEF Begin
  <1>3. ASSUME NEW h \in Handlers, NEW i \in Indices \cup {-1}, ReadAt(h, i)
        PROVE  h \in Threads /\ Steps(h)
    BY <1>3, ReadAtSteps DEF Threads
  <1>4. ASSUME NEW t \in Threads, Continue(t) PROVE Steps(t)
    BY <1>4, TestSteps, UndoSteps, ReadFileSteps DEF Continue
  <1> QED BY <1>1, <1>2, <1>3, <1>4 DEF Next, Threads

-----------------------------------------------------------------------------
(* The invariant of the calls is inductive.                                 *)

\* The device's files grow, in order.
LEMMA FilesGrow ==
  ASSUME FilesOK, CreateFile \/ WriteLine
  PROVE  /\ FilesOK' /\ \A g \in Files : lines'[g] >= lines[g]
         /\ WriteLine => \A g : Exists(g)' <=> Exists(g)
  <1>0. QllBlockSz \in Nat /\ QllBlockSz > 0
    BY Sizes
  <1>1. ASSUME CreateFile PROVE FilesOK' /\ \A g \in Files : lines'[g] >= lines[g]
    <2>1. PICK f \in Files : /\ lines[f] = -1 /\ \A g \in Files : g < f => lines[g] = QllBlockSz
                             /\ lines' = [lines EXCEPT ![f] = 0]
      BY <1>1 DEF CreateFile
    <2> QED BY <1>0, <2>1 DEF FilesOK, Files
  <1>2. CASE WriteLine
    <2>1. PICK f \in Files : /\ lines[f] \in 0 .. QllBlockSz - 1
                             /\ lines' = [lines EXCEPT ![f] = @ + 1]
      BY <1>2 DEF WriteLine
    <2>2. FilesOK' /\ \A g \in Files : lines'[g] >= lines[g]
      BY <1>0, <2>1 DEF FilesOK, Files
    <2>3. \A g : Exists(g)' <=> Exists(g)
      BY <1>0, <2>1 DEF FilesOK, Files, Exists
    <2> QED BY <2>2, <2>3
  <1> QED BY <1>1, <1>2

\* Growing files do not disturb a call.
LEMMA CallGrows ==
  ASSUME FilesOK, FilesOK', \A g \in Files : lines'[g] >= lines[g], NEW o \in Calls, CallOK(o)
  PROVE  CallOK(o)'
  <1>1. \A g : Exists(g) => Exists(g)'
    BY Sizes DEF Exists, FilesOK, Files
  <1>2. ASSUME NEW i \in Indices, BlockThere(i) PROVE BlockThere(i)'
    <2> DEFINE g == BlockFile(i)
               base == g * QllBlockSz
    <2>1. Exists(g) /\ i <= base + lines[g] /\ g \in Files
      BY <1>2 DEF BlockThere, Exists
    <2>2. base \in Nat /\ i \in Nat
      BY <2>1, Sizes, IndexFacts DEF Files
    <2>3. lines[g] \in Int /\ lines'[g] \in Int /\ lines'[g] >= lines[g]
      BY <2>1, Sizes DEF FilesOK
    <2> HIDE DEF base, g
    <2>4. i <= base + lines'[g]
      BY <2>1, <2>2, <2>3
    <2>5. Exists(g)'
      BY <1>1, <2>1
    <2> QED BY <2>4, <2>5 DEF BlockThere, base, g, BlockFile
  <1>3. BlockFile(o.index)' = BlockFile(o.index)
    BY DEF BlockFile
  <1> QED BY <1>1, <1>2, <1>3 DEF CallOK

LEMMA CallStep ==
  ASSUME CallInv, CountInv, Next PROVE CallInv'
  <1>1. ASSUME NEW t \in Threads, NEW o, Becomes(t, o) PROVE CallInv'
    <2>1. /\ op' = [op EXCEPT ![t] = o] /\ o \in Calls /\ CallOK(o) /\ o.pc # "create"
          /\ UNCHANGED <<lines, misread, raced>> /\ ops' \in ops .. MaxOps
      BY <1>1 DEF Becomes
    <2>2. op' \in [Threads -> Calls]
      BY <2>1 DEF CallInv
    <2>3. ASSUME NEW u \in Threads
          PROVE  op'[u] = (IF u = t THEN o ELSE op[u]) /\ CallOK(op'[u])
      BY <2>1 DEF CallInv
    <2>4. \A u \in Threads : CallOK(op[u])'
      BY <2>1, <2>3 DEF CallOK, Exists, BlockThere, BlockFile
    <2>5. \A h \in Handlers : op'[h].pc # "create"
      BY <2>1, <2>3 DEF CallInv, Threads
    <2>6. FilesOK'
      BY <2>1 DEF CallInv, FilesOK
    <2>7. ops' \in 0 .. MaxOps
      BY <2>1, Sizes DEF CallInv
    <2> QED BY <2>1, <2>2, <2>4, <2>5, <2>6, <2>7 DEF CallInv
  <1>2. ASSUME CreateFile \/ WriteLine PROVE CallInv'
    <2>1. UNCHANGED <<op, misread, ops>> /\ raced' \in BOOLEAN
      BY <1>2 DEF CreateFile, WriteLine, CallInv
    <2>2. FilesOK' /\ \A g \in Files : lines'[g] >= lines[g]
      BY <1>2, FilesGrow DEF CallInv
    <2>3. \A u \in Threads : CallOK(op[u])'
      <3> SUFFICES ASSUME NEW u \in Threads PROVE CallOK(op[u])'
        OBVIOUS
      <3>1. PICK o \in Calls : o = op[u] /\ CallOK(o)
        BY DEF CallInv
      <3>2. CallOK(o)'
        BY <2>2, <3>1, CallGrows DEF CallInv
      <3> QED BY <2>1, <3>1, <3>2
    <2> QED BY <2>1, <2>2, <2>3 DEF CallInv
  <1>3. ASSUME NEW t \in Threads, Steps(t) PROVE CallInv'
    BY <1>1, <1>3 DEF Steps, Starts, Finishes, Undoes, GoesOn
  <1> QED BY <1>2, <1>3, StepCases

-----------------------------------------------------------------------------
(* The invariant of the counter is inductive.                               *)

\* The pad's call begins once, and handlers' calls are counted.
LEMMA BegunGrows ==
  ASSUME ops \in Nat, ops' \in Nat, ops' >= ops,
         op'[Main].pc = "create" => op[Main].pc = "create"
  PROVE  Begun' >= Begun /\ Begun' \in Nat
  <1>1. PICK a \in Nat, b \in Nat : a = ops /\ b = ops' /\ a <= b
    OBVIOUS
  <1>2. PICK i \in {0, 1}, j \in {0, 1} :
          /\ i = (IF op[Main].pc = "create" THEN 0 ELSE 1)
          /\ j = (IF op'[Main].pc = "create" THEN 0 ELSE 1)
    BY Zenon
  <1>3. i <= j
    BY <1>2
  <1>4. Begun = a + i /\ Begun' = b + j
    BY <1>1, <1>2, Zenon DEF Begun
  <1>5. b + j >= a + i /\ b + j \in Nat
    <2>1. a \in Nat /\ b \in Nat /\ a <= b /\ i \in Nat /\ j \in Nat
      BY <1>1
    <2> QED BY ONLY <1>3, <2>1
  <1> QED BY ONLY <1>4, <1>5, Zenon

\* The calls under way after thread t's call has become o.
LEMMA InFlightBecomes ==
  ASSUME CallInv, CountInv, NEW t \in Threads, NEW o, Becomes(t, o)
  PROVE  /\ op' \in [Threads -> Calls] /\ op'[t] = o
         /\ \A u \in Threads : u # t => op'[u] = op[u]
         /\ Active(o) => InFlight' = InFlight \cup {t}
         /\ ~ Active(o) => InFlight' = InFlight \ {t}
         /\ t \in InFlight <=> Active(op[t])
         /\ Begun' >= Begun /\ Begun' \in Nat
  <1>1. op' = [op EXCEPT ![t] = o] /\ o \in Calls /\ o.pc # "create"
    BY DEF Becomes
  <1>2. /\ op' \in [Threads -> Calls] /\ op'[t] = o
        /\ \A u \in Threads : u # t => op'[u] = op[u]
    BY <1>1 DEF CallInv
  <1>3. InFlight' = {u \in Threads : Active(op'[u])}
    BY DEF InFlight, Active
  <1>4. InFlight = {u \in Threads : Active(op[u])}
    BY CountFacts
  <1>5. Active(o) => InFlight' = InFlight \cup {t}
    BY <1>2, <1>3, <1>4
  <1>6. ~ Active(o) => InFlight' = InFlight \ {t}
    BY <1>2, <1>3, <1>4
  <1>7. Begun' >= Begun /\ Begun' \in Nat
    <2>1. ops \in Nat /\ ops' \in Nat /\ ops' >= ops /\ Main \in Threads
      BY Sizes DEF Becomes, CallInv, Threads
    <2>2. op'[Main].pc = "create" => op[Main].pc = "create"
      BY <1>1, <1>2, <2>1
    <2> QED BY <2>1, <2>2, BegunGrows
  <1> QED BY <1>2, <1>4, <1>5, <1>6, <1>7

\* Handing out an index adds one element, numbered by the times before.
LEMMA HandoutProperties ==
  ASSUME CallInv, CountInv, NEW i \in Indices, InFlight # {}, Handout(i)
  PROVE  LET k == Cardinality(Times(i))
         IN  /\ issued' = issued \cup {<<i, k + 1>>} /\ <<i, k + 1>> \notin issued
             /\ k \in Nat /\ k <= MaxOps /\ IsFiniteSet(issued')
             /\ Cardinality(issued') = Cardinality(issued) + 1
             /\ \A p \in issued' : p[2] <= Cardinality(Times(p[1]))'
  <1> DEFINE k == Cardinality(Times(i))
             new == <<i, k + 1>>
  <1>1. IsFiniteSet(issued) /\ \A j : IsFiniteSet(Times(j)) /\ Cardinality(Times(j)) \in Nat
    <2>1. IsFiniteSet(issued) /\ \A j : Times(j) \subseteq issued
      BY DEF CountInv, Times
    <2> QED BY <2>1, FS_Subset, FS_CardinalityType
  <1>2. k \in Nat /\ k <= Cardinality(issued)
    <2>1. Times(i) \subseteq issued
      BY DEF Times
    <2> QED BY <1>1, <2>1, FS_Subset
  <1>3. k <= MaxOps
    <2>1. Cardinality(InFlight) # 0
      BY CountFacts, FS_EmptySet
    <2>2. Used <= MaxOps + 1
      BY CountFacts, Sizes DEF CountInv
    <2> QED BY <1>2, <2>1, <2>2, CountFacts, Sizes DEF Used
  <1>4. issued' = issued \cup {new}
    BY DEF Handout, Times
  <1>5. new \notin issued
    <2>1. ASSUME new \in issued PROVE FALSE
      <3>1. new[1] = i /\ new[2] = k + 1
        OBVIOUS
      <3> HIDE DEF new
      <3>2. k + 1 <= Cardinality(Times(i))
        BY <2>1, <3>1 DEF CountInv
      <3> QED BY <1>2, <3>2
    <2> QED BY <2>1
  <1>6. IsFiniteSet(issued') /\ Cardinality(issued') = Cardinality(issued) + 1
    BY <1>1, <1>4, <1>5, FS_AddElement
  <1>n. new[1] = i /\ new[2] = k + 1
    OBVIOUS
  <1> HIDE DEF new
  <1>7. Times(i)' = Times(i) \cup {new} /\ new \notin Times(i)
    BY <1>4, <1>5, <1>n DEF Times
  <1>8. Cardinality(Times(i)') = k + 1
    BY <1>1, <1>7, FS_AddElement
  <1>9. \A j : j # i => Times(j)' = Times(j)
    BY <1>4, <1>n DEF Times
  <1>10. ASSUME NEW p \in issued' PROVE p[2] <= Cardinality(Times(p[1])')
    <2>1. CASE p = new
      BY <1>2, <1>8, <1>n, <2>1
    <2>2. CASE p \in issued /\ p[1] = i
      <3>1. p[2] <= k /\ p[2] \in Nat
        BY <2>2, Sizes DEF CountInv
      <3> QED BY <1>2, <1>8, <2>2, <3>1
    <2>3. CASE p \in issued /\ p[1] # i
      BY <1>9, <2>3 DEF CountInv
    <2> QED BY <1>4, <2>1, <2>2, <2>3
  <1>11. \A p \in issued' : p[2] <= Cardinality(Times(p[1]))'
    BY <1>10
  <1> QED BY <1>2, <1>3, <1>4, <1>5, <1>6, <1>11 DEF new

LEMMA CountStep ==
  ASSUME CallInv, CountInv, Next PROVE CountInv'
  <1>0. /\ IsFiniteSet(InFlight) /\ Cardinality(InFlight) \in Nat /\ Cardinality(issued) \in Nat
        /\ Used \in Nat /\ Begun \in Nat /\ counter = KeyBlockSz * Used /\ Used <= Begun
    BY CountFacts DEF CountInv
  <1>1. ASSUME UNCHANGED issued, Used' \in Nat, Used' <= Begun', counter' = KeyBlockSz * Used'
        PROVE  CountInv'
    BY <1>1 DEF CountInv, Times, Indices
  <1>2. ASSUME NEW t \in Threads, NEW o, Starts(t, o) PROVE CountInv'
    <2>1. InFlight' = InFlight \cup {t} /\ t \notin InFlight
      BY <1>2, InFlightBecomes DEF Starts
    <2>2. Cardinality(InFlight') = Cardinality(InFlight) + 1
      BY <1>0, <2>1, FS_AddElement
    <2>3. UNCHANGED issued /\ Used' = Used + 1 /\ Begun' = Begun + 1
      BY <1>0, <1>2, <2>2 DEF Used, Starts
    <2>4. counter' = KeyBlockSz * (Used + 1)
      BY <1>0, <1>2, Sizes DEF Starts
    <2> QED BY <1>0, <1>1, <2>3, <2>4
  <1>3. ASSUME NEW t \in Threads, NEW o, Finishes(t, o) PROVE CountInv'
    <2> DEFINE i == op[t].index
               k == Cardinality(Times(i))
    <2>1. InFlight' = InFlight \ {t} /\ t \in InFlight
      BY <1>3, InFlightBecomes DEF Finishes
    <2>2. Cardinality(InFlight') = Cardinality(InFlight) - 1
      BY <1>0, <2>1, FS_RemoveElement
    <2>3. i \in Indices
      BY <1>3 DEF Finishes, Active, CallInv, CallOK
    <2>4. /\ issued' = issued \cup {<<i, k + 1>>} /\ k \in Nat /\ k <= MaxOps /\ IsFiniteSet(issued')
          /\ Cardinality(issued') = Cardinality(issued) + 1
          /\ \A p \in issued' : p[2] <= Cardinality(Times(p[1]))'
      BY <1>3, <2>1, <2>3, HandoutProperties DEF Finishes
    <2>5. issued' \subseteq Indices \X (1 .. MaxOps + 1)
      <3>1. k + 1 \in 1 .. MaxOps + 1
        BY <2>4, Sizes
      <3> HIDE DEF i, k
      <3> QED BY <2>3, <2>4, <3>1 DEF CountInv
    <2>6. Used' = Used
      BY <1>0, <2>2, <2>4 DEF Used
    <2>7. Begun' >= Begun /\ Begun' \in Nat
      BY <1>3, InFlightBecomes DEF Finishes, Active
    <2>8. Used' <= Begun' /\ counter' = KeyBlockSz * Used'
      BY <1>0, <1>3, <2>6, <2>7 DEF Finishes
    <2>9. Indices' = Indices
      BY DEF Indices
    <2> QED BY <2>4, <2>5, <2>8, <2>9 DEF CountInv
  <1>4. ASSUME NEW t \in Threads, NEW o, Undoes(t, o) PROVE CountInv'
    <2>1. InFlight' = InFlight \ {t} /\ t \in InFlight
      BY <1>4, InFlightBecomes DEF Undoes, Active
    <2>2. Cardinality(InFlight') = Cardinality(InFlight) - 1 /\ Cardinality(InFlight) # 0
      BY <1>0, <2>1, FS_RemoveElement, FS_EmptySet
    <2>3. UNCHANGED issued /\ Used' = Used - 1 /\ Used' \in Nat
      BY <1>0, <1>4, <2>2 DEF Used, Undoes
    <2>4. Begun' >= Begun /\ Begun' \in Nat
      BY <1>4, InFlightBecomes DEF Undoes
    <2>5. counter' = KeyBlockSz * (Used - 1)
      BY <1>0, <1>4, Sizes DEF Undoes
    <2> QED BY <1>0, <1>1, <2>3, <2>4, <2>5
  <1>5. ASSUME NEW t \in Threads, NEW o, GoesOn(t, o) PROVE CountInv'
    <2>1. InFlight' = InFlight
      BY <1>5, InFlightBecomes DEF GoesOn
    <2>2. UNCHANGED <<issued, counter>> /\ Used' = Used
      BY <1>5, <2>1 DEF Used, GoesOn
    <2>3. Begun' >= Begun /\ Begun' \in Nat
      BY <1>5, InFlightBecomes DEF GoesOn
    <2> QED BY <1>0, <1>1, <2>2, <2>3
  <1>6. ASSUME CreateFile \/ WriteLine PROVE CountInv'
    <2>1. UNCHANGED <<counter, op, issued, ops>>
      BY <1>6 DEF CreateFile, WriteLine
    <2>2. Used' = Used /\ Begun' = Begun
      BY <2>1 DEF Used, Begun, InFlight
    <2> QED BY <1>0, <1>1, <2>1, <2>2
  <1> QED BY <1>2, <1>3, <1>4, <1>5, <1>6, StepCases DEF Steps

-----------------------------------------------------------------------------
(* The theorems about types, the counter and the reads.                     *)

LinkInv == CallInv /\ CountInv

LEMMA LinkInit == Init => LinkInv
  <1> SUFFICES ASSUME Init PROVE LinkInv
    OBVIOUS
  <1> DEFINE c == [Idle EXCEPT !.pc = "create"]
  <1>0. c \in Calls /\ c.kind = Idle.kind /\ c.data = Idle.data /\ c.pc = "create"
    BY IdleProperties DEF Calls
  <1>1. c \in Calls /\ CallOK(c) /\ ~ Active(c) /\ c.pc = "create"
    <2> HIDE DEF c
    <2>1. Idle.kind = "none" /\ Idle.data = <<>>
      BY DEF Idle
    <2> QED BY <1>0, <2>1, Sizes DEF CallOK, Active
  <1>2. op \in [Threads -> Calls] /\ \A t \in Threads : CallOK(op[t]) /\ ~ Active(op[t])
    <2>1. op = [t \in Threads |-> IF t = Main THEN c ELSE Idle]
      BY DEF Init
    <2> HIDE DEF c
    <2> QED BY <1>1, <2>1, IdleProperties
  <1>3. \A h \in Handlers : op[h].pc # "create"
    BY ThreadAssumption, IdleProperties DEF Init, Threads
  <1>4. FilesOK
    <2>1. PICK n \in 0 .. MaxFiles : lines = [f \in Files |-> IF f < n THEN QllBlockSz ELSE -1]
      BY DEF Init
    <2> QED BY <2>1, Sizes DEF FilesOK, Files
  <1>5. CallInv
    <2>1. misread = {} /\ raced = FALSE /\ ops = 0
      BY DEF Init
    <2>2. raced \in BOOLEAN
      BY <2>1
    <2>3. ops \in 0 .. MaxOps
      BY <2>1, Sizes
    <2> QED BY <1>2, <1>3, <1>4, <2>1, <2>2, <2>3 DEF CallInv
  <1>6. InFlight = {}
    BY <1>2 DEF InFlight, Active
  <1>7. Used = 0 /\ IsFiniteSet(issued) /\ issued = {}
    BY <1>6, FS_EmptySet DEF Init, Used
  <1>8. Begun = 0
    BY DEF Init, Begun, Idle, Threads
  <1>9. counter = KeyBlockSz * 0
    BY Sizes DEF Init
  <1>10. CountInv
    BY <1>7, <1>8, <1>9 DEF CountInv
  <1> QED BY <1>5, <1>10 DEF LinkInv

LEMMA LinkStep == LinkInv /\ [Next]_vars => LinkInv'
  <1>1. ASSUME LinkInv, Next PROVE LinkInv'
    BY <1>1, CallStep, CountStep DEF LinkInv
  <1>2. ASSUME LinkInv, UNCHANGED vars PROVE LinkInv'
    <2>1. CallInv'
      BY <1>2 DEF vars, LinkInv, CallInv, CallOK, FilesOK, Exists, BlockThere, BlockFile
    <2>2. CountInv'
      BY <1>2 DEF vars, LinkInv, CountInv, Used, Begun, Times, InFlight
    <2> QED BY <2>1, <2>2 DEF LinkInv
  <1> QED BY <1>1, <1>2

\* The invariant of calls and counter.
LEMMA LinkInvariant == Spec => []LinkInv
  BY LinkInit, LinkStep, PTL DEF Spec

\* The type of every variable, for any number of threads and any sizes: sums
\* and indices stay in the range that the calls begun so far allow.
THEOREM TypeCorrect == Spec => []TypeOK
  <1>1. ASSUME LinkInv PROVE TypeOK
    <2>1. Used \in 0 .. (MaxOps + 1)
      BY <1>1, CountFacts, Sizes DEF LinkInv, CountInv
    <2>2. counter \in {KeyBlockSz * n : n \in 0 .. (MaxOps + 1)}
      <3> HIDE DEF Used
      <3> QED BY <1>1, <2>1 DEF LinkInv, CountInv
    <2>3. \A t \in Threads : op[t] \in Calls /\ CallOK(op[t])
      BY <1>1 DEF LinkInv, CallInv
    <2>4. \A t \in Threads :
          /\ op[t].kind \in {"none", "reserve", "take", "readAt"}
          /\ op[t].pc \in {"create", "test", "undo", "read", "done"}
          /\ op[t].index \in Indices \cup {0}
          /\ op[t].data \in Seq(1 .. MaxFiles * QllBlockSz) /\ Len(op[t].data) <= KeyBlockSz
      BY <2>3 DEF Calls, CallOK, Keys
    <2> QED BY <1>1, <2>2, <2>4 DEF LinkInv, CountInv, CallInv, FilesOK, TypeOK
  <1> QED BY <1>1, LinkInvariant, PTL

\* However the event loops interleave, and whether or not their calls find
\* their files: the counter is the number of blocks handed out and under way.
THEOREM CounterBalanced == Spec => []CounterCountsBlocks
  <1>1. LinkInv => CounterCountsBlocks
    BY DEF LinkInv, CountInv, Used, CounterCountsBlocks
  <1> QED BY <1>1, LinkInvariant, PTL

\* For any sizes, and while the device writes: a block whose keys were all in
\* the files when its read began is read exactly.
THEOREM ReadsExact == Spec => []ReadExact
  <1>1. LinkInv => ReadExact
    BY DEF LinkInv, CallInv, ReadExact
  <1> QED BY <1>1, LinkInvariant, PTL

-----------------------------------------------------------------------------
(* Fresh blocks, unless a file appears under a call.                        *)

\* The calls that will hand out a block, and what is left of those under way.
LEMMA GoodFacts ==
  ASSUME CallInv, CountInv
  PROVE  /\ Good = {t \in Threads : Active(op[t]) /\ ~ Doomed(op[t])}
         /\ Good \subseteq InFlight /\ IsFiniteSet(Good)
         /\ Cardinality(Good) \in Nat /\ Kept \in Nat /\ Kept <= Used
         /\ Good # InFlight => Kept + 1 <= Used
         /\ Good = InFlight => Kept = Used
  <1>1. Good = {t \in Threads : Active(op[t]) /\ ~ Doomed(op[t])} /\ Good \subseteq InFlight
    BY CountFacts DEF Good
  <1>2. IsFiniteSet(Good) /\ Cardinality(Good) \in Nat /\ Cardinality(Good) <= Cardinality(InFlight)
    BY <1>1, CountFacts, FS_Subset, FS_CardinalityType
  <1>3. Good # InFlight => Cardinality(Good) < Cardinality(InFlight)
    <2>1. Cardinality(InFlight) = Cardinality(Good) => InFlight = Good
      BY <1>1, CountFacts, FS_Subset
    <2> QED BY <1>2, <2>1, CountFacts
  <1> QED BY <1>1, <1>2, <1>3, CountFacts DEF Kept, Used

\* Those calls after thread t's call has become o.
LEMMA GoodBecomes ==
  ASSUME CallInv, CountInv, CallInv', CountInv', NEW t \in Threads, NEW o, Becomes(t, o)
  PROVE  /\ Active(o) /\ ~ Doomed(o) => Good' = Good \cup {t}
         /\ ~ Active(o) \/ Doomed(o) => Good' = Good \ {t}
         /\ t \in Good <=> Active(op[t]) /\ ~ Doomed(op[t])
         /\ \A g : Exists(g)' <=> Exists(g)
  <1>1. \A g : Exists(g)' <=> Exists(g)
    BY DEF Becomes, Exists
  <1>2. op'[t] = o /\ \A u \in Threads : u # t => op'[u] = op[u]
    BY InFlightBecomes
  <1>3. \A u \in Threads : Doomed(op[u])' <=> Doomed(op'[u])
    BY <1>1 DEF Doomed, Active, BlockFile
  <1>4. Good' = {u \in Threads : Active(op'[u]) /\ ~ Doomed(op'[u])}
    <2>1. Good' = {u \in Threads : Active(op[u]) /\ ~ Doomed(op[u])}'
      BY GoodFacts, CountFacts DEF Good, InFlight, Active
    <2>2. \A u : Active(op[u])' <=> Active(op'[u])
      BY DEF Active
    <2> QED BY <1>3, <2>1, <2>2
  <1>5. Good = {u \in Threads : Active(op[u]) /\ ~ Doomed(op[u])}
    BY GoodFacts
  <1>6. Active(o) /\ ~ Doomed(o) => Good' = Good \cup {t}
    BY <1>2, <1>4, <1>5
  <1>7. ~ Active(o) \/ Doomed(o) => Good' = Good \ {t}
    BY <1>2, <1>4, <1>5
  <1> QED BY <1>1, <1>5, <1>6, <1>7

\* Comparing multiples of a block's size.
LEMMA Multiples ==
  ASSUME NEW a \in Nat, NEW b \in Nat, a <= b
  PROVE  /\ KeyBlockSz * a \in Nat /\ KeyBlockSz * a <= KeyBlockSz * b
         /\ KeyBlockSz * (a + 1) = KeyBlockSz * a + KeyBlockSz
         /\ KeyBlockSz * a < KeyBlockSz * (a + 1)
  BY Sizes

\* The invariant after a step that leaves the files alone.
LEMMA FreshNext ==
  ASSUME NEW k, k = Kept', \A g : Exists(g)' <=> Exists(g),
         \A p \in issued' : p[2] = 1 /\ p[1] <= KeyBlockSz * k,
         \A u \in Good' : op'[u].index <= KeyBlockSz * k,
         \A u \in Good' : \A p \in issued' : p[1] # op'[u].index,
         \A u, v \in Good' : op'[u].index = op'[v].index => u = v,
         Good' # InFlight' => ~ Exists((KeyBlockSz * (k + 1)) \div QllBlockSz)
  PROVE  FreshInv'
  <1>1. (\A t \in Good : Times(op[t].index) = {})'
    BY DEF Times
  <1>2. (Good # InFlight => ~ Exists((KeyBlockSz * (Kept + 1)) \div QllBlockSz))'
    <2>1. Good' # InFlight' => ~ Exists((KeyBlockSz * (k + 1)) \div QllBlockSz)'
      OBVIOUS
    <2> QED BY <2>1
  <1>3. (\A p \in issued : p[2] = 1 /\ p[1] <= KeyBlockSz * Kept)'
    OBVIOUS
  <1>4. (\A t \in Good : op[t].index <= KeyBlockSz * Kept)'
    OBVIOUS
  <1> QED BY <1>1, <1>2, <1>3, <1>4 DEF FreshInv

\* A call that begins is doomed, if one is doomed already; otherwise its block
\* is the one after those kept.
LEMMA StartsFresh ==
  ASSUME CallInv, CountInv, CallInv', CountInv', FreshInv, NEW t \in Threads, NEW o, Starts(t, o)
  PROVE  FreshInv'
  <1>0. /\ Becomes(t, o) /\ ~ Active(op[t]) /\ Active(o) /\ o.pc # "undo" /\ CallOK(o)
        /\ o.index = counter + KeyBlockSz /\ UNCHANGED issued /\ o \in Calls
    BY DEF Starts, Becomes
  <1>1. /\ Kept \in Nat /\ Used \in Nat /\ Kept <= Used /\ counter = KeyBlockSz * Used
        /\ Good # InFlight => Kept + 1 <= Used
        /\ Good = InFlight => Kept = Used
    BY GoodFacts, CountFacts DEF CountInv
  <1>2. o.index = KeyBlockSz * (Used + 1) /\ o.index - KeyBlockSz = KeyBlockSz * Used
    BY <1>0, <1>1, Multiples, Sizes
  <1>3. /\ o.index \in Nat /\ KeyBlockSz * Used \in Nat
        /\ KeyBlockSz * (Used + 1) = KeyBlockSz * Used + KeyBlockSz
    BY <1>1, <1>2, Multiples
  <1>4. FilesOK /\ \A j : Times(j)' = Times(j)
    BY <1>0 DEF CallInv, Times
  <1>5. o.kind \in {"reserve", "take"}
    BY <1>0 DEF Active, CallOK
  <1>6. t \notin InFlight /\ t \notin Good /\ InFlight' = InFlight \cup {t}
    BY <1>0, InFlightBecomes, GoodBecomes
  <1>7. op'[t] = o /\ \A u \in Threads : u # t => op'[u] = op[u]
    BY <1>0, InFlightBecomes
  <1>8. Good \subseteq Threads /\ IsFiniteSet(Good) /\ Cardinality(Good) \in Nat /\ Cardinality(issued) \in Nat
    BY GoodFacts, CountFacts
  <1>9. ASSUME NEW a \in Nat, NEW b \in Nat, a <= b, ~ Exists(a \div QllBlockSz)
        PROVE  ~ Exists(b \div QllBlockSz)
    BY <1>4, <1>9, Division, ExistsDown
  <1>10. ASSUME Doomed(o) PROVE FreshInv'
    <2>1. Good' = Good
      BY <1>0, <1>6, <1>10, GoodBecomes
    <2>2. Kept' = Kept
      BY <1>0, <2>1 DEF Kept
    <2>3. ~ Exists((KeyBlockSz * (Kept + 1)) \div QllBlockSz)
      <3>1. CASE Good # InFlight
        BY <3>1 DEF FreshInv
      <3>2. CASE Good = InFlight
        <4>1. o.index = KeyBlockSz * (Kept + 1)
          BY <1>1, <1>2, <3>2
        <4>2. ~ Exists(o.index \div QllBlockSz)
          <5>1. CASE o.kind = "reserve"
            BY <1>0, <1>10, <5>1 DEF Doomed
          <5>2. CASE o.kind = "take"
            <6>1. ~ Exists((o.index - KeyBlockSz) \div QllBlockSz)
              BY <1>0, <1>10, <5>2 DEF Doomed, BlockFile
            <6>2. o.index - KeyBlockSz \in Nat /\ o.index - KeyBlockSz <= o.index
              BY <1>2, <1>3, Sizes
            <6> QED BY <1>3, <1>9, <6>1, <6>2
          <5> QED BY <1>5, <5>1, <5>2
        <4> QED BY <4>1, <4>2
      <3> QED BY <3>1, <3>2
    <2>4. \A u \in Good : u # t /\ op'[u] = op[u]
      BY <1>6, <1>7, <1>8
    <2>5. \A u \in Good : \A p \in issued : p[1] # op[u].index
      BY DEF FreshInv, Times
    <2>6. PICK k : k = Kept
      OBVIOUS
    <2>7. /\ \A p \in issued : p[2] = 1 /\ p[1] <= KeyBlockSz * k
          /\ \A u \in Good : op[u].index <= KeyBlockSz * k
          /\ \A u, v \in Good : op[u].index = op[v].index => u = v
          /\ ~ Exists((KeyBlockSz * (k + 1)) \div QllBlockSz)
      BY <2>3, <2>6 DEF FreshInv
    <2>8. k = Kept' /\ issued' = issued /\ \A g : Exists(g)' <=> Exists(g)
      BY <1>0, <2>2, <2>6, GoodBecomes
    <2>9. /\ \A p \in issued' : p[2] = 1 /\ p[1] <= KeyBlockSz * k
          /\ \A u \in Good' : op'[u].index <= KeyBlockSz * k
          /\ \A u \in Good' : \A p \in issued' : p[1] # op'[u].index
          /\ \A u, v \in Good' : op'[u].index = op'[v].index => u = v
      BY <2>1, <2>4, <2>5, <2>7, <2>8
    <2> HIDE DEF Kept, Good
    <2> QED BY <2>7, <2>8, <2>9, FreshNext
  <1>11. ASSUME ~ Doomed(o) PROVE FreshInv'
    <2>1. Good = InFlight
      <3>1. ASSUME Good # InFlight PROVE FALSE
        <4>1. ~ Exists((KeyBlockSz * (Kept + 1)) \div QllBlockSz) /\ Kept + 1 <= Used
          BY <1>1, <3>1 DEF FreshInv
        <4>2. /\ KeyBlockSz * (Kept + 1) \in Nat /\ KeyBlockSz * (Kept + 1) <= KeyBlockSz * Used
          BY <1>1, <4>1, Multiples
        <4>3. ~ Exists((KeyBlockSz * Used) \div QllBlockSz)
          BY <1>3, <1>9, <4>1, <4>2
        <4>4. ~ Exists(o.index \div QllBlockSz)
          <5>1. KeyBlockSz * Used <= o.index
            BY <1>2, <1>3, Sizes
          <5> QED BY <1>3, <1>9, <4>3, <5>1
        <4>5. ~ Exists(BlockFile(o.index))
          BY <1>2, <4>3 DEF BlockFile
        <4> QED BY <1>0, <1>5, <1>11, <4>4, <4>5 DEF Doomed
      <3> QED BY <3>1
    <2>2. Good' = Good \cup {t} /\ Good' = InFlight'
      BY <1>0, <1>6, <1>11, <2>1, GoodBecomes
    <2>3. Kept' = Kept + 1
      <3>1. Cardinality(Good') = Cardinality(Good) + 1
        BY <1>6, <1>8, <2>2, FS_AddElement
      <3> QED BY <1>0, <1>8, <3>1 DEF Kept
    <2>4. PICK k : k = Kept'
      OBVIOUS
    <2>5. /\ o.index = KeyBlockSz * k /\ KeyBlockSz * Kept < o.index /\ KeyBlockSz * Kept \in Nat
      BY <1>1, <1>2, <2>1, <2>3, <2>4, Multiples
    <2>6. ASSUME NEW p \in issued PROVE p[2] = 1 /\ p[1] < o.index /\ p[1] <= KeyBlockSz * k
      <3>1. p[1] \in Nat /\ p[1] <= KeyBlockSz * Kept /\ p[2] = 1
        BY IndexFacts DEF FreshInv, CountInv
      <3> QED BY <1>3, <2>5, <3>1
    <2>7. ASSUME NEW u \in Good
          PROVE  /\ op'[u] = op[u] /\ op[u].index < o.index /\ op[u].index <= KeyBlockSz * k
                 /\ \A p \in issued : p[1] # op[u].index
      <3>1. op'[u] = op[u]
        BY <1>6, <1>7, <1>8
      <3>2. op[u].index \in Nat
        <4>1. u \in Threads /\ Active(op[u])
          BY GoodFacts
        <4> QED BY <4>1, IndexFacts DEF CallInv, CallOK, Active
      <3>3. op[u].index <= KeyBlockSz * Kept /\ \A p \in issued : p[1] # op[u].index
        BY DEF FreshInv, Times
      <3> QED BY <1>3, <2>5, <3>1, <3>2, <3>3
    <2>8. \A p \in issued' : p[2] = 1 /\ p[1] <= KeyBlockSz * k
      BY <1>0, <2>6
    <2>9. \A u \in Good' : op'[u].index <= KeyBlockSz * k
      BY <1>3, <1>7, <2>2, <2>5, <2>7
    <2>10. \A u, v \in Good' : op'[u].index = op'[v].index => u = v
      <3> SUFFICES ASSUME NEW u \in Good', NEW v \in Good', op'[u].index = op'[v].index
                   PROVE  u = v
        OBVIOUS
      <3>1. CASE u \in Good /\ v \in Good
        BY <2>7, <3>1 DEF FreshInv
      <3>2. CASE u = t /\ v \in Good
        BY <1>3, <1>7, <2>7, <3>2
      <3>3. CASE u \in Good /\ v = t
        BY <1>3, <1>7, <2>7, <3>3
      <3> QED BY <2>2, <3>1, <3>2, <3>3
    <2>11. \A u \in Good' : \A p \in issued' : p[1] # op'[u].index
      <3>1. \A p \in issued : p[1] # o.index
        BY <1>3, <2>6
      <3> QED BY <1>0, <1>7, <2>2, <2>7, <3>1
    <2>12. \A g : Exists(g)' <=> Exists(g)
      BY <1>0, GoodBecomes
    <2> QED BY <2>2, <2>4, <2>8, <2>9, <2>10, <2>11, <2>12, FreshNext
  <1> QED BY <1>10, <1>11

\* A call that hands out its block leaves the blocks kept as they were.
LEMMA FinishesFresh ==
  ASSUME CallInv, CountInv, CallInv', CountInv', FreshInv, NEW t \in Threads, NEW o, Finishes(t, o)
  PROVE  FreshInv'
  <1>0. Becomes(t, o) /\ Active(op[t]) /\ ~ Active(o) /\ ~ Doomed(op[t]) /\ Handout(op[t].index)
    BY DEF Finishes
  <1>1. /\ Good' = Good \ {t} /\ t \in Good /\ InFlight' = InFlight \ {t} /\ t \in InFlight
        /\ \A g : Exists(g)' <=> Exists(g)
    BY <1>0, InFlightBecomes, GoodBecomes
  <1>2. \A u \in Threads : u # t => op'[u] = op[u]
    BY <1>0, InFlightBecomes
  <1>3. Good \subseteq Threads /\ Good \subseteq InFlight /\ IsFiniteSet(Good) /\ Cardinality(Good) \in Nat
        /\ Cardinality(issued) \in Nat
    BY GoodFacts, CountFacts
  <1>4. op[t].index \in Indices
    BY <1>0 DEF Active, CallInv, CallOK
  <1>5. PICK i : i = op[t].index
    OBVIOUS
  <1>6. Times(i) = {} /\ Cardinality(Times(i)) = 0
    BY <1>1, <1>5, FS_EmptySet DEF FreshInv
  <1>7. /\ issued' = issued \cup {<<i, Cardinality(Times(i)) + 1>>}
        /\ Cardinality(issued') = Cardinality(issued) + 1
    BY <1>0, <1>1, <1>4, <1>5, HandoutProperties
  <1>8. issued' = issued \cup {<<i, 1>>}
    BY <1>6, <1>7
  <1>9. PICK k : k = Kept
    OBVIOUS
  <1>10. k = Kept'
    <2>1. Cardinality(Good') = Cardinality(Good) - 1
      BY <1>1, <1>3, FS_RemoveElement
    <2> QED BY <1>3, <1>7, <1>9, <2>1 DEF Kept
  <1>11. /\ \A p \in issued : p[2] = 1 /\ p[1] <= KeyBlockSz * k
         /\ \A u \in Good : op[u].index <= KeyBlockSz * k
         /\ \A u \in Good : \A p \in issued : p[1] # op[u].index
         /\ \A u, v \in Good : op[u].index = op[v].index => u = v
         /\ Good # InFlight => ~ Exists((KeyBlockSz * (k + 1)) \div QllBlockSz)
    BY <1>9 DEF FreshInv, Times
  <1>12. \A u \in Good' : u \in Good /\ u # t /\ op'[u] = op[u]
    BY <1>1, <1>2, <1>3
  <1>13. \A p \in issued' : p[2] = 1 /\ p[1] <= KeyBlockSz * k
    BY <1>1, <1>5, <1>8, <1>11
  <1>14. \A u \in Good' : op'[u].index <= KeyBlockSz * k
    BY <1>11, <1>12
  <1>15. \A u \in Good' : \A p \in issued' : p[1] # op'[u].index
    <2>1. \A u \in Good' : op'[u].index # i
      BY <1>1, <1>5, <1>11, <1>12
    <2> QED BY <1>8, <1>11, <1>12, <2>1
  <1>16. \A u, v \in Good' : op'[u].index = op'[v].index => u = v
    BY <1>11, <1>12
  <1>17. Good' # InFlight' => ~ Exists((KeyBlockSz * (k + 1)) \div QllBlockSz)
    BY <1>1, <1>11
  <1> QED BY <1>1, <1>10, <1>13, <1>14, <1>15, <1>16, <1>17, FreshNext

\* Steps that change neither the blocks handed out nor the calls that will.
LEMMA OtherFresh ==
  ASSUME CallInv, CountInv, CallInv', CountInv', FreshInv, NEW t \in Threads, NEW o,
         Undoes(t, o) \/ GoesOn(t, o)
  PROVE  FreshInv'
  <1>0. Becomes(t, o) /\ UNCHANGED issued
    BY DEF Undoes, GoesOn
  <1>1. \A g : Exists(g)' <=> Exists(g)
    BY <1>0, GoodBecomes
  <1>2. Good' = Good /\ (Good' # InFlight' => Good # InFlight)
    <2>1. CASE Undoes(t, o)
      <3>1. Doomed(op[t]) /\ Active(op[t]) /\ ~ Active(o)
        BY <2>1 DEF Undoes, Doomed, Active
      <3>2. t \notin Good /\ t \in InFlight
        BY <1>0, <3>1, GoodBecomes, InFlightBecomes
      <3>3. Good' = Good \ {t}
        BY <1>0, <3>1, GoodBecomes
      <3> QED BY <3>2, <3>3
    <2>2. CASE GoesOn(t, o)
      <3>1. (Active(o) <=> Active(op[t])) /\ (Doomed(o) <=> Doomed(op[t]))
        BY <2>2 DEF GoesOn
      <3>2. Good' = Good
        BY <1>0, <3>1, GoodBecomes
      <3>3. InFlight' = InFlight
        BY <1>0, <3>1, InFlightBecomes
      <3> QED BY <3>2, <3>3
    <2> QED BY <2>1, <2>2
  <1>3. \A u \in Good : op'[u].index = op[u].index
    <2> SUFFICES ASSUME NEW u \in Good PROVE op'[u].index = op[u].index
      OBVIOUS
    <2>1. u \in Threads /\ Active(op[u]) /\ ~ Doomed(op[u])
      BY GoodFacts
    <2>2. CASE u # t
      BY <1>0, <2>1, <2>2, InFlightBecomes
    <2>3. CASE u = t
      <3>1. GoesOn(t, o)
        BY <2>1, <2>3 DEF Undoes, Doomed
      <3>2. o.index = op[t].index /\ op'[t] = o
        BY <1>0, <2>1, <2>3, <3>1, InFlightBecomes DEF GoesOn
      <3> QED BY <2>3, <3>2
    <2> QED BY <2>2, <2>3
  <1>4. PICK k : k = Kept
    OBVIOUS
  <1>5. k = Kept'
    BY <1>0, <1>2, <1>4 DEF Kept
  <1>6. /\ \A p \in issued : p[2] = 1 /\ p[1] <= KeyBlockSz * k
        /\ \A u \in Good : op[u].index <= KeyBlockSz * k
        /\ \A u \in Good : \A p \in issued : p[1] # op[u].index
        /\ \A u, v \in Good : op[u].index = op[v].index => u = v
        /\ Good # InFlight => ~ Exists((KeyBlockSz * (k + 1)) \div QllBlockSz)
    BY <1>4 DEF FreshInv, Times
  <1>7. /\ \A p \in issued' : p[2] = 1 /\ p[1] <= KeyBlockSz * k
        /\ \A u \in Good' : op'[u].index <= KeyBlockSz * k
        /\ \A u \in Good' : \A p \in issued' : p[1] # op'[u].index
        /\ \A u, v \in Good' : op'[u].index = op'[v].index => u = v
    BY <1>0, <1>2, <1>3, <1>6
  <1> QED BY <1>1, <1>2, <1>5, <1>6, <1>7, FreshNext

\* A new file races with the calls under way, if there are any; a new line
\* makes no difference.
LEMMA DeviceFresh ==
  ASSUME CallInv, CountInv, FreshInv, CreateFile \/ WriteLine
  PROVE  raced' \/ FreshInv'
  <1>0. /\ UNCHANGED <<op, issued>>
    BY DEF CreateFile, WriteLine
  <1>1. InFlight' = InFlight
    BY <1>0 DEF InFlight
  <1>2. CASE WriteLine
    <2>1. \A g : Exists(g)' <=> Exists(g)
      BY <1>2, FilesGrow DEF CallInv
    <2>2. Good' = Good
      <3>1. \A u \in Threads : Doomed(op[u])' <=> Doomed(op[u])
        BY <1>0, <2>1 DEF Doomed, Active, BlockFile
      <3> QED BY <1>1, <3>1, CountFacts DEF Good
    <2>3. PICK k : k = Kept /\ k = Kept'
      BY <1>0, <2>2 DEF Kept
    <2>4. /\ \A p \in issued : p[2] = 1 /\ p[1] <= KeyBlockSz * k
          /\ \A u \in Good : op[u].index <= KeyBlockSz * k
          /\ \A u \in Good : \A p \in issued : p[1] # op[u].index
          /\ \A u, v \in Good : op[u].index = op[v].index => u = v
          /\ Good # InFlight => ~ Exists((KeyBlockSz * (k + 1)) \div QllBlockSz)
      BY <2>3 DEF FreshInv, Times
    <2>5. /\ \A p \in issued' : p[2] = 1 /\ p[1] <= KeyBlockSz * k
          /\ \A u \in Good' : op'[u].index <= KeyBlockSz * k
          /\ \A u \in Good' : \A p \in issued' : p[1] # op'[u].index
          /\ \A u, v \in Good' : op'[u].index = op'[v].index => u = v
      BY <1>0, <2>2, <2>4
    <2> QED BY <1>1, <2>1, <2>2, <2>3, <2>4, <2>5, FreshNext
  <1>3. CASE CreateFile /\ InFlight # {}
    BY <1>3 DEF CreateFile, CallInv
  <1>4. CASE InFlight = {}
    <2>1. Good = {} /\ Good' = {} /\ InFlight' = {}
      BY <1>1, <1>4 DEF Good
    <2>2. Kept' = Kept
      BY <1>0, <2>1 DEF Kept
    <2>3. (\A p \in issued : p[2] = 1 /\ p[1] <= KeyBlockSz * Kept)'
      BY <1>0, <2>2 DEF FreshInv
    <2> QED BY <2>1, <2>3 DEF FreshInv
  <1> QED BY <1>2, <1>3, <1>4

LEMMA FreshStep ==
  ASSUME LinkInv, LinkInv', raced \/ FreshInv, [Next]_vars
  PROVE  raced' \/ FreshInv'
  <1>1. CASE raced
    <2>1. CASE Next
      <3>1. CASE CreateFile \/ WriteLine
        BY <1>1, <3>1 DEF CreateFile, WriteLine
      <3>2. ASSUME NEW t \in Threads, Steps(t) PROVE raced'
        BY <1>1, <3>2 DEF Steps, Starts, Finishes, Undoes, GoesOn, Becomes
      <3> QED BY <2>1, <3>1, <3>2, StepCases DEF LinkInv
    <2>2. CASE UNCHANGED vars
      BY <1>1, <2>2 DEF vars
    <2> QED BY <2>1, <2>2
  <1>2. CASE FreshInv /\ Next
    <2>1. ASSUME NEW t \in Threads, Steps(t) PROVE FreshInv'
      BY <1>2, <2>1, StartsFresh, FinishesFresh, OtherFresh DEF LinkInv, Steps
    <2> QED BY <1>2, <2>1, DeviceFresh, StepCases DEF LinkInv
  <1>3. CASE FreshInv /\ UNCHANGED vars
    <2>1. UNCHANGED <<op, lines, issued>>
      BY <1>3 DEF vars
    <2>2. \A g : Exists(g)' <=> Exists(g)
      BY <2>1 DEF Exists
    <2>3. InFlight' = InFlight
      BY <2>1 DEF InFlight
    <2>4. \A u : Doomed(op[u])' <=> Doomed(op[u])
      BY <2>1, <2>2 DEF Doomed, Active, BlockFile
    <2>5. Good' = Good
      BY <2>3, <2>4 DEF Good
    <2>6. PICK k : k = Kept /\ k = Kept'
      BY <2>1, <2>5 DEF Kept
    <2>7. /\ \A p \in issued : p[2] = 1 /\ p[1] <= KeyBlockSz * k
          /\ \A u \in Good : op[u].index <= KeyBlockSz * k
          /\ \A u \in Good : \A p \in issued : p[1] # op[u].index
          /\ \A u, v \in Good : op[u].index = op[v].index => u = v
          /\ Good # InFlight => ~ Exists((KeyBlockSz * (k + 1)) \div QllBlockSz)
      BY <1>3, <2>6 DEF FreshInv, Times
    <2> QED BY <2>1, <2>2, <2>3, <2>5, <2>6, <2>7, FreshNext
  <1> QED BY <1>1, <1>2, <1>3

\* For any number of event loops and any sizes: no block is handed out twice,
\* and none is the pad's, as long as no key file appears while some call is
\* between addAndGet(len) and its outcome.
THEOREM BlocksFreshUnlessRaced == Spec => []FreshUnlessRaced
  <1> DEFINE Inv == LinkInv /\ (raced \/ FreshInv)
  <1>1. Init => Inv
    <2>1. ASSUME Init PROVE FreshInv
      <3>1. issued = {} /\ InFlight = {}
        BY <2>1 DEF Init, InFlight, Idle, Threads
      <3>2. Good = {}
        BY <3>1 DEF Good
      <3> QED BY <3>1, <3>2 DEF FreshInv
    <2> QED BY <2>1, LinkInit
  <1>2. Inv /\ [Next]_vars => Inv'
    BY LinkStep, FreshStep
  <1>3. Inv => FreshUnlessRaced
    BY DEF FreshInv, FreshUnlessRaced
  <1> HIDE DEF Inv
  <1> QED BY <1>1, <1>2, <1>3, PTL DEF Spec

=============================================================================
