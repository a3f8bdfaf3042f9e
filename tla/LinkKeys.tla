------------------------------ MODULE LinkKeys ------------------------------
(***************************************************************************)
(* The key store at one end of a link: QLLFileReader, used by the handlers *)
(* of the key routing service on several event loops, and OTPKey, which    *)
(* makes the pad of the link from the first block when the service starts. *)
(* The QKD device (QLL) writes key files 0, 1, ... line by line meanwhile. *)
(*                                                                         *)
(* A key is its number: line j of file f is key f * QllBlockSz + j, and a  *)
(* block with index i is keys i - KeyBlockSz + 1 .. i.  A handler's call   *)
(* is one step up to its next access to shared state: the atomic counter   *)
(* or a file.  A pass over a file sees the lines the file has then.        *)
(***************************************************************************)
EXTENDS Integers, Sequences, FiniteSets, FiniteSetsExt

CONSTANTS
    Handlers,       \* the threads of the event loops
    Main,           \* the thread that starts the service and makes the pad
    KeyBlockSz,     \* keys of a block (keyBlockSz)
    QllBlockSz,     \* keys of a QLL file (qllBlockSz)
    MaxFiles,       \* bound: QLL files
    MaxOps          \* bound: calls by handlers

ASSUME SizeAssumption ==
    /\ KeyBlockSz \in Nat \ {0} /\ QllBlockSz \in Nat \ {0}
    /\ QllBlockSz % KeyBlockSz = 0
    /\ MaxFiles \in Nat /\ MaxOps \in Nat

ASSUME ThreadAssumption == Main \notin Handlers /\ IsFiniteSet(Handlers)

VARIABLES
    counter,    \* qllBlockIndex of the reader
    lines,      \* lines in each QLL file, -1 for a file that does not exist
    op,         \* the current or last call of each thread
    issued,     \* block indices handed out: <<index, n>> for the n-th time
    misread,    \* blocks read as something else although all their keys were there
    raced,      \* has a file appeared while a call was between its sum and its end?
    ops         \* calls begun by handlers

vars == <<counter, lines, op, issued, misread, raced, ops>>

Threads == Handlers \cup {Main}
Files == 0 .. MaxFiles - 1

\* Indices that a call can meet: a handler's sum may overshoot the files.
Indices == {KeyBlockSz * n : n \in 1 .. (MaxOps + 1)}

Exists(f) == f \in Files /\ lines[f] >= 0

\* The reference: the keys that a block stands for, and their presence.
BlockKeys(i) == [k \in 1 .. KeyBlockSz |-> i - KeyBlockSz + k]
BlockFile(i) == (i - KeyBlockSz) \div QllBlockSz
BlockThere(i) ==
    Exists(BlockFile(i)) /\ i <= BlockFile(i) * QllBlockSz + lines[BlockFile(i)]

-----------------------------------------------------------------------------
(* The calls.  kind: reserve (getNextBlockIndex), take (read with a         *)
(* reference), readAt (read at an offset).  pc: the next access.            *)

Call(kind, pc, i) ==
    [kind |-> kind, pc |-> pc, index |-> i, data |-> <<>>, start |-> i - KeyBlockSz,
     skip |-> TRUE, there |-> BlockThere(i)]

Idle == [kind |-> "none", pc |-> "done", index |-> 0, data |-> <<>>, start |-> 0,
         skip |-> TRUE, there |-> FALSE]

\* long index = qllBlockIndex.addAndGet(len)
Add(t, kind, pc) ==
    /\ counter' = counter + KeyBlockSz
    /\ op' = [op EXCEPT ![t] = Call(kind, pc, counter + KeyBlockSz)]

Handout(i) ==
    issued' = issued \cup {<<i, Cardinality({p \in issued : p[1] = i}) + 1>>}

\* read(dst, len, offset) reads nothing for a negative offset.
StartReadAt(i) == IF i < 0 THEN Idle ELSE Call("readAt", "read", i)

\* A handler puts the index it got into a message; createKey reads there.
Return(t, i) == op' = [op EXCEPT ![t] = IF t = Main THEN StartReadAt(i) ELSE Idle]

\* The reader and the OTPKey are being created; there is no pad file yet.
Init ==
    /\ counter = 0
    /\ lines \in {[f \in Files |-> IF f < n THEN QllBlockSz ELSE -1] : n \in 0 .. MaxFiles}
    /\ op = [t \in Threads |-> IF t = Main THEN [Idle EXCEPT !.pc = "create"] ELSE Idle]
    /\ issued = {}
    /\ misread = {}
    /\ raced = FALSE
    /\ ops = 0

\* createKey of a first start: getNextBlockIndex, then read at its answer.
CreateKey ==
    /\ op[Main].pc = "create"
    /\ Add(Main, "reserve", "test")
    /\ UNCHANGED <<lines, issued, misread, raced, ops>>

\* The service listens once the pad has been made.
Begin(h) ==
    /\ op[Main].pc = "done"
    /\ op[h].pc = "done"
    /\ ops < MaxOps
    /\ ops' = ops + 1
    /\ UNCHANGED <<lines, issued, misread, raced>>

\* REQ_GET_ALLOC_KP_BLOCK at the end with the smaller name.
GetNextBlockIndex(h) == Begin(h) /\ Add(h, "reserve", "test")

\* REQ_GET_KP_BLOCK_INDEX at the end with the smaller name.
ReadNext(h) == Begin(h) /\ Add(h, "take", "read")

\* REQ_POST_KP_BLOCK_INDEX, and the responses, with the index in the message.
ReadAt(h, i) ==
    /\ Begin(h)
    /\ op' = [op EXCEPT ![h] = StartReadAt(i)]
    /\ UNCHANGED counter

\* new File(...).exists(), for the file in which the block ENDS.
Test(t) ==
    /\ op[t].pc = "test"
    /\ IF Exists(op[t].index \div QllBlockSz)
       THEN Handout(op[t].index) /\ Return(t, op[t].index)
       ELSE op' = [op EXCEPT ![t].pc = "undo"] /\ UNCHANGED issued
    /\ UNCHANGED <<counter, lines, misread, raced, ops>>

\* qllBlockIndex.addAndGet(-len); the caller gets -1.
LeaveAdded(t) ==                                    \* mutant: nothing undone
    /\ op[t].pc = "undo"
    /\ Return(t, -1)
    /\ UNCHANGED <<counter, lines, issued, misread, raced, ops>>
AddAgain(t) ==                                      \* mutant: the sign forgotten
    /\ op[t].pc = "undo"
    /\ counter' = counter + KeyBlockSz
    /\ Return(t, -1)
    /\ UNCHANGED <<lines, issued, misread, raced, ops>>
UndoTwice(t) ==                                     \* mutant: undone once too often
    /\ op[t].pc = "undo" /\ counter >= 2 * KeyBlockSz
    /\ counter' = counter - 2 * KeyBlockSz
    /\ Return(t, -1)
    /\ UNCHANGED <<lines, issued, misread, raced, ops>>
Undo(t) ==
    /\ op[t].pc = "undo"
    /\ counter' = counter - KeyBlockSz
    /\ Return(t, -1)
    /\ UNCHANGED <<lines, issued, misread, raced, ops>>

-----------------------------------------------------------------------------
(* readKeyBlock: one pass of its loop opens one file.                       *)

SkipOneMore(o) == (o.start % QllBlockSz) + 1        \* mutant: off by one
LinesToSkip(o) == o.start % QllBlockSz

\* The pass skips once in a call, and then takes lines up to the block's end
\* or the file's; after a short file the next start is the number of lines
\* read so far, counted from the first file.
Pass(o, n) ==
    LET skips == LinesToSkip(o) > 0 /\ o.skip
        first == IF skips THEN Min({LinesToSkip(o), n}) ELSE 0
        count == Min({KeyBlockSz - Len(o.data), n - first})
        data  == o.data \o [j \in 1 .. count |->
                              (o.start \div QllBlockSz) * QllBlockSz + first + j]
    IN  [o EXCEPT !.data = data, !.skip = @ /\ ~skips, !.start = Len(data),
                  !.pc = IF Len(data) < KeyBlockSz THEN "read" ELSE "done"]

\* FileNotFoundException ends the loop with the lines read so far, which are
\* too few: a take undoes its sum.
WaitForFile(o) == [o EXCEPT !.pc = "read"]          \* mutant: tries again
Missing(o) == [o EXCEPT !.pc = IF o.kind = "take" THEN "undo" ELSE "done"]

ReadFile(t) ==
    LET f == op[t].start \div QllBlockSz
        o == IF Exists(f) THEN Pass(op[t], lines[f]) ELSE Missing(op[t])
    IN  /\ op[t].pc = "read"
        /\ op' = [op EXCEPT ![t] = IF o.pc = "done" THEN Idle ELSE o]
        /\ IF o.kind = "take" /\ o.pc = "done" THEN Handout(o.index) ELSE UNCHANGED issued
        /\ misread' = IF o.pc = "done" /\ o.there /\ o.data # BlockKeys(o.index)
                      THEN misread \cup {<<o.index, o.data>>} ELSE misread
        /\ UNCHANGED <<counter, lines, raced, ops>>

\* Calls that have added to the counter and not yet handed out or undone.
InFlight == {t \in Threads : \/ op[t].pc \in {"test", "undo"}
                             \/ op[t].kind = "take" /\ op[t].pc = "read"}

-----------------------------------------------------------------------------
(* generateKeys of the QLL simulator, or a QKD device: it opens the next    *)
(* file when the last one is full, and appends lines.                       *)

CreateFile ==
    \E f \in Files :
      /\ lines[f] = -1
      /\ \A g \in Files : g < f => lines[g] = QllBlockSz
      /\ lines' = [lines EXCEPT ![f] = 0]
      /\ raced' = (raced \/ InFlight # {})
      /\ UNCHANGED <<counter, op, issued, misread, ops>>

WriteLine ==
    \E f \in Files :
      /\ lines[f] \in 0 .. QllBlockSz - 1
      /\ lines' = [lines EXCEPT ![f] = @ + 1]
      /\ UNCHANGED <<counter, op, issued, misread, raced, ops>>

\* What a thread does on its own once a call has begun.
Continue(t) == Test(t) \/ Undo(t) \/ ReadFile(t)

Next ==
    \/ CreateKey \/ CreateFile \/ WriteLine
    \/ \E t \in Threads : Continue(t)
    \/ \E h \in Handlers : GetNextBlockIndex(h) \/ ReadNext(h)
    \/ \E h \in Handlers, i \in Indices \cup {-1} : ReadAt(h, i)

\* Event loops run, and the device finishes the file it has begun.
Fairness == WF_vars(CreateKey) /\ WF_vars(WriteLine)
            /\ \A t \in Threads : WF_vars(Continue(t))

Spec == Init /\ [][Next]_vars /\ Fairness

-----------------------------------------------------------------------------

\* The type of every variable.
TypeOK ==
    /\ counter \in {KeyBlockSz * n : n \in 0 .. (MaxOps + 1)}
    /\ lines \in [Files -> -1 .. QllBlockSz]
    /\ \A t \in Threads :
          /\ op[t].kind \in {"none", "reserve", "take", "readAt"}
          /\ op[t].pc \in {"create", "test", "undo", "read", "done"}
          /\ op[t].index \in Indices \cup {0}
          /\ op[t].data \in Seq(1 .. MaxFiles * QllBlockSz) /\ Len(op[t].data) <= KeyBlockSz
    /\ issued \subseteq Indices \X (1 .. MaxOps + 1)
    /\ misread \subseteq Indices \X Seq(1 .. MaxFiles * QllBlockSz)
    /\ raced \in BOOLEAN /\ ops \in 0 .. MaxOps

\* addAndGet(len) and addAndGet(-len) of all threads balance: the counter is
\* the number of blocks handed out and under way, so that failed calls never
\* leave a block behind that no one will use or take one back that is used.
CounterCountsBlocks == counter = KeyBlockSz * (Cardinality(issued) + Cardinality(InFlight))

\* No block is handed out twice, and none is the pad's, unless a key file
\* appeared while some call was between addAndGet(len) and its outcome: then a
\* test may succeed for a sum that includes another call's, which is undone.
FreshUnlessRaced == raced \/ \A p \in issued : p[2] = 1

\* A block all of whose keys were in the files when its read began is read
\* exactly, be it a message's block or the pad.
ReadExact == misread = {}

\* Every call ends, also one that meets a file being written: readKeyBlock
\* reads on in the first file instead of waiting.
CallEnds == \A t \in Threads : (op[t].pc # "done") ~> (op[t].pc = "done")

=============================================================================
