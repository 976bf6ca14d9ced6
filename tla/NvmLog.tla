------------------------------- MODULE NvmLog -------------------------------
(***************************************************************************)
(* NvmLog of common/nvm-common.h: mini-transactions of one thread on NVM,  *)
(* with the undo and redo records of its log, and what the recovery its    *)
(* comment (451-484) describes would make of NVM at any moment.            *)
(*                                                                         *)
(* The widths 1B, 2B, 4B, 8B and VCHAR are one: a write to one address.    *)
(* A node is an address that must be allocated before it is written; RAW   *)
(* is what memory holds that was never written, or that free_node wrote.   *)
(* Every address is a line of its own.                                     *)
(***************************************************************************)
EXTENDS NvmLogBuf, FiniteSets

CONSTANTS
    Addr, Node,         \* addresses: data in use, and nodes of the pool
    Value,
    AbortAnywhere,      \* may abort be called when the log ends with a line?
    MaxTx               \* bound: number of transactions

RAW  == -1
FREE == -2
Tags == [NEW |-> 101, WRITE |-> 102, REDO |-> 103, ALLOCNODE |-> 104, DELNODE |-> 105,
         COMMIT |-> 106, ABORT |-> 107]

ASSUME StoreAssumption ==
    /\ Addr \subseteq Nat \ {0} /\ Node \subseteq Nat \ {0} /\ Addr \cap Node = {}
    /\ Value \subseteq Nat /\ AbortAnywhere \in BOOLEAN /\ MaxTx \in Nat
    /\ \A a \in Addr \cup Node \cup Value : a < 101

VARIABLES
    data, nvmData,      \* memory as the thread sees it, and on NVM
    live, nvmLive,      \* nodes allocated, now and at the last truncation
    tail,               \* where recovery starts to read
    tx,                 \* nl_log_tx_pos_
    redo,               \* nl_redo_rec_
    del,                \* nl_node_to_del_
    pc,
    next,               \* the store that follows the record being logged
    back,               \* backward of abortMiniTransaction
    written,            \* clwb issued by abort, waiting for its sfence
    base,               \* history: the store of the last committed transaction
    count               \* transactions started

vars == <<bufVars, data, nvmData, live, nvmLive, tail, tx, redo, del, pc, next, back, written, base, count>>

Memory == Addr \cup Node
NoStore == [addr |-> 0, val |-> 0]

Init ==
    /\ InitLog
    /\ data = [a \in Memory |-> IF a \in Addr THEN 0 ELSE RAW] /\ nvmData = data
    /\ live = {} /\ nvmLive = {}
    /\ tail = wr /\ tx = wr
    /\ redo = <<>> /\ del = <<>> /\ pc = "none" /\ next = NoStore
    /\ back = ReverseFrom(area, wr) /\ written = {}
    /\ base = [a \in Memory |-> IF a \in Addr THEN 0 ELSE FREE] /\ count = 0

(***************************************************************************)
(* The store as callers know it: memory in use, with the redo records and  *)
(* deletions of the running transaction.                                   *)
(***************************************************************************)
Shown(mem, used) == [p \in Memory |-> IF p \in Addr \cup used THEN mem[p] ELSE FREE]

\* What address p will hold when the redo records are stored: the last counts.
Redone(p) ==
    LET last == CHOOSE i \in DOMAIN redo :
                  redo[i].addr = p /\ \A j \in DOMAIN redo : j > i => redo[j].addr # p
    IN IF \E i \in DOMAIN redo : redo[i].addr = p THEN redo[last].val ELSE data[p]

Deleted == {del[i] : i \in DOMAIN del}

Working == Shown([p \in Memory |-> Redone(p)], live \ Deleted)

(***************************************************************************)
(* Records.                                                                *)
(***************************************************************************)
NewRec(a, v)        == <<Tags.NEW, a, v, Tags.NEW>>
WriteRec(a, old, v) == <<Tags.WRITE, a, old, v, Tags.WRITE>>
RedoRec(r)          == <<Tags.REDO, r.addr, r.val, Tags.REDO>>
AllocRec(n)         == <<Tags.ALLOCNODE, n, Tags.ALLOCNODE>>

\* DELNODE is three calls of writeLog.
DelPieces(nodes) ==
    IF nodes = <<>> THEN <<>>
    ELSE << <<Tags.DELNODE, Len(nodes)>>, nodes, <<Len(nodes), Tags.DELNODE>> >>

CommitPieces == [i \in 1 .. Len(redo) |-> RedoRec(redo[i])] \o DelPieces(del)

\* The size of the record that starts at s[i], or ends there; 0 for none.
RecLen(s, i) ==
    CASE s[i] = Tags.WRITE -> 5
      [] s[i] \in {Tags.NEW, Tags.REDO} -> 4
      [] s[i] = Tags.ALLOCNODE -> 3
      [] s[i] = Tags.DELNODE /\ i < Len(s) -> s[i + 1] + 4
      [] s[i] \in {Tags.COMMIT, Tags.ABORT} -> 1
      [] OTHER -> 0

\* The records of a run of log bytes, up to one that is not complete.
Records(s) ==
    LET from[i \in 1 .. Len(s) + 1] ==
          IF i > Len(s) THEN <<>>
          ELSE LET len == RecLen(s, i)
               IN IF len < 1 \/ i + len - 1 > Len(s) THEN <<>>
                  ELSE <<SubSeq(s, i, i + len - 1)>> \o from[i + len]
    IN from[1]

(***************************************************************************)
(* The log is never checked for being full: it is the caller who must      *)
(* leave room up to the line where recovery starts, for what commit and    *)
(* abort still write too.                                                  *)
(***************************************************************************)
BytesLeft ==
    LET perLine == LineSize - 2
        used == ((wr.line - tail.line) % NumLines) * perLine + wr.next - 2
        toInit == {n \in live : data[n] = RAW}
    IN NumLines * perLine - used - 4 * (Len(redo) + Cardinality(toInit))
         - (IF del = <<>> THEN 0 ELSE Len(del) + 4) - 2

Room(len) == BytesLeft >= len

(***************************************************************************)
(* Transactions.                                                           *)
(***************************************************************************)
StartMiniTransaction ==
    /\ pc = "none" /\ pc' = "run" /\ Room(0)
    /\ count < MaxTx /\ count' = count + 1
    /\ tx' = wr /\ redo' = <<>> /\ del' = <<>>
    /\ UNCHANGED <<bufVars, data, nvmData, live, nvmLive, tail, next, back, written, base>>

\* The log record, flushed or not, then the store; pc says which.
Log(rec, st, to) ==
    /\ pc = "run"
    /\ todo' = <<rec>> /\ next' = st /\ pc' = to
    /\ UNCHANGED <<area, nvm, wr, mid, data, nvmData, nvmLive, tail, tx, redo, del, back, written, base, count>>

\* write1B .. writeVchar
Write(a, v) ==
    /\ a \in Addr \/ (a \in live /\ data[a] # RAW)
    /\ Room(5)
    /\ Log(WriteRec(a, data[a], v), [addr |-> a, val |-> v], "log")
    /\ UNCHANGED live

\* new1B .. newVchar: memory not used before.  Not flushed.
New(n, v) ==
    /\ n \in live /\ data[n] = RAW
    /\ Log(NewRec(n, v), [addr |-> n, val |-> v], "store")
    /\ UNCHANGED live

AllocNode(n) ==
    /\ n \notin live /\ Room(3 + 4)
    /\ Log(AllocRec(n), NoStore, "log")
    /\ live' = live \cup {n}

FlushRecord ==
    /\ pc = "log" /\ FlushLog /\ pc' = "store"
    /\ UNCHANGED <<data, nvmData, live, nvmLive, tail, tx, redo, del, next, back, written, base, count>>

Store ==
    /\ pc = "store" /\ Written
    /\ data' = [a \in Memory |-> IF a = next.addr THEN next.val ELSE data[a]]
    /\ pc' = "run" /\ next' = NoStore
    /\ UNCHANGED <<bufVars, nvmData, live, nvmLive, tail, tx, redo, del, back, written, base, count>>

RedoWrite(a, v) ==
    /\ pc = "run" /\ Room(4)
    /\ a \in Addr \/ (a \in live /\ data[a] # RAW)
    /\ redo' = Append(redo, [addr |-> a, val |-> v])
    /\ UNCHANGED <<bufVars, data, nvmData, live, nvmLive, tail, tx, del, pc, next, back, written, base, count>>

DelNode(n) ==
    /\ pc = "run" /\ n \in live /\ n \notin Deleted
    /\ Room(IF del = <<>> THEN 5 ELSE 1)
    /\ del' = Append(del, n)
    /\ UNCHANGED <<bufVars, data, nvmData, live, nvmLive, tail, tx, redo, pc, next, back, written, base, count>>

(***************************************************************************)
(* commitMiniTransaction: log the redo records and the deletions, then     *)
(* COMMIT if the log has grown, flush; then store and free.  A transaction *)
(* has written the nodes it allocated and keeps.                           *)
(***************************************************************************)
CommitMiniTransaction ==
    /\ pc = "run" /\ pc' = "commit"
    /\ \A n \in live : data[n] # RAW \/ n \in Deleted
    /\ todo' = CommitPieces
    /\ UNCHANGED <<area, nvm, wr, mid, data, nvmData, live, nvmLive, tail, tx, redo, del, next,
                   back, written, base, count>>

\* isSameAsCurPos
NothingLogged == NextPtr(tx) = NextPtr(wr)

LogCommit ==
    /\ pc = "commit" /\ Written
    /\ IF NothingLogged THEN pc' = "apply" /\ UNCHANGED todo
                        ELSE pc' = "seal" /\ todo' = << <<Tags.COMMIT>> >>
    /\ UNCHANGED <<area, nvm, wr, mid, data, nvmData, live, nvmLive, tail, tx, redo, del, next,
                   back, written, base, count>>

FlushCommit ==
    /\ pc = "seal" /\ FlushLog /\ pc' = "apply" /\ base' = Working
    /\ UNCHANGED <<data, nvmData, live, nvmLive, tail, tx, redo, del, next, back, written, count>>

ApplyRedo ==
    /\ pc = "apply" /\ redo # <<>>
    /\ data' = [data EXCEPT ![Head(redo).addr] = Head(redo).val]
    /\ redo' = Tail(redo)
    /\ UNCHANGED <<bufVars, nvmData, live, nvmLive, tail, tx, del, pc, next, back, written, base, count>>

\* nvmpool_free_node writes the link of the free list over the node.
FreeNodes ==
    /\ pc = "apply" /\ redo = <<>> /\ pc' = "none"
    /\ live' = live \ Deleted
    /\ data' = [a \in Memory |-> IF a \in Deleted THEN RAW ELSE data[a]]
    /\ del' = <<>>
    /\ UNCHANGED <<bufVars, nvmData, nvmLive, tail, tx, redo, next, back, written, base, count>>

(***************************************************************************)
(* abortMiniTransaction: read the transaction's records backward, put the  *)
(* old values back, free the new nodes, and log ABORT.  Any other tag is   *)
(* an invalid record: exit(1), so no step.                                 *)
(***************************************************************************)
AbortMiniTransaction ==
    /\ pc = "run" /\ (AbortAnywhere \/ wr.next > 2)
    /\ FlushLog
    /\ back' = ReverseFrom(area', wr)
    /\ pc' = "undo" /\ redo' = <<>> /\ del' = <<>>
    /\ UNCHANGED <<data, nvmData, live, nvmLive, tail, tx, next, written, base, count>>

PEnd == ReverseAdjustPtr(tx)

\* backward.next_ptr_[-1], the offset byte if next_ptr_ is at byte 2
TagBefore == area[back.line].byte[back.next - 1]

Undo(tag, len) ==
    /\ pc = "undo" /\ NextPtr(back) # PEnd /\ TagBefore = tag
    /\ back' = ReadLogReverse(back, len).pos
    /\ UNCHANGED <<bufVars, nvmData, nvmLive, tail, tx, redo, del, pc, next, base, count>>

\* Slip: one byte too few is skipped.
UndoNewShort == Undo(Tags.NEW, 3) /\ UNCHANGED <<data, live, written>>

UndoNew == Undo(Tags.NEW, 4) /\ UNCHANGED <<data, live, written, base, count>>

\* Slip: the new value, p[1 + 8 + 8], is put back.
NewValue(p) == p[4]

\* The old value is put back, p[1 + 8] of the record.
OldValue(p) == p[3]

UndoWrite ==
    LET p == ReadLogReverse(back, 5).bytes
    IN /\ Undo(Tags.WRITE, 5)
       /\ data' = [data EXCEPT ![p[2]] = OldValue(p)]
       /\ written' = written \cup {p[2]}
       /\ UNCHANGED live

UndoAllocNode ==
    LET p == ReadLogReverse(back, 3).bytes
    IN /\ Undo(Tags.ALLOCNODE, 3)
       /\ live' = live \ {p[2]}
       /\ data' = [data EXCEPT ![p[2]] = RAW]
       /\ UNCHANGED written

LogAbort ==
    /\ pc = "undo" /\ NextPtr(back) = PEnd /\ pc' = "aborted"
    /\ nvmData' = [a \in Memory |-> IF a \in written THEN data[a] ELSE nvmData[a]]
    /\ written' = {} /\ todo' = << <<Tags.ABORT>> >>
    /\ UNCHANGED <<area, nvm, wr, mid, data, live, nvmLive, tail, tx, redo, del, next, back, base, count>>

FlushAbort ==
    /\ pc = "aborted" /\ FlushLog /\ pc' = "none"
    /\ UNCHANGED <<data, nvmData, live, nvmLive, tail, tx, redo, del, next, back, written, base, count>>

(***************************************************************************)
(* The cache, and log truncation between transactions (external: 459-467). *)
(***************************************************************************)
WriteLogLine ==
    /\ CopyToLine \/ CompleteLine2Log
    \* COMMIT is the last byte of a line: completing the line commits.
    /\ base' = IF pc = "seal" /\ todo = <<>> THEN Working ELSE base
    /\ UNCHANGED <<data, nvmData, live, nvmLive, tail, tx, redo, del, pc, next, back, written, count>>

EvictLogLine(l) ==
    /\ EvictLine(l)
    /\ UNCHANGED <<data, nvmData, live, nvmLive, tail, tx, redo, del, pc, next, back, written, base, count>>

EvictData(a) ==
    /\ nvmData[a] # data[a]
    /\ nvmData' = [nvmData EXCEPT ![a] = data[a]]
    /\ UNCHANGED <<bufVars, data, live, nvmLive, tail, tx, redo, del, pc, next, back, written, base, count>>

Truncate ==
    /\ pc = "none" /\ NextPtr(tail) # NextPtr(wr)
    /\ tail' = wr /\ nvmData' = data /\ nvmLive' = live
    /\ UNCHANGED <<bufVars, data, live, tx, redo, del, pc, next, back, written, base, count>>

Commit == LogCommit \/ FlushCommit \/ ApplyRedo \/ FreeNodes
Abort  == UndoNew \/ UndoWrite \/ UndoAllocNode \/ LogAbort \/ FlushAbort

\* What the code does once a call has begun.
Code == WriteLogLine \/ FlushRecord \/ Store \/ Commit \/ Abort

Next ==
    \/ Code
    \/ StartMiniTransaction \/ CommitMiniTransaction \/ AbortMiniTransaction \/ Truncate
    \/ \E a \in Memory, v \in Value : Write(a, v) \/ RedoWrite(a, v)
    \/ \E n \in Node : AllocNode(n) \/ DelNode(n) \/ \E v \in Value : New(n, v)
    \/ \E a \in Memory : EvictData(a)
    \/ \E l \in Lines : EvictLogLine(l)

Spec     == Init /\ [][Next]_vars
FairSpec == Spec /\ WF_vars(Code)
=============================================================================
