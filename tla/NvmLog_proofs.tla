---------------------------- MODULE NvmLog_proofs ----------------------------
(***************************************************************************)
(* The transactions of NvmLog keep their account, and what follows: types, *)
(* what abort reads, and that NvmLog implements TxStore.                   *)
(*                                                                         *)
(* Order: what the records, the room for them and the store of the running *)
(* transaction are; each operation, commit and abort; reading backward; the *)
(* invariant and what follows; reading forward; the refinement.            *)
(***************************************************************************)
EXTENDS NvmLogBuf_proofs

-----------------------------------------------------------------------------
\* What addresses and tags are.
LEMMA Places ==
  /\ Memory = Addr \cup Node /\ Addr \cap Node = {}
  /\ \A a \in Memory \cup Value : a \in Nat /\ a < 101
  /\ 0 \notin Memory /\ \A v \in Value \cup {0} : v # RAW /\ v # FREE /\ v \in Int
  /\ RAW \in Int /\ FREE # RAW
  BY StoreAssumption DEF StoreAssumption, Memory, RAW, FREE

\* The last redo record of an address.
IsLast(s, p, i) ==
    i \in DOMAIN s /\ s[i].addr = p /\ \A j \in DOMAIN s : j > i => s[j].addr # p

\* An address that some redo record has is in a last one.
LEMMA LastExists ==
  ASSUME NEW S, NEW s \in Seq(S), NEW p, NEW k \in 1 .. Len(s), s[k].addr = p
  PROVE  \E i : IsLast(s, p, i)
<1> DEFINE U == {m \in Nat : \E i \in 1 .. Len(s) : s[i].addr = p /\ m = Len(s) - i}
<1>1. Len(s) \in Nat /\ DOMAIN s = 1 .. Len(s)
  OBVIOUS
<1>2. U \subseteq Nat /\ U # {}
  <2>1. Len(s) - k \in U
    BY <1>1
  <2> QED BY <2>1
<1>3. PICK m \in U : \A r \in U : <<r, m>> \notin OpToRel(<, Nat)
  BY <1>2, NatLessThanWellFounded, WFMin
<1> HIDE DEF U
<1>4. \A r \in U : m =< r
  <2> SUFFICES ASSUME NEW r \in U, ~(m =< r) PROVE FALSE
    OBVIOUS
  <2>1. r \in Nat /\ m \in Nat /\ r < m
    BY <1>2
  <2>2. <<r, m>> \in OpToRel(<, Nat)
    BY <2>1 DEF OpToRel
  <2> QED BY <1>3, <2>2
<1>5. PICK i \in 1 .. Len(s) : s[i].addr = p /\ m = Len(s) - i
  BY <1>3 DEF U
<1>6. ASSUME NEW j \in 1 .. Len(s), j > i, s[j].addr = p
      PROVE  FALSE
  <2>1. Len(s) - j \in U
    <3>1. Len(s) - j \in Nat /\ j \in 1 .. Len(s)
      BY <1>1
    <3> QED BY <1>6, <3>1, Zenon DEF U
  <2> QED BY <1>1, <1>4, <1>5, <1>6, <2>1
<1> QED
  BY <1>1, <1>5, <1>6 DEF IsLast

\* There is one last redo record of an address.
LEMMA LastIsOne ==
  ASSUME NEW S, NEW s \in Seq(S), NEW p, NEW i, NEW j, IsLast(s, p, i), IsLast(s, p, j)
  PROVE  i = j
<1>1. i \in Nat /\ j \in Nat
  BY DEF IsLast
<1>2. ~(i < j) /\ ~(j < i)
  BY <1>1 DEF IsLast
<1> QED BY <1>1, <1>2

RedoType == redo \in Seq([addr : Memory, val : Value])

\* What an address will hold is what its last redo record says, if it has one.
LEMMA RedoneIs ==
  ASSUME RedoType, NEW p
  PROVE  /\ \A i : IsLast(redo, p, i) => Redone(p) = redo[i].val
         /\ (\A i \in 1 .. Len(redo) : redo[i].addr # p) => Redone(p) = data[p]
<1>1. DOMAIN redo = 1 .. Len(redo)
  BY DEF RedoType
<1>2. ASSUME NEW i, IsLast(redo, p, i) PROVE Redone(p) = redo[i].val
  <2>1. \A j : IsLast(redo, p, j) => j = i
    BY <1>2, LastIsOne DEF RedoType
  <2>2. i = CHOOSE j \in DOMAIN redo :
              redo[j].addr = p /\ \A l \in DOMAIN redo : l > j => redo[l].addr # p
    BY <1>2, <2>1 DEF IsLast
  <2>3. \E j \in DOMAIN redo : redo[j].addr = p
    BY <1>2 DEF IsLast
  <2> QED BY <2>2, <2>3 DEF Redone
<1>3. ASSUME \A i \in 1 .. Len(redo) : redo[i].addr # p PROVE Redone(p) = data[p]
  BY <1>1, <1>3 DEF Redone
<1> QED BY <1>2, <1>3

\* With no redo records and no deletions, the store is what memory holds.
LEMMA NothingToRedo ==
  ASSUME redo = <<>>, del = <<>>
  PROVE  /\ Deleted = {}
         /\ \A p \in Memory : Working[p] = IF p \in Addr \cup live THEN data[p] ELSE FREE
         /\ Working = [p \in Memory |-> IF p \in Addr \cup live THEN data[p] ELSE FREE]
<1>1. Deleted = {}
  BY DEF Deleted
<1>2. \A p \in Memory : Redone(p) = data[p]
  <2>1. RedoType /\ Len(redo) = 0
    BY DEF RedoType
  <2> QED BY <2>1, RedoneIs
<1> QED
  BY <1>1, <1>2 DEF Working, Shown

\* The store as the running transaction sees it, address by address.
LEMMA WorkingIs ==
  /\ Working = [p \in Memory |-> IF p \in Addr \cup (live \ Deleted) THEN Redone(p) ELSE FREE]
  /\ \A p \in Memory : Working[p] = IF p \in Addr \cup (live \ Deleted) THEN Redone(p) ELSE FREE
  BY DEF Working, Shown

\* What a step does to redo and data that leaves Redone of an address alone.
LEMMA RedoneSame ==
  ASSUME redo' = redo, NEW p, data'[p] = data[p]
  PROVE  Redone(p)' = Redone(p)
  BY DEF Redone

\* It stays when the redo records, deletions and memory do.
LEMMA WorkingSame ==
  ASSUME UNCHANGED <<redo, del, live, data>>
  PROVE  Working' = Working /\ Deleted' = Deleted
<1>1. \A p : Redone(p)' = Redone(p)
  BY DEF Redone
<1>2. Deleted' = Deleted
  BY DEF Deleted
<1>3. Memory' = Memory
  BY DEF Memory
<1> QED BY <1>1, <1>2, <1>3 DEF Working, Shown

-----------------------------------------------------------------------------
\* The parts of the invariant together.
LEMMA AllOf ==
  ASSUME NEW g, LogTypes', DataTypes', Copied(g)', ToCopy(g)', Fits(g)', Quiet', Phases(g)',
         InTx' => Logged(g)' /\ BaseKnown(g)', StoreKnown(g)', Undoing(g)'
  PROVE  IInv(g)'
  BY DEF IInv

\* They make an account.
LEMMA Gather ==
  ASSUME NEW g, LogTypes', DataTypes', Copied(g)', ToCopy(g)', Fits(g)', Quiet', Phases(g)',
         InTx' => Logged(g)' /\ BaseKnown(g)', StoreKnown(g)', Undoing(g)'
  PROVE  \E a : IInv(a)'
<1>1. IInv(g)'
  BY AllOf
<1> QED BY <1>1

\* Where the row meets its own beginning: a round after the line of tail.
LEMMA LimitIs ==
  ASSUME LogTypes
  PROVE  /\ Limit = tail.line * PerLine + NumLines * PerLine /\ Limit \in Int
         /\ tail.line * PerLine \in Int /\ NumLines * PerLine \in Nat
         /\ NumLines * PerLine >= PerLine + PerLine
<1>1. PerLine \in Nat \ {0} /\ NumLines \in Nat \ {0} /\ NumLines >= 2 /\ tail.line \in Nat
  BY LogAssumption, Sizes DEF LogTypes
<1>2. Limit = tail.line * PerLine + NumLines * PerLine
  BY <1>1, Distributes DEF Limit
<1>3. tail.line * PerLine \in Int /\ NumLines * PerLine \in Nat
  BY <1>1
<1>4. NumLines * PerLine >= PerLine + PerLine
  <2>1. (NumLines - 2) * PerLine = NumLines * PerLine - 2 * PerLine
    BY <1>1, Distributes
  <2>2. (NumLines - 2) * PerLine \in Nat
    <3>1. NumLines - 2 \in Nat
      BY <1>1
    <3> QED BY <1>1, <3>1
  <2>3. 2 * PerLine = PerLine + PerLine /\ PerLine \in Nat
    BY <1>1
  <2> DEFINE x == (NumLines - 2) * PerLine
             y == NumLines * PerLine
  <2>4. x \in Nat /\ y \in Nat /\ x = y - (PerLine + PerLine)
    BY <1>3, <2>1, <2>2, <2>3
  <2> HIDE DEF x, y
  <2>5. y >= PerLine + PerLine
    BY <2>3, <2>4
  <2> QED BY <2>5 DEF y
<1> QED BY <1>2, <1>3, <1>4

\* What the transaction still has to log is a number.
LEMMA NeedsIs ==
  ASSUME DataTypes
  PROVE  /\ IsFiniteSet(ToInit) /\ Cardinality(ToInit) \in Nat
         /\ Len(redo) \in Nat /\ Len(del) \in Nat /\ DelSize \in Nat
         /\ Needs = 4 * Len(redo) + 4 * Cardinality(ToInit) + DelSize /\ Needs \in Nat
         /\ RedoType
<1>1. IsFiniteSet(ToInit)
  <2>1. ToInit \subseteq live
    BY DEF ToInit
  <2> QED BY <2>1, FS_Subset DEF DataTypes
<1>2. Cardinality(ToInit) \in Nat
  BY <1>1, FS_CardinalityType
<1>3. Len(redo) \in Nat /\ Len(del) \in Nat /\ RedoType
  BY DEF DataTypes, RedoType
<1>4. DelSize \in Nat
  BY <1>3 DEF DelSize
<1> QED BY <1>1, <1>2, <1>3, <1>4 DEF Needs

\* It stays when the redo records, deletions and nodes to initialise do.
LEMMA NeedsStay ==
  ASSUME UNCHANGED <<redo, del, live, data, next>>
  PROVE  Needs' = Needs /\ ToInit' = ToInit
<1>1. ToInit' = ToInit
  BY DEF ToInit
<1>2. DelSize' = DelSize
  BY DEF DelSize
<1> QED BY <1>1, <1>2 DEF Needs

\* The arithmetic of Room.
LEMMA RoomLeft ==
  ASSUME NEW size \in Int, NEW first \in Int, NEW end \in Int, NEW r \in Int, NEW c \in Int, NEW d \in Int,
         NEW len \in Int, size - (end - first) - 4 * (r + c) - d - 2 >= len
  PROVE  end + (4 * r + 4 * c + d) + 2 + len =< first + size
  OBVIOUS

\* What a call is sure of that asked for room.
LEMMA RoomIs ==
  ASSUME NEW h, LogTypes, DataTypes, Copied(h), ToCopy(h), todo = <<>>, next = NoStore,
         NEW len \in Int, Room(len)
  PROVE  End(h) + Needs + 2 + len =< Limit
<1> DEFINE toInit == {n \in live : data[n] = RAW}
           used == ((wr.line - tail.line) % NumLines) * PerLine + wr.next - 2
<1>1. toInit = ToInit
  <2>1. \A n \in live : n # next.addr
    BY Places DEF DataTypes, NoStore
  <2> QED BY <2>1 DEF ToInit
<1>2. NumLines * PerLine - used - 4 * (Len(redo) + Cardinality(ToInit)) - DelSize - 2 >= len
  <2>1. (IF del = <<>> THEN 0 ELSE Len(del) + 4) = DelSize
    BY DEF DelSize
  <2> HIDE DEF toInit
  <2>2. BytesLeft = NumLines * PerLine - used - 4 * (Len(redo) + Cardinality(toInit)) - DelSize - 2
    BY <2>1 DEF BytesLeft, PerLine, toInit
  <2> QED BY <1>1, <2>2 DEF Room
<1> HIDE DEF toInit
<1>3. /\ PerLine \in Nat \ {0} /\ NumLines \in Nat \ {0} /\ Lines = 0 .. NumLines - 1
  BY LogAssumption, Sizes
<1>4. /\ AbsLine(wr) \in Nat /\ AbsLine(wr) % NumLines = wr.line
      /\ Offset(wr) = AbsLine(wr) * PerLine + wr.next - 2 /\ Offset(wr) \in Nat
      /\ tail.line \in Nat /\ wr.next \in 2 .. LineSize /\ tail.line \in Lines /\ wr.line \in Lines
  BY LogAssumption, Around DEF Copied
<1>5. tail.line =< AbsLine(wr) /\ AbsLine(wr) < tail.line + NumLines
  BY DEF Copied
<1>6. (wr.line - tail.line) % NumLines = AbsLine(wr) - tail.line
  <2>1. AbsLine(wr) = wr.line \/ AbsLine(wr) = wr.line + NumLines
    <3>1. wr.line \in 0 .. NumLines - 1
      BY ONLY <1>3, <1>4, Zenon
    <3>2. wr.line \in Int
      BY ONLY <3>1
    <3> QED BY ONLY <3>2 DEF AbsLine
  <2>2. AbsLine(wr) - tail.line \in 0 .. NumLines - 1
    <3>1. AbsLine(wr) \in Nat /\ tail.line \in Nat /\ NumLines \in Nat
      BY <1>3, <1>4
    <3> QED BY ONLY <1>5, <3>1
  <2>3. (AbsLine(wr) - tail.line) % NumLines = AbsLine(wr) - tail.line
        /\ (AbsLine(wr) - tail.line - NumLines) % NumLines = AbsLine(wr) - tail.line
    BY <1>3, <2>2, LineOf
  <2> HIDE DEF used
  <2>4. wr.line \in Int /\ tail.line \in Int /\ NumLines \in Int
    BY <1>3, <1>4
  <2>5. wr.line - tail.line = AbsLine(wr) - tail.line
        \/ wr.line - tail.line = AbsLine(wr) - tail.line - NumLines
    BY <2>1, <2>4
  <2> QED BY <2>3, <2>5
<1>7. used = Offset(wr) - tail.line * PerLine
  <2>1. (AbsLine(wr) - tail.line) * PerLine = AbsLine(wr) * PerLine - tail.line * PerLine
    BY <1>3, <1>4, Distributes
  <2>2. AbsLine(wr) * PerLine \in Int /\ tail.line * PerLine \in Int /\ wr.next \in Int
    <3>1. AbsLine(wr) \in Int /\ tail.line \in Int /\ PerLine \in Int /\ LineSize \in Int
      BY <1>3, <1>4, LogAssumption
    <3>2. wr.next \in Int
      BY <1>4, <3>1
    <3> QED BY ONLY <3>1, <3>2
  <2> DEFINE x == AbsLine(wr) * PerLine
             y == tail.line * PerLine
  <2>3. used = x - y + wr.next - 2 /\ Offset(wr) = x + wr.next - 2 /\ x \in Int /\ y \in Int
    BY <1>4, <1>6, <2>1, <2>2
  <2> HIDE DEF x, y, used
  <2>4. used = Offset(wr) - y
    BY <2>2, <2>3
  <2> QED BY <2>4 DEF y
<1>8. End(h) = Offset(wr)
  BY EndBehind
<1>9. /\ Limit = tail.line * PerLine + NumLines * PerLine
      /\ tail.line * PerLine \in Int /\ NumLines * PerLine \in Int
  BY LimitIs
<1>10. /\ Cardinality(ToInit) \in Nat /\ Len(redo) \in Nat /\ DelSize \in Nat
       /\ Needs = 4 * Len(redo) + 4 * Cardinality(ToInit) + DelSize
  BY NeedsIs
<1> DEFINE y == tail.line * PerLine
           z == NumLines * PerLine
<1>11. /\ z - (Offset(wr) - y) - 4 * (Len(redo) + Cardinality(ToInit)) - DelSize - 2 >= len
       /\ Limit = y + z /\ y \in Int /\ z \in Int
  BY <1>2, <1>7, <1>9
<1> HIDE DEF y, z, used
<1>12. /\ z - (End(h) - y) - 4 * (Len(redo) + Cardinality(ToInit)) - DelSize - 2 >= len
       /\ Limit = y + z /\ y \in Int /\ z \in Int /\ End(h) \in Int
  BY <1>4, <1>8, <1>11
<1>13. PICK e \in Int, r \in Int, c \in Int, d \in Int, u \in Int, v \in Int :
         e = End(h) /\ r = Len(redo) /\ c = Cardinality(ToInit) /\ d = DelSize /\ u = y /\ v = z
  BY <1>10, <1>12
<1>14. v - (e - u) - 4 * (r + c) - d - 2 >= len
  BY <1>12, <1>13
<1>15. e + (4 * r + 4 * c + d) + 2 + len =< u + v
  BY ONLY <1>14, len \in Int, RoomLeft
<1> QED BY <1>10, <1>12, <1>13, <1>15

-----------------------------------------------------------------------------
\* The tags of the records (nvm-common.h:207-234).
LEMMA TagsAre ==
  /\ Tags.NEW = 101 /\ Tags.WRITE = 102 /\ Tags.REDO = 103 /\ Tags.ALLOCNODE = 104
  /\ Tags.DELNODE = 105 /\ Tags.COMMIT = 106 /\ Tags.ABORT = 107
  BY DEF Tags

\* What the tag of a record, at either end, says of it.
LEMMA RecordIs ==
  ASSUME NEW rec \in LogRecords
  PROVE  /\ rec \in Seq(Int) /\ Len(rec) \in Nat /\ Len(rec) >= 3 /\ rec[Len(rec)] = rec[1]
         /\ rec[1] \in {Tags.NEW, Tags.WRITE, Tags.ALLOCNODE}
         /\ rec[1] = Tags.NEW => Len(rec) = 4
         /\ rec[1] = Tags.WRITE => Len(rec) = 5 /\ rec[2] \in Memory /\ rec[3] \in Value \cup {0}
         /\ rec[1] = Tags.ALLOCNODE => Len(rec) = 3 /\ rec[2] \in Node
<1>1. ASSUME NEW n \in Node, NEW v \in Value, rec = NewRec(n, v)
      PROVE  rec \in Seq(Int) /\ Len(rec) = 4 /\ rec[4] = rec[1] /\ rec[1] = Tags.NEW
  <2>1. n \in Int /\ v \in Int
    BY Places
  <2> QED BY <1>1, <2>1, TagsAre DEF NewRec
<1>2. ASSUME NEW a \in Memory, NEW o \in Value \cup {0}, NEW v \in Value, rec = WriteRec(a, o, v)
      PROVE  rec \in Seq(Int) /\ Len(rec) = 5 /\ rec[5] = rec[1] /\ rec[1] = Tags.WRITE
             /\ rec[2] = a /\ rec[3] = o
  <2>1. a \in Int /\ o \in Int /\ v \in Int
    BY Places
  <2> QED BY <1>2, <2>1, TagsAre DEF WriteRec
<1>3. ASSUME NEW n \in Node, rec = AllocRec(n)
      PROVE  rec \in Seq(Int) /\ Len(rec) = 3 /\ rec[3] = rec[1] /\ rec[1] = Tags.ALLOCNODE /\ rec[2] = n
  <2>1. n \in Int
    BY Places
  <2> QED BY <1>3, <2>1, TagsAre DEF AllocRec
<1>4. \/ \E n \in Node, v \in Value : rec = NewRec(n, v)
      \/ \E a \in Memory, o \in Value \cup {0}, v \in Value : rec = WriteRec(a, o, v)
      \/ \E n \in Node : rec = AllocRec(n)
  <2>1. CASE rec \in {WriteRec(w[1], w[2], w[3]) : w \in Memory \X (Value \cup {0}) \X Value}
    <3>1. PICK w \in Memory \X (Value \cup {0}) \X Value : rec = WriteRec(w[1], w[2], w[3])
      BY <2>1
    <3> QED BY <3>1
  <2> QED BY <2>1 DEF LogRecords
<1>5. CASE \E n \in Node, v \in Value : rec = NewRec(n, v)
  <2>1. rec \in Seq(Int) /\ Len(rec) = 4 /\ rec[4] = rec[1] /\ rec[1] = Tags.NEW
    BY <1>1, <1>5
  <2>2. rec[Len(rec)] = rec[1]
    BY <2>1
  <2> QED BY <2>1, <2>2, TagsAre
<1>6. CASE \E a \in Memory, o \in Value \cup {0}, v \in Value : rec = WriteRec(a, o, v)
  <2>1. /\ rec \in Seq(Int) /\ Len(rec) = 5 /\ rec[5] = rec[1] /\ rec[1] = Tags.WRITE
        /\ rec[2] \in Memory /\ rec[3] \in Value \cup {0}
    BY <1>2, <1>6
  <2>2. rec[Len(rec)] = rec[1]
    BY <2>1
  <2> QED BY <2>1, <2>2, TagsAre
<1>7. CASE \E n \in Node : rec = AllocRec(n)
  <2>1. /\ rec \in Seq(Int) /\ Len(rec) = 3 /\ rec[3] = rec[1] /\ rec[1] = Tags.ALLOCNODE
        /\ rec[2] \in Node
    BY <1>3, <1>7
  <2>2. rec[Len(rec)] = rec[1]
    BY <2>1
  <2> QED BY <2>1, <2>2, TagsAre
<1> QED BY <1>4, <1>5, <1>6, <1>7

\* What NewRec, WriteRec and AllocRec make are records, of these sizes and fields.
LEMMA RecordsOf ==
  /\ \A n \in Node, v \in Value : NewRec(n, v) \in LogRecords /\ NewRec(n, v) \in Seq(Int)
        /\ Len(NewRec(n, v)) = 4 /\ NewRec(n, v)[1] = Tags.NEW
  /\ \A a \in Memory, o \in Value \cup {0}, v \in Value :
        /\ WriteRec(a, o, v) \in LogRecords /\ WriteRec(a, o, v) \in Seq(Int)
        /\ Len(WriteRec(a, o, v)) = 5 /\ WriteRec(a, o, v)[1] = Tags.WRITE
        /\ WriteRec(a, o, v)[2] = a /\ WriteRec(a, o, v)[3] = o
  /\ \A n \in Node : AllocRec(n) \in LogRecords /\ AllocRec(n) \in Seq(Int)
        /\ Len(AllocRec(n)) = 3 /\ AllocRec(n)[1] = Tags.ALLOCNODE /\ AllocRec(n)[2] = n
<1>1. ASSUME NEW n \in Node, NEW v \in Value
      PROVE  NewRec(n, v) \in LogRecords
  BY DEF LogRecords
<1>2. ASSUME NEW a \in Memory, NEW o \in Value \cup {0}, NEW v \in Value
      PROVE  WriteRec(a, o, v) \in LogRecords
  <2> DEFINE w == <<a, o, v>>
  <2>1. w \in Memory \X (Value \cup {0}) \X Value /\ w[1] = a /\ w[2] = o /\ w[3] = v
    OBVIOUS
  <2> HIDE DEF w
  <2> QED BY <2>1 DEF LogRecords
<1>3. ASSUME NEW n \in Node
      PROVE  AllocRec(n) \in LogRecords
  BY DEF LogRecords
<1>4. \A n \in Node, v \in Value : Len(NewRec(n, v)) = 4 /\ NewRec(n, v)[1] = Tags.NEW
  BY DEF NewRec
<1>5. \A a, o, v : Len(WriteRec(a, o, v)) = 5 /\ WriteRec(a, o, v)[1] = Tags.WRITE
        /\ WriteRec(a, o, v)[2] = a /\ WriteRec(a, o, v)[3] = o
  BY DEF WriteRec
<1>6. \A n : Len(AllocRec(n)) = 3 /\ AllocRec(n)[1] = Tags.ALLOCNODE /\ AllocRec(n)[2] = n
  BY DEF AllocRec
<1>7. \A r \in LogRecords : r \in Seq(Int)
  BY RecordIs
<1>8. \A n \in Node, v \in Value : NewRec(n, v) \in LogRecords /\ NewRec(n, v) \in Seq(Int)
        /\ Len(NewRec(n, v)) = 4 /\ NewRec(n, v)[1] = Tags.NEW
  BY <1>1, <1>4, <1>7, Zenon
<1>9. \A n \in Node : AllocRec(n) \in LogRecords /\ AllocRec(n) \in Seq(Int)
        /\ Len(AllocRec(n)) = 3 /\ AllocRec(n)[1] = Tags.ALLOCNODE /\ AllocRec(n)[2] = n
  BY <1>3, <1>6, <1>7, Zenon
<1>10. ASSUME NEW a \in Memory, NEW o \in Value \cup {0}, NEW v \in Value
       PROVE  /\ WriteRec(a, o, v) \in LogRecords /\ WriteRec(a, o, v) \in Seq(Int)
              /\ Len(WriteRec(a, o, v)) = 5 /\ WriteRec(a, o, v)[1] = Tags.WRITE
              /\ WriteRec(a, o, v)[2] = a /\ WriteRec(a, o, v)[3] = o
  <2>1. WriteRec(a, o, v) \in LogRecords
    BY <1>2
  <2>2. WriteRec(a, o, v) \in Seq(Int)
    BY <1>7, <2>1
  <2> QED BY ONLY <1>5, <2>1, <2>2
<1> QED BY <1>8, <1>9, <1>10, Zenon

\* The records of the transaction when the log grows behind them.
LEMMA LoggedStays ==
  ASSUME NEW h, NEW g, Logged(h), End(h) \in Int, End(g)' \in Int, End(h) =< End(g)',
         g.n = h.n, g.st = h.st, g.rec = h.rec,
         \A o \in Int : o < End(h) => g.byte[o] = h.byte[o],
         UNCHANGED <<tail, tx>>
  PROVE  Logged(g)'
<1>1. Offset(tail)' = Offset(tail) /\ Offset(tx)' = Offset(tx)
  BY OffsetsStay
<1>2. h.n \in Nat /\ h.st[1] = Offset(tx) /\ Offset(tail) =< Offset(tx)
  BY DEF Logged
<1>3. \A i \in 1 .. h.n + 1 :
          h.st[i] \in Int /\ Offset(tx) + i - 1 =< h.st[i] /\ h.st[i] =< End(g)'
  <2>1. \A i \in 1 .. h.n + 1 :
          h.st[i] \in Int /\ Offset(tx) + i - 1 =< h.st[i] /\ h.st[i] =< End(h)
    BY DEF Logged
  <2> QED BY <2>1
<1>4. ASSUME NEW i \in 1 .. h.n
      PROVE  /\ h.rec[i] \in LogRecords
             /\ h.st[i + 1] = h.st[i] + Len(h.rec[i])
             /\ \A j \in 1 .. Len(h.rec[i]) : g.byte[h.st[i] + j - 1] = h.rec[i][j]
  <2>1. /\ h.rec[i] \in LogRecords
        /\ h.st[i + 1] = h.st[i] + Len(h.rec[i])
        /\ \A j \in 1 .. Len(h.rec[i]) : h.byte[h.st[i] + j - 1] = h.rec[i][j]
    BY DEF Logged
  <2>2. Len(h.rec[i]) \in Nat
    BY <2>1, RecordIs
  <2>3. h.st[i] \in Int /\ h.st[i + 1] =< End(h)
    <3>1. i \in 1 .. h.n + 1 /\ i + 1 \in 1 .. h.n + 1
      BY <1>2
    <3> QED BY <3>1 DEF Logged
  <2>4. ASSUME NEW j \in 1 .. Len(h.rec[i])
        PROVE  g.byte[h.st[i] + j - 1] = h.rec[i][j]
    <3>1. h.st[i] + j - 1 \in Int /\ h.st[i] + j - 1 < End(h)
      <4>1. h.st[i] \in Int /\ h.st[i] + Len(h.rec[i]) =< End(h) /\ End(h) \in Int
            /\ j \in 1 .. Len(h.rec[i]) /\ Len(h.rec[i]) \in Nat
        BY <2>1, <2>2, <2>3
      <4> QED BY ONLY <4>1
    <3> QED BY <2>1, <3>1
  <2> QED BY <2>1, <2>4
<1> QED
  BY <1>1, <1>2, <1>3, <1>4 DEF Logged

\* The account when the transaction logs one more record.
Extends(h, g, rec) ==
    /\ g.n = h.n + 1
    /\ g.rec = [i \in 1 .. h.n + 1 |-> IF i = h.n + 1 THEN rec ELSE h.rec[i]]
    /\ g.st = [i \in 1 .. h.n + 2 |-> IF i = h.n + 2 THEN End(h) + Len(rec) ELSE h.st[i]]

\* The account with one more record, record by record.
LEMMA ExtendsIs ==
  ASSUME NEW h, NEW g, NEW rec \in LogRecords, h.n \in Nat, Extends(h, g, rec)
  PROVE  /\ g.n = h.n + 1 /\ h.n + 1 \in 1 .. g.n
         /\ \A i \in 1 .. h.n : g.rec[i] = h.rec[i] /\ i \in 1 .. g.n
         /\ \A i \in 1 .. g.n : i \in 1 .. h.n \/ i = h.n + 1
         /\ g.rec[h.n + 1] = rec
         /\ \A i \in 1 .. h.n + 1 : g.st[i] = h.st[i]
         /\ g.st[g.n + 1] = End(h) + Len(rec)
  BY DEF Extends

\* The records of the transaction when it logs one more, whose bytes follow.
LEMMA LoggedMore ==
  ASSUME NEW h, NEW g, NEW rec \in LogRecords, Logged(h), Extends(h, g, rec),
         End(h) \in Int, h.st[h.n + 1] = End(h), End(g)' = End(h) + Len(rec),
         \A o \in Int : o < End(h) => g.byte[o] = h.byte[o],
         \A j \in 1 .. Len(rec) : rec[j] = g.byte[End(h) + j - 1],
         UNCHANGED <<tail, tx>>
  PROVE  Logged(g)' /\ g.st[g.n + 1] = End(g)'
<1>1. Offset(tail)' = Offset(tail) /\ Offset(tx)' = Offset(tx)
  BY OffsetsStay
<1>2. /\ h.n \in Nat /\ h.st[1] = Offset(tx) /\ Offset(tail) =< Offset(tx)
      /\ \A i \in 1 .. h.n + 1 :
            h.st[i] \in Int /\ Offset(tx) + i - 1 =< h.st[i] /\ h.st[i] =< End(h)
  BY DEF Logged
<1>3. /\ g.n = h.n + 1 /\ h.n + 1 \in 1 .. g.n
      /\ \A i \in 1 .. h.n : g.rec[i] = h.rec[i] /\ i \in 1 .. g.n
      /\ \A i \in 1 .. g.n : i \in 1 .. h.n \/ i = h.n + 1
      /\ g.rec[h.n + 1] = rec
      /\ \A i \in 1 .. h.n + 1 : g.st[i] = h.st[i]
      /\ g.st[g.n + 1] = End(h) + Len(rec)
  BY ONLY <1>2, rec \in LogRecords, Extends(h, g, rec), ExtendsIs
<1>4. Len(rec) \in Nat /\ Len(rec) >= 3
  BY RecordIs
<1>5. Offset(tx) \in Int /\ Offset(tx) + h.n =< End(h)
  <2>1. 1 \in 1 .. h.n + 1 /\ h.n + 1 \in 1 .. h.n + 1
    BY <1>2
  <2>2. h.st[1] \in Int /\ Offset(tx) + (h.n + 1) - 1 =< h.st[h.n + 1]
    BY <1>2, <2>1
  <2> QED BY <1>2, <2>2
<1>6. ASSUME NEW i \in 1 .. g.n + 1
      PROVE  g.st[i] \in Int /\ Offset(tx) + i - 1 =< g.st[i] /\ g.st[i] =< End(g)'
  <2>1. CASE i = g.n + 1
    <3>1. g.st[i] = End(h) + Len(rec) /\ i = h.n + 2 /\ End(g)' = End(h) + Len(rec)
      BY <1>2, <1>3, <2>1
    <3>2. h.n \in Nat /\ Offset(tx) \in Int /\ Offset(tx) + h.n =< End(h)
      BY <1>2, <1>5, Zenon
    <3>3. PICK m, e, l, o : m = h.n /\ e = End(h) /\ l = Len(rec) /\ o = Offset(tx)
      OBVIOUS
    <3>4. g.st[i] = e + l /\ i = m + 2 /\ End(g)' = e + l
      BY ONLY <3>1, <3>3
    <3>5. m \in Nat /\ o \in Int /\ o + m =< e /\ e \in Int /\ l \in Nat /\ l >= 3
      BY ONLY <1>4, <3>2, <3>3, End(h) \in Int
    <3>6. e + l \in Int /\ o + (m + 2) - 1 =< e + l
      BY ONLY <3>5
    <3> QED BY ONLY <3>3, <3>4, <3>6, <3>5
  <2>2. CASE i # g.n + 1
    <3>1. i \in 1 .. h.n + 1
      BY <1>2, <1>3, <2>2
    <3>2. /\ g.st[i] = h.st[i] /\ h.st[i] \in Int
          /\ Offset(tx) + i - 1 =< h.st[i] /\ h.st[i] =< End(h)
      BY <1>2, <1>3, <3>1
    <3>3. End(g)' = End(h) + Len(rec) /\ Len(rec) \in Nat /\ End(h) \in Int
      BY <1>4
    <3> QED BY ONLY <3>2, <3>3
  <2> QED BY <2>1, <2>2
<1>7. ASSUME NEW i \in 1 .. g.n
      PROVE  /\ g.rec[i] \in LogRecords
             /\ g.st[i + 1] = g.st[i] + Len(g.rec[i])
             /\ \A j \in 1 .. Len(g.rec[i]) : g.byte[g.st[i] + j - 1] = g.rec[i][j]
  <2>1. CASE i = h.n + 1
    <3>1. g.st[i] = End(h) /\ g.st[i + 1] = End(h) + Len(rec)
      <4>1. h.n + 1 \in 1 .. h.n + 1
        BY <1>2
      <4> QED BY <1>3, <2>1, <4>1
    <3> QED BY <1>3, <2>1, <3>1
  <2>2. CASE i \in 1 .. h.n
    <3>1. /\ h.rec[i] \in LogRecords
          /\ h.st[i + 1] = h.st[i] + Len(h.rec[i])
          /\ \A j \in 1 .. Len(h.rec[i]) : h.byte[h.st[i] + j - 1] = h.rec[i][j]
      BY <2>2 DEF Logged
    <3>2. Len(h.rec[i]) \in Nat
      BY <3>1, RecordIs
    <3>3. i \in 1 .. h.n + 1 /\ i + 1 \in 1 .. h.n + 1
      BY <1>2, <2>2
    <3>4. h.st[i] \in Int /\ h.st[i + 1] =< End(h) /\ g.st[i] = h.st[i] /\ g.st[i + 1] = h.st[i + 1]
      BY <1>2, <1>3, <3>3
    <3>5. ASSUME NEW j \in 1 .. Len(h.rec[i])
          PROVE  g.byte[h.st[i] + j - 1] = h.rec[i][j]
      <4>1. h.st[i] + j - 1 \in Int /\ h.st[i] + j - 1 < End(h)
        <5>1. h.st[i] \in Int /\ h.st[i] + Len(h.rec[i]) =< End(h) /\ End(h) \in Int
              /\ j \in 1 .. Len(h.rec[i]) /\ Len(h.rec[i]) \in Nat
          BY <3>1, <3>2, <3>4
        <5> QED BY ONLY <5>1
      <4> QED BY <3>1, <4>1
    <3> QED BY <1>3, <2>2, <3>1, <3>4, <3>5
  <2> QED BY <1>3, <2>1, <2>2
<1>8. g.st[1] = Offset(tx) /\ g.n \in Nat
  <2>1. 1 \in 1 .. h.n + 1
    BY <1>2
  <2> QED BY <1>2, <1>3, <2>1, SMTT(60)
<1> QED
  BY <1>1, <1>2, <1>3, <1>6, <1>7, <1>8 DEF Logged

-----------------------------------------------------------------------------
\* The parts of the invariant that a step leaves alone with what they read.
LEMMA BufferStays ==
  ASSUME NEW h, UNCHANGED <<area, wr, todo, mid, tail>>
  PROVE  /\ Copied(h)' = Copied(h) /\ ToCopy(h)' = ToCopy(h) /\ End(h)' = End(h) /\ Limit' = Limit
         /\ Offset(wr)' = Offset(wr) /\ Offset(tail)' = Offset(tail)
<1>1. /\ Offset(wr)' = Offset(wr) /\ Offset(tail)' = Offset(tail)
      /\ AbsLine(wr)' = AbsLine(wr) /\ (\A m : Version(m)' = Version(m))
      /\ (\A m, b : Place(m, b)' = Place(m, b))
  BY DEF Offset, AbsLine, Version, Place, PerLine, Lines
<1>2. Copied(h)' = Copied(h)
  BY <1>1 DEF Copied
<1>3. ToCopy(h)' = ToCopy(h) /\ End(h)' = End(h)
  BY <1>1 DEF ToCopy, End
<1>4. Limit' = Limit
  BY DEF Limit, PerLine
<1> QED
  BY <1>1, <1>2, <1>3, <1>4

\* The limit depends on where recovery starts.
LEMMA LimitStays ==
  ASSUME UNCHANGED tail PROVE Limit' = Limit
  BY DEF Limit, PerLine

\* The types of the log stay when the log does.
LEMMA TypesStay ==
  ASSUME LogTypes, UNCHANGED <<area, wr, todo, mid, tail, tx>>
  PROVE  LogTypes'
  BY DEF LogTypes

\* The types of the data stay when the data does.
LEMMA DataStays ==
  ASSUME DataTypes, UNCHANGED <<data, nvmData, live, nvmLive, redo, del, written>>,
         DOMAIN nvm' = Lines, base' \in [Memory -> Value \cup {0, RAW, FREE}]
  PROVE  DataTypes'
  BY DEF DataTypes, Memory, Lines, RAW, FREE

\* What the records say of the old store stays when the records and data do.
LEMMA KnownStays ==
  ASSUME NEW h, NEW g, BaseKnown(h), g.n = h.n, g.rec = h.rec, UNCHANGED <<data, live, base>>
  PROVE  BaseKnown(g)'
<1>1. Allocated(g) = Allocated(h) /\ Allocated(g)' = Allocated(g)
  BY DEF Allocated, Tags
<1>2. \A i, p : Writes(g, i, p)' = Writes(h, i, p)
  BY DEF Writes, Tags
<1>3. \A i, p : First(g, i, p)' = First(h, i, p)
  BY <1>2 DEF First
<1> QED
  BY <1>1, <1>2, <1>3 DEF BaseKnown, Memory, RAW, FREE

\* startMiniTransaction (nvm-common.h:833): no records yet, and the store is the
\* committed one.
LEMMA StartKeeps ==
  ASSUME NEW h, IInv(h), StartMiniTransaction
  PROVE  \E g : IInv(g)'
<1>1. /\ LogTypes /\ DataTypes /\ Copied(h) /\ ToCopy(h) /\ Fits(h) /\ Quiet /\ Phases(h)
      /\ StoreKnown(h)
  BY DEF IInv
<1>2. /\ pc = "none" /\ pc' = "run" /\ Room(0) /\ tx' = wr /\ redo' = <<>> /\ del' = <<>>
      /\ UNCHANGED <<area, nvm, wr, todo, mid, data, nvmData, live, nvmLive, tail, next, written, base>>
  BY DEF StartMiniTransaction, bufVars
<1>3. redo = <<>> /\ del = <<>> /\ todo = <<>> /\ wr.next < LineSize /\ next = NoStore
  BY <1>1, <1>2 DEF Phases, Quiet, StoreKnown
<1>4. PICK g : g = [byte |-> h.byte, td |-> h.td, n |-> 0, st |-> [i \in {1} |-> Offset(wr)], rec |-> <<>>]
  OBVIOUS
<1>5. g.byte = h.byte /\ g.td = h.td /\ g.n = 0 /\ g.st[1] = Offset(wr)
  BY <1>4
<1>6. /\ Copied(g)' /\ ToCopy(g)' /\ End(g)' = End(h) /\ Limit' = Limit
      /\ Offset(wr)' = Offset(wr) /\ Offset(tail)' = Offset(tail)
  <2>1. Copied(g) /\ ToCopy(g) /\ End(g) = End(h)
    BY <1>1, <1>5 DEF Copied, ToCopy, End
  <2> QED BY <1>2, <2>1, BufferStays
<1>7. End(h) = Offset(wr) /\ Offset(wr) \in Int /\ Offset(tail) =< Offset(wr)
  BY <1>1, <1>3, EndBehind DEF Copied
<1>8. LogTypes'
  <2>1. wr \in [ver : {0, 1}, off : {0} \cup 2 .. LineSize - 1, line : Lines, next : 2 .. LineSize - 1]
    <3>1. wr.next \in 2 .. LineSize - 1
      BY <1>1, <1>3, LogAssumption, Sizes DEF LogTypes
    <3> QED BY <1>1, <3>1 DEF LogTypes
  <2> QED BY <1>1, <1>2, <2>1 DEF LogTypes
<1>9. DataTypes'
  BY <1>1, <1>2, <1>3, DataStays DEF DataTypes
<1>10. Fits(g)'
  <2>1. End(h) + Needs + 2 + 0 =< Limit
    BY <1>1, <1>2, <1>3, RoomIs
  <2>2. Needs' = Needs /\ Needs \in Nat
    BY <1>1, <1>2, <1>3, NeedsStay, NeedsIs
  <2>3. End(h) \in Int /\ Limit \in Int
    BY <1>1, <1>7, LimitIs
  <2> QED BY <1>2, <1>6, <2>1, <2>2, <2>3 DEF Fits
<1>11. Quiet'
  BY <1>1, <1>2, <1>3 DEF Quiet
<1>12. Offset(tx)' = Offset(wr)
  BY <1>2, <1>6 DEF Offset, AbsLine
<1>13. Phases(g)'
  BY <1>2, <1>5, <1>6, <1>7 DEF Phases, CommitFilledLine
<1>14. Logged(g)'
  BY <1>5, <1>6, <1>7, <1>12 DEF Logged
<1>15. BaseKnown(g)'
  <2>1. /\ \A p \in Memory : base[p] = IF p \in Addr \cup live THEN data[p] ELSE FREE
        /\ \A p \in live : data[p] # RAW
    <3>1. base = Working /\ Deleted = {}
      BY <1>1, <1>2, <1>3, NothingToRedo DEF Phases, Intact
    <3> QED BY <1>1, <1>2, <1>3, <3>1, NothingToRedo DEF Phases
  <2>2. Allocated(g)' = {}
    BY <1>5 DEF Allocated
  <2>3. \A p \in Addr : data[p] # RAW
    BY <1>1 DEF DataTypes
  <2> QED BY <1>2, <1>5, <2>1, <2>2, <2>3 DEF BaseKnown, Memory, RAW, FREE
<1>16. StoreKnown(g)' /\ Undoing(g)'
  BY <1>2, <1>3 DEF StoreKnown, Undoing, NoStore
<1> QED
  BY <1>6, <1>8, <1>9, <1>10, <1>11, <1>13, <1>14, <1>15, <1>16, Gather

-----------------------------------------------------------------------------
\* Whether the store is the committed one depends on the data only.
LEMMA IntactStays ==
  ASSUME UNCHANGED <<redo, del, live, data, base>>
  PROVE  (Intact' <=> Intact) /\ Deleted' = Deleted
  BY WorkingSame DEF Intact

\* Where abort stands stays when the log and the position do.
LEMMA UndoingStays ==
  ASSUME NEW h, Undoing(h), UNCHANGED <<area, wr, tail, pc, back>>
  PROVE  Undoing(h)'
<1>1. /\ (\A m : Version(m)' = Version(m)) /\ (\A m, b : Place(m, b)' = Place(m, b))
  BY DEF Version, Place, PerLine, Lines
<1>2. \A o : BackAt(o)' <=> BackAt(o)
  BY <1>1 DEF BackAt
<1> QED
  BY <1>2 DEF Undoing

\* The store that is due stays covered by a record.
LEMMA StoreKnownStays ==
  ASSUME NEW h, NEW g, StoreKnown(h), g.n = h.n, g.rec = h.rec, UNCHANGED <<pc, next, live>>
  PROVE  StoreKnown(g)'
<1>1. Allocated(g)' = Allocated(h)
  BY DEF Allocated, Tags
<1>2. \A i, p : Writes(g, i, p)' = Writes(h, i, p)
  BY DEF Writes, Tags
<1>3. NoStore' = NoStore
  BY DEF NoStore
<1>4. CASE pc \in {"log", "store"} /\ next # NoStore
  <2>1. pc' \in {"log", "store"} /\ next' # NoStore'
    BY <1>3, <1>4
  <2>2. /\ next' \in [addr : Addr \cup live', val : Value]
        /\ next'.addr \in Allocated(g)' \/ \E i \in 1 .. g.n : Writes(g, i, next.addr)'
    BY <1>1, <1>2, <1>4 DEF StoreKnown
  <2> QED BY <2>1, <2>2 DEF StoreKnown
<1>5. CASE ~(pc \in {"log", "store"} /\ next # NoStore)
  BY <1>3, <1>5 DEF StoreKnown
<1> QED BY <1>4, <1>5

\* A step that leaves all that the account is about keeps the account.
LEMMA AllStays ==
  ASSUME NEW h, IInv(h), DataTypes',
         UNCHANGED <<area, wr, todo, mid, data, live, tail, tx, redo, del, pc, next, back, base>>
  PROVE  IInv(h)'
<1>1. /\ LogTypes /\ DataTypes /\ Copied(h) /\ ToCopy(h) /\ Fits(h) /\ Quiet /\ Phases(h)
      /\ (InTx => Logged(h) /\ BaseKnown(h)) /\ StoreKnown(h) /\ Undoing(h)
  BY DEF IInv
<1>2. /\ LogTypes' /\ Copied(h)' /\ ToCopy(h)' /\ End(h)' = End(h) /\ Limit' = Limit
      /\ Offset(wr)' = Offset(wr) /\ Offset(tail)' = Offset(tail) /\ Offset(tx)' = Offset(tx)
  BY <1>1, TypesStay, BufferStays, OffsetsStay
<1>3. Fits(h)'
  <2>1. Needs' = Needs
    BY NeedsStay
  <2> QED BY <1>1, <1>2, <2>1 DEF Fits
<1>4. Quiet'
  BY <1>1 DEF Quiet
<1>5. Phases(h)'
  <2>1. (Intact' <=> Intact) /\ Deleted' = Deleted
    BY IntactStays
  <2>2. CommitFilledLine' <=> CommitFilledLine
    BY DEF CommitFilledLine, Written
  <2> QED BY <1>1, <1>2, <2>1, <2>2 DEF Phases, RAW
<1>6. InTx' => Logged(h)' /\ BaseKnown(h)'
  <2>1. InTx' <=> InTx
    BY DEF InTx
  <2>2. Logged(h) => Logged(h)'
    BY <1>2 DEF Logged, LogRecords, NewRec, WriteRec, AllocRec, Tags, Memory
  <2>3. BaseKnown(h) => BaseKnown(h)'
    BY KnownStays
  <2> QED BY <1>1, <2>1, <2>2, <2>3
<1>7. StoreKnown(h)' /\ Undoing(h)'
  BY <1>1, StoreKnownStays, UndoingStays
<1> QED
  BY <1>1, <1>2, <1>3, <1>4, <1>5, <1>6, <1>7, AllOf

\* A step that changes nothing keeps the account.
LEMMA StutterKeeps ==
  ASSUME NEW h, IInv(h), UNCHANGED vars
  PROVE  IInv(h)'
<1>1. DataTypes
  BY DEF IInv
<1>2. DataTypes'
  BY <1>1, DataStays DEF DataTypes, vars, bufVars
<1> QED
  BY <1>2, AllStays DEF vars, bufVars

\* The cache writes a line of the log back: NVM changes, and the account is of the
\* log as the thread sees it.
LEMMA EvictLogKeeps ==
  ASSUME NEW h, IInv(h), NEW l \in Lines, EvictLogLine(l)
  PROVE  IInv(h)'
<1>1. DataTypes
  BY DEF IInv
<1>2. DOMAIN nvm' = Lines
  BY <1>1 DEF DataTypes, EvictLogLine, EvictLine
<1>3. DataTypes'
  BY <1>1, <1>2, DataStays DEF DataTypes, EvictLogLine
<1> QED
  BY <1>3, AllStays DEF EvictLogLine, EvictLine

\* The cache writes data back: likewise.
LEMMA EvictDataKeeps ==
  ASSUME NEW h, IInv(h), NEW a \in Memory, EvictData(a)
  PROVE  IInv(h)'
<1>1. DataTypes
  BY DEF IInv
<1>2. nvmData' \in [Memory -> Value \cup {0, RAW}]
  BY <1>1 DEF DataTypes, EvictData
<1>3. DataTypes'
  BY <1>1, <1>2 DEF DataTypes, EvictData, bufVars, Memory, Lines, RAW, FREE
<1> QED
  BY <1>3, AllStays DEF EvictData, bufVars

\* The parts that a step of a running transaction leaves alone that logs
\* nothing and stores nothing.
LEMMA RunKeeps ==
  ASSUME NEW h, IInv(h), pc = "run", pc' = "run", DataTypes', NEW len \in Nat, Room(len),
         Needs' = Needs + len,
         UNCHANGED <<area, wr, todo, mid, data, live, tail, tx, next, back, base>>
  PROVE  \E g : IInv(g)'
<1>1. /\ LogTypes /\ DataTypes /\ Copied(h) /\ ToCopy(h) /\ Fits(h) /\ Quiet /\ Phases(h)
      /\ Logged(h) /\ BaseKnown(h) /\ StoreKnown(h) /\ Undoing(h)
  BY DEF IInv, InTx
<1>2. /\ LogTypes' /\ Copied(h)' /\ ToCopy(h)' /\ End(h)' = End(h) /\ Limit' = Limit
      /\ Offset(wr)' = Offset(wr) /\ Offset(tail)' = Offset(tail) /\ Offset(tx)' = Offset(tx)
  BY <1>1, TypesStay, BufferStays, OffsetsStay
<1>3. Fits(h)'
  <2>1. todo = <<>> /\ next = NoStore
    BY <1>1 DEF Quiet, StoreKnown
  <2>2. Needs \in Int /\ Limit \in Int /\ End(h) \in Int
    BY <1>1, NeedsIs, LimitIs, EndBehind
  <2>3. End(h) + Needs + 2 + len =< Limit
    BY <1>1, <2>1, RoomIs
  <2>4. End(h) + Needs' + 2 =< Limit
    BY <2>2, <2>3
  <2> QED BY <1>1, <1>2, <2>4 DEF Fits
<1>4. Quiet'
  BY <1>1 DEF Quiet
<1>5. Phases(h)'
  BY <1>1, <1>2 DEF Phases, CommitFilledLine
<1>6. Logged(h)'
  BY <1>1, <1>2 DEF Logged, LogRecords, NewRec, WriteRec, AllocRec, Tags, Memory
<1>7. BaseKnown(h)'
  BY <1>1, KnownStays
<1>8. StoreKnown(h)' /\ Undoing(h)'
  BY <1>1, StoreKnownStays, UndoingStays
<1> QED
  BY <1>2, <1>3, <1>4, <1>5, <1>6, <1>7, <1>8, Gather

\* redoWrite (nvm-common.h:1382) logs nothing yet; commit will need four bytes.
LEMMA RedoWriteKeeps ==
  ASSUME NEW h, IInv(h), NEW a \in Memory, NEW v \in Value, RedoWrite(a, v)
  PROVE  \E g : IInv(g)'
<1>1. /\ pc = "run" /\ Room(4) /\ redo' = Append(redo, [addr |-> a, val |-> v])
      /\ a \in Addr \cup live
      /\ UNCHANGED <<area, nvm, wr, todo, mid, data, nvmData, live, nvmLive, tail, tx, del, pc, next,
                     back, written, base>>
  BY DEF RedoWrite, bufVars
<1>2. DataTypes
  BY DEF IInv
<1>3. redo \in Seq([addr : Memory, val : Value]) /\ [addr |-> a, val |-> v] \in [addr : Memory, val : Value]
  BY <1>2 DEF DataTypes
<1> DEFINE r == [addr |-> a, val |-> v]
<1>4. /\ redo' \in Seq([addr : Memory, val : Value]) /\ Len(redo') = Len(redo) + 1
      /\ \A i \in 1 .. Len(redo) + 1 : redo'[i] = IF i = Len(redo) + 1 THEN r ELSE redo[i]
  <2> HIDE DEF r
  <2> QED BY <1>1, <1>3 DEF r
<1>5. \A i \in 1 .. Len(redo') : redo'[i].addr \in Addr \cup live
  <2>1. \A i \in 1 .. Len(redo) : redo[i].addr \in Addr \cup live
    BY <1>2 DEF DataTypes
  <2>2. r.addr = a
    OBVIOUS
  <2> HIDE DEF r
  <2>3. Len(redo) \in Nat
    BY <1>3
  <2>4. \A i \in 1 .. Len(redo) + 1 : i = Len(redo) + 1 \/ i \in 1 .. Len(redo)
    BY <2>3
  <2> QED BY <1>1, <1>4, <2>1, <2>2, <2>4
<1>6. DataTypes'
  BY <1>1, <1>2, <1>4, <1>5 DEF DataTypes, Memory, Lines, RAW, FREE
<1>7. Needs' = Needs + 4
  <2>1. ToInit' = ToInit /\ DelSize' = DelSize
    BY <1>1 DEF ToInit, DelSize
  <2>2. /\ Cardinality(ToInit) \in Nat /\ Len(redo) \in Nat /\ DelSize \in Nat
    BY <1>2, NeedsIs
  <2>3. Needs' = 4 * (Len(redo) + 1 + Cardinality(ToInit)) + DelSize
        /\ Needs = 4 * (Len(redo) + Cardinality(ToInit)) + DelSize
    BY <1>4, <2>1 DEF Needs
  <2> QED BY <2>2, <2>3
<1> QED
  BY <1>1, <1>6, <1>7, RunKeeps

\* delNode (nvm-common.h:1447) logs nothing yet; commit will need the node's byte,
\* and four more for the first.
LEMMA DelNodeKeeps ==
  ASSUME NEW h, IInv(h), NEW n \in Node, DelNode(n)
  PROVE  \E g : IInv(g)'
<1>1. /\ pc = "run" /\ n \in live /\ Room(IF del = <<>> THEN 5 ELSE 1) /\ del' = Append(del, n)
      /\ UNCHANGED <<area, nvm, wr, todo, mid, data, nvmData, live, nvmLive, tail, tx, redo, pc, next,
                     back, written, base>>
  BY DEF DelNode, bufVars
<1>2. DataTypes
  BY DEF IInv
<1>3. del \in Seq(Node) /\ Len(del) \in Nat /\ (del = <<>> => Len(del) = 0)
  BY <1>2 DEF DataTypes
<1>4. /\ del' \in Seq(Node) /\ Len(del') = Len(del) + 1
      /\ \A i \in 1 .. Len(del) + 1 : del'[i] = IF i = Len(del) + 1 THEN n ELSE del[i]
      /\ del' # <<>>
  BY <1>1, <1>3
<1>5. \A i \in 1 .. Len(del') : del'[i] \in live
  <2>1. \A i \in 1 .. Len(del) : del[i] \in live
    BY <1>2 DEF DataTypes
  <2>2. \A i \in 1 .. Len(del) + 1 : i = Len(del) + 1 \/ i \in 1 .. Len(del)
    BY <1>3
  <2> QED BY <1>1, <1>4, <2>1, <2>2
<1>6. DataTypes'
  BY <1>1, <1>2, <1>4, <1>5 DEF DataTypes, Memory, Lines, RAW, FREE
<1>7. PICK len \in Nat : len = IF del = <<>> THEN 5 ELSE 1
  OBVIOUS
<1>8. Needs' = Needs + len
  <2>1. ToInit' = ToInit
    BY <1>1 DEF ToInit
  <2>2. Cardinality(ToInit) \in Nat /\ Len(redo) \in Nat /\ DelSize \in Nat
    BY <1>2, NeedsIs
  <2>3. DelSize' = DelSize + len
    BY <1>3, <1>4, <1>7 DEF DelSize
  <2>4. Needs' = 4 * (Len(redo) + Cardinality(ToInit)) + (DelSize + len)
        /\ Needs = 4 * (Len(redo) + Cardinality(ToInit)) + DelSize
    BY <1>1, <2>1, <2>3 DEF Needs
  <2> QED BY <2>2, <2>4
<1>9. Room(len)
  BY <1>1, <1>7
<1> QED
  BY <1>1, <1>6, <1>8, <1>9, RunKeeps

-----------------------------------------------------------------------------
\* What a record logged makes of the account.
LEMMA LogKeeps ==
  ASSUME NEW h, IInv(h), NEW rec \in LogRecords, NEW st, NEW to \in {"log", "store"}, Log(rec, st, to)
  PROVE  /\ todo = <<>> /\ next = NoStore /\ End(h) \in Int /\ Limit \in Int
         /\ LogTypes' /\ Quiet' /\ Limit' = Limit
         /\ \E g : /\ Copied(g)' /\ ToCopy(g)' /\ Extends(h, g, rec) /\ End(g)' = End(h) + Len(rec)
                   /\ Logged(g)' /\ Phases(g)' /\ Undoing(g)'
<1>1. /\ LogTypes /\ DataTypes /\ Copied(h) /\ ToCopy(h) /\ Fits(h) /\ Quiet /\ Phases(h)
      /\ StoreKnown(h)
  BY DEF IInv
<1>2. /\ pc = "run" /\ todo' = <<rec>> /\ next' = st /\ pc' = to
      /\ UNCHANGED <<area, nvm, wr, mid, data, nvmData, nvmLive, tail, tx, redo, del, back, written, base>>
  BY DEF Log
<1>3. Logged(h) /\ BaseKnown(h) /\ todo = <<>> /\ next = NoStore
  BY <1>1, <1>2 DEF IInv, InTx, Quiet, StoreKnown
<1>4. End(h) \in Int /\ Limit \in Int /\ Limit' = Limit
  BY <1>1, <1>2, EndBehind, LimitIs, LimitStays
<1>5. PICK g : g = [byte |-> [o \in Int |->
                       IF o < Offset(wr) THEN h.byte[o]
                       ELSE LET q == CHOOSE q \in 1 .. Len(<<rec>>) : OnePiece(rec)[q] =< o /\ o < OnePiece(rec)[q + 1]
                            IN <<rec>>[q][o - OnePiece(rec)[q] + 1]],
                    td |-> OnePiece(rec), n |-> h.n + 1,
                    rec |-> [i \in 1 .. h.n + 1 |-> IF i = h.n + 1 THEN rec ELSE h.rec[i]],
                    st |-> [i \in 1 .. h.n + 2 |-> IF i = h.n + 2 THEN End(h) + Len(rec) ELSE h.st[i]]]
  OBVIOUS
<1>6. g.td = OnePiece(rec)
  BY <1>5
<1>7. PutTo(h, g, <<rec>>)
  BY <1>5, <1>6 DEF PutTo
<1>8. Extends(h, g, rec)
  BY <1>5 DEF Extends
<1>9. rec \in Seq(Int) /\ Len(rec) \in Nat /\ Len(rec) >= 3
  BY RecordIs
<1> HIDE <1>5
<1>10. /\ LogTypes' /\ Copied(g)' /\ ToCopy(g)'
       /\ End(g)' = End(h) + Len(rec)
  BY <1>1, <1>2, <1>3, <1>6, <1>7, <1>9, LogAssumption, PutOne
<1>11. \A o \in Int : o < End(h) => g.byte[o] = h.byte[o]
  BY <1>1, <1>2, <1>3, <1>6, <1>7, <1>9, LogAssumption, PutOne
<1>12. \A j \in 1 .. Len(rec) : rec[j] = g.byte[End(h) + j - 1]
  BY <1>1, <1>2, <1>3, <1>6, <1>7, <1>9, LogAssumption, PutOne
<1>13. Logged(g)' /\ g.st[g.n + 1] = End(g)'
  <2>1. h.st[h.n + 1] = End(h)
    BY <1>1, <1>2 DEF Phases
  <2> QED BY <1>2, <1>3, <1>4, <1>8, <1>10, <1>11, <1>12, <2>1, LoggedMore
<1>14. Quiet'
  <2>1. rec # <<>>
    BY <1>9
  <2>2. \A q \in 1 .. Len(<<rec>>) : <<rec>>[q] # <<>>
    BY <2>1
  <2> QED BY <1>2, <2>2 DEF Quiet
<1>15. Phases(g)' /\ Undoing(g)'
  BY <1>2, <1>13 DEF Phases, CommitFilledLine, Undoing
<1> QED
  BY <1>3, <1>4, <1>8, <1>10, <1>13, <1>14, <1>15

\* What the last record means for the others.
LEMMA ExtendsMeans ==
  ASSUME NEW h, NEW g, NEW rec \in LogRecords, h.n \in Nat, Extends(h, g, rec)
  PROVE  /\ \A i \in 1 .. h.n : g.rec[i] = h.rec[i]
         /\ \A p : \A i \in 1 .. h.n : Writes(g, i, p) <=> Writes(h, i, p)
         /\ \A p : \A i \in 1 .. h.n : First(g, i, p) <=> First(h, i, p)
         /\ \A p : Writes(g, h.n + 1, p) <=> rec[1] = Tags.WRITE /\ rec[2] = p
         /\ \A p : First(g, h.n + 1, p) <=>
                     /\ rec[1] = Tags.WRITE /\ rec[2] = p
                     /\ \A i \in 1 .. h.n : ~Writes(h, i, p)
         /\ rec[1] = Tags.ALLOCNODE => Allocated(g) = Allocated(h) \cup {rec[2]}
         /\ rec[1] # Tags.ALLOCNODE => Allocated(g) = Allocated(h)
<1>1. /\ g.n = h.n + 1 /\ h.n + 1 \in 1 .. g.n
      /\ \A i \in 1 .. h.n : g.rec[i] = h.rec[i] /\ i \in 1 .. g.n
      /\ \A i \in 1 .. g.n : i \in 1 .. h.n \/ i = h.n + 1
      /\ g.rec[h.n + 1] = rec
  BY ExtendsIs
<1>2. \A p : \A i \in 1 .. h.n : Writes(g, i, p) <=> Writes(h, i, p)
  BY <1>1 DEF Writes
<1>3. \A p : \A i \in 1 .. h.n : First(g, i, p) <=> First(h, i, p)
  <2>1. \A i \in 1 .. h.n : \A j \in 1 .. i - 1 : j \in 1 .. h.n
    OBVIOUS
  <2> QED BY <1>2, <2>1 DEF First
<1>4. \A p : Writes(g, h.n + 1, p) <=> rec[1] = Tags.WRITE /\ rec[2] = p
  BY <1>1 DEF Writes
<1>5. \A p : First(g, h.n + 1, p) <=>
                     /\ rec[1] = Tags.WRITE /\ rec[2] = p
                     /\ \A i \in 1 .. h.n : ~Writes(h, i, p)
  <2>1. h.n + 1 - 1 = h.n
    OBVIOUS
  <2> QED BY <1>2, <1>4, <2>1 DEF First
<1>6. ASSUME NEW x PROVE x \in Allocated(g) <=>
          x \in Allocated(h) \/ (rec[1] = Tags.ALLOCNODE /\ x = rec[2])
  <2>1. x \in Allocated(g) <=> \E i \in 1 .. g.n : g.rec[i][1] = Tags.ALLOCNODE /\ x = g.rec[i][2]
    BY DEF Allocated
  <2>2. x \in Allocated(h) <=> \E i \in 1 .. h.n : h.rec[i][1] = Tags.ALLOCNODE /\ x = h.rec[i][2]
    BY DEF Allocated
  <2> QED BY <1>1, <2>1, <2>2
<1> QED
  BY <1>1, <1>2, <1>3, <1>4, <1>5, <1>6

\* BaseKnown after a step, one address at a time.
LEMMA KnownNow ==
  ASSUME NEW g,
         \A p \in Memory :
            /\ p \notin Addr \cup (live' \ Allocated(g)) => base'[p] = FREE
            /\ p \in Addr \cup (live' \ Allocated(g)) =>
                 /\ data'[p] # RAW
                 /\ \A i \in 1 .. g.n : First(g, i, p) => base'[p] = g.rec[i][3]
                 /\ (\A i \in 1 .. g.n : ~Writes(g, i, p)) => base'[p] = data'[p]
  PROVE  BaseKnown(g)'
<1>1. Allocated(g)' = Allocated(g)
  BY DEF Allocated, Tags
<1>2. \A i, p : Writes(g, i, p)' <=> Writes(g, i, p)
  BY DEF Writes, Tags
<1>3. \A i, p : First(g, i, p)' <=> First(g, i, p)
  BY <1>2 DEF First
<1> QED BY <1>1, <1>2, <1>3 DEF BaseKnown, Memory, RAW, FREE

\* The store that follows a record is covered by it.
LEMMA StoreKnownNow ==
  ASSUME NEW g, next' \in [addr : Addr \cup live', val : Value], next'.addr \in Memory,
         next'.addr \in Allocated(g) \/ \E i \in 1 .. g.n : Writes(g, i, next'.addr)
  PROVE  pc' \in {"log", "store"} => StoreKnown(g)'
<1>1. Allocated(g)' = Allocated(g)
  BY DEF Allocated, Tags
<1>2. \A i, p : Writes(g, i, p)' <=> Writes(g, i, p)
  BY DEF Writes, Tags
<1>3. \A i : Writes(g, i, next.addr)' <=> Writes(g, i, next'.addr)
  BY DEF Writes, Tags
<1>4. next' # NoStore
  <2>1. next'.addr # 0
    BY Places
  <2> QED BY <2>1 DEF NoStore
<1> QED BY <1>1, <1>2, <1>3 DEF StoreKnown, NoStore

-----------------------------------------------------------------------------
\* write (nvm-common.h:1183): the first record of an address has what it held before
\* the transaction; a later one tells nothing of that.
LEMMA WriteKeeps ==
  ASSUME NEW h, IInv(h), NEW a \in Memory, NEW v \in Value, Write(a, v)
  PROVE  \E g : IInv(g)'
<1> DEFINE st == [addr |-> a, val |-> v]
<1>1. /\ DataTypes /\ LogTypes /\ Copied(h) /\ ToCopy(h) /\ Phases(h)
  BY DEF IInv
<1>2. /\ a \in Addr \/ (a \in live /\ data[a] # RAW)
      /\ Room(5) /\ Log(WriteRec(a, data[a], v), st, "log") /\ live' = live
  BY DEF Write
<1>3. data[a] \in Value \cup {0} /\ data[a] # RAW /\ a \in Addr \cup live
  BY <1>1, <1>2 DEF DataTypes
<1>4. PICK rec \in LogRecords : rec = WriteRec(a, data[a], v)
  BY <1>3, RecordsOf
<1>5. Len(rec) = 5 /\ rec[1] = Tags.WRITE /\ rec[2] = a /\ rec[3] = data[a]
  BY <1>4, Zenon DEF WriteRec, Tags
<1>6. Log(rec, st, "log")
  BY <1>2, <1>4
<1> HIDE DEF st
<1>7. todo = <<>> /\ next = NoStore /\ End(h) \in Int /\ Limit \in Int
      /\ LogTypes' /\ Quiet' /\ Limit' = Limit
  BY <1>6, LogKeeps
<1>8. PICK g : /\ Copied(g)' /\ ToCopy(g)' /\ Extends(h, g, rec) /\ End(g)' = End(h) + Len(rec)
               /\ Logged(g)' /\ Phases(g)' /\ Undoing(g)'
  BY <1>6, LogKeeps
<1>9. /\ pc = "run" /\ pc' = "log" /\ next' = st
      /\ UNCHANGED <<nvm, data, nvmData, nvmLive, redo, del, written, base>>
  BY <1>6 DEF Log
<1>10. Logged(h) /\ BaseKnown(h) /\ h.n \in Nat
  BY <1>9 DEF IInv, InTx, Logged
<1>11. DataTypes'
  BY <1>1, <1>2, <1>9, DataStays DEF DataTypes
<1>12. Fits(g)'
  <2>1. Needs' = Needs
    <3>1. ToInit' = ToInit
      <4>1. \A n \in live : n # next.addr
        BY <1>1, <1>7, Places DEF DataTypes, NoStore
      <4>2. st.addr = a
        BY DEF st
      <4> QED BY <1>2, <1>3, <1>9, <4>1, <4>2 DEF ToInit, RAW
    <3> QED BY <1>9, <3>1 DEF Needs, DelSize
  <2>2. End(h) + Needs + 2 + 5 =< Limit
    BY <1>1, <1>2, <1>7, RoomIs
  <2>3. Needs \in Nat
    BY <1>1, NeedsIs
  <2> QED BY <1>5, <1>7, <1>8, <1>9, <2>1, <2>2, <2>3 DEF Fits
<1>13. BaseKnown(g)'
  <2>1. Allocated(g) = Allocated(h)
    <3>1. rec[1] # Tags.ALLOCNODE
      BY <1>5, TagsAre
    <3> QED BY <1>8, <1>10, <3>1, ExtendsMeans
  <2>2. /\ g.n = h.n + 1 /\ h.n + 1 \in 1 .. g.n /\ g.rec[h.n + 1] = rec
        /\ \A i \in 1 .. g.n : i \in 1 .. h.n \/ i = h.n + 1
        /\ \A i \in 1 .. h.n : i \in 1 .. g.n
    BY <1>8, <1>10, ExtendsIs
  <2> SUFFICES ASSUME NEW p \in Memory
               PROVE  /\ p \notin Addr \cup (live \ Allocated(h)) => base[p] = FREE
                      /\ p \in Addr \cup (live \ Allocated(h)) =>
                           /\ data[p] # RAW
                           /\ \A i \in 1 .. g.n : First(g, i, p) => base[p] = g.rec[i][3]
                           /\ (\A i \in 1 .. g.n : ~Writes(g, i, p)) => base[p] = data[p]
    BY <1>2, <1>9, <2>1, KnownNow
  <2>3. /\ p \notin Addr \cup (live \ Allocated(h)) => base[p] = FREE
        /\ p \in Addr \cup (live \ Allocated(h)) =>
             /\ data[p] # RAW
             /\ \A i \in 1 .. h.n : First(h, i, p) => base[p] = h.rec[i][3]
             /\ (\A i \in 1 .. h.n : ~Writes(h, i, p)) => base[p] = data[p]
    BY <1>10 DEF BaseKnown
  <2>4. /\ \A i \in 1 .. h.n : Writes(g, i, p) <=> Writes(h, i, p)
        /\ \A i \in 1 .. h.n : First(g, i, p) <=> First(h, i, p)
        /\ \A i \in 1 .. h.n : g.rec[i] = h.rec[i]
    BY <1>8, <1>10, ExtendsMeans
  <2>5. /\ First(g, h.n + 1, p) => a = p /\ \A i \in 1 .. h.n : ~Writes(h, i, p)
    <3>1. \A q : First(g, h.n + 1, q) <=>
                  /\ rec[1] = Tags.WRITE /\ rec[2] = q
                  /\ \A i \in 1 .. h.n : ~Writes(h, i, q)
      BY <1>8, <1>10, ExtendsMeans
    <3> QED BY <1>5, <3>1
  <2>6. ASSUME p \in Addr \cup (live \ Allocated(h)), NEW i \in 1 .. g.n, First(g, i, p)
        PROVE  base[p] = g.rec[i][3]
    <3>1. CASE i \in 1 .. h.n
      BY <2>3, <2>4, <2>6, <3>1
    <3>2. CASE i = h.n + 1
      BY <1>5, <2>2, <2>3, <2>5, <2>6, <3>2
    <3> QED BY <2>2, <3>1, <3>2
  <2>7. ASSUME p \in Addr \cup (live \ Allocated(h)), \A i \in 1 .. g.n : ~Writes(g, i, p)
        PROVE  base[p] = data[p]
    <3>1. \A i \in 1 .. h.n : ~Writes(h, i, p)
      BY <2>2, <2>4, <2>7
    <3> QED BY <2>3, <2>7, <3>1
  <2> QED BY <2>3, <2>6, <2>7
<1>14. StoreKnown(g)'
  <2>1. st \in [addr : Addr \cup live, val : Value] /\ st.addr = a
    BY <1>3 DEF st
  <2>2. \E i \in 1 .. g.n : Writes(g, i, a)
    <3>1. Writes(g, h.n + 1, a)
      BY <1>5, <1>8, <1>10, ExtendsMeans
    <3>2. h.n + 1 \in 1 .. g.n
      BY <1>8, <1>10, ExtendsIs
    <3> QED BY <3>1, <3>2
  <2> QED BY <1>2, <1>9, <2>1, <2>2, StoreKnownNow
<1>15. InTx'
  BY <1>9 DEF InTx
<1> QED
  BY <1>7, <1>8, <1>11, <1>12, <1>13, <1>14, Gather

\* A record that is not an old value leaves what is known of the store.
LEMMA KnownMore ==
  ASSUME NEW h, NEW g, NEW rec \in LogRecords, h.n \in Nat, Extends(h, g, rec), rec[1] # Tags.WRITE,
         BaseKnown(h), UNCHANGED <<data, base>>,
         live' \ Allocated(g) = live \ Allocated(h)
  PROVE  BaseKnown(g)'
<1>1. /\ g.n = h.n + 1 /\ h.n + 1 \in 1 .. g.n /\ g.rec[h.n + 1] = rec
      /\ \A i \in 1 .. g.n : i \in 1 .. h.n \/ i = h.n + 1
      /\ \A i \in 1 .. h.n : i \in 1 .. g.n
  BY ExtendsIs
<1> SUFFICES ASSUME NEW p \in Memory
             PROVE  /\ p \notin Addr \cup (live \ Allocated(h)) => base[p] = FREE
                    /\ p \in Addr \cup (live \ Allocated(h)) =>
                         /\ data[p] # RAW
                         /\ \A i \in 1 .. g.n : First(g, i, p) => base[p] = g.rec[i][3]
                         /\ (\A i \in 1 .. g.n : ~Writes(g, i, p)) => base[p] = data[p]
  BY KnownNow
<1>2. /\ p \notin Addr \cup (live \ Allocated(h)) => base[p] = FREE
      /\ p \in Addr \cup (live \ Allocated(h)) =>
           /\ data[p] # RAW
           /\ \A i \in 1 .. h.n : First(h, i, p) => base[p] = h.rec[i][3]
           /\ (\A i \in 1 .. h.n : ~Writes(h, i, p)) => base[p] = data[p]
  BY DEF BaseKnown
<1>3. /\ \A i \in 1 .. h.n : Writes(g, i, p) <=> Writes(h, i, p)
      /\ \A i \in 1 .. h.n : First(g, i, p) <=> First(h, i, p)
      /\ \A i \in 1 .. h.n : g.rec[i] = h.rec[i]
  BY ExtendsMeans
<1>4. ~First(g, h.n + 1, p)
  <2>1. ~Writes(g, h.n + 1, p)
    BY <1>1 DEF Writes
  <2> QED BY <2>1 DEF First
<1>5. ASSUME p \in Addr \cup (live \ Allocated(h)), NEW i \in 1 .. g.n, First(g, i, p)
      PROVE  base[p] = g.rec[i][3]
  BY <1>1, <1>2, <1>3, <1>4, <1>5
<1>6. ASSUME p \in Addr \cup (live \ Allocated(h)), \A i \in 1 .. g.n : ~Writes(g, i, p)
      PROVE  base[p] = data[p]
  <2>1. \A i \in 1 .. h.n : ~Writes(h, i, p)
    BY <1>1, <1>3, <1>6
  <2> QED BY <1>2, <1>6, <2>1
<1> QED BY <1>2, <1>5, <1>6

\* new (nvm-common.h:1288): a node's first value; the node was allocated by this
\* transaction, so abort will free it and need not know what it held.
LEMMA NewKeeps ==
  ASSUME NEW h, IInv(h), NEW n \in Node, NEW v \in Value, New(n, v)
  PROVE  \E g : IInv(g)'
<1> DEFINE st == [addr |-> n, val |-> v]
<1>1. /\ DataTypes /\ LogTypes /\ Copied(h) /\ ToCopy(h) /\ Phases(h) /\ Fits(h)
  BY DEF IInv
<1>2. n \in live /\ data[n] = RAW /\ Log(NewRec(n, v), st, "store") /\ live' = live
  BY DEF New
<1>3. n \in Memory
  BY Places
<1>4. PICK rec \in LogRecords : rec = NewRec(n, v)
  BY RecordsOf
<1>5. Len(rec) = 4 /\ rec[1] = Tags.NEW
  BY <1>4, RecordsOf
<1>6. Log(rec, st, "store")
  BY <1>2, <1>4
<1> HIDE DEF st
<1>7. todo = <<>> /\ next = NoStore /\ End(h) \in Int /\ Limit \in Int
      /\ LogTypes' /\ Quiet' /\ Limit' = Limit
  BY <1>6, LogKeeps
<1>8. PICK g : /\ Copied(g)' /\ ToCopy(g)' /\ Extends(h, g, rec) /\ End(g)' = End(h) + Len(rec)
               /\ Logged(g)' /\ Phases(g)' /\ Undoing(g)'
  BY <1>6, LogKeeps
<1>9. /\ pc = "run" /\ pc' = "store" /\ next' = st
      /\ UNCHANGED <<nvm, data, nvmData, nvmLive, redo, del, written, base>>
  BY <1>6 DEF Log
<1>10. Logged(h) /\ BaseKnown(h) /\ h.n \in Nat
  BY <1>9 DEF IInv, InTx, Logged
<1>11. DataTypes'
  BY <1>1, <1>2, <1>9, DataStays DEF DataTypes
<1>12. Allocated(g) = Allocated(h)
  <2>1. rec[1] # Tags.ALLOCNODE
    BY <1>5, TagsAre
  <2> QED BY <1>8, <1>10, <2>1, ExtendsMeans
<1>13. BaseKnown(g)'
  <2>1. rec[1] # Tags.WRITE
    BY <1>5, TagsAre
  <2> QED BY <1>2, <1>8, <1>9, <1>10, <1>12, <2>1, KnownMore
<1>14. Fits(g)'
  <2>1. Needs = Needs' + 4 /\ Needs \in Nat /\ Needs' \in Nat
    <3>1. IsFiniteSet(ToInit) /\ n \in ToInit /\ ToInit' = ToInit \ {n}
      <4>1. \A m \in live : m # next.addr
        BY <1>1, <1>7, Places DEF DataTypes, NoStore
      <4>2. st.addr = n
        BY DEF st
      <4>3. ToInit = {m \in live : data[m] = RAW}
        BY <4>1 DEF ToInit
      <4>4. ToInit' = {m \in live : data[m] = RAW /\ m # n}
        BY <1>2, <1>9, <4>2 DEF ToInit, RAW
      <4> QED BY <1>1, <1>2, <4>3, <4>4, NeedsIs
    <3>2. Cardinality(ToInit') = Cardinality(ToInit) - 1 /\ Cardinality(ToInit') \in Nat
      <4>1. PICK S : S = ToInit
        OBVIOUS
      <4>2. Cardinality(S \ {n}) = Cardinality(S) - 1 /\ Cardinality(S \ {n}) \in Nat
        BY <3>1, <4>1, FS_RemoveElement, FS_CardinalityType
      <4> QED BY <3>1, <4>1, <4>2
    <3>3. DelSize' = DelSize /\ DelSize \in Nat /\ Len(redo) \in Nat /\ Cardinality(ToInit) \in Nat /\ Needs \in Nat
      BY <1>1, <1>9, NeedsIs DEF DelSize
    <3>4. /\ Needs' = 4 * (Len(redo) + (Cardinality(ToInit) - 1)) + DelSize
          /\ Needs = 4 * (Len(redo) + Cardinality(ToInit)) + DelSize
      BY <1>9, <3>2, <3>3 DEF Needs
    <3>5. Cardinality(ToInit) - 1 \in Nat
      BY <3>2
    <3>6. PICK c, r, d : c = Cardinality(ToInit) /\ r = Len(redo) /\ d = DelSize
      OBVIOUS
    <3>7. /\ Needs' = 4 * (r + (c - 1)) + d /\ Needs = 4 * (r + c) + d
          /\ c \in Int /\ r \in Int /\ d \in Int /\ c - 1 \in Nat /\ d \in Nat /\ r \in Nat
      BY <3>3, <3>4, <3>5, <3>6
    <3> QED BY ONLY <3>7
  <2>2. End(h) + Needs + 2 =< Limit
    BY <1>1, <1>9 DEF Fits
  <2>3. /\ End(g)' = End(h) + 4 /\ End(g)' + 1 =< Limit
        /\ End(g)' + Needs' + 2 =< Limit
    BY <1>5, <1>7, <1>8, <2>1, <2>2, SMTT(60)
  <2> QED BY <1>7, <1>9, <2>3 DEF Fits
<1>15. StoreKnown(g)'
  <2>1. st \in [addr : Addr \cup live, val : Value] /\ st.addr = n
    BY <1>2 DEF st
  <2>2. n \in Allocated(g)
    <3>1. n \notin Addr \cup (live \ Allocated(h))
      BY <1>2, <1>3, <1>10 DEF BaseKnown
    <3> QED BY <1>2, <1>12, <3>1
  <2> QED BY <1>2, <1>3, <1>9, <2>1, <2>2, StoreKnownNow
<1>16. InTx'
  BY <1>9 DEF InTx
<1> QED
  BY <1>7, <1>8, <1>11, <1>13, <1>14, <1>15, Gather

\* allocNode (nvm-common.h:1429): the node was free before the transaction.
LEMMA AllocNodeKeeps ==
  ASSUME NEW h, IInv(h), NEW n \in Node, AllocNode(n)
  PROVE  \E g : IInv(g)'
<1>1. /\ DataTypes /\ LogTypes /\ Copied(h) /\ ToCopy(h) /\ Phases(h) /\ Fits(h)
  BY DEF IInv
<1>2. n \notin live /\ Room(3 + 4) /\ Log(AllocRec(n), NoStore, "log") /\ live' = live \cup {n}
  BY DEF AllocNode
<1>3. PICK rec \in LogRecords : rec = AllocRec(n)
  BY RecordsOf
<1>4. Len(rec) = 3 /\ rec[1] = Tags.ALLOCNODE /\ rec[2] = n
  BY <1>3, RecordsOf
<1>5. Log(rec, NoStore, "log")
  BY <1>2, <1>3
<1>6. todo = <<>> /\ next = NoStore /\ End(h) \in Int /\ Limit \in Int
      /\ LogTypes' /\ Quiet' /\ Limit' = Limit
  BY <1>5, LogKeeps
<1>7. PICK g : /\ Copied(g)' /\ ToCopy(g)' /\ Extends(h, g, rec) /\ End(g)' = End(h) + Len(rec)
               /\ Logged(g)' /\ Phases(g)' /\ Undoing(g)'
  BY <1>5, LogKeeps
<1>8. /\ pc = "run" /\ pc' = "log" /\ next' = NoStore
      /\ UNCHANGED <<nvm, data, nvmData, nvmLive, redo, del, written, base>>
  BY <1>5 DEF Log
<1>9. Logged(h) /\ BaseKnown(h) /\ h.n \in Nat
  BY <1>8 DEF IInv, InTx, Logged
<1>10. DataTypes'
  <2>1. live' \subseteq Node /\ IsFiniteSet(live')
    BY <1>1, <1>2, FS_AddElement DEF DataTypes
  <2>2. /\ \A i \in 1 .. Len(redo) : redo[i].addr \in Addr \cup live'
        /\ \A i \in 1 .. Len(del) : del[i] \in live'
    BY <1>1, <1>2 DEF DataTypes
  <2> QED BY <1>1, <1>8, <2>1, <2>2 DEF DataTypes, Memory, Lines, RAW, FREE
<1>11. BaseKnown(g)'
  <2>1. rec[1] # Tags.WRITE
    BY <1>4, TagsAre
  <2>2. Allocated(g) = Allocated(h) \cup {n}
    BY <1>4, <1>7, <1>9, ExtendsMeans
  <2>3. live' \ Allocated(g) = live \ Allocated(h)
    BY <1>2, <2>2
  <2> QED BY <1>7, <1>8, <1>9, <2>1, <2>3, KnownMore
<1>12. Fits(g)'
  <2>1. Needs' =< Needs + 4 /\ Needs' \in Int /\ Needs \in Int
    <3>1. IsFiniteSet(ToInit) /\ ToInit' \subseteq ToInit \cup {n}
      <4>1. ToInit' \subseteq ToInit \cup {n}
        BY <1>2, <1>6, <1>8 DEF ToInit, RAW
      <4> QED BY <1>1, <4>1, NeedsIs
    <3>2. Cardinality(ToInit') =< Cardinality(ToInit) + 1 /\ Cardinality(ToInit') \in Nat
          /\ Cardinality(ToInit) \in Nat
      <4>1. PICK S, U : S = ToInit /\ U = ToInit'
        OBVIOUS
      <4>2. IsFiniteSet(S \cup {n}) /\ U \subseteq S \cup {n}
        BY <3>1, <4>1, FS_AddElement
      <4>3. Cardinality(U) =< Cardinality(S \cup {n}) /\ IsFiniteSet(U)
        BY <4>2, FS_Subset
      <4>4. Cardinality(S \cup {n}) = Cardinality(S) \/ Cardinality(S \cup {n}) = Cardinality(S) + 1
        BY <3>1, <4>1, FS_AddElement
      <4>5. Cardinality(S) \in Nat /\ Cardinality(U) \in Nat /\ Cardinality(S \cup {n}) \in Nat
        BY <3>1, <4>1, <4>2, <4>3, FS_CardinalityType
      <4> QED BY <4>1, <4>3, <4>4, <4>5
    <3>3. DelSize' = DelSize /\ DelSize \in Nat /\ Len(redo) \in Nat
      BY <1>1, <1>8, NeedsIs DEF DelSize
    <3>4. /\ Needs' = 4 * (Len(redo) + Cardinality(ToInit')) + DelSize
          /\ Needs = 4 * (Len(redo) + Cardinality(ToInit)) + DelSize
      BY <1>8, <3>3 DEF Needs
    <3> QED BY <3>2, <3>3, <3>4, SMTT(60)
  <2>2. End(h) + Needs + 2 + (3 + 4) =< Limit
    BY <1>1, <1>2, <1>6, RoomIs
  <2>3. Needs \in Nat
    BY <1>1, NeedsIs
  <2>4. End(g)' = End(h) + 3
    BY <1>4, <1>7
  <2>5. End(g)' + 1 =< Limit' /\ End(g)' + Needs' + 2 =< Limit'
    BY <1>6, <2>1, <2>2, <2>3, <2>4
  <2> QED BY <1>8, <2>5 DEF Fits
<1>13. StoreKnown(g)'
  BY <1>8 DEF StoreKnown, NoStore
<1>14. InTx'
  BY <1>8 DEF InTx
<1> QED
  BY <1>6, <1>7, <1>10, <1>11, <1>12, <1>13, Gather

\* flushLog after a record keeps the account.
LEMMA FlushRecordKeeps ==
  ASSUME NEW h, IInv(h), FlushRecord
  PROVE  \E g : IInv(g)'
<1>1. /\ DataTypes /\ LogTypes /\ Copied(h) /\ ToCopy(h) /\ Phases(h) /\ Fits(h) /\ Quiet
      /\ StoreKnown(h)
  BY DEF IInv
<1>2. /\ pc = "log" /\ FlushLog /\ pc' = "store"
      /\ UNCHANGED <<data, nvmData, live, nvmLive, tail, tx, redo, del, next, back, written, base>>
  BY DEF FlushRecord
<1>3. Logged(h) /\ BaseKnown(h)
  BY <1>2 DEF IInv, InTx
<1>4. /\ LogTypes' /\ Copied(h)' /\ ToCopy(h)' /\ End(h)' = End(h)
      /\ todo' = todo /\ (DOMAIN nvm = Lines => DOMAIN nvm' = Lines)
  BY <1>1, <1>2, LogAssumption, FlushKeeps
<1>5. DataTypes'
  BY <1>1, <1>2, <1>4, DataStays DEF DataTypes
<1>6. Fits(h)'
  <2>1. Needs' = Needs /\ Limit' = Limit
    BY <1>2, NeedsStay, LimitStays
  <2> QED BY <1>1, <1>2, <1>4, <2>1 DEF Fits
<1>7. Quiet'
  BY <1>1, <1>2, <1>4 DEF Quiet
<1>8. Phases(h)'
  BY <1>1, <1>2, <1>4 DEF Phases, CommitFilledLine
<1>9. Logged(h)'
  <2>1. End(h) \in Int
    BY <1>1, EndBehind
  <2> QED BY <1>2, <1>3, <1>4, <2>1, LoggedStays
<1>10. BaseKnown(h)'
  BY <1>2, <1>3, KnownStays
<1>11. StoreKnown(h)'
  <2>1. CASE next = NoStore
    BY <1>2, <2>1 DEF StoreKnown, NoStore
  <2>2. CASE next # NoStore
    <3>1. /\ next \in [addr : Addr \cup live, val : Value]
          /\ next.addr \in Allocated(h) \/ \E i \in 1 .. h.n : Writes(h, i, next.addr)
      BY <1>1, <1>2, <2>2 DEF StoreKnown
    <3>2. next.addr \in Memory
      BY <1>1, <3>1, Places DEF DataTypes
    <3> QED BY <1>2, <3>1, <3>2, StoreKnownNow
  <2> QED BY <2>1, <2>2
<1>12. Undoing(h)'
  BY <1>2 DEF Undoing
<1> QED
  BY <1>4, <1>5, <1>6, <1>7, <1>8, <1>9, <1>10, <1>11, <1>12, Gather

\* The store after its record: what it overwrites is in a record already.
LEMMA StoreKeeps ==
  ASSUME NEW h, IInv(h), Store
  PROVE  \E g : IInv(g)'
<1>1. /\ DataTypes /\ LogTypes /\ Copied(h) /\ ToCopy(h) /\ Phases(h) /\ Fits(h) /\ Quiet
      /\ StoreKnown(h)
  BY DEF IInv
<1>2. /\ pc = "store" /\ todo = <<>> /\ wr.next < LineSize /\ pc' = "run" /\ next' = NoStore
      /\ data' = [a \in Memory |-> IF a = next.addr THEN next.val ELSE data[a]]
      /\ UNCHANGED <<area, nvm, wr, todo, mid, nvmData, live, nvmLive, tail, tx, redo, del, back, written, base>>
  BY DEF Store, Written, bufVars
<1>3. Logged(h) /\ BaseKnown(h)
  BY <1>2 DEF IInv, InTx
<1>4. /\ LogTypes' /\ Copied(h)' /\ ToCopy(h)' /\ End(h)' = End(h) /\ Limit' = Limit
      /\ Offset(tail)' = Offset(tail) /\ Offset(tx)' = Offset(tx)
  BY <1>1, <1>2, TypesStay, BufferStays, OffsetsStay
<1>5. next.addr \in Memory => next.val \in Value /\ next # NoStore
      /\ (next.addr \in Allocated(h) \/ \E i \in 1 .. h.n : Writes(h, i, next.addr))
  BY <1>1, <1>2, Places DEF StoreKnown, NoStore
<1>6. /\ data' \in [Memory -> Value \cup {0, RAW}]
      /\ \A a \in Memory : data'[a] = IF a = next.addr THEN next.val ELSE data[a]
      /\ \A a \in Memory : a = next.addr => data'[a] # RAW
  <2>1. \A a \in Memory : data[a] \in Value \cup {0, RAW}
    BY <1>1 DEF DataTypes
  <2>2. \A a \in Memory : a = next.addr => next.val \in Value /\ next.val # RAW
    BY <1>5, Places
  <2> QED BY <1>2, <2>1, <2>2
<1>7. DataTypes'
  <2>1. \A a \in Addr : data'[a] # RAW
    BY <1>1, <1>6, Places DEF DataTypes
  <2> QED BY <1>1, <1>2, <1>6, <2>1 DEF DataTypes, Memory, Lines, RAW, FREE
<1>8. Fits(h)'
  <2>1. ToInit' = ToInit
    <3>1. \A n \in live : n \in Memory /\ n # 0
      BY <1>1, Places DEF DataTypes
    <3>2. next'.addr = 0
      BY <1>2 DEF NoStore
    <3> QED BY <1>2, <1>6, <3>1, <3>2 DEF ToInit, RAW
  <2>2. Needs' = Needs
    BY <1>2, <2>1 DEF Needs, DelSize
  <2> QED BY <1>1, <1>2, <1>4, <2>2 DEF Fits
<1>9. Quiet'
  BY <1>1, <1>2 DEF Quiet
<1>10. Phases(h)'
  BY <1>1, <1>2, <1>4 DEF Phases, CommitFilledLine
<1>11. Logged(h)'
  <2>1. End(h) \in Int
    BY <1>1, EndBehind
  <2> QED BY <1>2, <1>3, <1>4, <2>1, LoggedStays
<1>12. BaseKnown(h)'
  <2> SUFFICES ASSUME NEW p \in Memory
               PROVE  /\ p \notin Addr \cup (live \ Allocated(h)) => base[p] = FREE
                      /\ p \in Addr \cup (live \ Allocated(h)) =>
                           /\ data'[p] # RAW
                           /\ \A i \in 1 .. h.n : First(h, i, p) => base[p] = h.rec[i][3]
                           /\ (\A i \in 1 .. h.n : ~Writes(h, i, p)) => base[p] = data'[p]
    BY <1>2, KnownNow
  <2>1. /\ p \notin Addr \cup (live \ Allocated(h)) => base[p] = FREE
        /\ p \in Addr \cup (live \ Allocated(h)) =>
             /\ data[p] # RAW
             /\ \A i \in 1 .. h.n : First(h, i, p) => base[p] = h.rec[i][3]
             /\ (\A i \in 1 .. h.n : ~Writes(h, i, p)) => base[p] = data[p]
    BY <1>3 DEF BaseKnown
  <2>2. CASE p # next.addr
    BY <1>6, <2>1, <2>2
  <2>3. CASE p = next.addr
    <3>1. Allocated(h) \subseteq Node
      BY <1>3, RecordIs DEF Allocated, Logged
    <3>2. p \in Addr \cup (live \ Allocated(h)) => p \notin Allocated(h)
      BY <3>1, Places
    <3>3. p \in Addr \cup (live \ Allocated(h)) => ~(\A i \in 1 .. h.n : ~Writes(h, i, p))
      BY <1>5, <2>3, <3>2
    <3> QED BY <1>6, <2>1, <2>3, <3>3
  <2> QED BY <2>2, <2>3
<1>13. StoreKnown(h)' /\ Undoing(h)'
  BY <1>2 DEF StoreKnown, NoStore, Undoing
<1> QED
  BY <1>4, <1>7, <1>8, <1>9, <1>10, <1>11, <1>12, <1>13, Gather

-----------------------------------------------------------------------------
\* The pieces that commit writes, and where they go.
CommitAt ==
    [q \in 1 .. Len(CommitPieces) + 1 |->
        Offset(wr) + (IF q =< Len(redo) + 1 THEN 4 * (q - 1)
                      ELSE IF q = Len(redo) + 2 THEN 4 * Len(redo) + 2
                      ELSE IF q = Len(redo) + 3 THEN 4 * Len(redo) + 2 + Len(del)
                      ELSE 4 * Len(redo) + 4 + Len(del))]

\* The elements of two sequences put together.
LEMMA Concatenated ==
  ASSUME NEW S, NEW p \in Seq(S), NEW q \in Seq(S)
  PROVE  /\ p \o q \in Seq(S) /\ Len(p \o q) = Len(p) + Len(q)
         /\ \A i \in 1 .. Len(p) : (p \o q)[i] = p[i]
         /\ \A i \in 1 .. Len(q) : (p \o q)[Len(p) + i] = q[i]
  OBVIOUS

\* What commit writes before COMMIT: four bytes for a redo record, and three calls of
\* writeLog for the deletions (nvm-common.h:845-903).
LEMMA CommitPiecesAre ==
  ASSUME DataTypes
  PROVE  /\ CommitPieces \in Seq(Seq(Int)) /\ Len(redo) \in Nat /\ Len(del) \in Nat
         /\ Len(CommitPieces) = Len(redo) + (IF del = <<>> THEN 0 ELSE 3)
         /\ \A q \in 1 .. Len(redo) : Len(CommitPieces[q]) = 4
         /\ del # <<>> => /\ Len(CommitPieces[Len(redo) + 1]) = 2
                          /\ Len(CommitPieces[Len(redo) + 2]) = Len(del)
                          /\ Len(CommitPieces[Len(redo) + 3]) = 2
                          /\ Len(del) >= 1
<1>1. redo \in Seq([addr : Memory, val : Value]) /\ del \in Seq(Node)
  BY DEF DataTypes
<1>2. Len(redo) \in Nat /\ Len(del) \in Nat /\ (del # <<>> => Len(del) >= 1)
  BY <1>1
<1>0. PICK P, D : P = [i \in 1 .. Len(redo) |-> RedoRec(redo[i])] /\ D = DelPieces(del)
  OBVIOUS
<1>3. P \in Seq(Seq(Int)) /\ Len(P) = Len(redo) /\ \A q \in 1 .. Len(redo) : Len(P[q]) = 4
  <2>1. ASSUME NEW i \in 1 .. Len(redo)
        PROVE  RedoRec(redo[i]) \in Seq(Int) /\ Len(RedoRec(redo[i])) = 4
    <3>1. redo[i].addr \in Int /\ redo[i].val \in Int
      <4>1. PICK R : R = [addr : Memory, val : Value]
        OBVIOUS
      <4>2. redo \in Seq(R)
        BY <1>1, <4>1
      <4>3. redo[i] \in R
        BY <4>2
      <4> QED BY <4>1, <4>3, Places
    <3> QED BY <3>1, TagsAre DEF RedoRec
  <2>2. P \in [1 .. Len(redo) -> Seq(Int)]
    BY <1>0, <2>1
  <2> QED BY <1>0, <1>2, <2>1, <2>2
<1>4. /\ D \in Seq(Seq(Int)) /\ Len(D) = IF del = <<>> THEN 0 ELSE 3
      /\ del # <<>> => Len(D[1]) = 2 /\ Len(D[2]) = Len(del) /\ Len(D[3]) = 2
  <2>1. CASE del = <<>>
    BY <1>0, <2>1 DEF DelPieces
  <2>2. CASE del # <<>>
    <3>1. del \in Seq(Int)
      <4>1. \A i \in 1 .. Len(del) : del[i] \in Int
        BY <1>1, Places
      <4>2. del \in [1 .. Len(del) -> Int]
        BY <1>1, <4>1
      <4> QED BY <1>2, <4>2
    <3>2. <<Tags.DELNODE, Len(del)>> \in Seq(Int) /\ <<Len(del), Tags.DELNODE>> \in Seq(Int)
      BY <1>2, TagsAre
    <3>3. D = << <<Tags.DELNODE, Len(del)>>, del, <<Len(del), Tags.DELNODE>> >>
      BY <1>0, <2>2 DEF DelPieces
    <3> QED BY <2>2, <3>1, <3>2, <3>3
  <2> QED BY <2>1, <2>2
<1>5. CommitPieces = P \o D
  BY <1>0 DEF CommitPieces
<1> HIDE <1>0
<1>6. /\ P \o D \in Seq(Seq(Int)) /\ Len(P \o D) = Len(P) + Len(D)
      /\ \A q \in 1 .. Len(P) : (P \o D)[q] = P[q]
      /\ \A q \in 1 .. Len(D) : (P \o D)[Len(P) + q] = D[q]
  <2>1. PICK S : S = Seq(Int)
    OBVIOUS
  <2>2. P \in Seq(S) /\ D \in Seq(S)
    BY <1>3, <1>4, <2>1
  <2>3. P \o D \in Seq(S)
    BY <2>2, Concatenated
  <2>4. Len(P \o D) = Len(P) + Len(D)
    BY <2>2, Concatenated
  <2>5. \A q \in 1 .. Len(P) : (P \o D)[q] = P[q]
    BY <2>2, Concatenated
  <2>6. \A q \in 1 .. Len(D) : (P \o D)[Len(P) + q] = D[q]
    BY <2>2, Concatenated
  <2> QED BY <2>1, <2>3, <2>4, <2>5, <2>6
<1>7. /\ CommitPieces \in Seq(Seq(Int)) /\ Len(CommitPieces) = Len(redo) + Len(D)
      /\ \A q \in 1 .. Len(redo) : CommitPieces[q] = P[q]
      /\ \A q \in 1 .. Len(D) : CommitPieces[Len(redo) + q] = D[q]
  BY <1>3, <1>5, <1>6
<1>8. ASSUME del # <<>>
      PROVE  /\ Len(CommitPieces[Len(redo) + 1]) = 2
             /\ Len(CommitPieces[Len(redo) + 2]) = Len(del)
             /\ Len(CommitPieces[Len(redo) + 3]) = 2
  <2>1. 1 \in 1 .. Len(D) /\ 2 \in 1 .. Len(D) /\ 3 \in 1 .. Len(D)
    BY <1>4, <1>8
  <2> QED BY <1>4, <1>7, <1>8, <2>1
<1> QED BY <1>2, <1>3, <1>4, <1>7, <1>8

\* Where these pieces go, and the space they take.
LEMMA CommitAtIs ==
  ASSUME DataTypes, Offset(wr) \in Int, NEW g, g.td = CommitAt
  PROVE  /\ Pieces(g, CommitPieces)
         /\ g.td[Len(CommitPieces) + 1] = Offset(wr) + 4 * Len(redo) + DelSize
<1>1. /\ CommitPieces \in Seq(Seq(Int)) /\ Len(redo) \in Nat /\ Len(del) \in Nat
      /\ Len(CommitPieces) = Len(redo) + (IF del = <<>> THEN 0 ELSE 3)
      /\ \A q \in 1 .. Len(redo) : Len(CommitPieces[q]) = 4
      /\ del # <<>> => /\ Len(CommitPieces[Len(redo) + 1]) = 2
                       /\ Len(CommitPieces[Len(redo) + 2]) = Len(del)
                       /\ Len(CommitPieces[Len(redo) + 3]) = 2
                       /\ Len(del) >= 1
  BY CommitPiecesAre
<1>2. PICK k \in Nat, d \in Nat, o \in Int, N \in Nat :
        k = Len(redo) /\ d = Len(del) /\ o = Offset(wr) /\ N = Len(CommitPieces)
  BY <1>1
<1>3. \A q \in 1 .. N + 1 :
         g.td[q] = o + (IF q =< k + 1 THEN 4 * (q - 1)
                        ELSE IF q = k + 2 THEN 4 * k + 2
                        ELSE IF q = k + 3 THEN 4 * k + 2 + d
                        ELSE 4 * k + 4 + d)
  BY <1>2 DEF CommitAt
<1>4. N = k + (IF del = <<>> THEN 0 ELSE 3)
  BY <1>1, <1>2
<1>5. \A q \in 1 .. N + 1 : q \in Nat /\ g.td[q] \in Int
  BY <1>3
<1>6. \A q, r \in 1 .. N + 1 : q =< r => g.td[q] =< g.td[r]
  BY <1>3, <1>5
<1>7. g.td[1] = o
  BY <1>3, <1>4
<1>8. ASSUME NEW q \in 1 .. N PROVE g.td[q + 1] = g.td[q] + Len(CommitPieces[q])
  <2>1. q \in 1 .. N + 1 /\ q + 1 \in 1 .. N + 1 /\ q \in Nat
    BY <1>2
  <2>2. CASE q =< k
    <3>1. Len(CommitPieces[q]) = 4
      BY <1>1, <1>2, <2>1, <2>2
    <3>2. g.td[q] = o + 4 * (q - 1) /\ g.td[q + 1] = o + 4 * (q + 1 - 1)
      BY <1>3, <2>1, <2>2
    <3> QED BY <2>1, <3>1, <3>2
  <2>3. CASE q > k
    <3>1. del # <<>> /\ (q = k + 1 \/ q = k + 2 \/ q = k + 3)
      BY <1>4, <2>1, <2>3
    <3>2. CASE q = k + 1
      <4>1. Len(CommitPieces[q]) = 2
        BY <1>1, <1>2, <3>1, <3>2
      <4>2. g.td[q] = o + 4 * (q - 1) /\ g.td[q + 1] = o + (4 * k + 2)
        BY <1>3, <2>1, <3>2
      <4> QED BY <3>2, <4>1, <4>2
    <3>3. CASE q = k + 2
      <4>1. Len(CommitPieces[q]) = d
        BY <1>1, <1>2, <3>1, <3>3
      <4>2. g.td[q] = o + (4 * k + 2) /\ g.td[q + 1] = o + (4 * k + 2 + d)
        BY <1>3, <2>1, <3>3
      <4> QED BY <3>3, <4>1, <4>2
    <3>4. CASE q = k + 3
      <4>1. Len(CommitPieces[q]) = 2
        BY <1>1, <1>2, <3>1, <3>4
      <4>2. g.td[q] = o + (4 * k + 2 + d) /\ g.td[q + 1] = o + (4 * k + 4 + d)
        BY <1>3, <2>1, <3>4
      <4> QED BY <3>4, <4>1, <4>2
    <3> QED BY <3>1, <3>2, <3>3, <3>4
  <2> QED BY <2>1, <2>2, <2>3
<1>9. g.td[N + 1] = o + 4 * k + DelSize
  <2>1. CASE del = <<>>
    <3>1. N = k /\ DelSize = 0
      BY <1>4, <2>1 DEF DelSize
    <3>2. g.td[N + 1] = o + 4 * (k + 1 - 1)
      BY <1>3, <3>1
    <3> QED BY <3>1, <3>2
  <2>2. CASE del # <<>>
    <3>1. N = k + 3 /\ DelSize = d + 4
      BY <1>2, <1>4, <2>2 DEF DelSize
    <3>2. g.td[N + 1] = o + (4 * k + 4 + d)
      BY <1>3, <3>1
    <3> QED BY <3>1, <3>2
  <2> QED BY <2>1, <2>2
<1> QED BY <1>1, <1>2, <1>5, <1>6, <1>7, <1>8, <1>9 DEF Pieces

\* When no record says otherwise, the store is as it was.
LEMMA NothingDone ==
  ASSUME NEW h, BaseKnown(h), DataTypes, h.n = 0, redo = <<>>, del = <<>>
  PROVE  Intact /\ \A n \in live : data[n] # RAW
<1>1. Allocated(h) = {}
  BY DEF Allocated
<1>2. \A p \in Memory :
         /\ p \notin Addr \cup live => base[p] = FREE
         /\ p \in Addr \cup live => data[p] # RAW /\ base[p] = data[p]
  BY <1>1 DEF BaseKnown
<1>3. Working = [p \in Memory |-> IF p \in Addr \cup live THEN data[p] ELSE FREE]
  BY NothingToRedo
<1>4. base \in [Memory -> Value \cup {0, RAW, FREE}] /\ live \subseteq Memory
  BY Places DEF DataTypes
<1> QED BY <1>2, <1>3, <1>4 DEF Intact

\* commitMiniTransaction (nvm-common.h:841) starts to write its records, and they
\* fit.
LEMMA CommitKeeps ==
  ASSUME NEW h, IInv(h), CommitMiniTransaction
  PROVE  \E g : IInv(g)'
<1>1. /\ DataTypes /\ LogTypes /\ Copied(h) /\ ToCopy(h) /\ Phases(h) /\ Fits(h) /\ Quiet
      /\ StoreKnown(h)
  BY DEF IInv
<1>2. /\ pc = "run" /\ pc' = "commit" /\ todo' = CommitPieces
      /\ \A n \in live : data[n] # RAW \/ n \in Deleted
      /\ UNCHANGED <<area, nvm, wr, mid, data, nvmData, live, nvmLive, tail, tx, redo, del, next,
                     back, written, base>>
  BY DEF CommitMiniTransaction
<1>3. Logged(h) /\ BaseKnown(h) /\ todo = <<>> /\ next = NoStore /\ wr.next < LineSize
  BY <1>1, <1>2 DEF IInv, InTx, Quiet, StoreKnown
<1>4. End(h) = Offset(wr) /\ Offset(wr) \in Int /\ Limit \in Int /\ Limit' = Limit
  BY <1>1, <1>2, <1>3, EndBehind, LimitIs, LimitStays
<1>5. PICK g : g = [byte |-> [o \in Int |->
                       IF o < Offset(wr) THEN h.byte[o]
                       ELSE LET q == CHOOSE q \in 1 .. Len(CommitPieces) : CommitAt[q] =< o /\ o < CommitAt[q + 1]
                            IN CommitPieces[q][o - CommitAt[q] + 1]],
                    td |-> CommitAt]
  OBVIOUS
<1>6. g.td = CommitAt
  BY <1>5
<1>7. PutTo(h, g, CommitPieces)
  BY <1>5, <1>6 DEF PutTo
<1> HIDE <1>5
<1>8. /\ Pieces(g, CommitPieces)
      /\ g.td[Len(CommitPieces) + 1] = Offset(wr) + 4 * Len(redo) + DelSize
  BY <1>1, <1>4, <1>6, CommitAtIs
<1>9. PICK ps : ps = CommitPieces
  OBVIOUS
<1>10. /\ LogTypes' /\ Copied(g)' /\ ToCopy(g)' /\ End(g)' = g.td[Len(ps) + 1]
       /\ Offset(wr)' = Offset(wr)
  BY <1>1, <1>2, <1>3, <1>7, <1>8, <1>9, LogAssumption, PutKeeps
<1>11. End(g)' = End(h) + 4 * Len(redo) + DelSize
  BY <1>4, <1>8, <1>9, <1>10
<1>12. DataTypes'
  BY <1>1, <1>2, DataStays DEF DataTypes
<1>13. /\ Cardinality(ToInit) \in Nat /\ Len(redo) \in Nat /\ DelSize \in Nat
       /\ Needs = 4 * Len(redo) + 4 * Cardinality(ToInit) + DelSize /\ Needs \in Nat
  BY <1>1, NeedsIs
<1>14. Fits(g)'
  <2>1. End(h) + Needs + 2 =< Limit
    BY <1>1, <1>2 DEF Fits
  <2>2. 4 * Len(redo) + DelSize =< Needs
    BY <1>13
  <2>3. End(g)' + 2 =< Limit /\ End(g)' + 1 =< Limit
    <3>1. PICK e \in Int, r \in Int, d \in Int, l \in Int, n \in Int :
            e = End(h) /\ r = 4 * Len(redo) /\ d = DelSize /\ l = Limit /\ n = Needs
      BY <1>4, <1>13
    <3>2. End(g)' = e + r + d /\ e + n + 2 =< l /\ r + d =< n
      BY <1>11, <2>1, <2>2, <3>1
    <3>3. e + r + d + 2 =< l /\ e + r + d + 1 =< l
      BY ONLY <3>2, e \in Int, r \in Int, d \in Int, l \in Int, n \in Int
    <3> QED BY <3>1, <3>2, <3>3
  <2> QED BY <1>2, <1>4, <2>3 DEF Fits
<1>15. Quiet'
  <2>1. \A q \in 1 .. Len(CommitPieces) : Len(CommitPieces[q]) >= 1
    <3>1. /\ Len(redo) \in Nat /\ Len(del) \in Nat
          /\ Len(CommitPieces) = Len(redo) + (IF del = <<>> THEN 0 ELSE 3)
          /\ \A q \in 1 .. Len(redo) : Len(CommitPieces[q]) = 4
          /\ del # <<>> => /\ Len(CommitPieces[Len(redo) + 1]) = 2
                           /\ Len(CommitPieces[Len(redo) + 2]) = Len(del)
                           /\ Len(CommitPieces[Len(redo) + 3]) = 2
                           /\ Len(del) >= 1
      BY <1>1, CommitPiecesAre
    <3> SUFFICES ASSUME NEW q \in 1 .. Len(CommitPieces) PROVE Len(CommitPieces[q]) >= 1
      OBVIOUS
    <3>2. \/ q \in 1 .. Len(redo)
          \/ /\ del # <<>>
             /\ \/ q = Len(redo) + 1
                \/ q = Len(redo) + 2
                \/ q = Len(redo) + 3
      BY <3>1
    <3>3. CASE q \in 1 .. Len(redo)
      <4>1. Len(CommitPieces[q]) = 4
        BY <3>1, <3>3
      <4> QED BY <4>1
    <3>4. CASE del # <<>> /\ q = Len(redo) + 1
      <4>1. Len(CommitPieces[q]) = 2
        BY <3>1, <3>4
      <4> QED BY <4>1
    <3>5. CASE del # <<>> /\ q = Len(redo) + 2
      <4>1. Len(CommitPieces[q]) = Len(del) /\ Len(del) >= 1 /\ Len(del) \in Nat
        BY <3>1, <3>5
      <4> QED BY <4>1
    <3>6. CASE del # <<>> /\ q = Len(redo) + 3
      <4>1. Len(CommitPieces[q]) = 2
        BY <3>1, <3>6
      <4> QED BY <4>1
    <3> QED BY <3>2, <3>3, <3>4, <3>5, <3>6
  <2>2. \A q \in 1 .. Len(CommitPieces) : CommitPieces[q] # <<>>
    BY <2>1
  <2> QED BY <1>2, <2>2 DEF Quiet
<1>16. Phases(g)'
  <2>1. /\ Offset(tail)' = Offset(tail) /\ Offset(tx)' = Offset(tx)
    BY <1>2, OffsetsStay
  <2>2. /\ Offset(tail) =< Offset(tx) /\ h.st[1] = Offset(tx) /\ h.st[1] \in Int
        /\ Offset(tx) + h.n =< End(h) /\ h.n \in Nat
    <3>1. h.n \in Nat /\ 1 \in 1 .. h.n + 1 /\ h.n + 1 \in 1 .. h.n + 1
      BY <1>3 DEF Logged
    <3>2. /\ h.st[1] \in Int /\ h.st[1] = Offset(tx) /\ h.st[h.n + 1] \in Int
          /\ Offset(tx) + (h.n + 1) - 1 =< h.st[h.n + 1] /\ h.st[h.n + 1] =< End(h)
      BY <1>3, <3>1 DEF Logged
    <3>3. Offset(tail) =< Offset(tx)
      BY <1>3 DEF Logged
    <3> QED BY <1>4, <3>1, <3>2, <3>3
  <2>3. Offset(tx) =< Offset(wr)
    BY <1>4, <2>2
  <2>4. ASSUME End(g)' = Offset(tx) PROVE Intact
    <3>1. h.n = 0 /\ Len(redo) = 0 /\ DelSize = 0
      <4>1. PICK e, x, r, d, n : e = End(h) /\ x = Offset(tx) /\ r = Len(redo) /\ d = DelSize /\ n = h.n
        OBVIOUS
      <4>2. x = e + 4 * r + d
        BY <1>11, <2>4, <4>1
      <4>3. r \in Nat /\ d \in Nat /\ n \in Nat /\ x + n =< e
        BY <1>13, <2>2, <4>1
      <4>4. e \in Int /\ x \in Int
        BY <1>4, <2>2, <4>1
      <4>5. n = 0 /\ r = 0 /\ d = 0
        BY ONLY <4>2, <4>3, <4>4
      <4> QED BY <4>1, <4>5
    <3>2. redo = <<>> /\ del = <<>>
      <4>1. redo \in Seq([addr : Memory, val : Value]) /\ del \in Seq(Node) /\ Len(del) \in Nat
        BY <1>1 DEF DataTypes
      <4> QED BY <3>1, <4>1 DEF DelSize
    <3> QED BY <1>1, <1>3, <3>1, <3>2, NothingDone
  <2>5. Intact' <=> Intact
    BY <1>2, IntactStays
  <2>6. Deleted' = Deleted
    BY <1>2 DEF Deleted
  <2> QED BY <1>2, <1>10, <2>1, <2>2, <2>3, <2>4, <2>5, <2>6 DEF Phases, CommitFilledLine, RAW
<1>17. StoreKnown(g)' /\ Undoing(g)' /\ ~InTx'
  BY <1>2, <1>3 DEF StoreKnown, NoStore, Undoing, InTx
<1> QED
  BY <1>10, <1>12, <1>14, <1>15, <1>16, <1>17, Gather

-----------------------------------------------------------------------------
\* A position between tail and the writer with the same next_ptr_ as the
\* writer is the writer's.
LEMMA OneRound ==
  ASSUME NEW p \in Nat \ {0}, NEW n \in Nat \ {0}, NEW t \in Nat, NEW a \in Int, NEW w \in Int,
         a % n = w % n, w < t + n, NEW x \in Int, x =< p + 1, NEW y \in Int, y >= 2,
         t * p + y =< a * p + x, a * p =< w * p
  PROVE  a = w
<1>1. a =< w
  <2> SUFFICES ASSUME w < a PROVE FALSE
    OBVIOUS
  <2>1. w * p + p =< a * p /\ w * p \in Int /\ a * p \in Int
    BY LinesApart
  <2> QED BY <2>1
<1>2. t =< a
  <2> SUFFICES ASSUME a < t PROVE FALSE
    OBVIOUS
  <2>1. a * p + p =< t * p /\ a * p \in Int /\ t * p \in Int
    BY LinesApart
  <2> QED BY <2>1
<1>3. a - w < n /\ w - a < n
  BY <1>1, <1>2
<1> QED BY <1>3, SameLine

\* isSameAsCurPos (nvm-common.h:511): the same next_ptr_ is the same place in the
\* row, not one a round away.
LEMMA SamePosition ==
  ASSUME LogAssumption, LogTypes, Offset(tail) =< Offset(wr), tail.line =< AbsLine(wr),
         AbsLine(wr) < tail.line + NumLines, Offset(tail) =< Offset(tx), Offset(tx) =< Offset(wr),
         NextPtr(tx) = NextPtr(wr)
  PROVE  Offset(tx) = Offset(wr)
<1>1. tx.line = wr.line /\ tx.next = wr.next
  BY DEF NextPtr
<1>2. /\ tail.ver \in {0, 1} /\ tail.line \in Lines /\ tail.next \in 2 .. LineSize - 1
      /\ tx.ver \in {0, 1} /\ tx.line \in Lines /\ tx.next \in 2 .. LineSize - 1
      /\ wr.ver \in {0, 1} /\ wr.line \in Lines
  BY DEF LogTypes
<1>3. PICK p, n, t, x, y : p = PerLine /\ n = NumLines /\ t = tail.line /\ x = tx.next /\ y = tail.next
  OBVIOUS
<1>4. p \in Nat \ {0} /\ n \in Nat \ {0} /\ t \in Nat /\ x \in Int /\ y \in Int /\ y >= 2 /\ x =< p + 1
  BY <1>2, <1>3, Sizes
<1>5. PICK a, w : a = AbsLine(tx) /\ w = AbsLine(wr)
  OBVIOUS
<1>6. /\ a \in 0 .. 2 * NumLines - 1 /\ a % n = tx.line /\ a * p \in Nat /\ Offset(tx) = a * p + x - 2
  BY <1>2, <1>3, <1>4, <1>5, Positions
<1>7. /\ w \in 0 .. 2 * NumLines - 1 /\ w % n = wr.line /\ w * p \in Nat /\ Offset(wr) = w * p + x - 2
  BY <1>1, <1>2, <1>3, <1>4, <1>5, Positions
<1>8. Offset(tail) = t * p + y - 2 /\ t * p \in Nat
  BY <1>2, <1>3, <1>4, Positions
<1>9. a \in Int /\ w \in Int /\ a % n = w % n /\ w < t + n
  BY <1>1, <1>3, <1>4, <1>5, <1>6, <1>7
<1>10. t * p + y =< a * p + x /\ a * p =< w * p
  BY <1>4, <1>6, <1>7, <1>8
<1>11. a = w
  BY <1>4, <1>9, <1>10, OneRound
<1> QED BY <1>6, <1>7, <1>11

\* What the running transaction sees is a store.
LEMMA WorkingType ==
  ASSUME DataTypes
  PROVE  Working \in [Memory -> Value \cup {0, RAW, FREE}]
<1>1. RedoType /\ data \in [Memory -> Value \cup {0, RAW}]
  BY DEF RedoType, DataTypes
<1>2. ASSUME NEW p \in Memory PROVE Redone(p) \in Value \cup {0, RAW}
  <2>1. CASE \A i \in 1 .. Len(redo) : redo[i].addr # p
    BY <1>1, <2>1, RedoneIs
  <2>2. CASE \E i \in 1 .. Len(redo) : redo[i].addr = p
    <3>1. PICK R : R = [addr : Memory, val : Value]
      OBVIOUS
    <3>2. PICK s : s = redo
      OBVIOUS
    <3>3. s \in Seq(R) /\ \E i \in 1 .. Len(s) : s[i].addr = p
      BY <1>1, <2>2, <3>1, <3>2 DEF RedoType
    <3>4. PICK i : IsLast(s, p, i)
      BY <3>3, LastExists
    <3>5. i \in 1 .. Len(s)
      BY <3>3, <3>4 DEF IsLast
    <3>6. s[i] \in R
      BY <3>3, <3>5
    <3>7. Redone(p) = s[i].val
      BY <1>1, <3>2, <3>4, RedoneIs
    <3> QED BY <3>1, <3>6, <3>7
  <2> QED BY <2>1, <2>2
<1> QED BY <1>2, WorkingIs

\* commit writes COMMIT if the log has grown (nvm-common.h:905-909); if it has not,
\* the transaction has changed nothing.
LEMMA LogCommitKeeps ==
  ASSUME NEW h, IInv(h), LogCommit
  PROVE  \E g : IInv(g)'
<1>1. /\ DataTypes /\ LogTypes /\ Copied(h) /\ ToCopy(h) /\ Phases(h) /\ Fits(h) /\ Quiet
      /\ StoreKnown(h)
  BY DEF IInv
<1>2. /\ pc = "commit" /\ todo = <<>> /\ wr.next < LineSize
      /\ UNCHANGED <<area, nvm, wr, mid, data, nvmData, live, nvmLive, tail, tx, redo, del, next,
                     back, written, base>>
  BY DEF LogCommit, Written
<1>3. /\ Offset(tail) =< Offset(tx) /\ Offset(tx) =< Offset(wr) /\ End(h) = Offset(wr)
      /\ Offset(wr) \in Int /\ (End(h) = Offset(tx) => Intact) /\ End(h) + 2 =< Limit
      /\ \A n \in live : data[n] # RAW \/ n \in Deleted
  BY <1>1, <1>2, EndBehind DEF Phases, Fits
<1>4. DataTypes'
  BY <1>1, <1>2, DataStays DEF DataTypes
<1>5. /\ Limit' = Limit /\ Offset(tail)' = Offset(tail) /\ Offset(tx)' = Offset(tx)
      /\ Deleted' = Deleted /\ (Intact' <=> Intact)
  BY <1>2, LimitStays, OffsetsStay, IntactStays
<1>6. CASE NothingLogged
  <2>1. pc' = "apply" /\ UNCHANGED todo
    BY <1>6 DEF LogCommit
  <2>2. Offset(tx) = Offset(wr)
    BY <1>1, <1>3, <1>6, LogAssumption, SamePosition DEF Copied, NothingLogged
  <2>3. Intact
    BY <1>3, <2>2
  <2>4. LogTypes' /\ Copied(h)' /\ ToCopy(h)' /\ End(h)' = End(h)
    BY <1>1, <1>2, <2>1, TypesStay, BufferStays
  <2>5. Fits(h)'
    BY <1>1, <1>5, <2>1, <2>4 DEF Fits
  <2>6. Quiet'
    BY <1>2, <2>1 DEF Quiet
  <2>7. Phases(h)'
    BY <1>2, <1>3, <1>5, <2>1, <2>3 DEF Phases, CommitFilledLine, RAW
  <2>8. StoreKnown(h)' /\ Undoing(h)' /\ ~InTx'
    BY <1>1, <1>2, <2>1 DEF StoreKnown, NoStore, Undoing, InTx
  <2> QED BY <1>4, <2>4, <2>5, <2>6, <2>7, <2>8, Gather
<1>7. CASE ~NothingLogged
  <2>1. pc' = "seal" /\ todo' = << <<Tags.COMMIT>> >>
    BY <1>7 DEF LogCommit
  <2>2. PICK rec : rec = <<Tags.COMMIT>>
    OBVIOUS
  <2>3. rec \in Seq(Int) /\ Len(rec) = 1 /\ todo' = <<rec>>
    BY <2>1, <2>2, TagsAre
  <2>4. PICK g : g = [byte |-> [o \in Int |->
                         IF o < Offset(wr) THEN h.byte[o]
                         ELSE LET q == CHOOSE q \in 1 .. Len(<<rec>>) :
                                         OnePiece(rec)[q] =< o /\ o < OnePiece(rec)[q + 1]
                              IN <<rec>>[q][o - OnePiece(rec)[q] + 1]],
                      td |-> OnePiece(rec)]
    OBVIOUS
  <2>5. g.td = OnePiece(rec)
    BY <2>4
  <2>6. PutTo(h, g, <<rec>>)
    BY <2>4, <2>5 DEF PutTo
  <2> HIDE <2>4
  <2>7. /\ LogTypes' /\ Copied(g)' /\ ToCopy(g)' /\ End(g)' = End(h) + Len(rec)
        /\ Offset(wr)' = Offset(wr)
    BY <1>1, <1>2, <2>3, <2>5, <2>6, LogAssumption, PutOne
  <2>8. Fits(g)'
    <3>1. End(g)' + 1 =< Limit'
      BY <1>3, <1>5, <2>3, <2>7
    <3> QED BY <2>1, <3>1 DEF Fits
  <2>9. Quiet'
    <3>1. rec # <<>> /\ Len(todo') = 1 /\ todo'[1] = rec
      BY <2>2, <2>3
    <3> QED BY <2>1, <3>1 DEF Quiet
  <2>10. Phases(g)'
    BY <1>2, <1>3, <1>5, <2>1, <2>7 DEF Phases, CommitFilledLine, Written, RAW
  <2>11. StoreKnown(g)' /\ Undoing(g)' /\ ~InTx'
    BY <1>1, <1>2, <2>1 DEF StoreKnown, NoStore, Undoing, InTx
  <2> QED BY <1>4, <2>7, <2>8, <2>9, <2>10, <2>11, Gather
<1> QED BY <1>6, <1>7

\* The flush of COMMIT commits: the store is now the committed one.
LEMMA FlushCommitKeeps ==
  ASSUME NEW h, IInv(h), FlushCommit
  PROVE  \E g : IInv(g)'
<1>1. /\ DataTypes /\ LogTypes /\ Copied(h) /\ ToCopy(h) /\ Phases(h) /\ Fits(h) /\ Quiet
      /\ StoreKnown(h)
  BY DEF IInv
<1>2. /\ pc = "seal" /\ FlushLog /\ pc' = "apply" /\ base' = Working
      /\ UNCHANGED <<data, nvmData, live, nvmLive, tail, tx, redo, del, next, back, written>>
  BY DEF FlushCommit
<1>3. /\ LogTypes' /\ Copied(h)' /\ ToCopy(h)' /\ End(h)' = End(h)
      /\ todo = <<>> /\ todo' = todo /\ wr' = wr /\ wr.next < LineSize
      /\ (DOMAIN nvm = Lines => DOMAIN nvm' = Lines)
  BY <1>1, <1>2, LogAssumption, FlushKeeps
<1>4. DataTypes'
  BY <1>1, <1>2, <1>3, DataStays, WorkingType DEF DataTypes
<1>5. Limit' = Limit /\ Deleted' = Deleted /\ Working' = Working
  BY <1>2, LimitStays, WorkingSame
<1>6. Fits(h)'
  BY <1>1, <1>2, <1>3, <1>5 DEF Fits
<1>7. Quiet'
  BY <1>1, <1>2, <1>3 DEF Quiet
<1>8. Phases(h)'
  BY <1>1, <1>2, <1>5 DEF Phases, CommitFilledLine, Intact, RAW
<1>9. StoreKnown(h)' /\ Undoing(h)' /\ ~InTx'
  BY <1>1, <1>2 DEF StoreKnown, NoStore, Undoing, InTx
<1> QED BY <1>3, <1>4, <1>6, <1>7, <1>8, <1>9, Gather

\* RedoneIs in the next state.
LEMMA RedoneNow ==
  ASSUME RedoType', NEW p
  PROVE  /\ \A i : IsLast(redo', p, i) => Redone(p)' = redo'[i].val
         /\ (\A i \in 1 .. Len(redo') : redo'[i].addr # p) => Redone(p)' = data'[p]
<1>0. PICK R, s : R = [addr : Memory, val : Value] /\ s = redo'
  OBVIOUS
<1>1. s \in Seq(R) /\ DOMAIN s = 1 .. Len(s)
  BY <1>0 DEF RedoType, Memory
<1>2. ASSUME NEW i, IsLast(s, p, i) PROVE Redone(p)' = s[i].val
  <2>1. \A j : IsLast(s, p, j) => j = i
    BY <1>1, <1>2, LastIsOne
  <2>2. i = CHOOSE j \in DOMAIN s :
              s[j].addr = p /\ \A l \in DOMAIN s : l > j => s[l].addr # p
    BY <1>2, <2>1 DEF IsLast
  <2>3. \E j \in DOMAIN s : s[j].addr = p
    BY <1>2 DEF IsLast
  <2> QED BY <1>0, <2>2, <2>3 DEF Redone
<1>3. ASSUME \A i \in 1 .. Len(s) : s[i].addr # p PROVE Redone(p)' = data'[p]
  BY <1>0, <1>1, <1>3 DEF Redone
<1> QED BY <1>0, <1>2, <1>3

\* A redo record stored (nvm-common.h:913-933) changes nothing for callers: it already
\* counted, and a later one for the same address still does.
LEMMA ApplyRedoKeeps ==
  ASSUME NEW h, IInv(h), ApplyRedo
  PROVE  /\ Working' = Working
         /\ \E g : IInv(g)'
<1>1. /\ DataTypes /\ LogTypes /\ Copied(h) /\ ToCopy(h) /\ Phases(h) /\ Fits(h) /\ Quiet
      /\ StoreKnown(h)
  BY DEF IInv
<1>2. /\ pc = "apply" /\ redo # <<>> /\ redo' = Tail(redo)
      /\ data' = [data EXCEPT ![Head(redo).addr] = Head(redo).val]
      /\ UNCHANGED <<area, nvm, wr, todo, mid, nvmData, live, nvmLive, tail, tx, del, pc, next, back,
                     written, base>>
  BY DEF ApplyRedo, bufVars
<1>3. PICK R, s, t : R = [addr : Memory, val : Value] /\ s = redo /\ t = redo'
  OBVIOUS
<1>4. s \in Seq(R) /\ s # <<>> /\ t = Tail(s)
  BY <1>1, <1>2, <1>3 DEF DataTypes
<1>5. /\ t \in Seq(R) /\ Len(s) \in Nat /\ Len(s) >= 1 /\ Len(t) = Len(s) - 1 /\ s[1] \in R /\ Head(s) = s[1]
      /\ \A i \in 1 .. Len(t) : t[i] = s[i + 1]
  BY <1>4
<1>6. s[1].addr \in Memory /\ s[1].val \in Value /\ s[1].val # RAW
  BY <1>3, <1>5, Places
<1>7. /\ \A p \in Memory : data'[p] = IF p = s[1].addr THEN s[1].val ELSE data[p]
      /\ data' \in [Memory -> Value \cup {0, RAW}]
  <2>1. data \in [Memory -> Value \cup {0, RAW}]
    BY <1>1 DEF DataTypes
  <2>2. data' = [data EXCEPT ![s[1].addr] = s[1].val]
    BY <1>2, <1>3, <1>5
  <2> QED BY <1>6, <2>1, <2>2
<1>8. RedoType /\ RedoType'
  <2>1. redo' \in Seq([addr : Memory, val : Value])
    BY <1>3, <1>5
  <2> QED BY <1>3, <1>4, <2>1 DEF RedoType, Memory
<1>9. ASSUME NEW p \in Memory PROVE Redone(p)' = Redone(p)
  <2>1. CASE \E i \in 1 .. Len(t) : t[i].addr = p
    <3>1. PICK i : IsLast(t, p, i)
      BY <1>5, <2>1, LastExists
    <3>2. /\ i \in 1 .. Len(t) /\ t[i].addr = p
          /\ \A j \in 1 .. Len(t) : j > i => t[j].addr # p
      BY <1>5, <3>1 DEF IsLast
    <3>3. IsLast(s, p, i + 1)
      <4>1. i + 1 \in 1 .. Len(s) /\ s[i + 1].addr = p
        BY <1>5, <3>2
      <4>2. ASSUME NEW j \in 1 .. Len(s), j > i + 1 PROVE s[j].addr # p
        <5>1. j - 1 \in 1 .. Len(t) /\ j - 1 > i /\ (j - 1) + 1 = j
          BY <1>5, <3>2, <4>2
        <5>2. t[j - 1] = s[(j - 1) + 1] /\ t[j - 1].addr # p
          BY <1>5, <3>2, <5>1
        <5> QED BY <5>1, <5>2
      <4>3. DOMAIN s = 1 .. Len(s)
        BY <1>4
      <4> QED BY <4>1, <4>2, <4>3 DEF IsLast
    <3>4. Redone(p) = s[i + 1].val
      BY <1>3, <1>8, <3>3, RedoneIs
    <3>5. Redone(p)' = t[i].val
      <4>1. \A j : IsLast(redo', p, j) => Redone(p)' = redo'[j].val
        BY <1>8, RedoneNow
      <4> QED BY <1>3, <3>1, <4>1
    <3> QED BY <1>5, <3>2, <3>4, <3>5
  <2>2. CASE \A i \in 1 .. Len(t) : t[i].addr # p
    <3>1. Redone(p)' = data'[p]
      BY <1>3, <1>8, <2>2, RedoneNow
    <3>2. \A j \in 1 .. Len(s) : j > 1 => s[j].addr # p
      <4> SUFFICES ASSUME NEW j \in 1 .. Len(s), j > 1 PROVE s[j].addr # p
        OBVIOUS
      <4>1. j - 1 \in 1 .. Len(t) /\ (j - 1) + 1 = j
        BY <1>5
      <4>2. t[j - 1] = s[(j - 1) + 1] /\ t[j - 1].addr # p
        BY <1>5, <2>2, <4>1
      <4> QED BY <4>1, <4>2
    <3>3. CASE s[1].addr = p
      <4>1. IsLast(s, p, 1)
        BY <1>4, <1>5, <3>2, <3>3 DEF IsLast
      <4>2. Redone(p) = s[1].val
        BY <1>3, <1>8, <4>1, RedoneIs
      <4> QED BY <1>7, <3>1, <3>3, <4>2
    <3>4. CASE s[1].addr # p
      <4>1. \A j \in 1 .. Len(s) : s[j].addr # p
        BY <1>5, <3>2, <3>4
      <4>2. Redone(p) = data[p]
        BY <1>3, <1>8, <4>1, RedoneIs
      <4> QED BY <1>7, <3>1, <3>4, <4>2
    <3> QED BY <3>3, <3>4
  <2> QED BY <2>1, <2>2
<1>10. Deleted' = Deleted /\ Memory' = Memory
  BY <1>2 DEF Deleted, Memory
<1>11. Working' = Working
  <2>1. Working' = [p \in Memory |-> IF p \in Addr \cup (live \ Deleted) THEN Redone(p)' ELSE FREE]
    BY <1>2, <1>10 DEF Working, Shown, FREE
  <2> QED BY <1>9, <2>1, WorkingIs
<1>12. DataTypes'
  <2>1. \A i \in 1 .. Len(t) : t[i].addr \in Addr \cup live
    <3>1. \A i \in 1 .. Len(s) : s[i].addr \in Addr \cup live
      BY <1>1, <1>3 DEF DataTypes
    <3>2. \A i \in 1 .. Len(t) : i + 1 \in 1 .. Len(s)
      BY <1>5
    <3> QED BY <1>5, <3>1, <3>2
  <2>2. \A a \in Addr : data'[a] # RAW
    BY <1>1, <1>6, <1>7, Places DEF DataTypes
  <2>3. redo' \in Seq([addr : Memory, val : Value])
    BY <1>8 DEF RedoType, Memory
  <2> QED BY <1>1, <1>2, <1>3, <1>7, <2>1, <2>2, <2>3 DEF DataTypes, Memory, Lines, RAW, FREE
<1>13. /\ LogTypes' /\ Copied(h)' /\ ToCopy(h)' /\ End(h)' = End(h) /\ Limit' = Limit
       /\ Offset(tail)' = Offset(tail) /\ Offset(tx)' = Offset(tx)
  BY <1>1, <1>2, TypesStay, BufferStays, OffsetsStay
<1>14. Fits(h)' /\ Quiet'
  BY <1>1, <1>2, <1>13 DEF Fits, Quiet
<1>15. Phases(h)'
  <2>1. \A n \in live : data'[n] # RAW \/ n \in Deleted
    <3>1. \A n \in live : n \in Memory /\ (data[n] # RAW \/ n \in Deleted)
      BY <1>1, <1>2, Places DEF Phases, DataTypes
    <3> QED BY <1>6, <1>7, <3>1
  <2>2. Intact'
    BY <1>1, <1>2, <1>11 DEF Phases, Intact
  <2> QED BY <1>2, <1>10, <2>1, <2>2 DEF Phases, CommitFilledLine, RAW
<1>16. StoreKnown(h)' /\ Undoing(h)' /\ ~InTx'
  BY <1>1, <1>2 DEF StoreKnown, NoStore, Undoing, InTx
<1>17. \E g : IInv(g)'
  BY <1>12, <1>13, <1>14, <1>15, <1>16, Gather
<1> QED BY <1>11, <1>17

\* The frees at the end of commit (nvm-common.h:935-940) change nothing for callers.
LEMMA FreeNodesKeeps ==
  ASSUME NEW h, IInv(h), FreeNodes
  PROVE  /\ Working' = Working
         /\ \E g : IInv(g)'
<1>1. /\ DataTypes /\ LogTypes /\ Copied(h) /\ ToCopy(h) /\ Phases(h) /\ Fits(h) /\ Quiet
      /\ StoreKnown(h)
  BY DEF IInv
<1>2. /\ pc = "apply" /\ redo = <<>> /\ pc' = "none" /\ live' = live \ Deleted /\ del' = <<>>
      /\ data' = [a \in Memory |-> IF a \in Deleted THEN RAW ELSE data[a]]
      /\ UNCHANGED <<area, nvm, wr, todo, mid, nvmData, nvmLive, tail, tx, redo, next, back, written, base>>
  BY DEF FreeNodes, bufVars
<1>3. Deleted \subseteq live
  BY <1>1 DEF DataTypes, Deleted
<1>4. /\ \A p \in Memory : data'[p] = IF p \in Deleted THEN RAW ELSE data[p]
      /\ data' \in [Memory -> Value \cup {0, RAW}]
  BY <1>1, <1>2 DEF DataTypes
<1>5. \A p \in Memory : Redone(p) = data[p]
  <2>1. RedoType /\ Len(redo) = 0
    BY <1>2 DEF RedoType
  <2> QED BY <2>1, RedoneIs
<1>6. Working' = Working
  <2>1. Working' = [p \in Memory |-> IF p \in Addr \cup live' THEN data'[p] ELSE FREE]
    <3>1. RedoType' /\ Len(redo') = 0 /\ Deleted' = {}
      BY <1>2 DEF RedoType, Deleted
    <3>2. \A p \in Memory : Redone(p)' = data'[p]
      BY <3>1, RedoneNow
    <3> QED BY <3>1, <3>2 DEF Working, Shown, Memory, FREE
  <2>2. \A p \in Addr : p \notin Deleted
    BY <1>1, <1>3, Places DEF DataTypes
  <2> QED BY <1>2, <1>4, <1>5, <2>1, <2>2, WorkingIs
<1>7. DataTypes'
  <2>1. \A a \in Addr : data'[a] # RAW
    BY <1>1, <1>3, <1>4, Places DEF DataTypes
  <2>2. IsFiniteSet(live')
    BY <1>1, <1>2, FS_Difference DEF DataTypes
  <2>3. redo' \in Seq([addr : Memory, val : Value]) /\ del' \in Seq(Node) /\ Len(redo') = 0 /\ Len(del') = 0
    BY <1>2
  <2> QED BY <1>1, <1>2, <1>4, <2>1, <2>2, <2>3 DEF DataTypes, Memory, Lines, RAW, FREE
<1>8. /\ LogTypes' /\ Copied(h)' /\ ToCopy(h)' /\ End(h)' = End(h) /\ Limit' = Limit
      /\ Offset(tail)' = Offset(tail) /\ Offset(tx)' = Offset(tx)
  BY <1>1, <1>2, TypesStay, BufferStays, OffsetsStay
<1>9. Fits(h)' /\ Quiet'
  BY <1>1, <1>2, <1>8 DEF Fits, Quiet
<1>10. Phases(h)'
  <2>1. \A n \in live' : data'[n] # RAW
    <3>1. \A n \in live : n \in Memory /\ (data[n] # RAW \/ n \in Deleted)
      BY <1>1, <1>2, Places DEF Phases, DataTypes
    <3> QED BY <1>2, <1>4, <3>1
  <2>2. Intact'
    BY <1>1, <1>2, <1>6 DEF Phases, Intact
  <2> QED BY <1>2, <2>1, <2>2 DEF Phases, CommitFilledLine, RAW
<1>11. StoreKnown(h)' /\ Undoing(h)' /\ ~InTx'
  BY <1>1, <1>2 DEF StoreKnown, NoStore, Undoing, InTx
<1>12. \E g : IInv(g)'
  BY <1>7, <1>8, <1>9, <1>10, <1>11, Gather
<1> QED BY <1>6, <1>12
-----------------------------------------------------------------------------
\* A step of the writer leaves the data alone.
LEMMA CompleteLineKeeps ==
  ASSUME NEW h, IInv(h), WriteLogLine, CompleteLine2Log
  PROVE  \E g : IInv(g)'
<1>1. /\ DataTypes /\ LogTypes /\ Copied(h) /\ ToCopy(h) /\ Phases(h) /\ Fits(h) /\ Quiet
      /\ StoreKnown(h) /\ Undoing(h)
  BY DEF IInv
<1>2. /\ wr.next = LineSize /\ todo' = todo
      /\ base' = IF pc = "seal" /\ todo = <<>> THEN Working ELSE base
      /\ UNCHANGED <<data, nvmData, live, nvmLive, tail, tx, redo, del, pc, next, back, written>>
  BY DEF WriteLogLine, CompleteLine2Log
<1>3. LineSize \in Nat
  BY LogAssumption, Sizes
<1>4. pc \in {"log", "store", "commit", "seal", "aborted"}
  BY <1>1, <1>2, <1>3 DEF Quiet, Phases
<1>5. End(h) + 1 =< Limit
  BY <1>1 DEF Fits
<1>6. /\ LogTypes' /\ Copied(h)' /\ ToCopy(h)' /\ Offset(wr)' = Offset(wr) /\ End(h)' = End(h)
      /\ wr'.next = 2 /\ (DOMAIN nvm = Lines => DOMAIN nvm' = Lines)
  BY <1>1, <1>2, <1>5, LogAssumption, CompleteKeeps
<1>7. DataTypes'
  BY <1>1, <1>2, <1>6, DataStays, WorkingType DEF DataTypes
<1>8. /\ Limit' = Limit /\ Offset(tail)' = Offset(tail) /\ Offset(tx)' = Offset(tx)
      /\ Deleted' = Deleted /\ Working' = Working /\ Needs' = Needs
  BY <1>2, LimitStays, OffsetsStay, WorkingSame, NeedsStay
<1>9. Fits(h)'
  BY <1>1, <1>2, <1>6, <1>8 DEF Fits
<1>10. Quiet'
  BY <1>1, <1>2, <1>4 DEF Quiet
<1>11. Phases(h)'
  <2>1. CommitFilledLine' => Intact'
    BY <1>2, <1>8 DEF CommitFilledLine, Written, Intact
  <2>2. pc # "seal" => Intact' = Intact
    BY <1>2, <1>8 DEF Intact
  <2> QED BY <1>1, <1>2, <1>4, <1>6, <1>8, <2>1, <2>2 DEF Phases, RAW
<1>12. StoreKnown(h)'
  BY <1>1, <1>2, StoreKnownStays
<1>13. Undoing(h)'
  BY <1>2, <1>4 DEF Undoing
<1>14. InTx' => Logged(h)' /\ BaseKnown(h)'
  <2> SUFFICES ASSUME InTx' PROVE Logged(h)' /\ BaseKnown(h)'
    OBVIOUS
  <2>1. InTx /\ base' = base
    BY <1>2 DEF InTx
  <2>2. Logged(h) /\ BaseKnown(h)
    BY <2>1 DEF IInv
  <2>3. End(h) \in Int
    BY <1>1, EndBehind
  <2> QED BY <1>2, <1>6, <2>1, <2>2, <2>3, LoggedStays, KnownStays
<1> QED
  BY <1>6, <1>7, <1>9, <1>10, <1>11, <1>12, <1>13, <1>14, Gather

\* writeLog copies bytes: the transaction is where it was, and nothing is committed.
LEMMA CopyLineKeeps ==
  ASSUME NEW h, IInv(h), WriteLogLine, CopyToLine
  PROVE  base' = base /\ \E g : IInv(g)'
<1>1. /\ DataTypes /\ LogTypes /\ Copied(h) /\ ToCopy(h) /\ Phases(h) /\ Fits(h) /\ Quiet
      /\ StoreKnown(h) /\ Undoing(h)
  BY DEF IInv
<1>2. /\ todo # <<>> /\ nvm' = nvm /\ base' = base
      /\ UNCHANGED <<data, nvmData, live, nvmLive, tail, tx, redo, del, pc, next, back, written>>
  BY DEF WriteLogLine, CopyToLine
<1>3. pc \in {"log", "store", "commit", "seal", "aborted"}
  BY <1>1, <1>2 DEF Quiet, Phases
<1>4. PICK g : g = [byte |-> h.byte,
                    td |-> [q \in 1 .. Len(todo') + 1 |->
                              IF q = 1 THEN Offset(wr) + Copies
                              ELSE IF mid' THEN h.td[q] ELSE h.td[q + 1]],
                    n |-> h.n, st |-> h.st, rec |-> h.rec]
  OBVIOUS
<1>5. CopiedTo(h, g) /\ g.byte = h.byte /\ g.n = h.n /\ g.st = h.st /\ g.rec = h.rec
  BY <1>4 DEF CopiedTo
<1> HIDE <1>4
<1>6. /\ LogTypes' /\ Copied(g)' /\ ToCopy(g)' /\ End(g)' = End(h)
      /\ Offset(wr) =< Offset(wr)' /\ Offset(wr)' \in Int
      /\ (\A q \in 1 .. Len(todo) : todo[q] # <<>>) =>
            wr'.next > 2 /\ \A q \in 1 .. Len(todo') : todo'[q] # <<>>
  BY <1>1, <1>2, <1>5, LogAssumption, CopyKeeps
<1>7. wr'.next > 2 /\ \A q \in 1 .. Len(todo') : todo'[q] # <<>>
  BY <1>1, <1>6 DEF Quiet
<1>8. DataTypes'
  BY <1>1, <1>2, DataStays DEF DataTypes
<1>9. /\ Limit' = Limit /\ Offset(tail)' = Offset(tail) /\ Offset(tx)' = Offset(tx)
      /\ Deleted' = Deleted /\ Needs' = Needs /\ (Intact' <=> Intact)
  BY <1>2, LimitStays, OffsetsStay, NeedsStay, IntactStays
<1>10. Fits(g)'
  BY <1>1, <1>2, <1>6, <1>9 DEF Fits
<1>11. Quiet'
  BY <1>2, <1>3, <1>7 DEF Quiet
<1>12. Phases(g)'
  <2>1. ~CommitFilledLine'
    BY <1>7 DEF CommitFilledLine
  <2>2. pc \in {"commit", "seal"} => Offset(tx) =< Offset(wr)'
    <3> SUFFICES ASSUME pc \in {"commit", "seal"} PROVE Offset(tx) =< Offset(wr)'
      OBVIOUS
    <3>1. PICK a, b, c : a = Offset(tx) /\ b = Offset(wr) /\ c = Offset(wr)'
      OBVIOUS
    <3>2. a =< b /\ b =< c
      BY <1>1, <1>6, <3>1 DEF Phases
    <3>3. a \in Int /\ b \in Int /\ c \in Int
      <4>1. /\ tail.ver \in {0, 1} /\ tail.line \in Lines
            /\ tx.ver \in {0, 1} /\ tx.line \in Lines /\ tx.next \in 2 .. LineSize - 1
        BY <1>1 DEF LogTypes
      <4>2. tx.next \in Int
        BY <4>1, LogAssumption, Sizes
      <4>3. Offset(tx) \in Int
        BY <4>1, <4>2, LogAssumption, Positions
      <4> QED BY <1>1, <1>6, <3>1, <4>3, EndBehind
    <3>4. a =< c
      BY <3>2, <3>3
    <3> QED BY <3>1, <3>4
  <2> QED BY <1>1, <1>2, <1>3, <1>5, <1>6, <1>9, <2>1, <2>2 DEF Phases, RAW
<1>13. StoreKnown(g)'
  BY <1>1, <1>2, <1>5, StoreKnownStays
<1>14. Undoing(g)'
  BY <1>2, <1>3 DEF Undoing
<1>15. InTx' => Logged(g)' /\ BaseKnown(g)'
  <2> SUFFICES ASSUME InTx' PROVE Logged(g)' /\ BaseKnown(g)'
    OBVIOUS
  <2>1. InTx
    BY <1>2 DEF InTx
  <2>2. Logged(h) /\ BaseKnown(h)
    BY <2>1 DEF IInv
  <2>3. End(h) \in Int /\ End(h) =< End(g)'
    BY <1>1, <1>6, EndBehind
  <2> QED BY <1>2, <1>5, <1>6, <2>2, <2>3, LoggedStays, KnownStays
<1>16. \E a : IInv(a)'
  BY <1>6, <1>8, <1>10, <1>11, <1>12, <1>13, <1>14, <1>15, Gather
<1> QED BY <1>2, <1>16
-----------------------------------------------------------------------------
\* abort's last flush (nvm-common.h:1032) keeps the account.
LEMMA FlushAbortKeeps ==
  ASSUME NEW h, IInv(h), FlushAbort
  PROVE  \E g : IInv(g)'
<1>1. /\ DataTypes /\ LogTypes /\ Copied(h) /\ ToCopy(h) /\ Phases(h) /\ Fits(h) /\ Quiet
      /\ StoreKnown(h)
  BY DEF IInv
<1>2. /\ pc = "aborted" /\ FlushLog /\ pc' = "none"
      /\ UNCHANGED <<data, nvmData, live, nvmLive, tail, tx, redo, del, next, back, written, base>>
  BY DEF FlushAbort
<1>3. /\ LogTypes' /\ Copied(h)' /\ ToCopy(h)' /\ End(h)' = End(h)
      /\ todo = <<>> /\ todo' = todo /\ wr' = wr /\ wr.next < LineSize
      /\ (DOMAIN nvm = Lines => DOMAIN nvm' = Lines)
  BY <1>1, <1>2, LogAssumption, FlushKeeps
<1>4. DataTypes'
  BY <1>1, <1>2, <1>3, DataStays DEF DataTypes
<1>5. Limit' = Limit /\ Deleted' = Deleted /\ (Intact' <=> Intact)
  BY <1>2, LimitStays, IntactStays
<1>6. Fits(h)'
  BY <1>1, <1>2, <1>3, <1>5 DEF Fits
<1>7. Quiet'
  BY <1>2, <1>3 DEF Quiet
<1>8. Phases(h)'
  BY <1>1, <1>2, <1>5 DEF Phases, CommitFilledLine, RAW
<1>9. StoreKnown(h)' /\ Undoing(h)' /\ ~InTx'
  BY <1>1, <1>2 DEF StoreKnown, NoStore, Undoing, InTx
<1> QED BY <1>3, <1>4, <1>6, <1>7, <1>8, <1>9, Gather

\* The log begins at the writer: the row has no bytes yet.
LEMMA EmptyLog ==
  ASSUME LogAssumption, NEW g, area' \in [Lines -> LineType], mid' \in BOOLEAN, todo' = <<>>, tail' = wr',
         wr' \in [ver : {0, 1}, off : {0} \cup 2 .. LineSize - 1, line : Lines, next : 2 .. LineSize - 1],
         tx' \in [ver : {0, 1}, off : {0} \cup 2 .. LineSize - 1, line : Lines, next : 2 .. LineSize - 1],
         g.td = [q \in {1} |-> Offset(wr)'], pc' = "none"
  PROVE  LogTypes' /\ Copied(g)' /\ ToCopy(g)' /\ Fits(g)'
<1>1. PICK p, n, l, x : p = PerLine /\ n = NumLines /\ l = wr'.line /\ x = wr'.next
  OBVIOUS
<1>2. /\ p \in Nat \ {0} /\ n \in Nat \ {0} /\ l \in Nat /\ x \in Nat /\ x >= 2 /\ x =< p + 1
      /\ LineSize = p + 2
  BY <1>1, Sizes
<1>3. AbsLine(wr)' = l /\ Offset(wr)' = l * p + x - 2 /\ Offset(tail)' = l * p + x - 2
  <2>1. AbsLine(wr)' = l + 0 /\ AbsLine(tail)' = l + 0
    BY <1>1 DEF AbsLine
  <2>2. l + 0 = l
    BY <1>2
  <2> QED BY <1>1, <2>1, <2>2 DEF Offset, PerLine
<1>4. l * p \in Nat /\ n * p \in Nat /\ (l + n) * p = l * p + n * p
  BY <1>2, Distributes
<1>5. n * p >= p
  <2>1. n - 1 \in Nat /\ (n - 1) * p = n * p - 1 * p
    BY <1>2, Distributes
  <2>2. (n - 1) * p \in Nat
    BY <1>2, <2>1
  <2> QED BY <1>2, <1>4, <2>1, <2>2
<1>6. LogTypes'
  <2>1. wr'.next \in 2 .. LineSize
    BY <1>1, <1>2
  <2>2. <<>> \in Seq(Seq(Int))
    OBVIOUS
  <2> QED BY <2>1, <2>2 DEF LogTypes, LineType, Lines
<1>7. Copied(g)'
  <2>1. \A m \in l .. l, b \in 2 .. LineSize - 1 :
           ~(l * p + x - 2 =< Place(m, b) /\ Place(m, b) < l * p + x - 2)
    <3>1. \A m \in l .. l, b \in 2 .. LineSize - 1 : Place(m, b) \in Int
      BY <1>1, <1>2, <1>4 DEF Place
    <3>2. l * p + x - 2 \in Int
      BY <1>2, <1>4
    <3> QED BY <3>1, <3>2
  <2>2. \A m \in l .. l - 1 : FALSE
    BY <1>2
  <2>3. l =< l /\ l < l + n /\ l * p + x - 2 =< l * p + x - 2
    BY <1>2, <1>4
  <2>4. \A m, b : Place(m, b)' = Place(m, b)
    BY DEF Place, PerLine
  <2>5. /\ Offset(tail)' =< Offset(wr)' /\ tail'.line =< AbsLine(wr)' /\ AbsLine(wr)' < tail'.line + NumLines
    BY <1>1, <1>3, <2>3
  <2>6. \A m \in tail'.line .. AbsLine(wr)', b \in 2 .. LineSize - 1 :
           ~(Offset(tail)' =< Place(m, b) /\ Place(m, b) < Offset(wr)')
    BY <1>1, <1>3, <2>1
  <2>7. \A m \in tail'.line .. AbsLine(wr)' - 1 : FALSE
    BY <1>1, <1>3, <2>2
  <2> QED BY <2>4, <2>5, <2>6, <2>7 DEF Copied
<1>8. Offset(wr)' \in Int
  BY <1>2, <1>3, <1>4
<1>9. Len(todo') = 0 /\ g.td[1] = Offset(wr)'
  OBVIOUS
<1>10. ToCopy(g)'
  <2>1. \A q \in 1 .. Len(todo') + 1 : q = 1
    BY <1>9
  <2>2. \A q \in 1 .. Len(todo') : FALSE
    BY <1>9
  <2>3. Offset(wr)' =< Offset(wr)'
    BY <1>8
  <2> QED BY <1>8, <1>9, <2>1, <2>2, <2>3 DEF ToCopy
<1>11. End(g)' = Offset(wr)'
  <2>1. Len(todo') + 1 = 1
    BY <1>9
  <2> QED BY <1>9, <2>1 DEF End
<1>12. Limit' = (l + n) * p
  BY <1>1 DEF Limit, PerLine
<1>13. Offset(wr)' + 1 =< (l + n) * p
  BY <1>2, <1>3, <1>4, <1>5
<1>14. Fits(g)'
  BY <1>11, <1>12, <1>13 DEF Fits
<1> QED BY <1>6, <1>7, <1>10, <1>14

\* Truncation between transactions (nvm-common.h:459-467) begins a new row at the
\* writer.
LEMMA TruncateKeeps ==
  ASSUME NEW h, IInv(h), Truncate
  PROVE  \E g : IInv(g)'
<1>1. /\ DataTypes /\ LogTypes /\ Phases(h) /\ Quiet /\ StoreKnown(h)
  BY DEF IInv
<1>2. /\ pc = "none" /\ tail' = wr /\ nvmData' = data /\ nvmLive' = live
      /\ UNCHANGED <<area, nvm, wr, todo, mid, data, live, tx, redo, del, pc, next, back, written, base>>
  BY DEF Truncate, bufVars
<1>3. todo = <<>> /\ wr.next < LineSize
  BY <1>1, <1>2 DEF Quiet
<1>4. wr \in [ver : {0, 1}, off : {0} \cup 2 .. LineSize - 1, line : Lines, next : 2 .. LineSize - 1]
  <2>1. wr.next \in 2 .. LineSize - 1
    BY <1>1, <1>3, LogAssumption, Sizes DEF LogTypes
  <2> QED BY <1>1, <2>1 DEF LogTypes
<1>5. PICK g : g = [byte |-> <<>>, td |-> [q \in {1} |-> Offset(wr)']]
  OBVIOUS
<1>6. LogTypes' /\ Copied(g)' /\ ToCopy(g)' /\ Fits(g)'
  <2>1. area \in [Lines -> LineType] /\ mid \in BOOLEAN
        /\ tx \in [ver : {0, 1}, off : {0} \cup 2 .. LineSize - 1, line : Lines, next : 2 .. LineSize - 1]
    BY <1>1 DEF LogTypes
  <2> QED BY <1>2, <1>3, <1>4, <1>5, <2>1, LogAssumption, EmptyLog
<1>7. DataTypes'
  BY <1>1, <1>2 DEF DataTypes, Memory, Lines, RAW, FREE
<1>8. Quiet'
  BY <1>1, <1>2 DEF Quiet
<1>9. Phases(g)'
  <2>1. Deleted' = Deleted /\ (Intact' <=> Intact)
    BY <1>2, IntactStays
  <2> QED BY <1>1, <1>2, <2>1 DEF Phases, CommitFilledLine, RAW
<1>10. StoreKnown(g)' /\ Undoing(g)' /\ ~InTx'
  BY <1>1, <1>2 DEF StoreKnown, NoStore, Undoing, InTx
<1> QED BY <1>6, <1>7, <1>8, <1>9, <1>10, Gather

\* Where abort stands after a step.
LEMMA BackNow ==
  ASSUME NEW o, NEW m \in -1 .. 2 * NumLines - 1, NEW b \in 3 .. LineSize, o = Place(m, b), tail' = tail,
         back' = [line |-> m % NumLines, next |-> b, ver |-> Version(m)]
  PROVE  BackAt(o)'
<1>1. Place(m, b)' = Place(m, b) /\ Version(m)' = Version(m)
  BY DEF Place, PerLine, Version, Lines
<1> QED BY <1>1 DEF BackAt

\* abortMiniTransaction (nvm-common.h:942-950) flushes and starts behind the last
\* record; the log does not end with a line, so the line it stands in is sealed.
LEMMA AbortKeeps ==
  ASSUME NEW h, IInv(h), AbortAnywhere = FALSE, AbortMiniTransaction
  PROVE  IInv(h)'
<1>1. /\ DataTypes /\ LogTypes /\ Copied(h) /\ ToCopy(h) /\ Phases(h) /\ Fits(h) /\ Quiet
      /\ StoreKnown(h)
  BY DEF IInv
<1>2. /\ pc = "run" /\ wr.next > 2 /\ FlushLog /\ back' = ReverseFrom(area', wr)
      /\ pc' = "undo" /\ redo' = <<>> /\ del' = <<>>
      /\ UNCHANGED <<data, nvmData, live, nvmLive, tail, tx, next, written, base>>
  BY DEF AbortMiniTransaction
<1>3. Logged(h) /\ BaseKnown(h) /\ next = NoStore
  BY <1>1, <1>2 DEF IInv, InTx, StoreKnown
<1>4. /\ LogTypes' /\ Copied(h)' /\ ToCopy(h)' /\ Offset(wr)' = Offset(wr) /\ End(h)' = End(h)
      /\ todo = <<>> /\ wr.next < LineSize /\ wr' = wr /\ todo' = todo
      /\ area'[wr.line].ok /\ area'[wr.line].ver = wr.ver
      /\ (DOMAIN nvm = Lines => DOMAIN nvm' = Lines)
  BY <1>1, <1>2, LogAssumption, FlushKeeps
<1>5. End(h) = Offset(wr) /\ Offset(wr) \in Int /\ Limit \in Int /\ Limit' = Limit
  BY <1>1, <1>2, <1>4, EndBehind, LimitIs, LimitStays
<1>6. DataTypes'
  <2>1. redo' \in Seq([addr : Memory, val : Value]) /\ del' \in Seq(Node) /\ Len(redo') = 0 /\ Len(del') = 0
    BY <1>2
  <2> QED BY <1>1, <1>2, <1>4, <2>1 DEF DataTypes, Memory, Lines, RAW, FREE
<1>7. Fits(h)'
  <2>1. End(h) + Needs + 2 =< Limit /\ Needs \in Nat
    BY <1>1, <1>2, NeedsIs DEF Fits
  <2>2. End(h) + 2 =< Limit /\ End(h) + 1 =< Limit
    BY <1>5, <2>1
  <2> QED BY <1>2, <1>4, <1>5, <2>2 DEF Fits
<1>8. Quiet'
  BY <1>1, <1>2, <1>4 DEF Quiet
<1>9. Phases(h)'
  BY <1>2 DEF Phases, CommitFilledLine
<1>10. Logged(h)' /\ BaseKnown(h)'
  BY <1>2, <1>3, <1>4, <1>5, LoggedStays, KnownStays
<1>11. StoreKnown(h)'
  BY <1>2, <1>3 DEF StoreKnown, NoStore
<1>12. Undoing(h)'
  <2>1. /\ AbsLine(wr) \in 0 .. 2 * NumLines - 1 /\ AbsLine(wr) % NumLines = wr.line
        /\ Version(AbsLine(wr)) = wr.ver /\ Offset(wr) = AbsLine(wr) * PerLine + wr.next - 2
        /\ wr.next \in 3 .. LineSize
    <3>1. /\ tail.ver \in {0, 1} /\ tail.line \in Lines /\ wr.ver \in {0, 1} /\ wr.line \in Lines
          /\ wr.next \in 2 .. LineSize
      BY <1>1 DEF LogTypes
    <3>2. wr.next \in Int /\ wr.next \in 3 .. LineSize
      BY <1>2, <3>1, LogAssumption, Sizes
    <3> QED BY <3>1, <3>2, LogAssumption, Positions
  <2>2. back' = [line |-> AbsLine(wr) % NumLines, next |-> wr.next, ver |-> Version(AbsLine(wr))]
    BY <1>2, <1>4, <2>1 DEF ReverseFrom
  <2>3. AbsLine(wr) \in -1 .. 2 * NumLines - 1
    BY <2>1, LogAssumption, Sizes
  <2>4. h.st[h.n + 1] = Place(AbsLine(wr), wr.next)
    BY <1>1, <1>2, <1>5, <2>1 DEF Phases, Place
  <2>5. BackAt(h.st[h.n + 1])'
    BY <1>2, <2>1, <2>2, <2>3, <2>4, BackNow
  <2> QED BY <1>2, <1>4, <2>5 DEF Undoing
<1> QED
  BY <1>4, <1>6, <1>7, <1>8, <1>9, <1>10, <1>11, <1>12, AllOf

\* The first state has an account too.
LEMMA InitHolds ==
  ASSUME Init
  PROVE  \E h : IInv(h)
<1>1. /\ area = [l \in Lines |-> InitLine] /\ nvm = area /\ todo = <<>> /\ mid = FALSE
      /\ wr = [ver |-> 1, off |-> 0, line |-> 0, next |-> 2] /\ tail = wr /\ tx = wr
      /\ data = [a \in Memory |-> IF a \in Addr THEN 0 ELSE RAW] /\ nvmData = data
      /\ live = {} /\ nvmLive = {} /\ redo = <<>> /\ del = <<>> /\ pc = "none" /\ next = NoStore
      /\ written = {} /\ base = [a \in Memory |-> IF a \in Addr THEN 0 ELSE FREE]
  BY DEF Init, InitLog
<1>2. /\ PerLine \in Nat \ {0} /\ LineSize = PerLine + 2 /\ NumLines \in Nat \ {0} /\ NumLines >= 2
      /\ Lines = 0 .. NumLines - 1
  BY LogAssumption, Sizes
<1>3. PICK h : h = [byte |-> <<>>, td |-> [q \in {1} |-> 0]]
  OBVIOUS
<1>4. 0 \in Lines /\ 2 \in 2 .. LineSize - 1 /\ 2 \in 2 .. LineSize
  BY <1>2
<1>5. AbsLine(wr) = 0 /\ Offset(wr) = 0 /\ Offset(tail) = 0
  <2>1. AbsLine(wr) = 0 /\ AbsLine(tail) = 0
    BY <1>1 DEF AbsLine
  <2>2. 0 * PerLine = 0
    BY <1>2
  <2> QED BY <1>1, <2>1, <2>2 DEF Offset
<1>6. LogTypes
  <2>1. InitLine \in LineType
    BY <1>2 DEF InitLine, LineType
  <2>2. area \in [Lines -> LineType]
    BY <1>1, <2>1
  <2>3. todo \in Seq(Seq(Int))
    BY <1>1
  <2> QED BY <1>1, <1>4, <2>2, <2>3 DEF LogTypes
<1>7. DataTypes
  <2>1. RAW # 0 /\ RAW = -1
    BY DEF RAW
  <2>2. IsFiniteSet(live)
    BY <1>1, FS_EmptySet
  <2>3. redo \in Seq([addr : Memory, val : Value]) /\ del \in Seq(Node) /\ Len(redo) = 0 /\ Len(del) = 0
    BY <1>1
  <2>4. \A a \in Addr : a \in Memory
    BY DEF Memory
  <2> QED BY <1>1, <2>1, <2>2, <2>3, <2>4 DEF DataTypes
<1>8. Copied(h)
  <2>1. \A m \in 0 .. 0, b \in 2 .. LineSize - 1 : ~(0 =< Place(m, b) /\ Place(m, b) < 0)
    <3>1. \A m \in 0 .. 0, b \in 2 .. LineSize - 1 : Place(m, b) \in Int
      BY <1>2 DEF Place
    <3> QED BY <3>1
  <2>2. \A m \in 0 .. 0 - 1 : FALSE
    OBVIOUS
  <2>3. 0 =< 0 /\ 0 < 0 + NumLines
    BY <1>2
  <2> QED BY <1>1, <1>5, <2>1, <2>2, <2>3 DEF Copied
<1>9. Len(todo) = 0 /\ h.td[1] = 0
  BY <1>1, <1>3
<1>10. ToCopy(h) /\ End(h) = 0
  <2>1. \A q \in 1 .. Len(todo) + 1 : q = 1
    BY <1>9
  <2>2. \A q \in 1 .. Len(todo) : FALSE
    BY <1>9
  <2>3. Len(todo) + 1 = 1
    BY <1>9
  <2> QED BY <1>5, <1>9, <2>1, <2>2, <2>3 DEF ToCopy, End
<1>11. Fits(h)
  <2>1. /\ Limit = 0 * PerLine + NumLines * PerLine /\ NumLines * PerLine >= PerLine + PerLine
        /\ NumLines * PerLine \in Nat
    BY <1>1, <1>6, LimitIs
  <2>2. 0 + 1 =< Limit
    BY <1>2, <2>1
  <2> QED BY <1>1, <1>10, <2>2 DEF Fits
<1>12. Quiet
  BY <1>1, <1>2, <1>9 DEF Quiet
<1>13. Intact
  <2>1. Working = [p \in Memory |-> IF p \in Addr \cup live THEN data[p] ELSE FREE]
    BY <1>1, NothingToRedo
  <2> QED BY <1>1, <2>1 DEF Intact
<1>14. Phases(h)
  BY <1>1, <1>13 DEF Phases, CommitFilledLine
<1>15. StoreKnown(h) /\ Undoing(h) /\ ~InTx
  BY <1>1 DEF StoreKnown, Undoing, InTx
<1>16. IInv(h)
  BY <1>6, <1>7, <1>8, <1>10, <1>11, <1>12, <1>14, <1>15 DEF IInv
<1> QED BY <1>16
-----------------------------------------------------------------------------
\* Reading backward.  The position of byte b of line m of the row:
Pos(m, b) == [line |-> m % NumLines, next |-> b, ver |-> Version(m)]

\* k bytes before a place in the row, unless that is before the row begins.
LEMMA BeforeIs ==
  ASSUME LogAssumption, tail.ver \in {0, 1},
         NEW m \in 0 .. 2 * NumLines - 1, NEW b \in 2 .. LineSize, NEW k \in Nat,
         NEW mm \in 0 .. m, NEW bb \in 2 .. LineSize - 1, Place(m, b) - k = Place(mm, bb),
         NEW pos, pos.line = m % NumLines, pos.next = b, pos.ver = Version(m)
  PROVE  Before(pos, k) = Pos(mm, bb)
<1>1. PICK p, n : p = PerLine /\ n = NumLines
  OBVIOUS
<1>2. /\ p \in Nat \ {0} /\ n \in Nat \ {0} /\ LineSize = p + 2 /\ Lines = 0 .. n - 1
      /\ m \in Int /\ mm \in Int /\ b \in Int /\ bb \in Int /\ bb - 2 \in 0 .. p - 1
      /\ mm =< m /\ mm >= 0 /\ m < n + n
  <2>1. p \in Nat \ {0} /\ n \in Nat \ {0} /\ LineSize = p + 2 /\ Lines = 0 .. n - 1
    BY <1>1, Sizes
  <2>2. m \in 0 .. 2 * n - 1 /\ b \in 2 .. p + 2 /\ mm \in 0 .. m /\ bb \in 2 .. p + 2 - 1
    BY <1>1, <2>1
  <2> QED BY ONLY <2>1, <2>2
<1>3. /\ m * p \in Int /\ mm * p \in Int /\ n * p \in Int
      /\ m * p + b - 2 - k = mm * p + (bb - 2)
  BY <1>1, <1>2 DEF Place
<1>4. PICK x : x = pos.line * p + pos.next - 2 - k
  OBVIOUS
<1>5. Before(pos, k) = [line |-> (x \div p) % n, next |-> (x % p) + 2,
                        ver |-> IF x < 0 THEN 1 - pos.ver ELSE pos.ver]
  BY <1>1, <1>4 DEF Before, PerLine
<1>6. CASE m < n
  <2>0. m \in 0 .. n - 1 /\ mm \in 0 .. n - 1
    BY <1>2, <1>6
  <2>1a. m % n = m
    BY <1>2, <2>0, LineOf
  <2>1b. mm % n = mm
    BY <1>2, <2>0, LineOf
  <2>1. m % n = m /\ mm % n = mm
    BY <2>1a, <2>1b
  <2>2. x = mm * p + (bb - 2)
    BY <1>1, <1>3, <1>4, <2>1
  <2>3. x \div p = mm /\ x % p = bb - 2
    BY <1>2, <2>2, Quotient
  <2>4. mm * p >= 0
    BY <1>2
  <2>5. ~(x < 0)
    BY <1>2, <1>3, <2>2, <2>4
  <2>6. Version(m) = tail.ver /\ Version(mm) = tail.ver
    BY <1>2, <1>6 DEF Version
  <2>7. (bb - 2) + 2 = bb
    BY <1>2
  <2> QED BY <1>1, <1>5, <2>1, <2>3, <2>5, <2>6, <2>7 DEF Pos
<1>7. CASE m >= n
  <2>1. m - n \in 0 .. n - 1 /\ (m - n) + n = m
    BY <1>2, <1>7
  <2>2. m % n = m - n
    <3>1. ((m - n) + n) % n = m - n
      BY <1>2, <2>1, LineOf
    <3> QED BY <2>1, <3>1
  <2>3. (m - n) * p = m * p - n * p /\ (mm - n) * p = mm * p - n * p
    BY <1>2, Distributes
  <2>4. x = (mm - n) * p + (bb - 2)
    <3>1. PICK u, v, w : u = m * p /\ v = mm * p /\ w = n * p
      OBVIOUS
    <3>2. u \in Int /\ v \in Int /\ w \in Int /\ u + b - 2 - k = v + (bb - 2)
      BY <1>3, <3>1
    <3>3. x = (m - n) * p + b - 2 - k
      BY <1>1, <1>4, <2>2
    <3>4. x = (u - w) + b - 2 - k
      BY <2>3, <3>1, <3>3
    <3>5. x = (v - w) + (bb - 2)
      BY ONLY <1>2, <3>2, <3>4, k \in Nat
    <3> QED BY <2>3, <3>1, <3>5
  <2>4a. mm - n \in Int
    BY <1>2
  <2>5. x \div p = mm - n /\ x % p = bb - 2
    BY <1>2, <2>4, <2>4a, Quotient
  <2>6. (mm - n) % n = mm % n
    BY <1>2, AroundOnce
  <2>7. x < 0 <=> mm < n
    <3>1. CASE mm < n
      <4>1. mm * p + p =< n * p
        BY <1>2, <3>1, LinesApart
      <4> QED BY <1>2, <1>3, <2>3, <2>4, <3>1, <4>1
    <3>2. CASE ~(mm < n)
      <4>1. mm = n \/ n < mm
        BY <1>2, <3>2
      <4>2. mm * p >= n * p
        <5>1. CASE mm = n
          BY <1>3, <5>1
        <5>2. CASE n < mm
          <6>1. n * p + p =< mm * p
            BY <1>2, <5>2, LinesApart
          <6> QED BY <1>2, <1>3, <6>1
        <5> QED BY <4>1, <5>1, <5>2
      <4> QED BY <1>2, <1>3, <2>3, <2>4, <3>2, <4>2
    <3> QED BY <3>1, <3>2
  <2>8. Version(m) = 1 - tail.ver
    BY <1>2, <1>7 DEF Version
  <2>9. Version(mm) = IF mm < n THEN tail.ver ELSE 1 - tail.ver
    BY <1>2 DEF Version
  <2>10. 1 - (1 - tail.ver) = tail.ver /\ (bb - 2) + 2 = bb
    BY <1>2
  <2> QED BY <1>1, <1>5, <2>5, <2>6, <2>7, <2>8, <2>9, <2>10 DEF Pos
<1> QED BY <1>2, <1>6, <1>7

\* A place at the beginning of a line is also at the end of the line before.
LEMMA StartToEnd ==
  ASSUME LogAssumption, tail.ver \in {0, 1},
         NEW m \in 0 .. 2 * NumLines - 1, NEW b \in 2 .. LineSize,
         NEW pos, pos.line = m % NumLines, pos.next = b, pos.ver = Version(m)
  PROVE  \E mm \in -1 .. 2 * NumLines - 1, bb \in 3 .. LineSize :
           /\ Place(mm, bb) = Place(m, b)
           /\ LineStartToEnd(pos).line = mm % NumLines /\ LineStartToEnd(pos).next = bb
           /\ b = 2 => LineStartToEnd(pos) = Pos(mm, bb)
           /\ b # 2 => LineStartToEnd(pos) = pos /\ mm = m /\ bb = b
<1>1. PICK p, n : p = PerLine /\ n = NumLines
  OBVIOUS
<1>2. /\ p \in Nat \ {0} /\ n \in Nat \ {0} /\ LineSize = p + 2 /\ Lines = 0 .. n - 1
      /\ m \in Int /\ b \in Int /\ m >= 0 /\ m < n + n
  BY <1>1, Sizes
<1>3. CASE b # 2
  <2>1. LineStartToEnd(pos) = pos
    BY <1>3 DEF LineStartToEnd
  <2>2. m \in -1 .. 2 * NumLines - 1 /\ b \in 3 .. LineSize
    BY <1>1, <1>2, <1>3
  <2> QED BY <1>3, <2>1, <2>2
<1>4. CASE b = 2
  <2>1. LineStartToEnd(pos) = [Before(pos, 1) EXCEPT !.next = LineSize]
    BY <1>4 DEF LineStartToEnd
  <2>2. PICK x : x = pos.line * p + pos.next - 2 - 1
    OBVIOUS
  <2>3. Before(pos, 1) = [line |-> (x \div p) % n, next |-> (x % p) + 2,
                          ver |-> IF x < 0 THEN 1 - pos.ver ELSE pos.ver]
    BY <1>1, <2>2 DEF Before, PerLine
  <2>4. PICK r : r = m % n
    OBVIOUS
  <2>5. r \in 0 .. n - 1 /\ (r = m \/ r = m - n) /\ (m < n => r = m) /\ (m >= n => r = m - n)
    <3>1. CASE m < n
      <4>1. m \in 0 .. n - 1
        BY <1>2, <3>1
      <4>2. m % n = m
        BY <1>2, <4>1, LineOf
      <4> QED BY <1>2, <2>4, <3>1, <4>1, <4>2
    <3>2. CASE m >= n
      <4>1. m - n \in 0 .. n - 1 /\ (m - n) + n = m
        BY <1>2, <3>2
      <4>2. ((m - n) + n) % n = m - n
        BY <1>2, <4>1, LineOf
      <4> QED BY <1>2, <2>4, <3>2, <4>1, <4>2
    <3> QED BY <1>2, <3>1, <3>2
  <2>6. r \in Int /\ r - 1 \in Int /\ p - 1 \in 0 .. p - 1
    BY <1>2, <2>5
  <2>7. r * p \in Int /\ (r - 1) * p = r * p - 1 * p
    BY <1>2, <2>6, Distributes
  <2>8. x = (r - 1) * p + (p - 1)
    BY <1>1, <1>2, <1>4, <2>2, <2>4, <2>7
  <2>9. x \div p = r - 1
    BY <1>2, <2>6, <2>8, Quotient
  <2>10. x < 0 <=> r = 0
    <3>1. x = r * p - 1
      BY <1>2, <2>7, <2>8
    <3>2. r # 0 => r * p >= p
      <4> SUFFICES ASSUME r # 0 PROVE r * p >= p
        OBVIOUS
      <4>1. 0 * p + p =< r * p
        BY <1>2, <2>5, LinesApart
      <4>2. 0 * p = 0
        BY <1>2
      <4> QED BY <1>2, <2>7, <4>1, <4>2
    <3>3. 0 * p = 0
      BY <1>2
    <3> QED BY <1>2, <2>7, <3>1, <3>2, <3>3
  <2>11. (r - 1) % n = (m - 1) % n
    <3>1. CASE r = m
      BY <3>1
    <3>2. CASE r = m - n
      <4>1. (m - 1) \in Int /\ r - 1 = (m - 1) - n
        BY <1>2, <3>2
      <4> QED BY <1>2, <4>1, AroundOnce
    <3> QED BY <2>5, <3>1, <3>2
  <2>12. (IF x < 0 THEN 1 - pos.ver ELSE pos.ver) = Version(m - 1)
    <3>1. Version(m) = IF m < n THEN tail.ver ELSE 1 - tail.ver
      BY <1>2 DEF Version
    <3>2. Version(m - 1) = IF 1 =< m /\ m =< n THEN tail.ver ELSE 1 - tail.ver
      <4>1. m - 1 \in Lines <=> 1 =< m /\ m =< n
        BY <1>2
      <4> QED BY <4>1 DEF Version
    <3>3. CASE r = 0
      <4>1. m = 0 \/ m = n
        BY <1>2, <2>5, <3>3
      <4> QED BY <1>2, <2>10, <3>1, <3>2, <3>3, <4>1
    <3>4. CASE r # 0
      <4>1. (m < n /\ 1 =< m) \/ m > n
        BY <1>2, <2>5, <3>4
      <4> QED BY <1>2, <2>10, <3>1, <3>2, <3>4, <4>1
    <3> QED BY <3>3, <3>4
  <2>13. LineStartToEnd(pos) = Pos(m - 1, LineSize)
    BY <1>1, <2>1, <2>3, <2>9, <2>11, <2>12 DEF Pos
  <2>14. m - 1 \in -1 .. 2 * NumLines - 1 /\ LineSize \in 3 .. LineSize
    BY <1>1, <1>2
  <2>15. Place(m - 1, LineSize) = Place(m, b)
    <3>1. (m - 1) * p = m * p - 1 * p /\ m * p \in Int
      BY <1>2, Distributes
    <3>2. Place(m - 1, LineSize) = (m - 1) * p + (p + 2) - 2 /\ Place(m, b) = m * p + 2 - 2
      BY <1>1, <1>2, <1>4 DEF Place
    <3> QED BY <1>2, <3>1, <3>2
  <2>16. LineStartToEnd(pos).line = (m - 1) % NumLines /\ LineStartToEnd(pos).next = LineSize
    BY <2>13 DEF Pos
  <2> WITNESS m - 1 \in -1 .. 2 * NumLines - 1, LineSize \in 3 .. LineSize
  <2> QED BY <1>4, <2>13, <2>15, <2>16
<1> QED BY <1>3, <1>4

\* Places are read from the right: byte LineSize of a line, not byte 2 of the next.
LEMMA SamePlace ==
  ASSUME LogAssumption, NEW m \in Int, NEW b \in 3 .. LineSize, NEW mm \in Int, NEW bb \in 3 .. LineSize,
         Place(m, b) = Place(mm, bb)
  PROVE  m = mm /\ b = bb
<1>1. PICK p : p = PerLine
  OBVIOUS
<1>2. p \in Nat \ {0} /\ b - 3 \in 0 .. p - 1 /\ bb - 3 \in 0 .. p - 1 /\ b \in Int /\ bb \in Int
  BY <1>1, Sizes
<1>3. m * p \in Int /\ mm * p \in Int /\ m * p + b - 2 = mm * p + bb - 2
  BY <1>1, <1>2 DEF Place
<1>4. m * p + (b - 3) = mm * p + (bb - 3)
  BY <1>2, <1>3
<1>5. m = mm /\ b - 3 = bb - 3
  BY <1>2, <1>4, OnePlace
<1> QED BY <1>2, <1>5
-----------------------------------------------------------------------------
\* While abort reads, every byte of the row is in a line that is complete.
Readable(h) ==
    /\ LogTypes /\ Copied(h)
    /\ area[wr.line].ok /\ area[wr.line].ver = wr.ver

\* Each byte of the row is found in its line, which passes checkByteOne.
LEMMA ByteAt ==
  ASSUME LogAssumption, NEW h, Readable(h), NEW x \in Int, Offset(tail) =< x, x < Offset(wr)
  PROVE  \E m \in 0 .. 2 * NumLines - 1, b \in 2 .. LineSize - 1 :
            /\ x = Place(m, b) /\ area[m % NumLines].byte[b] = h.byte[x]
            /\ checkByteOne(area[m % NumLines], Version(m))
<1>1. LogTypes /\ Copied(h) /\ area[wr.line].ok /\ area[wr.line].ver = wr.ver
  BY DEF Readable
<1>2. PICK p, n, t, w, nx, nt : /\ p = PerLine /\ n = NumLines /\ t = tail.line /\ w = AbsLine(wr)
                                /\ nx = wr.next /\ nt = tail.next
  OBVIOUS
<1>3. /\ p \in Nat \ {0} /\ n \in Nat \ {0} /\ LineSize = p + 2 /\ Lines = 0 .. n - 1
  BY <1>2, Sizes
<1>4. /\ Offset(tail) =< Offset(wr) /\ t =< w /\ w < t + n
  BY <1>1, <1>2 DEF Copied
<1>5. /\ w \in Nat /\ w % n = wr.line /\ w * p \in Nat /\ t * p \in Nat
      /\ Version(w) = wr.ver /\ Offset(wr) = w * p + nx - 2
      /\ Offset(tail) = t * p + nt - 2 /\ t \in Nat
      /\ nt \in 2 .. LineSize - 1 /\ nx \in 2 .. LineSize /\ t \in Lines
  BY <1>1, <1>2, <1>4, Around
<1>6. PICK m, r : m = x \div p /\ r = x % p
  OBVIOUS
<1>7. m \in Int /\ r \in 0 .. p - 1 /\ x = m * p + r /\ m * p \in Int
  BY <1>3, <1>6, Division
<1>8. nx \in Int /\ nt \in Int /\ nx =< p + 2 /\ nt >= 2 /\ r >= 0 /\ r =< p - 1 /\ r \in Int
  BY <1>3, <1>5, <1>7
<1>9. t =< m
  <2> SUFFICES ASSUME m < t PROVE FALSE
    BY <1>5, <1>7
  <2>1. m * p + p =< t * p
    BY <1>3, <1>5, <1>7, LinesApart
  <2> QED BY <1>3, <1>5, <1>7, <1>8, <2>1
<1>10. m =< w
  <2> SUFFICES ASSUME w < m PROVE FALSE
    BY <1>5, <1>7
  <2>1. w * p + p =< m * p
    BY <1>3, <1>5, <1>7, LinesApart
  <2> QED BY <1>3, <1>5, <1>7, <1>8, <2>1
<1>11. PICK b : b = r + 2
  OBVIOUS
<1>12. b \in 2 .. LineSize - 1 /\ x = Place(m, b)
  <2>1. x = m * p + b - 2
    BY <1>7, <1>8, <1>11
  <2> QED BY <1>2, <1>3, <1>8, <1>11, <2>1 DEF Place
<1>13. m \in 0 .. 2 * NumLines - 1 /\ m \in tail.line .. AbsLine(wr)
  <2>1. m \in Int /\ t \in 0 .. n - 1 /\ w \in Nat /\ n \in Nat
    BY <1>3, <1>5, <1>7
  <2>2. m \in 0 .. 2 * n - 1 /\ m \in t .. w
    BY ONLY <1>4, <1>9, <1>10, <2>1
  <2> QED BY <1>2, <2>2
<1>14. area[m % NumLines].byte[b] = h.byte[x]
  BY <1>1, <1>12, <1>13 DEF Copied
<1>15. checkByteOne(area[m % NumLines], Version(m))
  <2>1. CASE m = w
    BY <1>1, <1>2, <1>5, <2>1 DEF checkByteOne
  <2>2. CASE m # w
    <3>1. m \in tail.line .. AbsLine(wr) - 1
      <4>1. t \in Int /\ w \in Int /\ m \in Int
        BY <1>5, <1>7
      <4>2. m \in t .. w - 1
        BY ONLY <1>9, <1>10, <2>2, <4>1
      <4> QED BY <1>2, <4>2
    <3> QED BY <1>1, <3>1 DEF Copied, checkByteOne
  <2> QED BY <2>1, <2>2
<1> QED BY <1>12, <1>13, <1>14, <1>15

\* What Before finds k bytes before a place: a line that may be read, and
\* the byte of the account.
BackByte(h, m, b, k) ==
  \E mm \in 0 .. m, bb \in 2 .. LineSize - 1 :
     /\ Place(mm, bb) = Place(m, b) - k
     /\ Before(Pos(m, b), k) = Pos(mm, bb) /\ mm \in 0 .. 2 * NumLines - 1
     /\ checkByteOne(area[mm % NumLines], Version(mm))
     /\ area[mm % NumLines].byte[bb] = h.byte[Place(m, b) - k]

\* The byte k before a place.
LEMMA ByteBefore ==
  ASSUME LogAssumption, NEW h, Readable(h),
         NEW m \in -1 .. 2 * NumLines - 1, NEW b \in 3 .. LineSize, NEW k \in Nat \ {0},
         Offset(tail) =< Place(m, b) - k, Place(m, b) =< Offset(wr)
  PROVE  BackByte(h, m, b, k)
<1>1. PICK p, n : p = PerLine /\ n = NumLines
  OBVIOUS
<1>2. /\ p \in Nat \ {0} /\ n \in Nat \ {0} /\ LineSize = p + 2 /\ m \in Int /\ b \in Int /\ k \in Int
      /\ k >= 1 /\ b =< p + 2
  BY <1>1, Sizes
<1>3. m * p \in Int /\ Place(m, b) = m * p + b - 2
  BY <1>1, <1>2 DEF Place
<1>4. PICK x : x = Place(m, b) - k
  OBVIOUS
<1>5. Offset(wr) \in Int /\ tail.ver \in {0, 1}
  <2>1. /\ tail.ver \in {0, 1} /\ tail.line \in Lines
        /\ wr.ver \in {0, 1} /\ wr.line \in Lines /\ wr.next \in 2 .. LineSize
    BY DEF Readable, LogTypes
  <2>2. wr.next \in Int
    BY <1>2, <2>1
  <2> QED BY <2>1, <2>2, Positions
<1>6. x \in Int /\ Offset(tail) =< x /\ x < Offset(wr)
  BY <1>2, <1>3, <1>4, <1>5
<1>7. PICK mm \in 0 .. 2 * NumLines - 1, bb \in 2 .. LineSize - 1 :
         /\ x = Place(mm, bb) /\ area[mm % NumLines].byte[bb] = h.byte[x]
         /\ checkByteOne(area[mm % NumLines], Version(mm))
  BY <1>6, ByteAt
<1>8. mm \in Int /\ mm >= 0 /\ bb \in Int /\ bb >= 2 /\ mm * p \in Int /\ x = mm * p + bb - 2
  BY <1>1, <1>2, <1>7 DEF Place
<1>9. mm =< m
  <2> SUFFICES ASSUME m < mm PROVE FALSE
    BY <1>2, <1>8
  <2>1. m * p + p =< mm * p
    BY <1>2, <1>8, LinesApart
  <2> QED BY <1>2, <1>3, <1>4, <1>8, <2>1
<1>10. mm \in 0 .. m /\ m \in 0 .. 2 * NumLines - 1 /\ b \in 2 .. LineSize
  BY <1>1, <1>2, <1>8, <1>9
<1>11. Before(Pos(m, b), k) = Pos(mm, bb)
  <2>1. PICK pos : pos = Pos(m, b)
    OBVIOUS
  <2>2. pos.line = m % NumLines /\ pos.next = b /\ pos.ver = Version(m)
    BY <2>1 DEF Pos
  <2>3. Place(m, b) - k = Place(mm, bb) /\ k \in Nat
    BY <1>4, <1>7
  <2>4. Before(pos, k) = Pos(mm, bb)
    BY <1>5, <1>7, <1>10, <2>2, <2>3, BeforeIs
  <2> QED BY <2>1, <2>4
<1> QED BY <1>4, <1>7, <1>10, <1>11 DEF BackByte

\* readLogReverse of a record: its bytes, and the place where it begins.
LEMMA ReadIs ==
  ASSUME LogAssumption, NEW h, Readable(h),
         NEW m \in -1 .. 2 * NumLines - 1, NEW b \in 3 .. LineSize, NEW len \in Nat \ {0},
         Offset(tail) =< Place(m, b) - len, Place(m, b) =< Offset(wr)
  PROVE  /\ \E mm \in -1 .. 2 * NumLines - 1, bb \in 3 .. LineSize :
               /\ Place(mm, bb) = Place(m, b) - len
               /\ ReadLogReverse(Pos(m, b), len).pos = Pos(mm, bb)
         /\ \A i \in 1 .. len :
               ReadLogReverse(Pos(m, b), len).bytes[i] = h.byte[Place(m, b) - len + i - 1]
<1>1. PICK pos, o : pos = Pos(m, b) /\ o = Place(m, b)
  OBVIOUS
<1>2. o \in Int /\ Offset(tail) \in Int /\ tail.ver \in {0, 1}
  <2>1. /\ tail.ver \in {0, 1} /\ tail.line \in Lines /\ tail.next \in 2 .. LineSize - 1
    BY DEF Readable, LogTypes
  <2>2. tail.next \in Int /\ PerLine \in Int /\ m \in Int /\ b \in Int
    BY <2>1, Sizes
  <2>3. Offset(tail) \in Int
    BY <2>1, <2>2, Positions
  <2>4. o \in Int
    BY <1>1, <2>2 DEF Place
  <2> QED BY <2>1, <2>3, <2>4
<1>3. ASSUME NEW k \in 1 .. len
      PROVE  \E mm \in 0 .. m, bb \in 2 .. LineSize - 1 :
                /\ Place(mm, bb) = o - k
                /\ Before(pos, k) = Pos(mm, bb) /\ mm \in 0 .. 2 * NumLines - 1
                /\ checkByteOne(area[mm % NumLines], Version(mm))
                /\ area[mm % NumLines].byte[bb] = h.byte[o - k]
  <2>1. k \in Nat \ {0} /\ Offset(tail) =< o - k
    BY <1>1, <1>2
  <2>2. Offset(tail) =< Place(m, b) - k /\ Place(m, b) =< Offset(wr)
    BY <1>1, <2>1
  <2>3. \E mm \in 0 .. m, bb \in 2 .. LineSize - 1 :
            /\ Place(mm, bb) = Place(m, b) - k
            /\ Before(Pos(m, b), k) = Pos(mm, bb) /\ mm \in 0 .. 2 * NumLines - 1
            /\ checkByteOne(area[mm % NumLines], Version(mm))
            /\ area[mm % NumLines].byte[bb] = h.byte[Place(m, b) - k]
    <3>1. BackByte(h, m, b, k)
      BY <2>1, <2>2, ByteBefore
    <3> QED BY ONLY <3>1 DEF BackByte
  <2> QED BY <1>1, <2>3
<1>4. ASSUME NEW k \in 1 .. len
      PROVE  /\ checkByteOne(area[Before(pos, k).line], Before(pos, k).ver)
             /\ area[Before(pos, k).line].byte[Before(pos, k).next] = h.byte[o - k]
  BY <1>3, <1>4 DEF Pos
<1> DEFINE Valid(k) == checkByteOne(area[Before(pos, k).line], Before(pos, k).ver)
           Stop(c) == (\A k \in 1 .. c : Valid(k)) /\ (c = len \/ ~Valid(c + 1))
           first == CHOOSE c \in 0 .. len : Stop(c)
<1>5. first = len
  <2>1. \A k \in 1 .. len : Valid(k)
    BY <1>4
  <2> HIDE DEF Valid
  <2>2. len \in 0 .. len /\ Stop(len)
    BY <2>1
  <2>3. \A c \in 0 .. len : Stop(c) => c = len
    <3> SUFFICES ASSUME NEW c \in 0 .. len, Stop(c), c # len PROVE FALSE
      OBVIOUS
    <3>1. c + 1 \in 1 .. len
      OBVIOUS
    <3> QED BY <2>1, <3>1
  <2> HIDE DEF Stop
  <2> QED BY <2>2, <2>3
<1>6. ReadLogReverse(pos, len) =
        [pos   |-> IF first = 0 THEN pos ELSE LineStartToEnd(Before(pos, first)),
         bytes |-> [i \in 1 .. first |->
                      area[Before(pos, first + 1 - i).line].byte[Before(pos, first + 1 - i).next]]]
  BY DEF ReadLogReverse
<1> HIDE DEF first
<1>7. ReadLogReverse(pos, len).pos = LineStartToEnd(Before(pos, len))
  BY <1>5, <1>6
<1>8. ASSUME NEW i \in 1 .. len
      PROVE  ReadLogReverse(pos, len).bytes[i] = h.byte[o - len + i - 1]
  <2>1. len + 1 - i \in 1 .. len /\ o - (len + 1 - i) = o - len + i - 1
    BY <1>2
  <2>2. ReadLogReverse(pos, len).bytes[i] =
          area[Before(pos, len + 1 - i).line].byte[Before(pos, len + 1 - i).next]
    BY <1>5, <1>6
  <2> QED BY <1>4, <2>1, <2>2
<1>9. PICK mm \in 0 .. 2 * NumLines - 1, bb \in 2 .. LineSize - 1 :
         Place(mm, bb) = o - len /\ Before(pos, len) = Pos(mm, bb)
  <2>1. len \in 1 .. len
    OBVIOUS
  <2> QED BY <1>3, <2>1
<1>10. \E mx \in -1 .. 2 * NumLines - 1, bx \in 3 .. LineSize :
         /\ Place(mx, bx) = o - len /\ LineStartToEnd(Pos(mm, bb)) = Pos(mx, bx)
  <2>1. PICK q : q = Pos(mm, bb)
    OBVIOUS
  <2>2. q.line = mm % NumLines /\ q.next = bb /\ q.ver = Version(mm)
    BY <2>1 DEF Pos
  <2>3. bb \in 2 .. LineSize
    BY Sizes
  <2>4. PICK mx \in -1 .. 2 * NumLines - 1, bx \in 3 .. LineSize :
           /\ Place(mx, bx) = Place(mm, bb)
           /\ bb = 2 => LineStartToEnd(q) = Pos(mx, bx)
           /\ bb # 2 => LineStartToEnd(q) = q /\ mx = mm /\ bx = bb
    BY <1>2, <2>2, <2>3, StartToEnd
  <2> QED BY <1>9, <2>1, <2>4
<1> QED BY <1>1, <1>7, <1>8, <1>9, <1>10
-----------------------------------------------------------------------------
\* Where abort stands, and what it reads there.
LEMMA UndoFacts ==
  ASSUME NEW h, IInv(h), pc = "undo"
  PROVE  /\ Readable(h) /\ Logged(h) /\ BaseKnown(h) /\ next = NoStore /\ wr.next < LineSize
         /\ todo = <<>> /\ redo = <<>> /\ del = <<>> /\ End(h) = Offset(wr) /\ Offset(wr) \in Int
         /\ Offset(tail) \in Int /\ Offset(tx) \in Int /\ End(h) + 2 =< Limit
         /\ h.n \in Nat /\ h.st[1] = Offset(tx) /\ Offset(tail) =< Offset(tx)
         /\ h.st[h.n + 1] \in Int /\ Offset(tx) + h.n =< h.st[h.n + 1] /\ h.st[h.n + 1] =< Offset(wr)
         /\ BackAt(h.st[h.n + 1])
<1>1. /\ DataTypes /\ LogTypes /\ Copied(h) /\ ToCopy(h) /\ Phases(h) /\ Fits(h) /\ Quiet
      /\ StoreKnown(h) /\ Undoing(h) /\ Logged(h) /\ BaseKnown(h)
  BY DEF IInv, InTx
<1>2. Readable(h) /\ BackAt(h.st[h.n + 1])
  BY <1>1 DEF Undoing, Readable
<1>3. next = NoStore /\ todo = <<>> /\ wr.next < LineSize /\ redo = <<>> /\ del = <<>>
  BY <1>1 DEF StoreKnown, Quiet, Phases
<1>4. End(h) = Offset(wr) /\ Offset(wr) \in Int /\ End(h) + 2 =< Limit
  BY <1>1, <1>3, EndBehind DEF Fits
<1>5. Offset(tail) \in Int /\ Offset(tx) \in Int
  <2>1. /\ tail.ver \in {0, 1} /\ tail.line \in Lines /\ tail.next \in 2 .. LineSize - 1
        /\ tx.ver \in {0, 1} /\ tx.line \in Lines /\ tx.next \in 2 .. LineSize - 1
    BY <1>1 DEF LogTypes
  <2>2. tail.next \in Int /\ tx.next \in Int
    BY <2>1, LogAssumption, Sizes
  <2>3. Offset(tail) \in Int
    BY <2>1, <2>2, LogAssumption, Positions
  <2>4. Offset(tx) \in Int
    BY <2>1, <2>2, LogAssumption, Positions
  <2> QED BY <2>3, <2>4
<1>6. h.n \in Nat /\ h.st[1] = Offset(tx) /\ Offset(tail) =< Offset(tx)
  BY <1>1 DEF Logged
<1>7. h.st[h.n + 1] \in Int /\ Offset(tx) + (h.n + 1) - 1 =< h.st[h.n + 1] /\ h.st[h.n + 1] =< End(h)
  <2>1. h.n + 1 \in 1 .. h.n + 1
    BY <1>6
  <2> QED BY <1>1, <2>1 DEF Logged
<1>8. Offset(tx) + h.n =< h.st[h.n + 1]
  BY <1>5, <1>6, <1>7
<1> QED BY <1>1, <1>2, <1>3, <1>4, <1>5, <1>6, <1>7, <1>8

\* The place where abort stops, which reverseAdjustPtr (nvm-common.h:954) has moved to
\* the end of a line.
LEMMA PEndIs ==
  ASSUME LogAssumption, LogTypes
  PROVE  \E mt \in -1 .. 2 * NumLines - 1, bt \in 3 .. LineSize :
            Offset(tx) = Place(mt, bt) /\ PEnd = [line |-> mt % NumLines, next |-> bt]
<1>1. /\ tail.ver \in {0, 1} /\ tail.line \in Lines
      /\ tx.ver \in {0, 1} /\ tx.line \in Lines /\ tx.next \in 2 .. LineSize - 1
  BY DEF LogTypes
<1>2. tx.next \in Int /\ tx.next \in 2 .. LineSize
  BY LogAssumption, Sizes, <1>1
<1>3. PICK a : a = AbsLine(tx)
  OBVIOUS
<1>4. /\ a \in 0 .. 2 * NumLines - 1 /\ tx.line = a % NumLines /\ tx.ver = Version(a)
      /\ Offset(tx) = Place(a, tx.next)
  BY <1>1, <1>2, <1>3, LogAssumption, Positions DEF Place
<1>5. PICK q, c : q = tx /\ c = tx.next
  OBVIOUS
<1>6. q.line = a % NumLines /\ q.next = c /\ q.ver = Version(a) /\ c \in 2 .. LineSize
  BY <1>2, <1>4, <1>5
<1>6a. \E mm \in -1 .. 2 * NumLines - 1, bb \in 3 .. LineSize :
         /\ Place(mm, bb) = Place(a, c)
         /\ LineStartToEnd(q).line = mm % NumLines /\ LineStartToEnd(q).next = bb
         /\ c = 2 => LineStartToEnd(q) = Pos(mm, bb)
         /\ c # 2 => LineStartToEnd(q) = q /\ mm = a /\ bb = c
  <2>1. tail.ver \in {0, 1} /\ a \in 0 .. 2 * NumLines - 1 /\ c \in 2 .. LineSize
    BY <1>1, <1>4, <1>6
  <2>2. q.line = a % NumLines /\ q.next = c /\ q.ver = Version(a)
    BY <1>6
  <2> QED BY ONLY <2>1, <2>2, LogAssumption, StartToEnd
<1>7. PICK mm \in -1 .. 2 * NumLines - 1, bb \in 3 .. LineSize :
         /\ Place(mm, bb) = Place(a, c)
         /\ LineStartToEnd(q).line = mm % NumLines /\ LineStartToEnd(q).next = bb
  BY <1>6a
<1>8. PEnd = [line |-> mm % NumLines, next |-> bb]
  BY <1>5, <1>7 DEF PEnd, ReverseAdjustPtr, NextPtr
<1> QED BY <1>4, <1>5, <1>7, <1>8

\* abort stops exactly when it has read the transaction's first record.
LEMMA StopsAtStart ==
  ASSUME NEW h, IInv(h), pc = "undo"
  PROVE  NextPtr(back) = PEnd <=> h.n = 0
<1>1. /\ LogTypes /\ Offset(tail) \in Int /\ Offset(tx) \in Int /\ Offset(wr) \in Int /\ h.n \in Nat
      /\ Offset(tail) =< Offset(tx) /\ h.st[h.n + 1] \in Int /\ Offset(tx) + h.n =< h.st[h.n + 1]
      /\ h.st[h.n + 1] =< Offset(wr) /\ Offset(wr) + 2 =< Limit /\ h.st[1] = Offset(tx)
      /\ BackAt(h.st[h.n + 1])
  BY UndoFacts DEF Readable
<1>2. PICK p, n : p = PerLine /\ n = NumLines
  OBVIOUS
<1>3. p \in Nat \ {0} /\ n \in Nat \ {0} /\ LineSize = p + 2
  BY <1>2, LogAssumption, Sizes
<1>4. PICK m \in -1 .. 2 * NumLines - 1, b \in 3 .. LineSize :
         h.st[h.n + 1] = Place(m, b) /\ back = [line |-> m % NumLines, next |-> b, ver |-> Version(m)]
  BY <1>1 DEF BackAt
<1>5. PICK mt \in -1 .. 2 * NumLines - 1, bt \in 3 .. LineSize :
         Offset(tx) = Place(mt, bt) /\ PEnd = [line |-> mt % NumLines, next |-> bt]
  BY <1>1, LogAssumption, PEndIs
<1>6. m \in Int /\ mt \in Int /\ b \in Int /\ bt \in Int
  BY <1>2, <1>3
<1>7. CASE h.n = 0
  <2>1. Place(m, b) = Place(mt, bt)
    BY <1>1, <1>4, <1>5, <1>7
  <2>2. m = mt /\ b = bt
    BY <1>6, <2>1, LogAssumption, SamePlace
  <2> QED BY <1>4, <1>5, <1>7, <2>2 DEF NextPtr
<1>8. CASE h.n # 0
  <2> SUFFICES ASSUME NextPtr(back) = PEnd PROVE FALSE
    BY <1>8
  <2>1. m % n = mt % n /\ b = bt
    BY <1>2, <1>4, <1>5 DEF NextPtr
  <2>2. /\ m * p \in Int /\ mt * p \in Int /\ h.st[h.n + 1] = m * p + b - 2
        /\ Offset(tx) = mt * p + b - 2
    BY <1>2, <1>3, <1>4, <1>5, <1>6, <2>1 DEF Place
  <2>3. mt * p < m * p
    BY <1>1, <1>6, <1>8, <2>2
  <2>4. mt < m
    <3> SUFFICES ASSUME m < mt PROVE FALSE
      BY <1>6, <2>2, <2>3
    <3>1. m * p + p =< mt * p
      BY <1>3, <1>6, LinesApart
    <3> QED BY <1>3, <2>2, <2>3, <3>1
  <2>5. ~(m - mt < n)
    <3> SUFFICES ASSUME m - mt < n PROVE FALSE
      OBVIOUS
    <3>1. mt - m < n
      BY <1>3, <1>6, <2>4
    <3>2. m = mt
      BY <1>3, <1>6, <2>1, <3>1, SameLine
    <3> QED BY <1>6, <2>4, <3>2
  <2>6. m * p >= mt * p + n * p
    <3>1. (mt + n) * p = mt * p + n * p /\ mt + n \in Int /\ n \in Int
      BY <1>3, <1>6, Distributes
    <3>2. mt + n =< m
      BY <1>3, <1>6, <2>5
    <3>3. CASE mt + n = m
      BY <2>2, <3>1, <3>3
    <3>4. CASE mt + n < m
      <4>1. (mt + n) * p + p =< m * p /\ (mt + n) * p \in Int
        BY <1>3, <1>6, <3>1, <3>4, LinesApart
      <4> QED BY <1>3, <2>2, <3>1, <4>1
    <3> QED BY <1>6, <3>1, <3>2, <3>3, <3>4
  <2>7. Limit = tail.line * p + n * p /\ tail.line * p \in Int /\ n * p \in Int
    BY <1>1, <1>2, LimitIs
  <2>8. tail.line * p =< Offset(tail)
    <3>1. /\ tail.ver \in {0, 1} /\ tail.line \in Lines /\ tail.next \in 2 .. LineSize - 1
      BY <1>1 DEF LogTypes
    <3>2. tail.next \in Int /\ tail.next >= 2
      BY <1>3, <3>1
    <3>3. Offset(tail) = tail.line * p + tail.next - 2
      BY <1>2, <3>1, <3>2, LogAssumption, Positions
    <3> QED BY <2>7, <3>2, <3>3
  <2>9. PICK o, s, w, e, l, u, v, z :
           /\ o = Offset(tail) /\ s = Offset(tx) /\ w = Offset(wr) /\ e = h.st[h.n + 1]
           /\ l = tail.line * p /\ u = mt * p /\ v = m * p /\ z = n * p
    OBVIOUS
  <2>10. /\ o \in Int /\ s \in Int /\ w \in Int /\ e \in Int /\ l \in Int /\ u \in Int /\ v \in Int /\ z \in Int
         /\ l =< o /\ o =< s /\ e =< w /\ w + 2 =< l + z /\ v >= u + z /\ e = v + b - 2 /\ s = u + b - 2
    BY <1>1, <2>2, <2>6, <2>7, <2>8, <2>9
  <2> QED BY ONLY <1>6, <2>10
<1> QED BY <1>7, <1>8

\* Before it has, the byte before it is the tag of the last record that it
\* has not undone, and it reads this record.
LEMMA UndoReads ==
  ASSUME NEW h, IInv(h), pc = "undo", NextPtr(back) # PEnd
  PROVE  /\ h.n \in Nat \ {0} /\ h.rec[h.n] \in LogRecords /\ TagBefore = h.rec[h.n][1]
         /\ \A len \in Nat : len = Len(h.rec[h.n]) =>
              /\ \E mm \in -1 .. 2 * NumLines - 1, bb \in 3 .. LineSize :
                    Place(mm, bb) = h.st[h.n] /\ ReadLogReverse(back, len).pos = Pos(mm, bb)
              /\ \A i \in 1 .. len : ReadLogReverse(back, len).bytes[i] = h.rec[h.n][i]
<1>1. /\ LogTypes /\ Readable(h) /\ Logged(h) /\ BackAt(h.st[h.n + 1])
      /\ Offset(tail) \in Int /\ Offset(tx) \in Int /\ Offset(wr) \in Int /\ h.n \in Nat
      /\ Offset(tail) =< Offset(tx) /\ h.st[h.n + 1] =< Offset(wr)
  BY UndoFacts DEF Readable
<1>2. h.n # 0
  BY StopsAtStart
<1>3. PICK k : k = h.n
  OBVIOUS
<1>4. k \in Nat \ {0} /\ k \in 1 .. k /\ k \in 1 .. k + 1
  BY <1>1, <1>2, <1>3
<1>5. PICK rec, o, st : rec = h.rec[k] /\ o = h.st[k + 1] /\ st = h.st[k]
  OBVIOUS
<1>6. /\ rec \in LogRecords /\ o = st + Len(rec) /\ st \in Int /\ Offset(tx) + k - 1 =< st
      /\ \A j \in 1 .. Len(rec) : h.byte[st + j - 1] = rec[j]
  BY <1>1, <1>3, <1>4, <1>5 DEF Logged
<1>7. Len(rec) \in Nat /\ Len(rec) >= 3 /\ rec[Len(rec)] = rec[1]
  BY <1>6, RecordIs
<1>8. PICK m \in -1 .. 2 * NumLines - 1, b \in 3 .. LineSize :
         o = Place(m, b) /\ back = [line |-> m % NumLines, next |-> b, ver |-> Version(m)]
  BY <1>1, <1>3, <1>5 DEF BackAt
<1>9. back = Pos(m, b)
  BY <1>8 DEF Pos
<1>10. Offset(tail) =< st /\ o =< Offset(wr) /\ o \in Int
  <2>1. PICK ot, os, ow, l : ot = Offset(tail) /\ os = Offset(tx) /\ ow = Offset(wr) /\ l = Len(rec)
    OBVIOUS
  <2>2. ot \in Int /\ os \in Int /\ ow \in Int /\ l \in Nat /\ ot =< os /\ os + k - 1 =< st /\ o = st + l
    BY <1>1, <1>6, <1>7, <2>1
  <2>3. ot =< st /\ o \in Int
    BY ONLY <1>4, <1>6, <2>2
  <2>4. o =< Offset(wr)
    BY <1>1, <1>3, <1>5
  <2> QED BY <2>1, <2>3, <2>4
<1>11. PICK len : len = Len(rec)
  OBVIOUS
<1>12. len \in Nat \ {0} /\ o - len = st
  BY <1>6, <1>7, <1>11
<1>13. /\ \E mm \in -1 .. 2 * NumLines - 1, bb \in 3 .. LineSize :
             Place(mm, bb) = o - len /\ ReadLogReverse(back, len).pos = Pos(mm, bb)
       /\ \A i \in 1 .. len : ReadLogReverse(back, len).bytes[i] = h.byte[o - len + i - 1]
  <2>1. Offset(tail) =< Place(m, b) - len /\ Place(m, b) =< Offset(wr)
    BY <1>8, <1>10, <1>12
  <2>2. /\ \E mm \in -1 .. 2 * NumLines - 1, bb \in 3 .. LineSize :
             Place(mm, bb) = Place(m, b) - len /\ ReadLogReverse(Pos(m, b), len).pos = Pos(mm, bb)
        /\ \A i \in 1 .. len : ReadLogReverse(Pos(m, b), len).bytes[i] = h.byte[Place(m, b) - len + i - 1]
    BY <1>1, <1>12, <2>1, LogAssumption, ReadIs
  <2> QED BY <1>8, <1>9, <2>2
<1>14. TagBefore = rec[1]
  <2>1. 1 \in Nat \ {0} /\ Offset(tail) =< Place(m, b) - 1 /\ Place(m, b) =< Offset(wr)
    BY <1>1, <1>6, <1>7, <1>8, <1>10
  <2>2. PICK mm \in 0 .. m, bb \in 2 .. LineSize - 1 :
            /\ Place(mm, bb) = Place(m, b) - 1
            /\ area[mm % NumLines].byte[bb] = h.byte[Place(m, b) - 1]
    <3>1. BackByte(h, m, b, 1)
      BY <1>1, <2>1, LogAssumption, ByteBefore
    <3> QED BY ONLY <3>1 DEF BackByte
  <2>3. PICK p : p = PerLine
    OBVIOUS
  <2>4. /\ p \in Nat \ {0} /\ LineSize = p + 2 /\ m \in Int /\ mm \in Int
        /\ b - 3 \in 0 .. p - 1 /\ bb - 2 \in 0 .. p - 1 /\ b \in Int /\ bb \in Int
    BY <2>3, LogAssumption, Sizes
  <2>5. m * p + (b - 3) = mm * p + (bb - 2)
    <3>1. m * p \in Int /\ mm * p \in Int /\ m * p + b - 2 - 1 = mm * p + bb - 2
      BY <2>2, <2>3, <2>4 DEF Place
    <3> QED BY <2>4, <3>1
  <2>6. m = mm /\ b - 3 = bb - 2
    BY <2>4, <2>5, OnePlace
  <2>7. bb = b - 1
    BY <2>4, <2>6
  <2>8. TagBefore = h.byte[o - 1]
    BY <1>8, <2>2, <2>6, <2>7 DEF TagBefore
  <2>9. o - 1 = st + len - 1 /\ len \in 1 .. Len(rec)
    BY <1>6, <1>7, <1>11
  <2>10. h.byte[st + len - 1] = rec[len]
    BY <1>6, <2>9
  <2> QED BY <1>7, <1>11, <2>8, <2>9, <2>10
<1>15. ASSUME NEW i \in 1 .. len PROVE ReadLogReverse(back, len).bytes[i] = rec[i]
  <2>1. ReadLogReverse(back, len).bytes[i] = h.byte[o - len + i - 1]
    BY <1>13
  <2>2. rec[i] = h.byte[st + i - 1]
    BY <1>6, <1>11
  <2> QED BY <1>12, <2>1, <2>2
<1>16. \E mm \in -1 .. 2 * NumLines - 1, bb \in 3 .. LineSize :
          Place(mm, bb) = st /\ ReadLogReverse(back, len).pos = Pos(mm, bb)
  BY <1>12, <1>13
<1>17. /\ k \in Nat \ {0} /\ rec \in LogRecords /\ TagBefore = rec[1]
       /\ \A l \in Nat : l = Len(rec) =>
            /\ \E mm \in -1 .. 2 * NumLines - 1, bb \in 3 .. LineSize :
                  Place(mm, bb) = st /\ ReadLogReverse(back, l).pos = Pos(mm, bb)
            /\ \A i \in 1 .. l : ReadLogReverse(back, l).bytes[i] = rec[i]
  BY <1>4, <1>6, <1>11, <1>14, <1>15, <1>16
<1> QED
  BY <1>3, <1>5, <1>17
-----------------------------------------------------------------------------
\* abort undoes a record.
Undone(h, g) ==
    /\ g.byte = h.byte /\ g.td = h.td /\ g.st = h.st /\ g.rec = h.rec /\ g.n = h.n - 1

\* The account with the last record undone.
LEMMA UndoneIs ==
  ASSUME NEW h, NEW g, h.n \in Nat \ {0}, Undone(h, g)
  PROVE  /\ g.n \in Nat /\ g.n + 1 = h.n
         /\ \A i \in 1 .. h.n : i \in 1 .. g.n \/ i = h.n
         /\ \A i \in 1 .. g.n : i \in 1 .. h.n /\ i # h.n
         /\ \A i, p : Writes(g, i, p) <=> Writes(h, i, p)
         /\ \A i, p : First(g, i, p) <=> First(h, i, p)
         /\ h.rec[h.n][1] = Tags.ALLOCNODE => Allocated(h) = Allocated(g) \cup {h.rec[h.n][2]}
         /\ h.rec[h.n][1] # Tags.ALLOCNODE => Allocated(h) = Allocated(g)
<1>1. g.n \in Nat /\ g.n + 1 = h.n /\ h.n \in 1 .. h.n
  BY DEF Undone
<1>2. \A i \in 1 .. h.n : i \in 1 .. g.n \/ i = h.n
  BY <1>1
<1>3. \A i \in 1 .. g.n : i \in 1 .. h.n /\ i # h.n
  BY <1>1
<1>4. \A i, p : Writes(g, i, p) <=> Writes(h, i, p)
  BY DEF Undone, Writes
<1>5. \A i, p : First(g, i, p) <=> First(h, i, p)
  BY <1>4 DEF First
<1>6. ASSUME h.rec[h.n][1] = Tags.ALLOCNODE PROVE Allocated(h) = Allocated(g) \cup {h.rec[h.n][2]}
  BY <1>1, <1>2, <1>3, <1>6 DEF Allocated, Undone
<1>7. ASSUME h.rec[h.n][1] # Tags.ALLOCNODE PROVE Allocated(h) = Allocated(g)
  BY <1>1, <1>2, <1>3, <1>7 DEF Allocated, Undone
<1> QED BY <1>1, <1>2, <1>3, <1>4, <1>5, <1>6, <1>7

\* What the three ways to undo a record have in common.
LEMMA UndoKeeps ==
  ASSUME NEW h, IInv(h), NEW tag, NEW len \in Nat, Undo(tag, len), DataTypes',
         tag \in {Tags.NEW, Tags.WRITE, Tags.ALLOCNODE},
         tag = Tags.NEW => len = 4, tag = Tags.WRITE => len = 5, tag = Tags.ALLOCNODE => len = 3,
         \A g : Undone(h, g) => BaseKnown(g)'
  PROVE  \E g : Undone(h, g) /\ IInv(g)'
<1>1. /\ DataTypes /\ LogTypes /\ Copied(h) /\ ToCopy(h) /\ Phases(h) /\ Fits(h) /\ Quiet
      /\ StoreKnown(h) /\ Undoing(h)
  BY DEF IInv
<1>2. /\ pc = "undo" /\ NextPtr(back) # PEnd /\ TagBefore = tag
      /\ back' = ReadLogReverse(back, len).pos
      /\ UNCHANGED <<area, nvm, wr, todo, mid, nvmData, nvmLive, tail, tx, redo, del, pc, next, base>>
  BY DEF Undo, bufVars
<1>3. /\ Logged(h) /\ next = NoStore /\ wr.next < LineSize /\ todo = <<>> /\ redo = <<>> /\ del = <<>>
      /\ End(h) = Offset(wr) /\ Offset(wr) \in Int
  BY <1>2, UndoFacts
<1>4. /\ h.n \in Nat \ {0} /\ h.rec[h.n] \in LogRecords /\ tag = h.rec[h.n][1]
      /\ \A l \in Nat : l = Len(h.rec[h.n]) =>
           \E mm \in -1 .. 2 * NumLines - 1, bb \in 3 .. LineSize :
               Place(mm, bb) = h.st[h.n] /\ ReadLogReverse(back, l).pos = Pos(mm, bb)
  BY <1>2, UndoReads
<1>5. len = Len(h.rec[h.n])
  <2>1. PICK rec : rec = h.rec[h.n]
    OBVIOUS
  <2>2. len = Len(rec)
    BY <1>4, <2>1, RecordIs
  <2> QED BY <2>1, <2>2
<1>6. PICK g : g = [byte |-> h.byte, td |-> h.td, n |-> h.n - 1, st |-> h.st, rec |-> h.rec]
  OBVIOUS
<1>7. Undone(h, g)
  BY <1>6 DEF Undone
<1> HIDE <1>6
<1>8. g.byte = h.byte /\ g.td = h.td /\ g.st = h.st /\ g.rec = h.rec /\ g.n \in Nat /\ g.n + 1 = h.n
  BY <1>4, <1>7, UndoneIs DEF Undone
<1>9. /\ LogTypes' /\ Copied(h)' /\ ToCopy(h)' /\ End(h)' = End(h) /\ Limit' = Limit
      /\ Offset(tail)' = Offset(tail) /\ Offset(tx)' = Offset(tx)
  BY <1>1, <1>2, TypesStay, BufferStays, OffsetsStay
<1>10. Copied(g)' /\ ToCopy(g)' /\ End(g)' = End(h)
  <2>1. Copied(g)'
    BY <1>8, <1>9 DEF Copied
  <2>2. ToCopy(g)'
    BY <1>8, <1>9 DEF ToCopy
  <2>3. End(g)' = End(h)
    BY <1>8, <1>9 DEF End
  <2> QED BY <2>1, <2>2, <2>3
<1>11. Fits(g)' /\ Quiet'
  BY <1>1, <1>2, <1>9, <1>10 DEF Fits, Quiet
<1>12. Phases(g)'
  BY <1>2, <1>3 DEF Phases, CommitFilledLine
<1>13. Logged(g)'
  <2>1. \A i \in 1 .. g.n + 1 : i \in 1 .. h.n + 1
    BY <1>8
  <2>2. \A i \in 1 .. g.n : i \in 1 .. h.n
    BY <1>8
  <2>3. /\ g.n \in Nat /\ g.st[1] = Offset(tx) /\ Offset(tail) =< Offset(tx)
        /\ \A i \in 1 .. g.n + 1 :
              g.st[i] \in Int /\ Offset(tx) + i - 1 =< g.st[i] /\ g.st[i] =< End(g)'
    BY <1>3, <1>8, <1>10, <2>1 DEF Logged
  <2>4. \A i \in 1 .. g.n :
          /\ g.rec[i] \in LogRecords
          /\ g.st[i + 1] = g.st[i] + Len(g.rec[i])
          /\ \A j \in 1 .. Len(g.rec[i]) : g.byte[g.st[i] + j - 1] = g.rec[i][j]
    BY <1>3, <1>8, <2>2 DEF Logged
  <2>5. LogRecords' = LogRecords
    BY DEF LogRecords, NewRec, WriteRec, AllocRec, Memory, Tags
  <2> QED BY <1>9, <2>3, <2>4, <2>5 DEF Logged
<1>14. StoreKnown(g)'
  BY <1>2, <1>3 DEF StoreKnown, NoStore
<1>15. Undoing(g)'
  <2>1. PICK mm \in -1 .. 2 * NumLines - 1, bb \in 3 .. LineSize :
           Place(mm, bb) = h.st[h.n] /\ back' = Pos(mm, bb)
    BY <1>2, <1>4, <1>5
  <2>2. g.st[g.n + 1] = Place(mm, bb)
    BY <1>8, <2>1
  <2>3. BackAt(g.st[g.n + 1])'
    BY <1>2, <2>1, <2>2, BackNow DEF Pos
  <2> QED BY <1>1, <1>2, <2>3 DEF Undoing
<1>16. BaseKnown(g)'
  BY <1>7
<1>17. IInv(g)'
  BY <1>9, <1>10, <1>11, <1>12, <1>13, <1>14, <1>15, <1>16, AllOf
<1> QED BY <1>7, <1>17
-----------------------------------------------------------------------------
\* NL_NEW (nvm-common.h:957-973): skipped; a record of a node this transaction
\* allocated.
LEMMA UndoNewKeeps ==
  ASSUME NEW h, IInv(h), UndoNew
  PROVE  \E g : Undone(h, g) /\ IInv(g)'
<1>1. DataTypes /\ BaseKnown(h)
  BY UndoFacts DEF IInv, UndoNew, Undo
<1>2. /\ pc = "undo" /\ NextPtr(back) # PEnd /\ TagBefore = Tags.NEW /\ Undo(Tags.NEW, 4)
      /\ UNCHANGED <<nvm, data, nvmData, live, nvmLive, redo, del, written, base>>
  BY DEF UndoNew, Undo, bufVars
<1>3. h.n \in Nat \ {0} /\ h.rec[h.n] \in LogRecords /\ h.rec[h.n][1] = Tags.NEW
  BY <1>2, UndoReads
<1>4. DataTypes'
  BY <1>1, <1>2, DataStays DEF DataTypes
<1>5. ASSUME NEW g, Undone(h, g) PROVE BaseKnown(g)'
  <2>1. /\ \A i \in 1 .. h.n : i \in 1 .. g.n \/ i = h.n
        /\ \A i \in 1 .. g.n : i \in 1 .. h.n
        /\ \A i, p : Writes(g, i, p) <=> Writes(h, i, p)
        /\ \A i, p : First(g, i, p) <=> First(h, i, p)
        /\ Allocated(h) = Allocated(g) /\ g.rec = h.rec
    BY <1>3, <1>5, TagsAre, UndoneIs DEF Undone
  <2>2. \A p : ~Writes(h, h.n, p)
    BY <1>3, TagsAre DEF Writes
  <2> SUFFICES ASSUME NEW p \in Memory
               PROVE  /\ p \notin Addr \cup (live \ Allocated(g)) => base[p] = FREE
                      /\ p \in Addr \cup (live \ Allocated(g)) =>
                           /\ data[p] # RAW
                           /\ \A i \in 1 .. g.n : First(g, i, p) => base[p] = g.rec[i][3]
                           /\ (\A i \in 1 .. g.n : ~Writes(g, i, p)) => base[p] = data[p]
    BY <1>2, KnownNow
  <2> QED BY <1>1, <2>1, <2>2 DEF BaseKnown
<1> QED BY <1>2, <1>4, <1>5, UndoKeeps, TagsAre

\* NL_WRITE (nvm-common.h:974-1010): the old value put back is what was there before
\* the record, so what the records before it say still leads to the old store.
LEMMA UndoWriteKeeps ==
  ASSUME NEW h, IInv(h), UndoWrite
  PROVE  \E g : Undone(h, g) /\ IInv(g)'
<1>0. PICK p : p = ReadLogReverse(back, 5).bytes
  OBVIOUS
<1>1. DataTypes /\ BaseKnown(h) /\ redo = <<>> /\ del = <<>>
  BY UndoFacts DEF IInv, UndoWrite, Undo
<1>2. /\ pc = "undo" /\ NextPtr(back) # PEnd /\ TagBefore = Tags.WRITE /\ Undo(Tags.WRITE, 5)
      /\ data' = [data EXCEPT ![p[2]] = p[3]] /\ written' = written \cup {p[2]}
      /\ UNCHANGED <<nvm, nvmData, live, nvmLive, redo, del, base>>
  BY <1>0 DEF UndoWrite, Undo, bufVars, OldValue
<1>3. PICK rec : rec = h.rec[h.n]
  OBVIOUS
<1>4. /\ h.n \in Nat \ {0} /\ rec \in LogRecords /\ rec[1] = Tags.WRITE
      /\ \A len \in Nat : len = Len(rec) => \A i \in 1 .. len : ReadLogReverse(back, len).bytes[i] = rec[i]
  BY <1>2, <1>3, UndoReads
<1>5. Len(rec) = 5 /\ rec[2] \in Memory /\ rec[3] \in Value \cup {0}
  BY <1>4, RecordIs
<1>6. p[2] = rec[2] /\ p[3] = rec[3]
  <2>1. 5 \in Nat /\ 2 \in 1 .. 5 /\ 3 \in 1 .. 5
    OBVIOUS
  <2> QED BY <1>0, <1>4, <1>5, <2>1
<1>7. PICK a, v : a = rec[2] /\ v = rec[3]
  OBVIOUS
<1>8. /\ a \in Memory /\ v \in Value \cup {0} /\ v # RAW
      /\ data' \in [Memory -> Value \cup {0, RAW}]
      /\ \A q \in Memory : data'[q] = IF q = a THEN v ELSE data[q]
  <2>1. data \in [Memory -> Value \cup {0, RAW}]
    BY <1>1 DEF DataTypes
  <2>2. a \in Memory /\ v \in Value \cup {0} /\ data' = [data EXCEPT ![a] = v]
    BY <1>2, <1>5, <1>6, <1>7
  <2> QED BY <2>1, <2>2, Places
<1>9. DataTypes'
  <2>1. \A q \in Addr : data'[q] # RAW
    BY <1>1, <1>8, Places DEF DataTypes
  <2>2. written' \subseteq Memory
    BY <1>1, <1>2, <1>6, <1>7, <1>8 DEF DataTypes
  <2>3. DOMAIN nvm' = Lines
    BY <1>1, <1>2 DEF DataTypes
  <2> QED BY <1>1, <1>2, <1>8, <2>1, <2>2, <2>3 DEF DataTypes, Memory, Lines, RAW, FREE
<1>10. ASSUME NEW g, Undone(h, g) PROVE BaseKnown(g)'
  <2>1. /\ \A i \in 1 .. h.n : i \in 1 .. g.n \/ i = h.n
        /\ \A i \in 1 .. g.n : i \in 1 .. h.n /\ i # h.n
        /\ \A i, q : Writes(g, i, q) <=> Writes(h, i, q)
        /\ \A i, q : First(g, i, q) <=> First(h, i, q)
        /\ Allocated(h) = Allocated(g) /\ g.rec = h.rec /\ g.n + 1 = h.n /\ g.n \in Nat
    <3>1. h.n \in Nat \ {0} /\ h.rec[h.n][1] # Tags.ALLOCNODE
      BY <1>3, <1>4, TagsAre
    <3>2. g.rec = h.rec
      BY <1>10 DEF Undone
    <3>3. g.n \in Nat /\ g.n + 1 = h.n /\ Allocated(h) = Allocated(g)
      BY <1>10, <3>1, UndoneIs
    <3>4. /\ \A i \in 1 .. h.n : i \in 1 .. g.n \/ i = h.n
          /\ \A i \in 1 .. g.n : i \in 1 .. h.n /\ i # h.n
      BY <1>10, <3>1, UndoneIs
    <3>5. /\ \A i, q : Writes(g, i, q) <=> Writes(h, i, q)
          /\ \A i, q : First(g, i, q) <=> First(h, i, q)
      BY <1>10, <3>1, UndoneIs
    <3> QED BY <3>2, <3>3, <3>4, <3>5
  <2>2. \A q : Writes(h, h.n, q) <=> q = a
    BY <1>3, <1>4, <1>7 DEF Writes
  <2> SUFFICES ASSUME NEW q \in Memory
               PROVE  /\ q \notin Addr \cup (live \ Allocated(g)) => base[q] = FREE
                      /\ q \in Addr \cup (live \ Allocated(g)) =>
                           /\ data'[q] # RAW
                           /\ \A i \in 1 .. g.n : First(g, i, q) => base[q] = g.rec[i][3]
                           /\ (\A i \in 1 .. g.n : ~Writes(g, i, q)) => base[q] = data'[q]
    BY <1>2, KnownNow
  <2>3. /\ q \notin Addr \cup (live \ Allocated(g)) => base[q] = FREE
        /\ q \in Addr \cup (live \ Allocated(g)) =>
             /\ data[q] # RAW
             /\ \A i \in 1 .. h.n : First(h, i, q) => base[q] = h.rec[i][3]
             /\ (\A i \in 1 .. h.n : ~Writes(h, i, q)) => base[q] = data[q]
    BY <1>1, <2>1 DEF BaseKnown
  <2>4. CASE q # a
    BY <1>8, <2>1, <2>2, <2>3, <2>4
  <2>5. CASE q = a
    <3> SUFFICES ASSUME q \in Addr \cup (live \ Allocated(g)), \A i \in 1 .. g.n : ~Writes(g, i, q)
                 PROVE  base[q] = data'[q]
      BY <1>8, <2>1, <2>3, <2>5
    <3>1. \A i \in 1 .. h.n - 1 : ~Writes(h, i, q)
      BY <2>1
    <3>2. First(h, h.n, q) /\ h.n \in 1 .. h.n
      BY <1>4, <2>2, <2>5, <3>1 DEF First
    <3>3. base[q] = rec[3]
      BY <1>3, <2>3, <3>2
    <3> QED BY <1>7, <1>8, <2>5, <3>3
  <2> QED BY <2>4, <2>5
<1> QED BY <1>2, <1>9, <1>10, UndoKeeps, TagsAre

\* NL_ALLOCNODE (nvm-common.h:1011-1015): the node is free again, as it was.
LEMMA UndoAllocNodeKeeps ==
  ASSUME NEW h, IInv(h), UndoAllocNode
  PROVE  \E g : Undone(h, g) /\ IInv(g)'
<1>0. PICK p : p = ReadLogReverse(back, 3).bytes
  OBVIOUS
<1>1. DataTypes /\ BaseKnown(h) /\ redo = <<>> /\ del = <<>>
  BY UndoFacts DEF IInv, UndoAllocNode, Undo
<1>2. /\ pc = "undo" /\ NextPtr(back) # PEnd /\ TagBefore = Tags.ALLOCNODE /\ Undo(Tags.ALLOCNODE, 3)
      /\ live' = live \ {p[2]} /\ data' = [data EXCEPT ![p[2]] = RAW]
      /\ UNCHANGED <<nvm, nvmData, nvmLive, redo, del, base, written>>
  BY <1>0 DEF UndoAllocNode, Undo, bufVars
<1>3. PICK rec : rec = h.rec[h.n]
  OBVIOUS
<1>4. /\ h.n \in Nat \ {0} /\ rec \in LogRecords /\ rec[1] = Tags.ALLOCNODE
      /\ \A len \in Nat : len = Len(rec) => \A i \in 1 .. len : ReadLogReverse(back, len).bytes[i] = rec[i]
  BY <1>2, <1>3, UndoReads
<1>5. Len(rec) = 3 /\ rec[2] \in Node
  BY <1>4, RecordIs
<1>6. p[2] = rec[2]
  <2>1. 3 \in Nat /\ 2 \in 1 .. 3
    OBVIOUS
  <2> QED BY <1>0, <1>4, <1>5, <2>1
<1>7. PICK x : x = rec[2]
  OBVIOUS
<1>8. /\ x \in Node /\ x \in Memory /\ x \notin Addr
      /\ data' \in [Memory -> Value \cup {0, RAW}]
      /\ \A q \in Memory : q # x => data'[q] = data[q]
      /\ live' = live \ {x}
  <2>1. data \in [Memory -> Value \cup {0, RAW}]
    BY <1>1 DEF DataTypes
  <2>2. x \in Node /\ data' = [data EXCEPT ![x] = RAW] /\ live' = live \ {x}
    BY <1>2, <1>5, <1>6, <1>7
  <2> QED BY <2>1, <2>2, Places
<1>9. DataTypes'
  <2>1. \A q \in Addr : data'[q] # RAW
    BY <1>1, <1>8, Places DEF DataTypes
  <2>2. live' \subseteq Node /\ IsFiniteSet(live')
    BY <1>1, <1>8, FS_Subset DEF DataTypes
  <2>3. DOMAIN nvm' = Lines
    BY <1>1, <1>2 DEF DataTypes
  <2>4. Len(redo) = 0 /\ Len(del) = 0
    BY <1>1
  <2> QED BY <1>1, <1>2, <1>8, <2>1, <2>2, <2>3, <2>4 DEF DataTypes, Memory, Lines, RAW, FREE
<1>10. ASSUME NEW g, Undone(h, g) PROVE BaseKnown(g)'
  <2>1. /\ \A i \in 1 .. h.n : i \in 1 .. g.n \/ i = h.n
        /\ \A i \in 1 .. g.n : i \in 1 .. h.n
        /\ \A i, q : Writes(g, i, q) <=> Writes(h, i, q)
        /\ \A i, q : First(g, i, q) <=> First(h, i, q)
        /\ Allocated(h) = Allocated(g) \cup {x} /\ g.rec = h.rec
    <3>1. h.rec[h.n][1] = Tags.ALLOCNODE /\ h.n \in Nat \ {0}
      BY <1>3, <1>4
    <3>2. Allocated(h) = Allocated(g) \cup {h.rec[h.n][2]}
      BY <1>10, <3>1, UndoneIs
    <3>3. /\ \A i \in 1 .. h.n : i \in 1 .. g.n \/ i = h.n
          /\ \A i \in 1 .. g.n : i \in 1 .. h.n
          /\ \A i, q : Writes(g, i, q) <=> Writes(h, i, q)
          /\ \A i, q : First(g, i, q) <=> First(h, i, q)
      BY <1>10, <3>1, UndoneIs
    <3> QED BY <1>3, <1>7, <1>10, <3>2, <3>3 DEF Undone
  <2>2. \A q : ~Writes(h, h.n, q)
    BY <1>3, <1>4, TagsAre DEF Writes
  <2>3. live' \ Allocated(g) = live \ Allocated(h)
    BY <1>8, <2>1
  <2> SUFFICES ASSUME NEW q \in Memory
               PROVE  /\ q \notin Addr \cup (live' \ Allocated(g)) => base[q] = FREE
                      /\ q \in Addr \cup (live' \ Allocated(g)) =>
                           /\ data'[q] # RAW
                           /\ \A i \in 1 .. g.n : First(g, i, q) => base[q] = g.rec[i][3]
                           /\ (\A i \in 1 .. g.n : ~Writes(g, i, q)) => base[q] = data'[q]
    BY <1>2, KnownNow
  <2>4. /\ q \notin Addr \cup (live' \ Allocated(g)) => base[q] = FREE
        /\ q \in Addr \cup (live' \ Allocated(g)) =>
             /\ data[q] # RAW
             /\ \A i \in 1 .. h.n : First(h, i, q) => base[q] = h.rec[i][3]
             /\ (\A i \in 1 .. h.n : ~Writes(h, i, q)) => base[q] = data[q]
    BY <1>1, <2>3 DEF BaseKnown
  <2>5. q \in Addr \cup (live' \ Allocated(g)) => data'[q] = data[q]
    BY <1>8
  <2> QED BY <2>1, <2>2, <2>4, <2>5
<1> QED BY <1>2, <1>9, <1>10, UndoKeeps, TagsAre

\* When abort has undone all records (nvm-common.h:1026-1030) the store is the
\* committed one again.
LEMMA LogAbortKeeps ==
  ASSUME NEW h, IInv(h), LogAbort
  PROVE  Intact /\ \E g : IInv(g)'
<1>1. /\ DataTypes /\ LogTypes /\ Copied(h) /\ ToCopy(h) /\ BaseKnown(h) /\ next = NoStore
      /\ todo = <<>> /\ redo = <<>> /\ del = <<>> /\ End(h) = Offset(wr) /\ Offset(wr) \in Int
      /\ End(h) + 2 =< Limit
  BY UndoFacts DEF IInv, LogAbort
<1>2. /\ pc = "undo" /\ NextPtr(back) = PEnd /\ pc' = "aborted" /\ todo' = << <<Tags.ABORT>> >>
      /\ nvmData' = [a \in Memory |-> IF a \in written THEN data[a] ELSE nvmData[a]] /\ written' = {}
      /\ UNCHANGED <<area, nvm, wr, mid, data, live, nvmLive, tail, tx, redo, del, next, back, base>>
  BY DEF LogAbort
<1>3. Intact /\ \A n \in live : data[n] # RAW
  <2>1. h.n = 0
    BY <1>2, StopsAtStart
  <2> QED BY <1>1, <2>1, NothingDone
<1>4. PICK rec : rec = <<Tags.ABORT>>
  OBVIOUS
<1>5. rec \in Seq(Int) /\ Len(rec) = 1 /\ todo' = <<rec>> /\ rec # <<>>
  BY <1>2, <1>4, TagsAre
<1>6. PICK g : g = [byte |-> [o \in Int |->
                       IF o < Offset(wr) THEN h.byte[o]
                       ELSE LET q == CHOOSE q \in 1 .. Len(<<rec>>) :
                                       OnePiece(rec)[q] =< o /\ o < OnePiece(rec)[q + 1]
                            IN <<rec>>[q][o - OnePiece(rec)[q] + 1]],
                    td |-> OnePiece(rec)]
  OBVIOUS
<1>7. g.td = OnePiece(rec)
  BY <1>6
<1>8. PutTo(h, g, <<rec>>)
  BY <1>6, <1>7 DEF PutTo
<1> HIDE <1>6
<1>9. /\ LogTypes' /\ Copied(g)' /\ ToCopy(g)' /\ End(g)' = End(h) + Len(rec)
  <2>1. todo = <<>> /\ todo' = <<rec>> /\ UNCHANGED <<area, wr, mid, tail, tx>>
    BY <1>1, <1>2, <1>5
  <2>2. LogTypes /\ Copied(h) /\ ToCopy(h) /\ rec \in Seq(Int)
    BY <1>1, <1>5
  <2> QED BY ONLY <1>7, <1>8, <2>1, <2>2, LogAssumption, PutOne
<1>10. DataTypes'
  <2>1. nvmData' \in [Memory -> Value \cup {0, RAW}]
    BY <1>1, <1>2 DEF DataTypes
  <2>2. DOMAIN nvm' = Lines
    BY <1>1, <1>2 DEF DataTypes
  <2> QED BY <1>1, <1>2, <2>1, <2>2 DEF DataTypes, Memory, Lines, RAW, FREE
<1>11. Limit' = Limit /\ (Intact' <=> Intact) /\ Limit \in Int
  BY <1>1, <1>2, LimitStays, IntactStays, LimitIs
<1>12. Fits(g)'
  <2>1. End(g)' + 1 =< Limit'
    BY <1>1, <1>5, <1>9, <1>11
  <2> QED BY <1>2, <2>1 DEF Fits
<1>13. Quiet'
  <2>1. Len(todo') = 1 /\ todo'[1] = rec
    BY <1>5
  <2> QED BY <1>2, <1>5, <2>1 DEF Quiet
<1>14. Phases(g)'
  BY <1>1, <1>2, <1>3, <1>11 DEF Phases, CommitFilledLine, RAW
<1>15. StoreKnown(g)' /\ Undoing(g)' /\ ~InTx'
  BY <1>1, <1>2 DEF StoreKnown, NoStore, Undoing, InTx
<1>16. \E a : IInv(a)'
  BY <1>9, <1>10, <1>12, <1>13, <1>14, <1>15, Gather
<1> QED BY <1>3, <1>16
-----------------------------------------------------------------------------
\* Every step keeps an account, if abort is only called where it can be.
LEMMA NextKeeps ==
  ASSUME AbortAnywhere = FALSE, Inv, [Next]_vars
  PROVE  Inv'
<1>1. PICK h : IInv(h)
  BY DEF Inv
<1>2. SUFFICES \E g : IInv(g)'
  BY DEF Inv
<1>3. CASE UNCHANGED vars
  BY <1>1, <1>3, StutterKeeps
<1>4. CASE WriteLogLine
  <2>1. CopyToLine \/ CompleteLine2Log
    BY <1>4 DEF WriteLogLine
  <2>2. CASE CopyToLine
    BY <1>1, <1>4, <2>2, CopyLineKeeps
  <2>3. CASE CompleteLine2Log
    BY <1>1, <1>4, <2>3, CompleteLineKeeps
  <2> QED BY <2>1, <2>2, <2>3
<1>5. CASE FlushRecord
  BY <1>1, <1>5, FlushRecordKeeps
<1>6. CASE Store
  BY <1>1, <1>6, StoreKeeps
<1>7. CASE LogCommit
  BY <1>1, <1>7, LogCommitKeeps
<1>8. CASE FlushCommit
  BY <1>1, <1>8, FlushCommitKeeps
<1>9. CASE ApplyRedo
  BY <1>1, <1>9, ApplyRedoKeeps
<1>10. CASE FreeNodes
  BY <1>1, <1>10, FreeNodesKeeps
<1>11. CASE UndoNew
  BY <1>1, <1>11, UndoNewKeeps
<1>12. CASE UndoWrite
  BY <1>1, <1>12, UndoWriteKeeps
<1>13. CASE UndoAllocNode
  BY <1>1, <1>13, UndoAllocNodeKeeps
<1>14. CASE LogAbort
  BY <1>1, <1>14, LogAbortKeeps
<1>15. CASE FlushAbort
  BY <1>1, <1>15, FlushAbortKeeps
<1>16. CASE StartMiniTransaction
  BY <1>1, <1>16, StartKeeps
<1>17. CASE CommitMiniTransaction
  BY <1>1, <1>17, CommitKeeps
<1>18. CASE AbortMiniTransaction
  BY <1>1, <1>18, AbortKeeps
<1>19. CASE Truncate
  BY <1>1, <1>19, TruncateKeeps
<1>20. CASE \E a \in Memory, v \in Value : Write(a, v) \/ RedoWrite(a, v)
  <2>1. PICK a \in Memory, v \in Value : Write(a, v) \/ RedoWrite(a, v)
    BY <1>20
  <2>2. CASE Write(a, v)
    BY <1>1, <2>2, WriteKeeps
  <2>3. CASE RedoWrite(a, v)
    BY <1>1, <2>3, RedoWriteKeeps
  <2> QED BY <2>1, <2>2, <2>3
<1>21. CASE \E n \in Node : AllocNode(n) \/ DelNode(n) \/ \E v \in Value : New(n, v)
  <2>1. PICK n \in Node : AllocNode(n) \/ DelNode(n) \/ \E v \in Value : New(n, v)
    BY <1>21
  <2>2. CASE AllocNode(n)
    BY <1>1, <2>2, AllocNodeKeeps
  <2>3. CASE DelNode(n)
    BY <1>1, <2>3, DelNodeKeeps
  <2>4. CASE \E v \in Value : New(n, v)
    BY <1>1, <2>4, NewKeeps
  <2> QED BY <2>1, <2>2, <2>3, <2>4
<1>22. CASE \E a \in Memory : EvictData(a)
  BY <1>1, <1>22, EvictDataKeeps
<1>23. CASE \E l \in Lines : EvictLogLine(l)
  BY <1>1, <1>23, EvictLogKeeps
<1> QED
  BY <1>3, <1>4, <1>5, <1>6, <1>7, <1>8, <1>9, <1>10, <1>11, <1>12, <1>13, <1>14, <1>15, <1>16,
     <1>17, <1>18, <1>19, <1>20, <1>21, <1>22, <1>23 DEF Next, Code, Commit, Abort

\* Theorem.  If abort is not called when the log ends with a line (the case in which
\* nvm-common.h:956 reads an offset byte for a tag), then at every moment of every
\* behaviour the log fits an account: what is in its lines is what was written, it never
\* reaches the line where recovery starts, and the records of the running transaction say
\* what the store was before it.
THEOREM LogInvariant ==
  ASSUME AbortAnywhere = FALSE
  PROVE  Spec => []Inv
<1>1. Init => Inv
  BY InitHolds DEF Inv
<1>2. Inv /\ [Next]_vars => Inv'
  BY NextKeeps
<1> QED BY <1>1, <1>2, PTL DEF Spec

\* Theorem.  Every variable of NvmLog keeps its type: positions stay in the log, and
\* only nodes in use are waiting to be deleted.
THEOREM LogTypeCorrect ==
  ASSUME AbortAnywhere = FALSE
  PROVE  Spec => []TypeOK
<1>1. Inv => TypeOK
  <2> SUFFICES ASSUME NEW h, IInv(h) PROVE TypeOK
    BY DEF Inv
  <2>1. LogTypes /\ DataTypes /\ Phases(h)
    BY DEF IInv
  <2>2. DOMAIN del = 1 .. Len(del)
    BY <2>1 DEF DataTypes
  <2> QED BY <2>1, <2>2 DEF LogTypes, DataTypes, Phases, TypeOK
<1> QED BY <1>1, LogInvariant, PTL

\* Theorem.  Before every position abortMiniTransaction stops at there is the tag of a
\* record it knows, so it does not exit with "invalid log record"
\* (nvm-common.h:1019-1022), however many lines and rounds of the log it reads back.
THEOREM AbortReads ==
  ASSUME AbortAnywhere = FALSE
  PROVE  Spec => []AbortReadsRecords
<1>1. Inv => AbortReadsRecords
  <2> SUFFICES ASSUME NEW h, IInv(h), pc = "undo", NextPtr(back) # PEnd
               PROVE  TagBefore \in {Tags.NEW, Tags.WRITE, Tags.ALLOCNODE}
    BY DEF Inv, AbortReadsRecords
  <2>1. PICK rec : rec = h.rec[h.n]
    OBVIOUS
  <2>2. rec \in LogRecords /\ TagBefore = rec[1]
    BY <2>1, UndoReads
  <2> QED BY <2>2, RecordIs
<1> QED BY <1>1, LogInvariant, PTL
-----------------------------------------------------------------------------
(***************************************************************************)
(* Reading forward.                                                        *)
(***************************************************************************)
\* A set of numbers has a least one.
LEMMA Least ==
  ASSUME NEW S \in SUBSET Nat, NEW x \in S
  PROVE  \E m \in S : \A y \in S : m =< y
<1>1. PICK m \in S : \A y \in S : <<y, m>> \notin OpToRel(<, Nat)
  BY NatLessThanWellFounded, WFMin
<1>2. ASSUME NEW y \in S, ~(m =< y) PROVE FALSE
  <2>1. y \in Nat /\ m \in Nat /\ y < m
    BY <1>2
  <2>2. <<y, m>> \in OpToRel(<, Nat)
    BY <2>1 DEF OpToRel
  <2> QED BY <1>1, <2>2
<1> QED BY <1>2

\* The equation of a reader that goes on from i at jump[i], as long as i is in go.
Reads(f, k, l, go, piece, jump) ==
    f = [i \in k .. l |-> IF i \in go THEN piece[i] \o f[jump[i]] ELSE <<>>]

\* It has a solution, as the reader only goes forward.
LEMMA ReaderExists ==
  ASSUME NEW k \in Int, NEW l \in Int, NEW go, NEW piece, NEW jump,
         \A i \in k .. l : i \in go => jump[i] \in i + 1 .. l
  PROVE  \E f : Reads(f, k, l, go, piece, jump)
<1> DEFINE Has(c) == \E f : Reads(f, c, l, go, piece, jump)
           Bad == {m \in Nat : m =< l + 1 - k /\ ~Has(l + 1 - m)}
<1>1. \A c \in Int : l < c => Has(c)
  <2> SUFFICES ASSUME NEW c \in Int, l < c PROVE Has(c)
    OBVIOUS
  <2> DEFINE f == [i \in c .. l |-> <<>>]
  <2>1. \A i \in c .. l : FALSE
    OBVIOUS
  <2>2. f = [i \in c .. l |-> IF i \in go THEN piece[i] \o f[jump[i]] ELSE <<>>]
    BY <2>1
  <2> QED BY <2>2 DEF Reads
<1>2. ASSUME NEW c \in Int, k =< c, c =< l, Has(c + 1)
      PROVE  Has(c)
  <2>1. PICK f : Reads(f, c + 1, l, go, piece, jump)
    BY <1>2
  <2>2. PICK x : x = IF c \in go THEN piece[c] \o f[jump[c]] ELSE <<>>
    OBVIOUS
  <2> DEFINE d == [i \in c .. l |-> IF i = c THEN x ELSE f[i]]
  <2>3. \A i \in c .. l : (i = c \/ i \in c + 1 .. l) /\ i \in k .. l
    BY <1>2
  <2>4. c \in c .. l /\ \A i \in c + 1 .. l : i \in c .. l /\ i # c
    BY <1>2
  <2>5. d[c] = x /\ \A i \in c + 1 .. l : d[i] = f[i]
    BY <2>4
  <2>6. ASSUME NEW i \in c .. l, i \in go PROVE jump[i] \in c + 1 .. l
    <3>1. i \in Int /\ c =< i /\ jump[i] \in i + 1 .. l
      BY <1>2, <2>3, <2>6
    <3> QED BY <3>1
  <2>7. d = [i \in c .. l |-> d[i]]
    OBVIOUS
  <2> HIDE DEF d
  <2>8. \A i \in c .. l : i \in go => d[jump[i]] = f[jump[i]]
    BY <2>5, <2>6
  <2>9. \A i \in c + 1 .. l : f[i] = IF i \in go THEN piece[i] \o f[jump[i]] ELSE <<>>
    BY <2>1 DEF Reads
  <2>10. \A i \in c .. l : d[i] = IF i \in go THEN piece[i] \o d[jump[i]] ELSE <<>>
    <3> SUFFICES ASSUME NEW i \in c .. l
                 PROVE  d[i] = IF i \in go THEN piece[i] \o d[jump[i]] ELSE <<>>
      OBVIOUS
    <3>1. CASE i = c
      BY <2>2, <2>5, <2>8, <3>1
    <3>2. CASE i \in c + 1 .. l
      BY <2>5, <2>8, <2>9, <3>2
    <3> QED BY <2>3, <3>1, <3>2
  <2>11. d = [i \in c .. l |-> IF i \in go THEN piece[i] \o d[jump[i]] ELSE <<>>]
    BY <2>7, <2>10
  <2> QED BY <2>11 DEF Reads
<1>3. CASE l < k
  BY <1>1, <1>3
<1>4. CASE k =< l
  <2> SUFFICES ASSUME ~Has(k) PROVE FALSE
    OBVIOUS
  <2>1. l + 1 - k \in Nat /\ l + 1 - (l + 1 - k) = k
    BY <1>4
  <2> HIDE DEF Has
  <2>2. l + 1 - k \in Bad
    BY <2>1
  <2>3. PICK m \in Bad : \A y \in Bad : m =< y
    <3>1. Bad \in SUBSET Nat
      OBVIOUS
    <3> HIDE DEF Bad
    <3> QED BY <2>2, <3>1, Least
  <2>4. m \in Nat /\ m =< l + 1 - k /\ ~Has(l + 1 - m)
    OBVIOUS
  <2>5. m # 0
    <3>1. l + 1 - 0 \in Int /\ l < l + 1 - 0
      OBVIOUS
    <3>2. Has(l + 1 - 0)
      BY <1>1, <3>1
    <3> QED BY <2>4, <3>2
  <2>6. m - 1 \in Nat /\ m - 1 =< l + 1 - k /\ ~(m =< m - 1)
    BY <2>4, <2>5
  <2>7. Has(l + 1 - (m - 1))
    BY <2>3, <2>6
  <2>8. PICK c : c = l + 1 - m
    OBVIOUS
  <2>9. c \in Int /\ k =< c /\ c =< l /\ l + 1 - (m - 1) = c + 1
    BY <2>4, <2>5, <2>8
  <2>10. Has(c + 1)
    BY <2>7, <2>9
  <2> QED BY <1>2, <2>4, <2>8, <2>9, <2>10
<1> QED BY <1>3, <1>4

\* What is where in two sequences joined.
LEMMA Joined ==
  ASSUME NEW S, NEW u \in Seq(S), NEW v \in Seq(S)
  PROVE  /\ u \o v \in Seq(S) /\ Len(u \o v) = Len(u) + Len(v) /\ Len(u) \in Nat /\ Len(v) \in Nat
         /\ \A q \in 1 .. Len(u) : q \in 1 .. Len(u \o v) /\ (u \o v)[q] = u[q]
         /\ \A q \in 1 .. Len(v) :
               Len(u) + q \in 1 .. Len(u \o v) /\ (u \o v)[Len(u) + q] = v[q]
  OBVIOUS

\* A part of a sequence.
LEMMA PartIs ==
  ASSUME NEW S, NEW s \in Seq(S), NEW i \in 1 .. Len(s), NEW j \in i .. Len(s)
  PROVE  /\ SubSeq(s, i, j) \in Seq(S) /\ Len(SubSeq(s, i, j)) = j - i + 1
         /\ \A q \in 1 .. j - i + 1 : SubSeq(s, i, j)[q] = s[i + q - 1]
  OBVIOUS

\* The log bytes of a line from byte i on.
LEMMA BytesFrom ==
  ASSUME LogAssumption, NEW line \in LineType, NEW i \in 2 .. LineSize - 1
  PROVE  /\ SubSeq(line.byte, i, LineSize - 1) \in Seq(Int)
         /\ Len(SubSeq(line.byte, i, LineSize - 1)) = LineSize - i
         /\ \A q \in 1 .. LineSize - i : SubSeq(line.byte, i, LineSize - 1)[q] = line.byte[i + q - 1]
<1>1. LineSize \in Nat /\ LineSize >= 3
  BY Sizes
<1>2. PICK s : s = line.byte
  OBVIOUS
<1>3. s \in [1 .. LineSize - 1 -> Int]
  BY <1>2 DEF LineType
<1>4. s \in Seq(Int) /\ Len(s) = LineSize - 1
  BY <1>1, <1>3
<1>5. i \in 1 .. Len(s) /\ LineSize - 1 \in i .. Len(s) /\ LineSize - 1 - i + 1 = LineSize - i
  BY <1>1, <1>4
<1>6. /\ SubSeq(s, i, LineSize - 1) \in Seq(Int) /\ Len(SubSeq(s, i, LineSize - 1)) = LineSize - 1 - i + 1
      /\ \A q \in 1 .. LineSize - 1 - i + 1 : SubSeq(s, i, LineSize - 1)[q] = s[i + q - 1]
  BY <1>4, <1>5, PartIs
<1> QED BY <1>2, <1>5, <1>6

\* readLog: the line n lines on, whether it is there, and where in it readLog begins.
LineAt(pos, n)   == (pos.line + n) % NumLines
IsThere(pos, n)  == n < NumLines /\ checkByteOne(area[LineAt(pos, n)],
                                      IF pos.line + n < NumLines THEN pos.ver ELSE 1 - pos.ver)
StartIn(pos, n)  == IF n = 0 THEN pos.next ELSE 2
PieceAt(pos, n)  == SubSeq(area[LineAt(pos, n)].byte, StartIn(pos, n), LineSize - 1)

\* f gives what readLog reads from the n-th line on.
IsForward(f, pos) ==
    f = [n \in 0 .. NumLines |-> IF IsThere(pos, n) THEN PieceAt(pos, n) \o f[n + 1] ELSE <<>>]

\* readLog is such a reading.
LEMMA ReadLogIs ==
  ASSUME LogAssumption, NEW pos
  PROVE  \E f : IsForward(f, pos) /\ ReadLog(area, pos) = f[0]
<1> DEFINE F == CHOOSE f : IsForward(f, pos)
<1>1. \E f : IsForward(f, pos)
  <2> DEFINE go    == {n \in 0 .. NumLines : IsThere(pos, n)}
             piece == [n \in 0 .. NumLines |-> PieceAt(pos, n)]
             jump  == [n \in 0 .. NumLines |-> n + 1]
  <2>1. NumLines \in Int /\ 0 \in Int
    BY Sizes
  <2>2. \A n \in 0 .. NumLines : n \in go => jump[n] \in n + 1 .. NumLines
    BY <2>1 DEF IsThere
  <2>3. /\ \A n \in 0 .. NumLines : n \in go <=> IsThere(pos, n)
        /\ \A n \in 0 .. NumLines : piece[n] = PieceAt(pos, n) /\ jump[n] = n + 1
    OBVIOUS
  <2> HIDE DEF go, piece, jump
  <2>4. PICK f : Reads(f, 0, NumLines, go, piece, jump)
    BY <2>1, <2>2, ReaderExists
  <2>5. f = [n \in 0 .. NumLines |-> IF n \in go THEN piece[n] \o f[jump[n]] ELSE <<>>]
    BY <2>4 DEF Reads
  <2>6. \A n \in 0 .. NumLines : (IF n \in go THEN piece[n] \o f[jump[n]] ELSE <<>>)
                                 = (IF IsThere(pos, n) THEN PieceAt(pos, n) \o f[n + 1] ELSE <<>>)
    BY <2>3
  <2>7. f = [n \in 0 .. NumLines |-> IF IsThere(pos, n) THEN PieceAt(pos, n) \o f[n + 1] ELSE <<>>]
    BY <2>5, <2>6
  <2> QED BY <2>7 DEF IsForward
<1>2. ReadLog(area, pos) = F[0]
  BY DEF ReadLog, IsForward, IsThere, PieceAt, LineAt, StartIn
<1>3. IsForward(F, pos)
  BY <1>1
<1> QED BY <1>2, <1>3

\* RecLen of any byte is a number.
LEMMA RecLenIs ==
  ASSUME NEW s \in Seq(Int), NEW i \in 1 .. Len(s)
  PROVE  RecLen(s, i) \in Int
<1>1. i < Len(s) => i + 1 \in 1 .. Len(s)
  OBVIOUS
<1>2. i < Len(s) => s[i + 1] + 4 \in Int
  BY <1>1
<1> QED BY <1>2 DEF RecLen

\* f gives the records from the i-th byte on.
IsParsed(f, s) ==
    f = [i \in 1 .. Len(s) + 1 |->
           IF i > Len(s) THEN <<>>
           ELSE LET len == RecLen(s, i)
                IN IF len < 1 \/ i + len - 1 > Len(s) THEN <<>>
                   ELSE <<SubSeq(s, i, i + len - 1)>> \o f[i + len]]

\* Records is such a reading.
LEMMA RecordsIs ==
  ASSUME NEW s \in Seq(Int)
  PROVE  \E f : IsParsed(f, s) /\ Records(s) = f[1]
<1> DEFINE F == CHOOSE f : IsParsed(f, s)
<1>1. \E f : IsParsed(f, s)
  <2>1. PICK l : l = Len(s)
    OBVIOUS
  <2> DEFINE go    == {i \in 1 .. l : RecLen(s, i) >= 1 /\ i + RecLen(s, i) - 1 =< l}
             piece == [i \in 1 .. l |-> <<SubSeq(s, i, i + RecLen(s, i) - 1)>>]
             jump  == [i \in 1 .. l |-> i + RecLen(s, i)]
  <2>2. l \in Nat /\ l + 1 \in Int /\ 1 \in Int /\ \A i \in 1 .. l : RecLen(s, i) \in Int
    BY <2>1, RecLenIs
  <2>3. /\ \A i \in 1 .. l + 1 : i \in go <=> i =< l /\ RecLen(s, i) >= 1 /\ i + RecLen(s, i) - 1 =< l
        /\ \A i \in 1 .. l : /\ piece[i] = <<SubSeq(s, i, i + RecLen(s, i) - 1)>>
                             /\ jump[i] = i + RecLen(s, i)
    BY <2>2
  <2> HIDE DEF go, piece, jump
  <2>4. ASSUME NEW i \in 1 .. l + 1, i \in go PROVE jump[i] \in i + 1 .. l + 1
    <3>1. i \in 1 .. l
      BY <2>2, <2>3, <2>4
    <3>2. RecLen(s, i) \in Int /\ RecLen(s, i) >= 1 /\ i + RecLen(s, i) - 1 =< l /\ jump[i] = i + RecLen(s, i)
      BY <2>2, <2>3, <2>4, <3>1
    <3> QED BY <2>2, <3>2
  <2>5. PICK f : Reads(f, 1, l + 1, go, piece, jump)
    BY <2>2, <2>4, ReaderExists
  <2>6. f = [i \in 1 .. l + 1 |-> IF i \in go THEN piece[i] \o f[jump[i]] ELSE <<>>]
    BY <2>5 DEF Reads
  <2>7. ASSUME NEW i \in 1 .. l + 1
        PROVE  (IF i \in go THEN piece[i] \o f[jump[i]] ELSE <<>>)
               = (IF i > l THEN <<>>
                  ELSE IF RecLen(s, i) < 1 \/ i + RecLen(s, i) - 1 > l THEN <<>>
                       ELSE <<SubSeq(s, i, i + RecLen(s, i) - 1)>> \o f[i + RecLen(s, i)])
    <3>1. CASE i > l
      BY <2>2, <2>3, <3>1
    <3>2. CASE i =< l
      <4>1. i \in 1 .. l
        BY <2>2, <3>2
      <4>2. RecLen(s, i) \in Int /\ ~(i > l)
        BY <2>2, <3>2, <4>1
      <4>3. i \in go <=> ~(RecLen(s, i) < 1 \/ i + RecLen(s, i) - 1 > l)
        BY <2>2, <2>3, <3>2, <4>2
      <4> QED BY <2>3, <4>1, <4>2, <4>3
    <3> QED BY <2>2, <3>1, <3>2
  <2>8. f = [i \in 1 .. l + 1 |->
              IF i > l THEN <<>>
              ELSE IF RecLen(s, i) < 1 \/ i + RecLen(s, i) - 1 > l THEN <<>>
                   ELSE <<SubSeq(s, i, i + RecLen(s, i) - 1)>> \o f[i + RecLen(s, i)]]
    BY <2>6, <2>7
  <2> QED BY <2>1, <2>8 DEF IsParsed
<1>2. Records(s) = F[1]
  BY DEF Records, IsParsed
<1>3. IsParsed(F, s)
  BY <1>1
<1> QED BY <1>2, <1>3

-----------------------------------------------------------------------------
\* The lines from where the transaction starts to the one the log ends in are there.
LEMMA LinesThere ==
  ASSUME NEW h, IInv(h), pc = "undo", NEW n \in Nat, AbsLine(tx) + n =< AbsLine(wr)
  PROVE  /\ n \in 0 .. NumLines - 1 /\ LineAt(tx, n) = (AbsLine(tx) + n) % NumLines
         /\ IsThere(tx, n)
<1>1. PICK p, k, t, a, w : p = PerLine /\ k = NumLines /\ t = tail.line /\ a = AbsLine(tx) /\ w = AbsLine(wr)
  OBVIOUS
<1>2. /\ LogTypes /\ Copied(h) /\ area[wr.line].ok /\ area[wr.line].ver = wr.ver
      /\ Offset(tail) =< Offset(tx)
  BY UndoFacts DEF Readable
<1>3. /\ tail.ver \in {0, 1} /\ t \in Lines /\ tail.next \in 2 .. LineSize - 1
      /\ tx.ver \in {0, 1} /\ tx.line \in Lines /\ tx.next \in 2 .. LineSize - 1
  BY <1>1, <1>2 DEF LogTypes
<1>4. p \in Nat \ {0} /\ k \in Nat \ {0} /\ LineSize = p + 2 /\ Lines = 0 .. k - 1
  BY <1>1, LogAssumption, Sizes
<1>5. /\ t =< w /\ w < t + k /\ w \in Nat /\ w % k = wr.line /\ Version(w) = wr.ver
      /\ t * p \in Nat /\ t \in Nat /\ Offset(tail) = t * p + tail.next - 2
  BY <1>1, <1>2, LogAssumption, Around DEF Copied
<1>6. /\ a \in 0 .. 2 * k - 1 /\ a % k = tx.line /\ a * p \in Nat /\ Version(a) = tx.ver
      /\ Offset(tx) = a * p + tx.next - 2
  <2>1. tx.next \in Int
    BY <1>3, <1>4
  <2> QED BY <1>1, <1>3, <2>1, LogAssumption, Positions
<1>7. t =< a
  <2> SUFFICES ASSUME a < t PROVE FALSE
    BY <1>5, <1>6
  <2>1. a * p + p =< t * p
    BY <1>4, <1>5, <1>6, LinesApart
  <2>2. tx.next =< p + 1 /\ tail.next >= 2 /\ tx.next \in Int /\ tail.next \in Int
    BY <1>3, <1>4
  <2>3. PICK o, c, d : o = Offset(tail) /\ c = tx.next /\ d = tail.next
    OBVIOUS
  <2>4. a * p + c - 2 >= o /\ o = t * p + d - 2
    BY <1>2, <1>5, <1>6, <2>3
  <2>5. PICK u, v : u = a * p /\ v = t * p
    OBVIOUS
  <2>6. /\ u \in Nat /\ v \in Nat /\ c \in Int /\ d \in Int /\ c =< p + 1 /\ d >= 2 /\ p \in Nat
        /\ u + p =< v /\ u + c - 2 >= o /\ o = v + d - 2
    BY <1>4, <1>5, <1>6, <2>1, <2>2, <2>3, <2>4, <2>5
  <2> QED BY ONLY <2>6
<1>12. a + n =< w
  BY <1>1
<1>13. a \in Nat
  <2>1. k \in Nat /\ a \in 0 .. 2 * k - 1
    BY <1>4, <1>6
  <2> QED BY ONLY <2>1
<1>8. n \in 0 .. k - 1 /\ a + n \in t .. w /\ a + n =< w /\ a \in Int
  <2>1. t \in Nat /\ w \in Nat /\ k \in Nat /\ t =< w /\ w < t + k
    BY <1>4, <1>5
  <2> QED BY ONLY <1>7, <1>12, <1>13, <2>1, n \in Nat
<1>9. /\ LineAt(tx, n) = (a + n) % k
      /\ (IF tx.line + n < k THEN tx.ver ELSE 1 - tx.ver) = Version(a + n)
  <2>1. CASE tx.ver = tail.ver
    <3>1. a = tx.line
      <4>1. tx.line \in Int
        BY <1>3, <1>4
      <4> QED BY <1>1, <2>1, <4>1 DEF AbsLine
    <3>2. Version(a + n) = IF a + n < k THEN tail.ver ELSE 1 - tail.ver
      <4>1. a + n \in 0 .. k - 1 <=> a + n < k
        <5>1. k \in Nat
          BY <1>4
        <5> QED BY ONLY <1>13, <5>1, n \in Nat
      <4>2. a + n \in Lines <=> a + n < k
        BY <1>4, <4>1
      <4> QED BY <4>2 DEF Version
    <3>3. LineAt(tx, n) = (a + n) % k
      BY <1>1, <3>1 DEF LineAt
    <3> QED BY <2>1, <3>1, <3>2, <3>3
  <2>2. CASE tx.ver # tail.ver
    <3>1. a = tx.line + k
      BY <1>1, <2>2 DEF AbsLine
    <3>6. PICK x : x = tx.line
      OBVIOUS
    <3>7. x \in Nat /\ t \in Nat /\ t < k /\ k \in Nat /\ w < t + k /\ w \in Nat /\ a = x + k
      BY <1>3, <1>4, <1>5, <3>1, <3>6
    <3>8. x \in Int /\ x + n < k /\ (x + n) + k = a + n /\ ~(a + n < k)
      BY ONLY <1>12, <3>7, n \in Nat
    <3>2. tx.line \in Int /\ tx.line + n < k /\ (tx.line + n) + k = a + n /\ ~(a + n < k)
      BY <3>6, <3>8
    <3>3. Version(a + n) = 1 - tail.ver
      <4>1. a + n \notin Lines
        BY <1>4, <3>2
      <4> QED BY <4>1 DEF Version
    <3>4. tx.ver = 1 - tail.ver
      BY <1>3, <2>2
    <3>5. (a + n) % k = (tx.line + n) % k
      <4>1. tx.line + n \in Int
        BY <3>2
      <4> QED BY <1>4, <3>2, <4>1, AroundOnce
    <3>9. LineAt(tx, n) = (tx.line + n) % k
      BY <1>1 DEF LineAt
    <3> QED BY <3>2, <3>3, <3>4, <3>5, <3>9
  <2> QED BY <2>1, <2>2
<1>10. checkByteOne(area[(a + n) % k], Version(a + n))
  <2>1. CASE a + n = w
    BY <1>2, <1>5, <2>1 DEF checkByteOne
  <2>2. CASE a + n # w
    <3>1. a + n \in t .. w - 1
      BY <1>5, <1>8, <2>2
    <3> QED BY <1>1, <1>2, <3>1 DEF Copied, checkByteOne
  <2> QED BY <2>1, <2>2
<1>11. IsThere(tx, n)
  BY <1>1, <1>4, <1>8, <1>9, <1>10 DEF IsThere
<1> QED BY <1>1, <1>8, <1>9, <1>11

\* Whatever readLog reads is bytes.
LEMMA ForwardBytes ==
  ASSUME LogAssumption, LogTypes, NEW f, IsForward(f, tx), NEW n \in 0 .. NumLines
  PROVE  f[n] \in Seq(Int)
<1>1. NumLines \in Nat /\ Lines = 0 .. NumLines - 1 /\ LineSize \in Nat /\ LineSize >= 3
      /\ NumLines \in Nat \ {0}
  BY Sizes
<1>2. \A i \in 0 .. NumLines : f[i] = IF IsThere(tx, i) THEN PieceAt(tx, i) \o f[i + 1] ELSE <<>>
  BY DEF IsForward
<1>3. ASSUME NEW i \in 0 .. NumLines PROVE PieceAt(tx, i) \in Seq(Int)
  <2>1. tx.line \in Int /\ tx.next \in 2 .. LineSize - 1
    BY <1>1 DEF LogTypes
  <2>2. StartIn(tx, i) \in 2 .. LineSize - 1
    BY <1>1, <2>1 DEF StartIn
  <2>3. LineAt(tx, i) \in Lines
    <3>1. tx.line + i \in Int
      BY <1>1, <2>1
    <3>2. (tx.line + i) % NumLines \in 0 .. NumLines - 1
      BY <1>1, <3>1, Division
    <3> QED BY <1>1, <3>2 DEF LineAt
  <2>4. PICK line : line = area[LineAt(tx, i)]
    OBVIOUS
  <2>5. line \in LineType
    BY <2>3, <2>4 DEF LogTypes
  <2>6. PICK j : j = StartIn(tx, i)
    OBVIOUS
  <2>7. SubSeq(line.byte, j, LineSize - 1) \in Seq(Int)
    BY <2>2, <2>5, <2>6, BytesFrom
  <2> QED BY <2>4, <2>6, <2>7 DEF PieceAt
<1> DEFINE Bad == {m \in Nat : m =< NumLines /\ f[NumLines - m] \notin Seq(Int)}
<1> SUFFICES ASSUME f[n] \notin Seq(Int) PROVE FALSE
  OBVIOUS
<1>4. NumLines - n \in Nat /\ NumLines - (NumLines - n) = n /\ NumLines - n =< NumLines
  BY <1>1
<1>5. NumLines - n \in Bad
  BY <1>4
<1>6. PICK m \in Bad : \A y \in Bad : m =< y
  <2>1. Bad \in SUBSET Nat
    OBVIOUS
  <2> HIDE DEF Bad
  <2> QED BY <1>5, <2>1, Least
<1>7. m \in Nat /\ m =< NumLines /\ f[NumLines - m] \notin Seq(Int)
  OBVIOUS
<1>8. PICK i : i = NumLines - m
  OBVIOUS
<1>9. i \in 0 .. NumLines /\ i \in Int
  BY <1>1, <1>7, <1>8
<1>10. IsThere(tx, i)
  <2>1. <<>> \in Seq(Int)
    OBVIOUS
  <2> QED BY <1>2, <1>7, <1>8, <1>9, <2>1
<1>11. i < NumLines
  BY <1>10 DEF IsThere
<1>12. m - 1 \in Nat /\ m - 1 =< NumLines /\ ~(m =< m - 1) /\ NumLines - (m - 1) = i + 1
  BY <1>1, <1>7, <1>8, <1>9, <1>11
<1>13. f[i + 1] \in Seq(Int)
  BY <1>6, <1>12
<1>14. f[i] = PieceAt(tx, i) \o f[i + 1]
  BY <1>2, <1>9, <1>10
<1>15. f[i] \in Seq(Int)
  BY <1>3, <1>9, <1>13, <1>14, Joined
<1> QED BY <1>7, <1>8, <1>15
-----------------------------------------------------------------------------
\* The byte of the buffer that is byte x of the row.
LineByte(x) == area[(x \div PerLine) % NumLines].byte[(x % PerLine) + 2]

\* Byte b of line m is the one at Place(m, b).
LEMMA LineByteIs ==
  ASSUME LogAssumption, NEW m \in Int, NEW b \in 2 .. LineSize - 1, NEW x, x = Place(m, b)
  PROVE  LineByte(x) = area[m % NumLines].byte[b]
<1>1. PICK p : p = PerLine
  OBVIOUS
<1>2. p \in Nat \ {0} /\ LineSize = p + 2
  BY <1>1, Sizes
<1>3. b - 2 \in 0 .. p - 1 /\ (b - 2) + 2 = b /\ m * p \in Int
  BY <1>2
<1>4. x = m * p + (b - 2)
  BY <1>1, <1>2, <1>3 DEF Place
<1>5. x \div p = m /\ x % p = b - 2
  BY <1>2, <1>3, <1>4, Quotient
<1> QED BY <1>1, <1>3, <1>5 DEF LineByte

\* Where in the row readLog begins in the line n lines on.
BaseOf(n) == IF n = 0 THEN Offset(tx) ELSE (AbsLine(tx) + n) * PerLine

\* What it reads there is the rest of the line.
LEMMA PieceBytes ==
  ASSUME NEW h, IInv(h), pc = "undo", NEW n \in Nat, AbsLine(tx) + n =< AbsLine(wr)
  PROVE  /\ PieceAt(tx, n) \in Seq(Int) /\ BaseOf(n) \in Int /\ BaseOf(n + 1) \in Int
         /\ BaseOf(n) + Len(PieceAt(tx, n)) = BaseOf(n + 1)
         /\ \A q \in 1 .. Len(PieceAt(tx, n)) : PieceAt(tx, n)[q] = LineByte(BaseOf(n) + q - 1)
<1>1. PICK p, k, a, i, s, o, l :
         /\ p = PerLine /\ k = NumLines /\ a = AbsLine(tx) /\ i = StartIn(tx, n) /\ s = PieceAt(tx, n)
         /\ o = BaseOf(n) /\ l = area[LineAt(tx, n)]
  OBVIOUS
<1>2. LogTypes
  BY UndoFacts DEF Readable
<1>3. /\ tail.ver \in {0, 1} /\ tail.line \in Lines
      /\ tx.ver \in {0, 1} /\ tx.line \in Lines /\ tx.next \in 2 .. LineSize - 1
  BY <1>2 DEF LogTypes
<1>4. p \in Nat \ {0} /\ k \in Nat \ {0} /\ LineSize = p + 2 /\ Lines = 0 .. k - 1
  BY <1>1, LogAssumption, Sizes
<1>5. a \in 0 .. 2 * k - 1 /\ Offset(tx) = a * p + tx.next - 2 /\ a * p \in Int
  <2>1. tx.next \in Int
    BY <1>3, <1>4
  <2> QED BY <1>1, <1>3, <2>1, LogAssumption, Positions
<1>6. a \in Int /\ a + n \in Int /\ a + (n + 1) \in Int /\ n + 1 # 0
  <2>1. k \in Nat /\ a \in 0 .. 2 * k - 1
    BY <1>4, <1>5
  <2>2. a \in Int
    BY ONLY <2>1
  <2> QED BY <2>2
<1>7. n \in 0 .. k - 1 /\ LineAt(tx, n) = (a + n) % k
  BY <1>1, LinesThere
<1>8. i \in 2 .. LineSize - 1 /\ i \in Int
  BY <1>1, <1>3, <1>4 DEF StartIn
<1>9. l \in LineType
  <2>1. (a + n) % k \in Lines
    <3>1. (a + n) % k \in 0 .. k - 1
      BY <1>4, <1>6, Division
    <3> QED BY <1>4, <3>1
  <2>2. area[(a + n) % k] \in LineType
    BY <1>2, <2>1 DEF LogTypes
  <2> QED BY <1>1, <1>7, <2>2
<1>10. /\ s \in Seq(Int) /\ Len(s) = LineSize - i
       /\ \A q \in 1 .. LineSize - i : s[q] = l.byte[i + q - 1]
  <2>1. s = SubSeq(l.byte, i, LineSize - 1)
    BY <1>1 DEF PieceAt
  <2> QED BY <1>8, <1>9, <2>1, LogAssumption, BytesFrom
<1>11. (a + n) * p \in Int /\ (a + (n + 1)) * p = (a + n) * p + p
  <2>1. (a + n) + 1 = a + (n + 1)
    BY <1>6
  <2>2. ((a + n) + 1) * p = (a + n) * p + 1 * p /\ (a + n) * p \in Int
    BY <1>4, <1>6, Distributes
  <2> QED BY <1>4, <2>1, <2>2
<1>12. o = (a + n) * p + i - 2
  <2>1. CASE n = 0
    <3>1. a + n = a
      BY <1>6, <2>1
    <3> QED BY <1>1, <1>5, <2>1, <3>1 DEF BaseOf, StartIn
  <2>2. CASE n # 0
    <3>1. i = 2 /\ o = (a + n) * p
      BY <1>1, <2>2 DEF BaseOf, StartIn
    <3> QED BY <1>11, <3>1
  <2> QED BY <2>1, <2>2
<1>13. BaseOf(n + 1) = (a + (n + 1)) * p
  BY <1>1, <1>6 DEF BaseOf
<1>14. o \in Int /\ BaseOf(n + 1) \in Int /\ o + Len(s) = BaseOf(n + 1)
  <2>1. PICK u, v, ln : u = (a + n) * p /\ v = BaseOf(n + 1) /\ ln = Len(s)
    OBVIOUS
  <2>2. u \in Int /\ v = u + p /\ o = u + i - 2 /\ ln = LineSize - i
    BY ONLY <2>1, <1>10, <1>11, <1>12, <1>13
  <2>3. p \in Int /\ i \in Int /\ LineSize = p + 2
    BY <1>4, <1>8
  <2>4. o \in Int /\ v \in Int /\ o + ln = v
    BY ONLY <2>2, <2>3
  <2> QED BY ONLY <2>1, <2>4
<1>15. ASSUME NEW q \in 1 .. Len(s) PROVE s[q] = LineByte(o + q - 1)
  <2>1. q \in 1 .. LineSize - i
    BY <1>10
  <2>2. i + q - 1 \in 2 .. LineSize - 1
    BY <1>4, <1>8, <2>1
  <2>3. o + q - 1 = Place(a + n, i + q - 1)
    <3>1. o + q - 1 = (a + n) * p + (i + q - 1) - 2
      BY <1>4, <1>8, <1>11, <1>12, <2>1
    <3> QED BY <1>1, <3>1 DEF Place
  <2>4. PICK b, x : b = i + q - 1 /\ x = o + q - 1
    OBVIOUS
  <2>5. LineByte(x) = area[(a + n) % NumLines].byte[b]
    BY <1>6, <2>2, <2>3, <2>4, LogAssumption, LineByteIs
  <2> QED BY <1>1, <1>7, <1>10, <2>1, <2>4, <2>5
<1> QED BY <1>1, <1>10, <1>14, <1>15

\* From the n-th line on, readLog reads the row as it is in the buffer.
ReadsRow(f, n) ==
    \A x \in BaseOf(n) .. BaseOf(AbsLine(wr) - AbsLine(tx) + 1) - 1 :
       x - BaseOf(n) + 1 \in 1 .. Len(f[n]) /\ f[n][x - BaseOf(n) + 1] = LineByte(x)

LEMMA ReadsOn ==
  ASSUME NEW h, IInv(h), pc = "undo", NEW f, IsForward(f, tx),
         NEW n \in Nat, AbsLine(tx) + n =< AbsLine(wr),
         n # AbsLine(wr) - AbsLine(tx) => ReadsRow(f, n + 1)
  PROVE  ReadsRow(f, n)
<1>1. PICK e, o, c, s, r, last : /\ e = BaseOf(AbsLine(wr) - AbsLine(tx) + 1) /\ o = BaseOf(n)
                                 /\ c = BaseOf(n + 1) /\ s = PieceAt(tx, n) /\ r = f[n + 1]
                                 /\ last = AbsLine(wr) - AbsLine(tx)
  OBVIOUS
<1>2. LogTypes /\ AbsLine(tx) \in Int /\ AbsLine(wr) \in Int
  <2>1. LogTypes /\ Copied(h)
    BY UndoFacts DEF Readable
  <2>2. /\ tail.ver \in {0, 1} /\ tail.line \in Lines
        /\ tx.ver \in {0, 1} /\ tx.line \in Lines /\ tx.next \in 2 .. LineSize - 1
    BY <2>1 DEF LogTypes
  <2>3. tx.next \in Int /\ NumLines \in Nat
    BY <2>2, LogAssumption, Sizes
  <2>4. PICK a : a = AbsLine(tx)
    OBVIOUS
  <2>5. a \in 0 .. 2 * NumLines - 1
    BY <2>2, <2>3, <2>4, LogAssumption, Positions
  <2>6. a \in Int
    BY <2>3, <2>5
  <2>7. AbsLine(wr) \in Nat
    BY <2>1, LogAssumption, Around DEF Copied
  <2> QED BY <2>1, <2>4, <2>6, <2>7
<1>3. n \in 0 .. NumLines /\ n + 1 \in 0 .. NumLines /\ IsThere(tx, n)
  <2>1. n \in 0 .. NumLines - 1 /\ IsThere(tx, n)
    BY LinesThere
  <2>2. NumLines \in Nat
    BY LogAssumption, Sizes
  <2> QED BY <2>1, <2>2
<1>4. r \in Seq(Int)
  BY <1>1, <1>2, <1>3, LogAssumption, ForwardBytes
<1>5. /\ s \in Seq(Int) /\ o \in Int /\ c \in Int /\ o + Len(s) = c
      /\ \A q \in 1 .. Len(s) : s[q] = LineByte(o + q - 1)
  BY <1>1, PieceBytes
<1>6. f[n] = s \o r
  BY <1>1, <1>3 DEF IsForward
<1>7. PICK u, l, m : u = f[n] /\ l = Len(s) /\ m = Len(r)
  OBVIOUS
<1>8. /\ Len(u) = l + m /\ l \in Nat /\ m \in Nat
      /\ \A q \in 1 .. l : u[q] = s[q]
      /\ \A q \in 1 .. m : u[l + q] = r[q]
  BY <1>4, <1>5, <1>6, <1>7, Joined
<1>9. e \in Int
  <2>1. PerLine \in Int
    BY LogAssumption, Sizes
  <2>2. last + 1 \in Int /\ last + 1 # 0
    BY <1>1, <1>2
  <2>3. e = (AbsLine(tx) + (last + 1)) * PerLine
    BY <1>1, <2>2 DEF BaseOf
  <2> QED BY <1>2, <2>1, <2>2, <2>3
<1>10. ASSUME NEW x \in o .. e - 1
       PROVE  x - o + 1 \in 1 .. Len(u) /\ u[x - o + 1] = LineByte(x)
  <2>1. CASE x < c
    <3>1. x - o + 1 \in 1 .. l /\ x - o + 1 \in 1 .. l + m /\ o + (x - o + 1) - 1 = x
      BY ONLY <1>5, <1>7, <1>8, <1>9, <2>1, x \in o .. e - 1
    <3>2. u[x - o + 1] = s[x - o + 1]
      BY <1>8, <3>1
    <3>3. s[x - o + 1] = LineByte(o + (x - o + 1) - 1)
      BY <1>5, <1>7, <3>1
    <3> QED BY <1>8, <3>1, <3>2, <3>3
  <2>2. CASE ~(x < c)
    <3>1. n # last
      <4>1. last = n => c = e
        BY <1>1
      <4> QED BY ONLY <1>5, <1>9, <2>2, <4>1, x \in o .. e - 1
    <3>2. ReadsRow(f, n + 1)
      BY <1>1, <3>1
    <3>3. x \in c .. e - 1
      BY ONLY <1>5, <1>9, <2>2, x \in o .. e - 1
    <3>4. x - c + 1 \in 1 .. m /\ r[x - c + 1] = LineByte(x)
      BY <1>1, <1>7, <3>2, <3>3 DEF ReadsRow
    <3>5. l + (x - c + 1) = x - o + 1 /\ x - o + 1 \in 1 .. l + m
      <4>1. o + l = c /\ o \in Int /\ c \in Int /\ l \in Nat /\ m \in Nat /\ x - c + 1 \in 1 .. m
        BY <1>5, <1>7, <1>8, <3>4
      <4> QED BY ONLY <1>9, <4>1, x \in o .. e - 1
    <3>6. u[l + (x - c + 1)] = r[x - c + 1]
      BY <1>8, <3>4
    <3> QED BY <1>8, <3>4, <3>5, <3>6
  <2> QED BY <2>1, <2>2
<1> QED BY <1>1, <1>7, <1>10 DEF ReadsRow

\* A transaction starts in the line the log ends in or before it.
LEMMA StartsBefore ==
  ASSUME NEW h, IInv(h), pc = "undo"
  PROVE  AbsLine(tx) \in Nat /\ AbsLine(wr) \in Nat /\ AbsLine(tx) =< AbsLine(wr)
<1>1. PICK a, w : a = AbsLine(tx) /\ w = AbsLine(wr)
  OBVIOUS
<1>2. /\ LogTypes /\ Copied(h) /\ Offset(tx) \in Int /\ Offset(wr) \in Int /\ Offset(tx) =< Offset(wr)
  <2>1. /\ Readable(h) /\ Offset(wr) \in Int /\ Offset(tx) \in Int
        /\ h.n \in Nat /\ h.st[h.n + 1] \in Int /\ Offset(tx) + h.n =< h.st[h.n + 1]
        /\ h.st[h.n + 1] =< Offset(wr)
    BY UndoFacts
  <2>2. PICK s, n, e, o : s = Offset(tx) /\ n = h.n /\ e = h.st[h.n + 1] /\ o = Offset(wr)
    OBVIOUS
  <2>3. s \in Int /\ n \in Nat /\ e \in Int /\ o \in Int /\ s + n =< e /\ e =< o
    BY <2>1, <2>2
  <2>4. s =< o
    BY ONLY <2>3
  <2> QED BY <2>1, <2>2, <2>4 DEF Readable
<1>3. PICK p, s, o, nx, nt : p = PerLine /\ s = Offset(tx) /\ o = Offset(wr) /\ nx = wr.next /\ nt = tx.next
  OBVIOUS
<1>4. /\ p \in Nat \ {0} /\ nt \in 2 .. p + 1 /\ nx \in 2 .. p + 2 /\ a \in Nat /\ w \in Nat
      /\ s = a * p + nt - 2 /\ o = w * p + nx - 2
  <2>1. /\ tail.ver \in {0, 1} /\ tail.line \in Lines
        /\ tx.ver \in {0, 1} /\ tx.line \in Lines /\ tx.next \in 2 .. LineSize - 1
        /\ wr.next \in 2 .. LineSize
    BY <1>2 DEF LogTypes
  <2>2. p \in Nat \ {0} /\ LineSize = p + 2 /\ NumLines \in Nat
    BY <1>3, LogAssumption, Sizes
  <2>3. tx.next \in Int
    BY <2>1, <2>2
  <2>4. a \in 0 .. 2 * NumLines - 1 /\ s = a * p + nt - 2
    BY <1>1, <1>3, <2>1, <2>3, LogAssumption, Positions
  <2>5. w \in Nat /\ o = w * p + nx - 2
    BY <1>1, <1>2, <1>3, LogAssumption, Around DEF Copied
  <2>6. a \in Nat
    BY ONLY <2>2, <2>4
  <2>7. nt \in 2 .. p + 1 /\ nx \in 2 .. p + 2
    BY <1>3, <2>1, <2>2
  <2> QED BY <2>2, <2>4, <2>5, <2>6, <2>7
<1>5. ~(w < a)
  <2> SUFFICES ASSUME w < a PROVE FALSE
    OBVIOUS
  <2>1. w * p + p =< a * p /\ w * p \in Int /\ a * p \in Int
    BY <1>4, LinesApart
  <2>2. nx =< p + 1
    <3>1. wr.next < LineSize /\ LineSize = p + 2
      BY <1>3, LogAssumption, Sizes, UndoFacts
    <3> QED BY <1>3, <1>4, <3>1
  <2>3. PICK u, v : u = w * p /\ v = a * p
    OBVIOUS
  <2>4. /\ u \in Int /\ v \in Int /\ u + p =< v /\ s = v + nt - 2 /\ o = u + nx - 2 /\ s =< o
        /\ nt \in Int /\ nx \in Int /\ nt >= 2
    BY <1>2, <1>3, <1>4, <2>1, <2>3
  <2>5. p \in Nat /\ nx =< p + 1
    BY <1>4, <2>2
  <2> QED BY ONLY <2>4, <2>5
<1> QED BY <1>1, <1>4, <1>5

\* readLog from the start of the transaction reads the row up to where the log ends.
LEMMA ReadsAll ==
  ASSUME NEW h, IInv(h), pc = "undo", NEW f, IsForward(f, tx)
  PROVE  ReadsRow(f, 0)
<1>1. PICK a, w : a = AbsLine(tx) /\ w = AbsLine(wr)
  OBVIOUS
<1>2. a \in Nat /\ w \in Nat /\ a =< w
  BY <1>1, StartsBefore
<1> DEFINE Bad == {m \in Nat : m =< w - a /\ ~ReadsRow(f, w - a - m)}
<1> SUFFICES ASSUME ~ReadsRow(f, 0) PROVE FALSE
  OBVIOUS
<1> QED
  <2>1. w - a \in Nat /\ w - a - (w - a) = 0
    BY <1>2
  <2>2. w - a \in Bad
    BY <2>1
  <2>3. PICK m \in Bad : \A y \in Bad : m =< y
    <3>1. Bad \in SUBSET Nat
      OBVIOUS
    <3> HIDE DEF Bad
    <3> QED BY <2>2, <3>1, Least
  <2>4. m \in Nat /\ m =< w - a /\ ~ReadsRow(f, w - a - m)
    OBVIOUS
  <2>5. PICK n : n = w - a - m
    OBVIOUS
  <2>6. n \in Nat /\ a + n =< w
    BY <1>2, <2>4, <2>5
  <2>7. n # w - a => ReadsRow(f, n + 1)
    <3> SUFFICES ASSUME n # w - a PROVE ReadsRow(f, n + 1)
      OBVIOUS
    <3>1. m - 1 \in Nat /\ m - 1 =< w - a /\ ~(m =< m - 1) /\ w - a - (m - 1) = n + 1
      BY <1>2, <2>4, <2>5
    <3> QED BY <2>3, <3>1
  <2>8. ReadsRow(f, n)
    BY <1>1, <2>6, <2>7, ReadsOn
  <2> QED BY <2>4, <2>5, <2>8

\* So it reads the records of the transaction, those abort has undone included, and then
\* the byte that flushLog put behind them.
LEMMA ForwardIs ==
  ASSUME NEW h, IInv(h), pc = "undo"
  PROVE  /\ ReadLog(area, tx) \in Seq(Int)
         /\ \A x \in Offset(tx) .. Offset(wr) :
              /\ x - Offset(tx) + 1 \in 1 .. Len(ReadLog(area, tx))
              /\ ReadLog(area, tx)[x - Offset(tx) + 1] =
                   IF x = Offset(wr) THEN area[wr.line].byte[wr.next] ELSE h.byte[x]
<1>1. PICK f : IsForward(f, tx) /\ ReadLog(area, tx) = f[0]
  BY LogAssumption, ReadLogIs
<1>2. PICK s : s = f[0]
  OBVIOUS
<1>3. ReadsRow(f, 0)
  BY <1>1, ReadsAll
<1>4. /\ Readable(h) /\ LogTypes /\ Copied(h) /\ Offset(tx) \in Int /\ Offset(wr) \in Int
      /\ Offset(tail) =< Offset(tx) /\ Offset(tail) \in Int /\ wr.next < LineSize
  BY UndoFacts DEF Readable
<1>5. s \in Seq(Int)
  <2>1. 0 \in 0 .. NumLines
    <3>1. NumLines \in Nat
      BY LogAssumption, Sizes
    <3> QED BY <3>1
  <2> QED BY <1>1, <1>2, <1>4, <2>1, LogAssumption, ForwardBytes
<1>6. PICK p, a, w, nx, o : p = PerLine /\ a = AbsLine(tx) /\ w = AbsLine(wr) /\ nx = wr.next /\ o = Offset(wr)
  OBVIOUS
<1>7. /\ p \in Nat \ {0} /\ LineSize = p + 2 /\ nx \in 2 .. p + 1 /\ w \in Nat /\ a \in Int
      /\ o = w * p + nx - 2 /\ w % NumLines = wr.line
  <2>1. p \in Nat \ {0} /\ LineSize = p + 2 /\ NumLines \in Nat
    BY <1>6, LogAssumption, Sizes
  <2>2. wr.next \in 2 .. LineSize
    BY <1>4 DEF LogTypes
  <2>3. nx \in 2 .. p + 1
    BY <1>4, <1>6, <2>1, <2>2
  <2>4. w \in Nat /\ o = w * p + nx - 2 /\ w % NumLines = wr.line
    BY <1>4, <1>6, LogAssumption, Around DEF Copied
  <2>5. /\ tail.ver \in {0, 1} /\ tail.line \in Lines
        /\ tx.ver \in {0, 1} /\ tx.line \in Lines /\ tx.next \in 2 .. LineSize - 1
    BY <1>4 DEF LogTypes
  <2>6. tx.next \in Int
    BY <2>1, <2>5
  <2>7. a \in 0 .. 2 * NumLines - 1
    BY <1>6, <2>5, <2>6, LogAssumption, Positions
  <2>8. a \in Int
    BY ONLY <2>1, <2>7
  <2> QED BY <2>1, <2>3, <2>4, <2>8
<1>8. PICK e : e = BaseOf(w - a + 1)
  OBVIOUS
<1>9. e \in Int /\ o =< e - 1
  <2>1. CASE w - a + 1 = 0
    BY <1>6, <1>7, <2>1, StartsBefore
  <2>2. CASE w - a + 1 # 0
    <3>1. e = (a + (w - a + 1)) * p /\ a + (w - a + 1) = w + 1
      BY <1>6, <1>7, <1>8, <2>2 DEF BaseOf
    <3>2. (w + 1) * p = w * p + 1 * p /\ w * p \in Int
      BY <1>7, Distributes
    <3> QED BY <1>7, <3>1, <3>2
  <2> QED BY <2>1, <2>2
<1>10. ASSUME NEW x \in Offset(tx) .. o
       PROVE  /\ x - Offset(tx) + 1 \in 1 .. Len(s)
              /\ s[x - Offset(tx) + 1] = IF x = o THEN area[wr.line].byte[wr.next] ELSE h.byte[x]
  <2>1. x \in BaseOf(0) .. BaseOf(AbsLine(wr) - AbsLine(tx) + 1) - 1
    <3>1. BaseOf(0) = Offset(tx)
      BY DEF BaseOf
    <3>2. x \in Offset(tx) .. e - 1
      BY <1>4, <1>6, <1>9
    <3> QED BY <1>6, <1>8, <3>1, <3>2
  <2>2. x - Offset(tx) + 1 \in 1 .. Len(s) /\ s[x - Offset(tx) + 1] = LineByte(x)
    BY <1>2, <1>3, <2>1 DEF ReadsRow, BaseOf
  <2>3. CASE x = o
    <3>1. x = Place(w, nx) /\ nx \in 2 .. LineSize - 1
      BY <1>6, <1>7, <2>3 DEF Place
    <3>2. LineByte(x) = area[w % NumLines].byte[nx]
      BY <1>7, <3>1, LogAssumption, LineByteIs
    <3> QED BY <1>6, <1>7, <2>2, <2>3, <3>2
  <2>4. CASE x # o
    <3>1. x \in Int /\ Offset(tail) =< x /\ x < Offset(wr)
      BY <1>4, <1>6, <2>4
    <3>2. PICK m \in 0 .. 2 * NumLines - 1, b \in 2 .. LineSize - 1 :
             x = Place(m, b) /\ area[m % NumLines].byte[b] = h.byte[x]
      BY <1>4, <3>1, LogAssumption, ByteAt
    <3>3. LineByte(x) = area[m % NumLines].byte[b]
      BY <3>2, LogAssumption, LineByteIs
    <3> QED BY <2>2, <2>4, <3>2, <3>3
  <2> QED BY <2>3, <2>4
<1> QED BY <1>1, <1>2, <1>5, <1>6, <1>10
-----------------------------------------------------------------------------
\* The tag of a record gives its length.
LEMMA RecLenOf ==
  ASSUME NEW s, NEW i, NEW rec \in LogRecords, s[i] = rec[1]
  PROVE  RecLen(s, i) = Len(rec)
<1>1. rec[1] = Tags.NEW => RecLen(s, i) = 4
  BY TagsAre DEF RecLen
<1>2. rec[1] = Tags.WRITE => RecLen(s, i) = 5
  BY TagsAre DEF RecLen
<1>3. rec[1] = Tags.ALLOCNODE => RecLen(s, i) = 3
  BY TagsAre DEF RecLen
<1> QED BY <1>1, <1>2, <1>3, RecordIs

\* No record begins with the byte that flushLog puts behind the last one.
LEMMA NoRecord ==
  ASSUME NEW s, NEW i, s[i] = NL_INVALID
  PROVE  RecLen(s, i) = 0
  BY TagsAre DEF RecLen, NL_INVALID

\* n records, the i-th at byte q[i], and then no record.
LaidOut(s, q, rec, n) ==
    /\ q[1] = 1 /\ s[q[n + 1]] = NL_INVALID
    /\ \A i \in 1 .. n + 1 : q[i] \in 1 .. Len(s)
    /\ \A i \in 1 .. n : /\ rec[i] \in LogRecords /\ q[i + 1] = q[i] + Len(rec[i])
                         /\ s[q[i]] = rec[i][1]

\* Reading on from the i-th record.
ParsesFrom(f, q, rec, n, i) ==
    /\ f[q[i]] \in Seq(Seq(Int)) /\ Len(f[q[i]]) = n + 1 - i
    /\ \A j \in 1 .. n + 1 - i : Len(f[q[i]][j]) = Len(rec[i + j - 1])

LEMMA ParsesOn ==
  ASSUME NEW s \in Seq(Int), NEW n \in Nat, NEW rec, NEW q, LaidOut(s, q, rec, n),
         NEW f, IsParsed(f, s), NEW i \in 1 .. n, ParsesFrom(f, q, rec, n, i + 1)
  PROVE  ParsesFrom(f, q, rec, n, i)
<1>1. PICK x, y, r, len, l : x = q[i] /\ y = q[i + 1] /\ r = rec[i] /\ len = Len(r) /\ l = Len(s)
  OBVIOUS
<1>2. i + 1 \in 1 .. n + 1 /\ i \in 1 .. n + 1 /\ l \in Nat
  BY <1>1
<1>3. x \in 1 .. l /\ y \in 1 .. l /\ r \in LogRecords /\ y = x + len /\ s[x] = r[1]
  BY <1>1, <1>2 DEF LaidOut
<1>4. len \in Nat /\ len >= 3 /\ RecLen(s, x) = len
  <2>1. Len(r) \in Nat /\ Len(r) >= 3
    BY <1>3, RecordIs
  <2>2. RecLen(s, x) = Len(r)
    BY <1>3, RecLenOf
  <2> QED BY <1>1, <2>1, <2>2
<1>5. x \in Int /\ y \in Int /\ ~(x > l) /\ ~(len < 1 \/ x + len - 1 > l)
      /\ x \in 1 .. l + 1 /\ x + len - 1 \in x .. l
  BY <1>2, <1>3, <1>4
<1>6. f[x] = <<SubSeq(s, x, x + len - 1)>> \o f[y]
  <2>1. f[x] = IF x > l THEN <<>>
               ELSE IF RecLen(s, x) < 1 \/ x + RecLen(s, x) - 1 > l THEN <<>>
                    ELSE <<SubSeq(s, x, x + RecLen(s, x) - 1)>> \o f[x + RecLen(s, x)]
    BY <1>1, <1>5 DEF IsParsed
  <2> QED BY <1>3, <1>4, <1>5, <2>1
<1>7. PICK p : p = SubSeq(s, x, x + len - 1)
  OBVIOUS
<1>8. p \in Seq(Int) /\ Len(p) = len
  <2>1. PICK z : z = x + len - 1
    OBVIOUS
  <2>2. x \in 1 .. Len(s) /\ z \in x .. Len(s)
    BY <1>1, <1>3, <1>5, <2>1
  <2>3. SubSeq(s, x, z) \in Seq(Int) /\ Len(SubSeq(s, x, z)) = z - x + 1
    BY <2>2, PartIs
  <2>4. z - x + 1 = len
    BY <1>4, <1>5, <2>1
  <2> QED BY <1>7, <2>1, <2>3, <2>4
<1>9. PICK v : v = f[y]
  OBVIOUS
<1>10. /\ v \in Seq(Seq(Int)) /\ Len(v) = n + 1 - (i + 1)
       /\ \A j \in 1 .. n + 1 - (i + 1) : Len(v[j]) = Len(rec[(i + 1) + j - 1])
  BY <1>1, <1>9 DEF ParsesFrom
<1>11. <<p>> \in Seq(Seq(Int)) /\ Len(<<p>>) = 1 /\ <<p>>[1] = p
  BY <1>8
<1>12. PICK u, w : u = <<p>> /\ w = u \o v
  OBVIOUS
<1>13. /\ w \in Seq(Seq(Int)) /\ Len(w) = 1 + Len(v)
       /\ w[1] = p /\ \A j \in 1 .. Len(v) : w[1 + j] = v[j]
  <2>1. /\ w \in Seq(Seq(Int)) /\ Len(w) = Len(u) + Len(v)
        /\ \A j \in 1 .. Len(u) : w[j] = u[j]
        /\ \A j \in 1 .. Len(v) : w[Len(u) + j] = v[j]
    BY <1>10, <1>11, <1>12, Joined
  <2>2. Len(u) = 1 /\ u[1] = p /\ 1 \in 1 .. 1
    BY <1>11, <1>12
  <2> QED BY <2>1, <2>2
<1>14. Len(w) = n + 1 - i /\ Len(v) = n - i
  BY <1>10, <1>13
<1>15. ASSUME NEW j \in 1 .. n + 1 - i PROVE Len(w[j]) = Len(rec[i + j - 1])
  <2>1. CASE j = 1
    BY <1>1, <1>8, <1>13, <2>1
  <2>2. CASE j # 1
    <3>1. /\ j - 1 \in 1 .. n - i /\ j - 1 \in 1 .. n + 1 - (i + 1) /\ 1 + (j - 1) = j
          /\ (i + 1) + (j - 1) - 1 = i + j - 1
      BY <2>2
    <3> QED BY <1>10, <1>13, <1>14, <3>1
  <2> QED BY <2>1, <2>2
<1>16. f[q[i]] = w
  BY <1>1, <1>6, <1>7, <1>9, <1>12
<1> QED BY <1>13, <1>14, <1>15, <1>16 DEF ParsesFrom

\* Records finds these records.
LEMMA RecordsAre ==
  ASSUME NEW s \in Seq(Int), NEW n \in Nat, NEW rec, NEW q, LaidOut(s, q, rec, n)
  PROVE  Len(Records(s)) = n /\ \A j \in 1 .. n : Len(Records(s)[j]) = Len(rec[j])
<1>1. PICK f : IsParsed(f, s) /\ Records(s) = f[1]
  BY RecordsIs
<1>2. ParsesFrom(f, q, rec, n, n + 1)
  <2>1. PICK x, l : x = q[n + 1] /\ l = Len(s)
    OBVIOUS
  <2>2. n + 1 \in 1 .. n + 1 /\ l \in Nat
    BY <2>1
  <2>3. x \in 1 .. l /\ s[x] = NL_INVALID
    BY <2>1, <2>2 DEF LaidOut
  <2>4. RecLen(s, x) = 0 /\ x \in 1 .. l + 1
    BY <2>2, <2>3, NoRecord
  <2>5. f[x] = <<>>
    <3>1. f[x] = IF x > l THEN <<>>
                 ELSE IF RecLen(s, x) < 1 \/ x + RecLen(s, x) - 1 > l THEN <<>>
                      ELSE <<SubSeq(s, x, x + RecLen(s, x) - 1)>> \o f[x + RecLen(s, x)]
      BY <1>1, <2>1, <2>4 DEF IsParsed
    <3> QED BY <2>4, <3>1
  <2>6. <<>> \in Seq(Seq(Int)) /\ Len(<<>>) = 0 /\ n + 1 - (n + 1) = 0 /\ \A j \in 1 .. 0 : FALSE
    OBVIOUS
  <2> QED BY <2>1, <2>5, <2>6 DEF ParsesFrom
<1> DEFINE Bad == {m \in Nat : m =< n /\ ~ParsesFrom(f, q, rec, n, n + 1 - m)}
<1>3. ParsesFrom(f, q, rec, n, 1)
  <2> SUFFICES ASSUME ~ParsesFrom(f, q, rec, n, 1) PROVE FALSE
    OBVIOUS
  <2>1. n \in Bad
    <3>1. n + 1 - n = 1
      OBVIOUS
    <3> QED BY <3>1
  <2>2. PICK m \in Bad : \A y \in Bad : m =< y
    <3>1. Bad \in SUBSET Nat
      OBVIOUS
    <3> HIDE DEF Bad
    <3> QED BY <2>1, <3>1, Least
  <2>3. m \in Nat /\ m =< n /\ ~ParsesFrom(f, q, rec, n, n + 1 - m)
    OBVIOUS
  <2>4. m # 0
    <3>1. n + 1 - 0 = n + 1
      OBVIOUS
    <3> QED BY <1>2, <2>3, <3>1
  <2>5. PICK i : i = n + 1 - m
    OBVIOUS
  <2>6. i \in 1 .. n /\ m - 1 \in Nat /\ m - 1 =< n /\ ~(m =< m - 1) /\ n + 1 - (m - 1) = i + 1
    BY <2>3, <2>4, <2>5
  <2>7. ParsesFrom(f, q, rec, n, i + 1)
    BY <2>2, <2>6
  <2>8. ParsesFrom(f, q, rec, n, i)
    BY <1>1, <2>6, <2>7, ParsesOn
  <2> QED BY <2>3, <2>5, <2>8
<1>4. PICK v : v = f[1]
  OBVIOUS
<1>5. Len(v) = n + 1 - 1 /\ \A j \in 1 .. n + 1 - 1 : Len(v[j]) = Len(rec[1 + j - 1])
  BY <1>3, <1>4 DEF ParsesFrom, LaidOut
<1>6. n + 1 - 1 = n /\ \A j \in 1 .. n : 1 + j - 1 = j
  OBVIOUS
<1> QED BY <1>1, <1>4, <1>5, <1>6
-----------------------------------------------------------------------------
\* All n records that the transaction logged are in the row still while abort runs, those
\* it has undone behind the others, and flushLog's byte is behind them.
Kept(h, n) ==
    /\ n \in Nat /\ h.n =< n /\ h.st[n + 1] = Offset(wr)
    /\ \A i \in 1 .. n + 1 : h.st[i] \in Int /\ Offset(tx) =< h.st[i] /\ h.st[i] =< Offset(wr)
    /\ \A i \in 1 .. n :
          /\ h.rec[i] \in LogRecords
          /\ h.st[i + 1] = h.st[i] + Len(h.rec[i])
          /\ \A j \in 1 .. Len(h.rec[i]) : h.byte[h.st[i] + j - 1] = h.rec[i][j]
    /\ area[wr.line].byte[wr.next] = NL_INVALID

\* Reading forward finds them.
LEMMA ForwardFinds ==
  ASSUME NEW h, IInv(h), pc = "undo", NEW n, Kept(h, n)
  PROVE  /\ Len(Records(ReadLog(area, tx))) = n
         /\ \A j \in 1 .. n : Len(Records(ReadLog(area, tx))[j]) = Len(h.rec[j])
<1>1. PICK s, o, w : s = ReadLog(area, tx) /\ o = Offset(tx) /\ w = Offset(wr)
  OBVIOUS
<1>2. /\ s \in Seq(Int)
      /\ \A x \in o .. w : x - o + 1 \in 1 .. Len(s)
                           /\ s[x - o + 1] = IF x = w THEN area[wr.line].byte[wr.next] ELSE h.byte[x]
  BY <1>1, ForwardIs
<1>3. n \in Nat /\ o \in Int /\ w \in Int /\ h.st[1] = o
  BY <1>1, UndoFacts DEF Kept
<1> DEFINE q == [i \in 1 .. n + 1 |-> h.st[i] - o + 1]
<1>4. \A i \in 1 .. n + 1 : q[i] = h.st[i] - o + 1
  OBVIOUS
<1> HIDE DEF q
<1>5. 1 \in 1 .. n + 1 /\ n + 1 \in 1 .. n + 1
  BY <1>3
<1>6. q[1] = 1 /\ s[q[n + 1]] = NL_INVALID
  <2>1. q[1] = 1
    BY <1>3, <1>4, <1>5
  <2>2. h.st[n + 1] = w /\ q[n + 1] = w - o + 1 /\ w \in o .. w
    BY <1>1, <1>3, <1>4, <1>5 DEF Kept
  <2>3. area[wr.line].byte[wr.next] = NL_INVALID
    BY DEF Kept
  <2> QED BY <1>2, <2>1, <2>2, <2>3
<1>7. ASSUME NEW i \in 1 .. n + 1 PROVE q[i] \in 1 .. Len(s)
  <2>1. h.st[i] \in o .. w
    BY <1>1, <1>3 DEF Kept
  <2> QED BY <1>2, <1>4, <2>1
<1>8. ASSUME NEW i \in 1 .. n
      PROVE  h.rec[i] \in LogRecords /\ q[i + 1] = q[i] + Len(h.rec[i]) /\ s[q[i]] = h.rec[i][1]
  <2>1. PICK r, x, y, l : r = h.rec[i] /\ x = h.st[i] /\ y = h.st[i + 1] /\ l = Len(r)
    OBVIOUS
  <2>2. i \in 1 .. n + 1 /\ i + 1 \in 1 .. n + 1
    BY <1>3
  <2>3. /\ r \in LogRecords /\ y = x + l /\ x \in Int /\ y \in Int /\ o =< x /\ y =< w
        /\ \A j \in 1 .. l : h.byte[x + j - 1] = r[j]
    BY <1>1, <2>1, <2>2 DEF Kept
  <2>4. l \in Nat /\ l >= 3
    BY <2>1, <2>3, RecordIs
  <2>5. q[i] = x - o + 1 /\ q[i + 1] = y - o + 1
    BY <1>4, <2>1, <2>2
  <2>6. q[i + 1] = q[i] + l /\ x \in o .. w /\ x # w /\ 1 \in 1 .. l /\ x + 1 - 1 = x
    BY <1>3, <2>3, <2>4, <2>5
  <2>7. s[q[i]] = h.byte[x]
    BY <1>2, <2>5, <2>6
  <2>8. h.byte[x] = r[1]
    BY <2>3, <2>6
  <2> QED BY <2>1, <2>3, <2>6, <2>7, <2>8
<1>9. LaidOut(s, q, h.rec, n)
  BY <1>6, <1>7, <1>8 DEF LaidOut
<1>10. PICK rec : rec = h.rec
  OBVIOUS
<1>11. Len(Records(s)) = n /\ \A j \in 1 .. n : Len(Records(s)[j]) = Len(rec[j])
  BY <1>2, <1>3, <1>9, <1>10, RecordsAre
<1> QED BY <1>1, <1>10, <1>11

-----------------------------------------------------------------------------
\* Reading backward from the end of the log, records of the lengths len.
IsBackward(f, n, len) ==
    f = [i \in 0 .. n |-> IF i = 0 THEN ReverseFrom(area, wr)
                          ELSE ReadLogReverse(f[i - 1], len[n - i + 1]).pos]

\* There is such a reading.
LEMMA BackwardExists ==
  ASSUME NEW n \in Nat, NEW len
  PROVE  \E f : IsBackward(f, n, len)
<1> DEFINE Upto(f, c) ==
             f = [i \in 0 .. c |-> IF i = 0 THEN ReverseFrom(area, wr)
                                   ELSE ReadLogReverse(f[i - 1], len[n - i + 1]).pos]
           Bad == {c \in Nat : ~\E f : Upto(f, c)}
<1>1. \E f : Upto(f, 0)
  <2> DEFINE f == [i \in 0 .. 0 |-> ReverseFrom(area, wr)]
  <2>1. \A i \in 0 .. 0 : i = 0
    OBVIOUS
  <2>2. Upto(f, 0)
    BY <2>1
  <2> QED BY <2>2
<1>2. ASSUME NEW c \in Nat, NEW f, Upto(f, c) PROVE \E g : Upto(g, c + 1)
  <2>1. PICK x : x = ReadLogReverse(f[c], len[n - (c + 1) + 1]).pos
    OBVIOUS
  <2> DEFINE g == [i \in 0 .. c + 1 |-> IF i = c + 1 THEN x ELSE f[i]]
  <2>2. \A i \in 0 .. c + 1 : i = c + 1 \/ (i \in 0 .. c /\ i # c + 1)
    OBVIOUS
  <2>3. g[c + 1] = x /\ \A i \in 0 .. c : g[i] = f[i]
    <3>1. c + 1 \in 0 .. c + 1 /\ \A i \in 0 .. c : i \in 0 .. c + 1 /\ i # c + 1
      OBVIOUS
    <3> QED BY <3>1
  <2>4. g = [i \in 0 .. c + 1 |-> g[i]]
    OBVIOUS
  <2> HIDE DEF g
  <2>5. \A i \in 0 .. c : f[i] = IF i = 0 THEN ReverseFrom(area, wr)
                                 ELSE ReadLogReverse(f[i - 1], len[n - i + 1]).pos
    <3> DEFINE h == [i \in 0 .. c |-> IF i = 0 THEN ReverseFrom(area, wr)
                                      ELSE ReadLogReverse(f[i - 1], len[n - i + 1]).pos]
    <3>1. f = h
      BY <1>2
    <3>2. \A i \in 0 .. c : h[i] = IF i = 0 THEN ReverseFrom(area, wr)
                                   ELSE ReadLogReverse(f[i - 1], len[n - i + 1]).pos
      OBVIOUS
    <3> HIDE DEF h
    <3> QED BY ONLY <3>1, <3>2, Zenon
  <2> HIDE DEF Upto
  <2>6. ASSUME NEW i \in 0 .. c + 1
        PROVE  g[i] = IF i = 0 THEN ReverseFrom(area, wr)
                      ELSE ReadLogReverse(g[i - 1], len[n - i + 1]).pos
    <3>1. CASE i = c + 1
      <4>1. i # 0 /\ i - 1 = c /\ c \in 0 .. c
        BY <3>1
      <4>2. g[i - 1] = f[c] /\ g[i] = x
        BY <2>3, <3>1, <4>1
      <4> QED BY <2>1, <3>1, <4>1, <4>2
    <3>2. CASE i \in 0 .. c
      <4>1. i # 0 => i - 1 \in 0 .. c
        BY <3>2
      <4> QED BY <2>3, <2>5, <3>2, <4>1
    <3> QED BY <2>2, <3>1, <3>2
  <2>7. g = [i \in 0 .. c + 1 |-> IF i = 0 THEN ReverseFrom(area, wr)
                                  ELSE ReadLogReverse(g[i - 1], len[n - i + 1]).pos]
    BY <2>4, <2>6
  <2>8. Upto(g, c + 1)
    BY <2>7 DEF Upto
  <2> QED BY <2>8
<1> HIDE DEF Upto
<1>3. \E f : Upto(f, n)
  <2> SUFFICES ASSUME n \in Bad PROVE FALSE
    OBVIOUS
  <2>1. PICK c \in Bad : \A y \in Bad : c =< y
    <3>1. Bad \in SUBSET Nat
      OBVIOUS
    <3> HIDE DEF Bad
    <3> QED BY <3>1, Least
  <2>2. c \in Nat /\ ~\E f : Upto(f, c)
    OBVIOUS
  <2>3. c # 0
    BY <1>1, <2>2
  <2>4. c - 1 \in Nat /\ ~(c =< c - 1) /\ (c - 1) + 1 = c
    BY <2>2, <2>3
  <2>5. c - 1 \notin Bad
    BY <2>1, <2>4
  <2>6. PICK d : d = c - 1
    OBVIOUS
  <2>7. \E f : Upto(f, d)
    BY <2>4, <2>5, <2>6
  <2>8. \E g : Upto(g, d + 1)
    BY <1>2, <2>4, <2>6, <2>7
  <2> QED BY <2>2, <2>4, <2>6, <2>8
<1> QED BY <1>3 DEF Upto, IsBackward

\* Position i of such a reading is where record n - i + 1 begins.
Stands(f, h, n, i) ==
    \E m \in -1 .. 2 * NumLines - 1, b \in 3 .. LineSize :
       Place(m, b) = h.st[n - i + 1] /\ f[i] = Pos(m, b)

LEMMA BackwardStands ==
  ASSUME NEW h, IInv(h), pc = "undo", NEW n, Kept(h, n), NEW len,
         \A j \in 1 .. n : len[j] = Len(h.rec[j]), NEW f, IsBackward(f, n, len), NEW k \in 0 .. n
  PROVE  Stands(f, h, n, k)
<1>1. /\ Readable(h) /\ LogTypes /\ Copied(h) /\ Offset(tail) \in Int /\ Offset(tx) \in Int
      /\ Offset(wr) \in Int /\ Offset(tail) =< Offset(tx) /\ n \in Nat
      /\ area[wr.line].ver = wr.ver /\ wr.next > 2
  BY UndoFacts DEF Readable, Kept, IInv, Undoing
<1>2. \A i \in 0 .. n : f[i] = IF i = 0 THEN ReverseFrom(area, wr)
                               ELSE ReadLogReverse(f[i - 1], len[n - i + 1]).pos
  BY DEF IsBackward
<1>3. Stands(f, h, n, 0)
  <2>1. PICK w : w = AbsLine(wr)
    OBVIOUS
  <2>2. w \in Nat /\ w % NumLines = wr.line /\ Version(w) = wr.ver /\ Offset(wr) = w * PerLine + wr.next - 2
    BY <1>1, <2>1, LogAssumption, Around DEF Copied
  <2>3. w \in -1 .. 2 * NumLines - 1 /\ wr.next \in 3 .. LineSize
    <3>1. wr.next \in 2 .. LineSize /\ wr.ver \in {0, 1} /\ wr.line \in Lines /\ tail.line \in Lines
          /\ tail.ver \in {0, 1}
      BY <1>1 DEF LogTypes
    <3>2. NumLines \in Nat /\ LineSize \in Nat
      BY LogAssumption, Sizes
    <3>3. wr.next \in Int
      BY <3>1, <3>2
    <3>4. w \in 0 .. 2 * NumLines - 1
      BY <2>1, <3>1, <3>3, LogAssumption, Positions
    <3> QED BY <1>1, <3>1, <3>2, <3>4
  <2>4. Place(w, wr.next) = h.st[n - 0 + 1]
    <3>1. n - 0 + 1 = n + 1 /\ h.st[n + 1] = Offset(wr)
      BY <1>1 DEF Kept
    <3> QED BY <2>2, <3>1 DEF Place
  <2>5. f[0] = Pos(w, wr.next)
    <3>1. 0 \in 0 .. n
      BY <1>1
    <3>2. f[0] = ReverseFrom(area, wr)
      BY <1>2, <3>1
    <3> QED BY <1>1, <2>2, <3>2 DEF ReverseFrom, Pos
  <2> QED BY <2>3, <2>4, <2>5 DEF Stands
<1>4. ASSUME NEW i \in 0 .. n, i # n, Stands(f, h, n, i) PROVE Stands(f, h, n, i + 1)
  <2>1. PICK j, o, st, l : j = n - i /\ o = h.st[j + 1] /\ st = h.st[j] /\ l = Len(h.rec[j])
    OBVIOUS
  <2>2. j \in 1 .. n /\ j \in 1 .. n + 1 /\ j + 1 \in 1 .. n + 1 /\ n - i + 1 = j + 1
        /\ n - (i + 1) + 1 = j /\ i + 1 \in 0 .. n /\ i + 1 # 0 /\ (i + 1) - 1 = i
    BY <1>1, <1>4, <2>1
  <2>3. /\ h.rec[j] \in LogRecords /\ o = st + l /\ o \in Int /\ st \in Int
        /\ Offset(tx) =< st /\ o =< Offset(wr)
    BY <2>1, <2>2 DEF Kept
  <2>4. l \in Nat \ {0}
    <3>1. PICK r : r = h.rec[j]
      OBVIOUS
    <3>2. Len(r) \in Nat /\ Len(r) >= 3
      BY <2>3, <3>1, RecordIs
    <3> QED BY <2>1, <3>1, <3>2
  <2>5. PICK m \in -1 .. 2 * NumLines - 1, b \in 3 .. LineSize : Place(m, b) = o /\ f[i] = Pos(m, b)
    BY <1>4, <2>1, <2>2 DEF Stands
  <2>6. Offset(tail) =< Place(m, b) - l /\ Place(m, b) =< Offset(wr)
    BY <1>1, <2>3, <2>4, <2>5
  <2>7. PICK mm \in -1 .. 2 * NumLines - 1, bb \in 3 .. LineSize :
           Place(mm, bb) = Place(m, b) - l /\ ReadLogReverse(Pos(m, b), l).pos = Pos(mm, bb)
    BY <1>1, <2>4, <2>6, LogAssumption, ReadIs
  <2>8. Place(mm, bb) = h.st[n - (i + 1) + 1]
    <3>1. o - l = st
      BY ONLY <2>3, <2>4
    <3>2. Place(mm, bb) = o - l
      BY ONLY <2>5, <2>7
    <3>3. h.st[n - (i + 1) + 1] = h.st[j]
      BY ONLY <2>2
    <3> QED BY ONLY <2>1, <3>1, <3>2, <3>3
  <2>9. f[i + 1] = Pos(mm, bb)
    <3>1. f[i + 1] = ReadLogReverse(f[i], len[j]).pos /\ len[j] = l
      BY ONLY <1>2, <2>1, <2>2, \A q \in 1 .. n : len[q] = Len(h.rec[q])
    <3> QED BY ONLY <2>5, <2>7, <3>1, Zenon
  <2> QED BY <2>8, <2>9 DEF Stands
<1> DEFINE Bad == {i \in Nat : i =< n /\ ~Stands(f, h, n, i)}
<1> SUFFICES ASSUME ~Stands(f, h, n, k) PROVE FALSE
  OBVIOUS
<1>5. k \in Bad
  BY <1>1
<1>6. PICK c \in Bad : \A y \in Bad : c =< y
  <2>1. Bad \in SUBSET Nat
    OBVIOUS
  <2> HIDE DEF Bad
  <2> QED BY <1>5, <2>1, Least
<1>7. c \in Nat /\ c =< n /\ ~Stands(f, h, n, c)
  OBVIOUS
<1>8. c # 0
  BY <1>3, <1>7
<1>9. PICK i : i = c - 1
  OBVIOUS
<1>10. i \in Nat /\ i =< n /\ ~(c =< i) /\ i + 1 = c /\ i \in 0 .. n /\ i # n
  BY <1>1, <1>7, <1>8, <1>9
<1>11. Stands(f, h, n, i)
  BY <1>6, <1>10
<1> QED BY <1>4, <1>7, <1>10, <1>11
\* The positions abort reads at, as AbortReadsWhatWasLogged has them.
IsAt(f, recs) ==
    f = [i \in 0 .. Len(recs) |->
           IF i = 0 THEN ReverseFrom(area, wr)
                    ELSE ReadLogReverse(f[i - 1], Len(recs[Len(recs) - i + 1])).pos]

LEMMA AtIs ==
  ASSUME NEW n \in Nat, NEW recs, Len(recs) = n, NEW len, \A j \in 1 .. n : len[j] = Len(recs[j]), NEW f
  PROVE  IsAt(f, recs) <=> IsBackward(f, n, len)
<1>1. ASSUME NEW i \in 0 .. n
      PROVE  (IF i = 0 THEN ReverseFrom(area, wr) ELSE ReadLogReverse(f[i - 1], len[n - i + 1]).pos)
             = (IF i = 0 THEN ReverseFrom(area, wr)
                ELSE ReadLogReverse(f[i - 1], Len(recs[n - i + 1])).pos)
  <2>1. i # 0 => n - i + 1 \in 1 .. n
    OBVIOUS
  <2> QED BY <2>1
<1>2. [i \in 0 .. n |-> IF i = 0 THEN ReverseFrom(area, wr)
                        ELSE ReadLogReverse(f[i - 1], len[n - i + 1]).pos]
      = [i \in 0 .. n |-> IF i = 0 THEN ReverseFrom(area, wr)
                          ELSE ReadLogReverse(f[i - 1], Len(recs[n - i + 1])).pos]
  BY <1>1, Zenon
<1> QED BY <1>2 DEF IsAt, IsBackward

\* With all records kept, reading backward as far as reading forward found records ends
\* at the transaction's start, and abort stands at one of the positions on the way.
LEMMA ReadsWhatWasLogged ==
  ASSUME NEW h, IInv(h), pc = "undo", NEW n, Kept(h, n)
  PROVE  AbortReadsWhatWasLogged
<1> DEFINE recs == Records(ReadLog(area, tx))
           at   == CHOOSE f : IsAt(f, recs)
           len  == [j \in 1 .. n |-> Len(recs[j])]
<1>1. n \in Nat /\ Len(recs) = n /\ \A j \in 1 .. n : Len(recs[j]) = Len(h.rec[j])
  BY ForwardFinds DEF Kept
<1>2. (\A j \in 1 .. n : len[j] = Len(recs[j])) /\ \A j \in 1 .. n : len[j] = Len(h.rec[j])
  BY <1>1
<1> HIDE DEF len
<1>3. \E f : IsAt(f, recs)
  <2>1. PICK f : IsBackward(f, n, len)
    BY <1>1, BackwardExists
  <2> HIDE DEF recs
  <2>2. IsAt(f, recs)
    BY <1>1, <1>2, <2>1, AtIs
  <2> QED BY <2>2
<1>4. PICK f : f = at
  OBVIOUS
<1>5. IsAt(f, recs)
  BY <1>3, <1>4
<1> HIDE DEF recs, at
<1>6. IsBackward(f, n, len)
  BY <1>1, <1>2, <1>5, AtIs
<1>7. \A k \in 0 .. n : Stands(f, h, n, k)
  BY <1>2, <1>6, BackwardStands
<1>8. NextPtr(f[n]) = PEnd
  <2>1. n \in 0 .. n /\ n - n + 1 = 1
    BY <1>1
  <2>2. PICK m \in -1 .. 2 * NumLines - 1, b \in 3 .. LineSize : Place(m, b) = h.st[1] /\ f[n] = Pos(m, b)
    BY <1>7, <2>1 DEF Stands
  <2>3. LogTypes /\ h.st[1] = Offset(tx)
    BY UndoFacts DEF Readable
  <2>4. PICK mt \in -1 .. 2 * NumLines - 1, bt \in 3 .. LineSize :
           Offset(tx) = Place(mt, bt) /\ PEnd = [line |-> mt % NumLines, next |-> bt]
    BY <2>3, LogAssumption, PEndIs
  <2>5. m \in Int /\ mt \in Int
    OBVIOUS
  <2>6. Place(m, b) = Place(mt, bt)
    BY <2>2, <2>3, <2>4
  <2>7. m = mt /\ b = bt
    BY <2>5, <2>6, LogAssumption, SamePlace
  <2>8. NextPtr(Pos(m, b)) = [line |-> m % NumLines, next |-> b]
    BY DEF NextPtr, Pos
  <2> QED BY <2>2, <2>4, <2>7, <2>8
<1>9. \E i \in 0 .. n : back = f[i]
  <2>1. h.n \in Nat /\ h.n =< n
    BY UndoFacts DEF Kept
  <2>2. PICK i : i = n - h.n
    OBVIOUS
  <2>3. i \in 0 .. n /\ n - i + 1 = h.n + 1
    BY <1>1, <2>1, <2>2
  <2>4. PICK m \in -1 .. 2 * NumLines - 1, b \in 3 .. LineSize :
           Place(m, b) = h.st[h.n + 1] /\ f[i] = Pos(m, b)
    BY <1>7, <2>3 DEF Stands
  <2>5. PICK mb \in -1 .. 2 * NumLines - 1, bb \in 3 .. LineSize :
           h.st[h.n + 1] = Place(mb, bb) /\ back = Pos(mb, bb)
    BY UndoFacts DEF BackAt, Pos
  <2>6. m \in Int /\ mb \in Int
    OBVIOUS
  <2>7. Place(m, b) = Place(mb, bb)
    BY <2>4, <2>5
  <2>8. m = mb /\ b = bb
    BY <2>6, <2>7, LogAssumption, SamePlace
  <2> QED BY <2>3, <2>4, <2>5, <2>8
<1>10. NextPtr(at[Len(recs)]) = PEnd /\ \E i \in 0 .. Len(recs) : back = at[i]
  BY <1>1, <1>4, <1>8, <1>9
<1> QED BY <1>10 DEF AbortReadsWhatWasLogged, IsAt, recs, at
-----------------------------------------------------------------------------
\* Stores that leave the lines, the writer and the transaction's start keep all that.
LEMMA KeptStays ==
  ASSUME NEW h, NEW g, NEW n, Kept(h, n), g.byte = h.byte, g.st = h.st, g.rec = h.rec, g.n =< n,
         UNCHANGED <<area, wr, tail, tx>>
  PROVE  Kept(g, n)'
<1>1. Offset(tx)' = Offset(tx) /\ Offset(wr)' = Offset(wr)
  BY DEF Offset, AbsLine, PerLine
<1> QED BY <1>1 DEF Kept

\* When abort begins, the records logged are kept, and flushLog writes its byte behind them.
LEMMA AbortKept ==
  ASSUME NEW h, IInv(h), AbortAnywhere = FALSE, AbortMiniTransaction
  PROVE  Kept(h, h.n)'
<1>1. LogTypes /\ Copied(h) /\ ToCopy(h) /\ Phases(h) /\ Logged(h)
  BY DEF IInv, AbortMiniTransaction, InTx
<1>2. pc = "run" /\ wr.next > 2 /\ FlushLog /\ UNCHANGED <<tail, tx>>
  BY DEF AbortMiniTransaction
<1>3. todo = <<>> /\ wr.next < LineSize /\ wr' = wr
  BY <1>2 DEF FlushLog, Written
<1>4. End(h) = Offset(wr) /\ h.st[h.n + 1] = Offset(wr) /\ Offset(wr) \in Int
  BY <1>1, <1>2, <1>3, EndBehind DEF Phases
<1>5. area'[wr.line].byte[wr.next] = NL_INVALID
  <2> DEFINE zero == [i \in {wr.next} |-> NL_INVALID]
             filled == SetBytes(area[wr.line], zero)
  <2>1. /\ area \in [Lines -> LineType] /\ wr.line \in Lines /\ wr.ver \in {0, 1} /\ wr.off \in Int
        /\ wr.next \in Int /\ area[wr.line] \in LineType /\ wr.next \in 2 .. LineSize
    BY <1>1, LogAssumption, Sizes DEF LogTypes
  <2>2. wr.next \in 1 .. LineSize - 1 /\ wr.next \in 2 .. LineSize - 1
    <3>1. LineSize \in Nat
      BY LogAssumption, Sizes
    <3> QED BY <1>3, <2>1, <3>1
  <2>3. DOMAIN zero = {wr.next} /\ zero[wr.next] = NL_INVALID /\ \A i \in DOMAIN zero : zero[i] \in Int
    BY DEF NL_INVALID
  <2>4. area' = [area EXCEPT ![wr.line] = Sealed(filled)]
    BY <1>2 DEF FlushLog
  <2> HIDE DEF zero
  <2>5. filled \in LineType /\ filled.byte[wr.next] = NL_INVALID
    BY <2>1, <2>2, <2>3, LogAssumption, SetBytesIs
  <2> HIDE DEF filled
  <2>6. Sealed(filled).byte[wr.next] = filled.byte[wr.next]
    BY <2>1, <2>2, <2>5, LogAssumption, SealedIs
  <2> QED BY <2>1, <2>4, <2>5, <2>6
<1>6. Offset(tx)' = Offset(tx) /\ Offset(wr)' = Offset(wr)
  BY <1>2, <1>3 DEF Offset, AbsLine, PerLine
<1>7. h.n \in Nat /\ \A i \in 1 .. h.n + 1 :
        h.st[i] \in Int /\ Offset(tx) + i - 1 =< h.st[i] /\ h.st[i] =< Offset(wr)
  BY <1>1, <1>4 DEF Logged
<1>8. ASSUME NEW i \in 1 .. h.n + 1 PROVE h.st[i] \in Int /\ Offset(tx) =< h.st[i] /\ h.st[i] =< Offset(wr)
  <2>1. Offset(tx) \in Int
    <3>1. tail.ver \in {0, 1} /\ tail.line \in Lines
          /\ tx.ver \in {0, 1} /\ tx.line \in Lines /\ tx.next \in 2 .. LineSize - 1
      BY <1>1 DEF LogTypes
    <3>2. tx.next \in Int
      BY <3>1, LogAssumption, Sizes
    <3> QED BY <3>1, <3>2, LogAssumption, Positions
  <2>2. i \in Int /\ i >= 1
    BY <1>7
  <2> QED BY <1>7, <2>1, <2>2
<1>9. \A i \in 1 .. h.n :
          /\ h.rec[i] \in LogRecords
          /\ h.st[i + 1] = h.st[i] + Len(h.rec[i])
          /\ \A j \in 1 .. Len(h.rec[i]) : h.byte[h.st[i] + j - 1] = h.rec[i][j]
  BY <1>1 DEF Logged
<1>10. area'[wr'.line].byte[wr'.next] = NL_INVALID
  BY <1>3, <1>5
<1> QED BY <1>4, <1>6, <1>7, <1>8, <1>9, <1>10 DEF Kept

\* Undoing a record leaves it in the log.
LEMMA UndoKept ==
  ASSUME NEW h, NEW g, NEW n, IInv(h), pc = "undo", Kept(h, n), Undone(h, g), NEW tag, NEW len,
         Undo(tag, len)
  PROVE  Kept(g, n)'
<1>1. h.n \in Nat /\ n \in Nat /\ h.n =< n
  BY UndoFacts DEF Kept
<1>2. g.byte = h.byte /\ g.st = h.st /\ g.rec = h.rec /\ g.n =< n
  BY <1>1 DEF Undone
<1>3. UNCHANGED <<area, wr, tail, tx>>
  BY DEF Undo, bufVars
<1> QED BY <1>2, <1>3, KeptStays
-----------------------------------------------------------------------------
\* The invariant, and while abort runs all records of the transaction in the log.
KInv == Inv /\ (pc = "undo" => \E h, n : IInv(h) /\ Kept(h, n))

LEMMA KeptInvariant ==
  ASSUME AbortAnywhere = FALSE, KInv, [Next]_vars
  PROVE  KInv'
<1>1. Inv'
  BY NextKeeps DEF KInv
<1> SUFFICES ASSUME pc' = "undo" PROVE \E h, n : IInv(h)' /\ Kept(h, n)'
  BY <1>1 DEF KInv
<1>2. CASE AbortMiniTransaction
  <2>1. PICK h : IInv(h)
    BY DEF KInv, Inv
  <2>2. IInv(h)' /\ Kept(h, h.n)'
    BY <1>2, <2>1, AbortKeeps, AbortKept
  <2> QED BY <2>2
<1>3. CASE pc = "undo"
  <2>1. PICK h, n : IInv(h) /\ Kept(h, n)
    BY <1>3 DEF KInv
  <2>2. todo = <<>> /\ wr.next < LineSize /\ n \in Nat /\ h.n =< n
    BY <1>3, <2>1, UndoFacts DEF Kept
  <2>3. CASE UNCHANGED vars
    <3>1. UNCHANGED <<area, wr, tail, tx>>
      BY <2>3 DEF vars, bufVars
    <3>2. IInv(h)' /\ Kept(h, n)'
      BY <2>1, <2>2, <2>3, <3>1, StutterKeeps, KeptStays
    <3> QED BY <3>2
  <2>4. CASE UndoNew
    <3>1. PICK g : Undone(h, g) /\ IInv(g)'
      BY <2>1, <2>4, UndoNewKeeps
    <3>2. Kept(g, n)'
      BY <1>3, <2>1, <2>4, <3>1, UndoKept DEF UndoNew
    <3> QED BY <3>1, <3>2
  <2>5. CASE UndoWrite
    <3>1. PICK g : Undone(h, g) /\ IInv(g)'
      BY <2>1, <2>5, UndoWriteKeeps
    <3>2. Kept(g, n)'
      BY <1>3, <2>1, <2>5, <3>1, UndoKept DEF UndoWrite
    <3> QED BY <3>1, <3>2
  <2>6. CASE UndoAllocNode
    <3>1. PICK g : Undone(h, g) /\ IInv(g)'
      BY <2>1, <2>6, UndoAllocNodeKeeps
    <3>2. Kept(g, n)'
      BY <1>3, <2>1, <2>6, <3>1, UndoKept DEF UndoAllocNode
    <3> QED BY <3>1, <3>2
  <2>7. CASE \E l \in Lines : EvictLogLine(l)
    <3>1. UNCHANGED <<area, wr, tail, tx>>
      BY <2>7 DEF EvictLogLine, EvictLine
    <3>2. IInv(h)' /\ Kept(h, n)'
      BY <2>1, <2>2, <2>7, <3>1, EvictLogKeeps, KeptStays
    <3> QED BY <3>2
  <2>8. CASE \E a \in Memory : EvictData(a)
    <3>1. UNCHANGED <<area, wr, tail, tx>>
      BY <2>8 DEF EvictData, bufVars
    <3>2. IInv(h)' /\ Kept(h, n)'
      BY <2>1, <2>2, <2>8, <3>1, EvictDataKeeps, KeptStays
    <3> QED BY <3>2
  <2>9. ~WriteLogLine
    <3>1. LineSize \in Nat /\ wr.next # LineSize
      BY <2>2, LogAssumption, Sizes
    <3> QED BY <2>2, <3>1 DEF WriteLogLine, CopyToLine, CompleteLine2Log
  <2>10. /\ ~(FlushRecord \/ Store \/ Commit \/ LogAbort \/ FlushAbort \/ StartMiniTransaction)
         /\ ~(CommitMiniTransaction \/ AbortMiniTransaction \/ Truncate)
    BY <1>3 DEF FlushRecord, Store, Commit, LogCommit, FlushCommit, ApplyRedo, FreeNodes, LogAbort,
                FlushAbort, StartMiniTransaction, CommitMiniTransaction, AbortMiniTransaction, Truncate
  <2>11. /\ ~\E a \in Memory, v \in Value : Write(a, v) \/ RedoWrite(a, v)
         /\ ~\E m \in Node : AllocNode(m) \/ DelNode(m) \/ \E v \in Value : New(m, v)
    BY <1>3 DEF Write, RedoWrite, AllocNode, DelNode, New, Log
  <2> QED
    BY <2>3, <2>4, <2>5, <2>6, <2>7, <2>8, <2>9, <2>10, <2>11 DEF Next, Code, Abort
<1>4. CASE pc # "undo"
  <2>1. ~(UNCHANGED vars) /\ ~(\E l \in Lines : EvictLogLine(l)) /\ ~(\E a \in Memory : EvictData(a))
        /\ ~WriteLogLine
    BY <1>4 DEF vars, EvictLogLine, EvictData, WriteLogLine
  <2>2. /\ ~(FlushRecord \/ Store \/ Commit \/ Abort \/ StartMiniTransaction)
        /\ ~(CommitMiniTransaction \/ Truncate)
    BY <1>4 DEF FlushRecord, Store, Commit, LogCommit, FlushCommit, ApplyRedo, FreeNodes, LogAbort,
                FlushAbort, StartMiniTransaction, CommitMiniTransaction, Truncate, Abort, UndoNew,
                UndoWrite, UndoAllocNode, Undo
  <2>3. /\ ~\E a \in Memory, v \in Value : Write(a, v) \/ RedoWrite(a, v)
        /\ ~\E m \in Node : AllocNode(m) \/ DelNode(m) \/ \E v \in Value : New(m, v)
    BY <1>4 DEF Write, RedoWrite, AllocNode, DelNode, New, Log
  <2> QED BY <1>2, <2>1, <2>2, <2>3 DEF Next, Code
<1> QED BY <1>3, <1>4

\* Theorem.  While abortMiniTransaction (nvm-common.h:926-1031) runs, reading the log
\* forward from where the transaction began, as print does, finds as many records, of the
\* same lengths, as it logged; reading backward over them ends where the transaction
\* began, and abort stands at one of the positions on the way.
THEOREM AbortReadsAll ==
  ASSUME AbortAnywhere = FALSE
  PROVE  Spec => []AbortReadsWhatWasLogged
<1>1. Init => KInv
  <2>1. Init => Inv
    BY InitHolds DEF Inv
  <2> QED BY <2>1 DEF Init, KInv
<1>2. KInv /\ [Next]_vars => KInv'
  BY KeptInvariant
<1>3. KInv => AbortReadsWhatWasLogged
  <2>1. ASSUME KInv, pc = "undo" PROVE AbortReadsWhatWasLogged
    <3>1. PICK h, n : IInv(h) /\ Kept(h, n)
      BY <2>1 DEF KInv
    <3> QED BY <2>1, <3>1, ReadsWhatWasLogged
  <2>2. ASSUME pc # "undo" PROVE AbortReadsWhatWasLogged
    BY <2>2 DEF AbortReadsWhatWasLogged
  <2> QED BY <2>1, <2>2
<1> QED BY <1>1, <1>2, <1>3, PTL DEF Spec
-----------------------------------------------------------------------------
\* NvmLog implements TxStore.  What the transaction sees:
Seen == IF pc \in {"undo", "aborted"} THEN base ELSE Working

Contents == Value \cup {RAW, FREE, 0}

\* The actions of TxStore under the refinement mapping.
LEMMA TIs ==
  /\ T!Init <=> base \in [Memory -> Contents] /\ Seen = base /\ Active = FALSE
  /\ T!Begin <=> ~Active /\ Active' = TRUE /\ base' = base /\ Seen' = Seen
  /\ \A p \in Memory : T!Change(p) <=>
        /\ Active /\ base' = base /\ Active' = Active
        /\ \E c \in Contents : Seen' = [Seen EXCEPT ![p] = c]
  /\ T!Commit <=> Active /\ Active' = FALSE /\ base' = Seen /\ Seen' = Seen
  /\ T!Abort <=> Active /\ Active' = FALSE /\ Seen' = base /\ base' = base
  /\ UNCHANGED T!vars <=> base' = base /\ Seen' = Seen /\ Active' = Active
  /\ T!Next <=> T!Begin \/ (\E p \in Memory : T!Change(p)) \/ T!Commit \/ T!Abort
  BY DEF T!Init, T!Begin, T!Change, T!Commit, T!Abort, T!vars, T!Next, Seen, Contents

WorkingTyped == Working \in [Memory -> Value \cup {0, RAW, FREE}]

\* What the running transaction sees is a store in the next state too.
LEMMA WorkingNow ==
  DataTypes' => Working' \in [Memory -> Value \cup {0, RAW, FREE}]
<1>1. DataTypes => WorkingTyped
  BY WorkingType DEF WorkingTyped
<1>2. DataTypes' => WorkingTyped'
  BY <1>1, PTL
<1> QED BY <1>2 DEF WorkingTyped, Memory, RAW, FREE

\* A step that changes what is seen of at most one address.
LEMMA ChangesOne ==
  ASSUME NEW p \in Memory, Active, Active', base' = base,
         pc \notin {"undo", "aborted"}, pc' \notin {"undo", "aborted"},
         DataTypes, DataTypes',
         \A q \in Memory : q # p => Working'[q] = Working[q]
  PROVE  [T!Next]_(T!vars)
<1>1. Seen = Working /\ Seen' = Working'
  BY DEF Seen
<1>2. Working \in [Memory -> Value \cup {0, RAW, FREE}]
  BY WorkingType
<1>3. Working' \in [Memory -> Value \cup {0, RAW, FREE}]
  BY WorkingNow
<1>4. Working' = [Working EXCEPT ![p] = Working'[p]] /\ Working'[p] \in Contents
  BY <1>2, <1>3 DEF Contents
<1>5. T!Change(p)
  BY <1>1, <1>4, TIs
<1> QED BY <1>5, TIs

\* A step that changes nothing of the store.
LEMMA Stutters ==
  ASSUME base' = base, Active' = Active, Seen' = Seen
  PROVE  [T!Next]_(T!vars)
  BY TIs

\* What is seen stays when the data and the committed store do.
LEMMA SeenSame ==
  ASSUME UNCHANGED <<redo, del, live, data, base>>,
         pc' \in {"undo", "aborted"} <=> pc \in {"undo", "aborted"}
  PROVE  Seen' = Seen
  BY WorkingSame DEF Seen

\* The other addresses keep what they hold when the redo records stay.
LEMMA RedoneOthers ==
  ASSUME UNCHANGED redo, NEW p, \A q \in Memory : q # p => data'[q] = data[q]
  PROVE  \A q \in Memory : q # p => Redone(q)' = Redone(q)
  BY RedoneSame

\* WorkingIs in the next state.
LEMMA WorkingThen ==
  \A q \in Memory : Working'[q] = IF q \in Addr \cup (live' \ Deleted') THEN Redone(q)' ELSE FREE
  BY DEF Working, Shown, Memory, FREE

\* The store of a record changes what is seen of one address.
LEMMA StoreChanges ==
  ASSUME NEW h, IInv(h), DataTypes', Store
  PROVE  [T!Next]_(T!vars)
<1>1. DataTypes /\ StoreKnown(h) /\ Phases(h)
  BY DEF IInv
<1>2. /\ pc = "store" /\ pc' = "run"
      /\ data' = [a \in Memory |-> IF a = next.addr THEN next.val ELSE data[a]]
      /\ UNCHANGED <<live, redo, del, base>>
  BY DEF Store
<1>3. Active /\ Active' /\ Active' = Active
  BY <1>2 DEF Active, CommitFilledLine
<1>4. PICK p : p = next.addr
  OBVIOUS
<1>5. \A q \in Memory : q # p => data'[q] = data[q]
  BY <1>2, <1>4
<1>6. Deleted' = Deleted
  BY <1>2 DEF Deleted
<1>7. \A q \in Memory : q # p => Working'[q] = Working[q]
  BY <1>2, <1>5, <1>6, RedoneOthers, WorkingIs, WorkingThen
<1>8. CASE p \in Memory
  BY <1>1, <1>2, <1>3, <1>7, <1>8, ChangesOne
<1>9. CASE p \notin Memory
  <2>1. Working \in [Memory -> Value \cup {0, RAW, FREE}] /\ Working' \in [Memory -> Value \cup {0, RAW, FREE}]
    BY <1>1, WorkingType, WorkingNow
  <2>2. \A q \in Memory : Working'[q] = Working[q]
    BY <1>7, <1>9
  <2>3. Working' = Working
    BY <2>1, <2>2
  <2> QED BY <1>2, <1>3, <2>3, Stutters DEF Seen
<1> QED BY <1>8, <1>9

\* allocNode changes what is seen of one node.
LEMMA AllocNodeChanges ==
  ASSUME NEW h, IInv(h), DataTypes', NEW n \in Node, AllocNode(n)
  PROVE  [T!Next]_(T!vars)
<1>1. DataTypes
  BY DEF IInv
<1>2. pc = "run" /\ pc' = "log" /\ live' = live \cup {n} /\ UNCHANGED <<data, redo, del, base>>
  BY DEF AllocNode, Log
<1>3. Active /\ Active' /\ Active' = Active
  BY <1>2 DEF Active, CommitFilledLine
<1>4. Deleted' = Deleted /\ n \in Memory
  BY <1>2, Places DEF Deleted
<1>5. \A q \in Memory : q # n => Working'[q] = Working[q]
  <2>1. \A q \in Memory : Redone(q)' = Redone(q)
    BY <1>2, RedoneSame
  <2> QED BY <1>2, <1>4, <2>1, WorkingIs, WorkingThen
<1> QED BY <1>1, <1>2, <1>3, <1>4, <1>5, ChangesOne

\* delNode changes what is seen of one node.
LEMMA DelNodeChanges ==
  ASSUME NEW h, IInv(h), DataTypes', NEW n \in Node, DelNode(n)
  PROVE  [T!Next]_(T!vars)
<1>1. DataTypes
  BY DEF IInv
<1>2. pc = "run" /\ pc' = "run" /\ del' = Append(del, n) /\ UNCHANGED <<data, redo, live, base>>
  BY DEF DelNode
<1>3. Active /\ Active' /\ Active' = Active
  BY <1>2 DEF Active, CommitFilledLine
<1>4. n \in Memory
  BY Places
<1>5. Deleted' = Deleted \cup {n}
  <2>1. PICK s, t : s = del /\ t = del'
    OBVIOUS
  <2>2. s \in Seq(Node) /\ t = Append(s, n)
    BY <1>1, <1>2, <2>1 DEF DataTypes
  <2>3. /\ Len(s) \in Nat /\ Len(t) = Len(s) + 1 /\ t[Len(s) + 1] = n
        /\ DOMAIN s = 1 .. Len(s) /\ DOMAIN t = 1 .. Len(t)
        /\ \A i \in 1 .. Len(s) : t[i] = s[i]
    BY <2>2
  <2>4. {t[i] : i \in DOMAIN t} = {s[i] : i \in DOMAIN s} \cup {n}
    <3>1. \A i \in 1 .. Len(t) : i \in 1 .. Len(s) \/ i = Len(s) + 1
      BY <2>3
    <3>2. Len(s) + 1 \in 1 .. Len(t) /\ \A i \in 1 .. Len(s) : i \in 1 .. Len(t)
      BY <2>3
    <3> QED BY <2>3, <3>1, <3>2
  <2> QED BY <2>1, <2>4 DEF Deleted
<1>6. \A q \in Memory : q # n => Working'[q] = Working[q]
  <2>1. \A q \in Memory : Redone(q)' = Redone(q)
    BY <1>2, RedoneSame
  <2> QED BY <1>2, <1>5, <2>1, WorkingIs, WorkingThen
<1> QED BY <1>1, <1>2, <1>3, <1>4, <1>6, ChangesOne

\* redoWrite changes what is seen of one address.
LEMMA RedoWriteChanges ==
  ASSUME NEW h, IInv(h), DataTypes', NEW a \in Memory, NEW v \in Value, RedoWrite(a, v)
  PROVE  [T!Next]_(T!vars)
<1>1. DataTypes
  BY DEF IInv
<1>2. /\ pc = "run" /\ pc' = "run" /\ redo' = Append(redo, [addr |-> a, val |-> v])
      /\ UNCHANGED <<data, live, del, base>>
  BY DEF RedoWrite
<1>3. Active /\ Active' /\ Active' = Active
  BY <1>2 DEF Active, CommitFilledLine
<1>4. Deleted' = Deleted
  BY <1>2 DEF Deleted
<1>5. RedoType /\ RedoType'
  BY <1>1 DEF DataTypes, RedoType
<1>6. PICK R, r, s, t : /\ R = [addr : Memory, val : Value] /\ r = [addr |-> a, val |-> v]
                        /\ s = redo /\ t = redo'
  OBVIOUS
<1>7. r \in R /\ s \in Seq(R) /\ t = Append(s, r) /\ r.addr = a
  BY <1>1, <1>2, <1>6 DEF DataTypes
<1>8. /\ Len(s) \in Nat /\ Len(t) = Len(s) + 1 /\ t[Len(s) + 1] = r /\ t \in Seq(R)
      /\ DOMAIN s = 1 .. Len(s) /\ DOMAIN t = 1 .. Len(t)
      /\ \A i \in 1 .. Len(s) : t[i] = s[i]
  BY <1>7
<1>9. \A i \in 1 .. Len(t) : i \in 1 .. Len(s) \/ i = Len(s) + 1
  BY <1>8
<1>10. ASSUME NEW q \in Memory, q # a PROVE Redone(q)' = Redone(q)
  <2>1. CASE \A i \in 1 .. Len(s) : s[i].addr # q
    <3>1. \A i \in 1 .. Len(t) : t[i].addr # q
      BY <1>7, <1>8, <1>9, <1>10, <2>1
    <3>2. Redone(q) = data[q]
      BY <1>5, <1>6, <2>1, RedoneIs
    <3>3. Redone(q)' = data'[q]
      BY <1>5, <1>6, <3>1, RedoneNow
    <3> QED BY <1>2, <3>2, <3>3
  <2>2. CASE \E i \in 1 .. Len(s) : s[i].addr = q
    <3>1. PICK i : IsLast(s, q, i)
      BY <1>7, <2>2, LastExists
    <3>2. /\ i \in 1 .. Len(s) /\ s[i].addr = q
          /\ \A j \in 1 .. Len(s) : j > i => s[j].addr # q
      BY <1>8, <3>1 DEF IsLast
    <3>3. IsLast(t, q, i)
      <4>1. i \in 1 .. Len(t) /\ t[i].addr = q
        BY <1>8, <3>2
      <4>2. \A j \in 1 .. Len(t) : j > i => t[j].addr # q
        BY <1>7, <1>8, <1>9, <1>10, <3>2
      <4> QED BY <1>8, <4>1, <4>2 DEF IsLast
    <3>4. Redone(q) = s[i].val
      BY <1>5, <1>6, <3>1, RedoneIs
    <3>5. Redone(q)' = t[i].val
      BY <1>5, <1>6, <3>3, RedoneNow
    <3> QED BY <1>8, <3>2, <3>4, <3>5
  <2> QED BY <2>1, <2>2
<1>11. \A q \in Memory : q # a => Working'[q] = Working[q]
  BY <1>2, <1>4, <1>10, WorkingIs, WorkingThen
<1> QED BY <1>1, <1>2, <1>3, <1>11, ChangesOne
\* The bytes of the log are not seen, but for the last one of COMMIT when it fills
\* a line: completing the line commits.
LEMMA WriterStep ==
  ASSUME NEW h, IInv(h), WriteLogLine
  PROVE  [T!Next]_(T!vars)
<1>1. LogTypes /\ ToCopy(h) /\ Quiet
  BY DEF IInv
<1>2. /\ base' = IF pc = "seal" /\ todo = <<>> THEN Working ELSE base
      /\ UNCHANGED <<data, live, redo, del, pc>>
  BY DEF WriteLogLine
<1>3. Working' = Working
  BY <1>2, WorkingSame
<1>4. CASE CopyToLine
  <2>1. todo # <<>> /\ wr'.next > 2
    <3>1. PICK g : g = [byte |-> h.byte,
                        td |-> [q \in 1 .. Len(todo') + 1 |->
                                  IF q = 1 THEN Offset(wr) + Copies
                                  ELSE IF mid' THEN h.td[q] ELSE h.td[q + 1]]]
      OBVIOUS
    <3>2. CopiedTo(h, g)
      BY <3>1 DEF CopiedTo
    <3> HIDE <3>1
    <3>3. /\ todo # <<>>
          /\ (\A q \in 1 .. Len(todo) : todo[q] # <<>>) =>
                wr'.next > 2 /\ \A q \in 1 .. Len(todo') : todo'[q] # <<>>
      <4>1. Copied(h) /\ UNCHANGED <<tail, tx>>
        BY DEF IInv, WriteLogLine
      <4> QED BY <1>1, <1>4, <3>2, <4>1, LogAssumption, CopyKeeps
    <3> QED BY <1>1, <3>3 DEF Quiet
  <2>2. ~CommitFilledLine /\ ~CommitFilledLine'
    BY <2>1 DEF CommitFilledLine, Written
  <2>3. Active' = Active /\ base' = base
    BY <1>2, <2>1, <2>2 DEF Active
  <2> QED BY <1>2, <1>3, <2>3, Stutters DEF Seen
<1>5. CASE CompleteLine2Log
  <2>1. wr.next = LineSize /\ wr' = NextLine(wr) /\ todo' = todo
    BY <1>5 DEF CompleteLine2Log
  <2>2. wr'.next = 2
    BY <2>1 DEF NextLine, PrepareLogForWriting
  <2>3. LineSize \in Nat /\ LineSize >= 3
    BY LogAssumption, Sizes
  <2>4. ~CommitFilledLine /\ (CommitFilledLine' <=> pc = "seal" /\ todo = <<>>)
    BY <1>2, <2>1, <2>2, <2>3 DEF CommitFilledLine, Written
  <2>5. CASE pc = "seal" /\ todo = <<>>
    <3>1. Active /\ Active' = FALSE
      BY <1>2, <2>4, <2>5 DEF Active
    <3>2. Seen = Working /\ Seen' = Working /\ base' = Working
      BY <1>2, <1>3, <2>5 DEF Seen
    <3> QED BY <3>1, <3>2, TIs
  <2>6. CASE ~(pc = "seal" /\ todo = <<>>)
    <3>1. Active' = Active /\ base' = base
      BY <1>2, <2>4, <2>6 DEF Active
    <3> QED BY <1>2, <1>3, <3>1, Stutters DEF Seen
  <2> QED BY <2>5, <2>6
<1> QED BY <1>4, <1>5 DEF WriteLogLine

\* commit's flush is the commit of TxStore; a commit that finds nothing logged commits
\* the old store; storing and freeing are not seen.
LEMMA CommitStep ==
  ASSUME NEW h, IInv(h), NEW g, IInv(g)', Commit
  PROVE  [T!Next]_(T!vars)
<1>1. Phases(h) /\ Phases(g)'
  BY DEF IInv
<1>2. CASE LogCommit
  <2>1. pc = "commit" /\ UNCHANGED <<data, live, redo, del, base>>
    BY <1>2 DEF LogCommit
  <2>2. Working' = Working /\ Active
    BY <2>1, WorkingSame DEF Active, CommitFilledLine
  <2>3. CASE pc' = "apply"
    <3>1. Active' = FALSE /\ Intact'
      BY <1>1, <2>3 DEF Active, Phases
    <3> QED BY <2>1, <2>2, <2>3, <3>1, TIs DEF Intact, Seen
  <2>4. CASE pc' # "apply"
    <3>1. pc' = "seal" /\ todo' = << <<Tags.COMMIT>> >>
      BY <1>2, <2>4 DEF LogCommit
    <3>2. Active' = TRUE
      BY <3>1 DEF Active, CommitFilledLine, Written
    <3> QED BY <2>1, <2>2, <3>1, <3>2, Stutters DEF Seen, Active
  <2> QED BY <2>3, <2>4
<1>3. CASE FlushCommit
  <2>1. pc = "seal" /\ pc' = "apply" /\ base' = Working /\ UNCHANGED <<data, live, redo, del>>
    BY <1>3 DEF FlushCommit
  <2>2. Working' = Working /\ Active' = FALSE /\ Seen = Working /\ Seen' = Working
    BY <2>1, WorkingSame DEF Active, Seen
  <2>3. CASE Active
    BY <2>1, <2>2, <2>3, TIs
  <2>4. CASE ~Active
    <3>1. Active = FALSE
      BY <2>4 DEF Active
    <3>2. Intact
      BY <1>1, <2>1, <2>4 DEF Active, Phases
    <3> QED BY <2>1, <2>2, <3>1, <3>2, Stutters DEF Intact
  <2> QED BY <2>3, <2>4
<1>4. CASE ApplyRedo
  <2>1. pc = "apply" /\ pc' = pc /\ base' = base
    BY <1>4 DEF ApplyRedo
  <2>2. Working' = Working
    BY <1>4, ApplyRedoKeeps
  <2> QED BY <2>1, <2>2, Stutters DEF Active, Seen
<1>5. CASE FreeNodes
  <2>1. pc = "apply" /\ pc' = "none" /\ base' = base
    BY <1>5 DEF FreeNodes
  <2>2. Working' = Working
    BY <1>5, FreeNodesKeeps
  <2> QED BY <2>1, <2>2, Stutters DEF Active, Seen
<1> QED BY <1>2, <1>3, <1>4, <1>5 DEF Commit

\* abort is the abort of TxStore when it starts: its caller sees the committed store
\* from then on, though records are still to be undone.
LEMMA AbortStep ==
  ASSUME NEW h, IInv(h), NEW g, IInv(g)', Abort \/ AbortMiniTransaction
  PROVE  [T!Next]_(T!vars)
<1>1. CASE AbortMiniTransaction
  <2>1. pc = "run" /\ pc' = "undo" /\ base' = base
    BY <1>1 DEF AbortMiniTransaction
  <2>2. Active /\ Active' = FALSE /\ Seen' = base
    BY <2>1 DEF Active, CommitFilledLine, Seen
  <2> QED BY <2>1, <2>2, TIs
<1>2. CASE UndoNew \/ UndoWrite \/ UndoAllocNode
  <2>1. pc = "undo" /\ pc' = pc /\ base' = base
    BY <1>2 DEF UndoNew, UndoWrite, UndoAllocNode, Undo
  <2> QED BY <2>1, Stutters DEF Active, Seen
<1>3. CASE LogAbort
  <2>1. pc = "undo" /\ pc' = "aborted" /\ base' = base
    BY <1>3 DEF LogAbort
  <2> QED BY <2>1, Stutters DEF Active, Seen
<1>4. CASE FlushAbort
  <2>1. pc = "aborted" /\ pc' = "none" /\ base' = base
    BY <1>4 DEF FlushAbort
  <2>2. Intact'
    BY <2>1 DEF IInv, Phases
  <2> QED BY <2>1, <2>2, Stutters DEF Active, Seen, Intact
<1> QED BY <1>1, <1>2, <1>3, <1>4 DEF Abort

\* All other steps are not seen, but for the start of a transaction.
LEMMA OtherSteps ==
  ASSUME NEW h, IInv(h),
         \/ FlushRecord \/ StartMiniTransaction \/ CommitMiniTransaction \/ Truncate \/ UNCHANGED vars
         \/ \E a \in Memory, v \in Value : Write(a, v)
         \/ \E n \in Node, v \in Value : New(n, v)
         \/ \E a \in Memory : EvictData(a)
         \/ \E l \in Lines : EvictLogLine(l)
  PROVE  [T!Next]_(T!vars)
<1>1. CASE StartMiniTransaction
  <2>1. /\ pc = "none" /\ pc' = "run" /\ redo' = <<>> /\ del' = <<>>
        /\ UNCHANGED <<data, live, base>>
    BY <1>1 DEF StartMiniTransaction
  <2>2. redo = <<>> /\ del = <<>>
    BY <2>1 DEF IInv, Phases
  <2>3. Working' = Working
    BY <2>1, <2>2, WorkingSame
  <2>4. ~Active /\ Active' = TRUE /\ Seen' = Seen
    BY <2>1, <2>3 DEF Active, CommitFilledLine, Seen
  <2> QED BY <2>1, <2>4, TIs
<1>2. CASE FlushRecord
  <2>1. pc = "log" /\ pc' = "store" /\ UNCHANGED <<data, live, redo, del, base>>
    BY <1>2 DEF FlushRecord
  <2>2. Active' = Active
    BY <2>1 DEF Active, CommitFilledLine
  <2> QED BY <2>1, <2>2, SeenSame, Stutters
<1>3. CASE CommitMiniTransaction
  <2>1. pc = "run" /\ pc' = "commit" /\ UNCHANGED <<data, live, redo, del, base>>
    BY <1>3 DEF CommitMiniTransaction
  <2>2. Active' = Active
    BY <2>1 DEF Active, CommitFilledLine
  <2> QED BY <2>1, <2>2, SeenSame, Stutters
<1>4. CASE Truncate
  <2>1. pc = "none" /\ pc' = pc /\ UNCHANGED <<data, live, redo, del, base>>
    BY <1>4 DEF Truncate
  <2>2. Active' = Active
    BY <2>1 DEF Active, CommitFilledLine
  <2> QED BY <2>1, <2>2, SeenSame, Stutters
<1>5. CASE UNCHANGED vars
  <2>1. UNCHANGED <<pc, todo, wr, data, live, redo, del, base>>
    BY <1>5 DEF vars, bufVars
  <2>2. Active' = Active
    BY <2>1 DEF Active, CommitFilledLine, Written
  <2> QED BY <2>1, <2>2, SeenSame, Stutters
<1>6. CASE \E a \in Memory, v \in Value : Write(a, v)
  <2>1. pc = "run" /\ pc' = "log" /\ UNCHANGED <<data, live, redo, del, base>>
    BY <1>6 DEF Write, Log
  <2>2. Active' = Active
    BY <2>1 DEF Active, CommitFilledLine
  <2> QED BY <2>1, <2>2, SeenSame, Stutters
<1>7. CASE \E n \in Node, v \in Value : New(n, v)
  <2>1. pc = "run" /\ pc' = "store" /\ UNCHANGED <<data, live, redo, del, base>>
    BY <1>7 DEF New, Log
  <2>2. Active' = Active
    BY <2>1 DEF Active, CommitFilledLine
  <2> QED BY <2>1, <2>2, SeenSame, Stutters
<1>8. CASE \E a \in Memory : EvictData(a)
  <2>1. UNCHANGED <<pc, todo, wr, data, live, redo, del, base>>
    BY <1>8 DEF EvictData, bufVars
  <2>2. Active' = Active
    BY <2>1 DEF Active, CommitFilledLine, Written
  <2> QED BY <2>1, <2>2, SeenSame, Stutters
<1>9. CASE \E l \in Lines : EvictLogLine(l)
  <2>1. UNCHANGED <<pc, todo, wr, data, live, redo, del, base>>
    BY <1>9 DEF EvictLogLine, EvictLine
  <2>2. Active' = Active
    BY <2>1 DEF Active, CommitFilledLine, Written
  <2> QED BY <2>1, <2>2, SeenSame, Stutters
<1> QED BY <1>1, <1>2, <1>3, <1>4, <1>5, <1>6, <1>7, <1>8, <1>9

\* Every step is a step of TxStore or not seen.
LEMMA StepRefines ==
  ASSUME Inv, Inv', [Next]_vars
  PROVE  [T!Next]_(T!vars)
<1>1. PICK h : IInv(h)
  BY DEF Inv
<1>2. PICK g : IInv(g)'
  BY DEF Inv
<1>3. DataTypes'
  BY <1>2 DEF IInv
<1>4. CASE WriteLogLine
  BY <1>1, <1>4, WriterStep
<1>5. CASE Store
  BY <1>1, <1>3, <1>5, StoreChanges
<1>6. CASE Commit
  BY <1>1, <1>2, <1>6, CommitStep
<1>7. CASE Abort \/ AbortMiniTransaction
  BY <1>1, <1>2, <1>7, AbortStep
<1>8. CASE \E n \in Node : AllocNode(n)
  BY <1>1, <1>3, <1>8, AllocNodeChanges
<1>9. CASE \E n \in Node : DelNode(n)
  BY <1>1, <1>3, <1>9, DelNodeChanges
<1>10. CASE \E a \in Memory, v \in Value : RedoWrite(a, v)
  BY <1>1, <1>3, <1>10, RedoWriteChanges
<1>11. CASE \/ FlushRecord \/ StartMiniTransaction \/ CommitMiniTransaction \/ Truncate \/ UNCHANGED vars
            \/ \E a \in Memory, v \in Value : Write(a, v)
            \/ \E n \in Node, v \in Value : New(n, v)
            \/ \E a \in Memory : EvictData(a)
            \/ \E l \in Lines : EvictLogLine(l)
  BY <1>1, <1>11, OtherSteps
<1> QED
  BY <1>4, <1>5, <1>6, <1>7, <1>8, <1>9, <1>10, <1>11 DEF Next, Code

\* Theorem.  The records, flushes, stores and frees of NvmLog implement a store that
\* changes by whole transactions only: a transaction sees its own writes, commit makes
\* exactly these the store, and abort puts back exactly what it overwrote
\* (nvm-common.h:841-1033).
THEOREM LogImplementsTxStore ==
  ASSUME AbortAnywhere = FALSE
  PROVE  Spec => ImplementsTxStore
<1>1. Init => T!Init
  <2> SUFFICES ASSUME Init PROVE T!Init
    OBVIOUS
  <2>1. PICK h : IInv(h)
    BY InitHolds
  <2>2. pc = "none"
    BY DEF Init
  <2>3. Intact /\ base \in [Memory -> Contents]
    BY <2>1, <2>2 DEF IInv, Phases, DataTypes, Contents
  <2>4. Seen = base /\ Active = FALSE
    BY <2>2, <2>3 DEF Seen, Intact, Active
  <2> QED BY <2>3, <2>4, TIs
<1>2. Inv /\ Inv' /\ [Next]_vars => [T!Next]_(T!vars)
  BY StepRefines
<1> QED BY <1>1, <1>2, LogInvariant, PTL DEF Spec, ImplementsTxStore, T!Spec
=============================================================================
