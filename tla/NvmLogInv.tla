----------------------------- MODULE NvmLogInv -----------------------------
(***************************************************************************)
(* The inductive invariant of NvmLog.  What abort restores depends on what *)
(* the log says, and that is in no variable: the bytes in the lines mean   *)
(* something only together with where the records begin.  The invariant    *)
(* speaks of an account h of the log:                                      *)
(*   byte   the log as one row of bytes, the records being written and     *)
(*          those of todo included; line m of the row is line m % NumLines *)
(*          of the buffer                                                  *)
(*   td     where in the row each piece of todo goes                       *)
(*   n      the records of the running transaction, those that abort has   *)
(*          undone not counted; rec are the records, st where they begin   *)
(***************************************************************************)
EXTENDS NvmLogProperties

PerLine == LineSize - 2

\* The row begins with the line tail is in; the other version is a round on.
AbsLine(pos) == pos.line + (IF pos.ver = tail.ver THEN 0 ELSE NumLines)
Offset(pos)  == AbsLine(pos) * PerLine + pos.next - 2
Version(m)   == IF m \in Lines THEN tail.ver ELSE 1 - tail.ver
Place(m, b)  == m * PerLine + b - 2

End(h) == h.td[Len(todo) + 1]

(***************************************************************************)
(* The buffer.                                                             *)
(***************************************************************************)
LineType == [ver : {0, 1}, ok : BOOLEAN, byte : [1 .. LineSize - 1 -> Int]]

LogTypes ==
    /\ area \in [Lines -> LineType]
    /\ wr \in [ver : {0, 1}, off : {0} \cup 2 .. LineSize - 1, line : Lines, next : 2 .. LineSize]
    /\ todo \in Seq(Seq(Int)) /\ mid \in BOOLEAN
    /\ tail \in [ver : {0, 1}, off : {0} \cup 2 .. LineSize - 1, line : Lines,
                 next : 2 .. LineSize - 1]
    /\ tx \in [ver : {0, 1}, off : {0} \cup 2 .. LineSize - 1, line : Lines,
               next : 2 .. LineSize - 1]

\* What has been copied is in the lines; those before wr's are complete.
Copied(h) ==
    /\ Offset(tail) =< Offset(wr)
    /\ tail.line =< AbsLine(wr) /\ AbsLine(wr) < tail.line + NumLines
    /\ \A m \in tail.line .. AbsLine(wr), b \in 2 .. LineSize - 1 :
          Offset(tail) =< Place(m, b) /\ Place(m, b) < Offset(wr) =>
              area[m % NumLines].byte[b] = h.byte[Place(m, b)]
    /\ \A m \in tail.line .. AbsLine(wr) - 1 :
          area[m % NumLines].ok /\ area[m % NumLines].ver = Version(m)

\* What is still to be copied goes behind it.
ToCopy(h) ==
    /\ h.td[1] = Offset(wr)
    /\ \A q \in 1 .. Len(todo) + 1 : h.td[q] \in Int
    /\ \A q, r \in 1 .. Len(todo) + 1 : q =< r => h.td[q] =< h.td[r]
    /\ \A q \in 1 .. Len(todo) :
          /\ h.td[q + 1] = h.td[q] + Len(todo[q])
          /\ \A j \in 1 .. Len(todo[q]) : todo[q][j] = h.byte[h.td[q] + j - 1]

\* Nodes allocated, not written, and not about to be.
ToInit == {n \in live : data[n] = RAW /\ n # next.addr}

DelSize == IF del = <<>> THEN 0 ELSE Len(del) + 4

\* What the running transaction still has to log.
Needs == 4 * (Len(redo) + Cardinality(ToInit)) + DelSize

\* Where the row meets its own beginning.
Limit == (tail.line + NumLines) * PerLine

\* The log never reaches the line where recovery starts again, whatever
\* commit or abort still write.
Fits(h) ==
    /\ End(h) + 1 =< Limit
    /\ pc \in {"commit", "undo"} => End(h) + 2 =< Limit
    /\ pc \in {"run", "log", "store"} => End(h) + Needs + 2 =< Limit

Quiet ==
    /\ \A q \in 1 .. Len(todo) : todo[q] # <<>>
    /\ pc \notin {"log", "store", "commit", "seal", "aborted"} => todo = <<>>
    /\ pc \in {"none", "run", "apply", "undo"} => wr.next < LineSize

(***************************************************************************)
(* The transaction.                                                        *)
(***************************************************************************)
LogRecords ==
    {NewRec(n, v) : n \in Node, v \in Value}
    \cup {WriteRec(w[1], w[2], w[3]) : w \in Memory \X (Value \cup {0}) \X Value}
    \cup {AllocRec(n) : n \in Node}

InTx == pc \in {"run", "log", "store", "undo"}

Logged(h) ==
    /\ h.n \in Nat /\ h.st[1] = Offset(tx) /\ Offset(tail) =< Offset(tx)
    /\ \A i \in 1 .. h.n + 1 :
          h.st[i] \in Int /\ Offset(tx) + i - 1 =< h.st[i] /\ h.st[i] =< End(h)
    /\ \A i \in 1 .. h.n :
          /\ h.rec[i] \in LogRecords
          /\ h.st[i + 1] = h.st[i] + Len(h.rec[i])
          /\ \A j \in 1 .. Len(h.rec[i]) : h.byte[h.st[i] + j - 1] = h.rec[i][j]

Writes(h, i, p) == h.rec[i][1] = Tags.WRITE /\ h.rec[i][2] = p
First(h, i, p)  == Writes(h, i, p) /\ \A j \in 1 .. i - 1 : ~Writes(h, j, p)
Allocated(h)    == {h.rec[i][2] : i \in {i \in 1 .. h.n : h.rec[i][1] = Tags.ALLOCNODE}}

\* The store before the transaction: what the first record of each address
\* says, or what it holds.
BaseKnown(h) ==
    LET used == Addr \cup (live \ Allocated(h))
    IN \A p \in Memory :
         /\ p \notin used => base[p] = FREE
         /\ p \in used =>
              /\ data[p] # RAW
              /\ \A i \in 1 .. h.n : First(h, i, p) => base[p] = h.rec[i][3]
              /\ (\A i \in 1 .. h.n : ~Writes(h, i, p)) => base[p] = data[p]

\* The store that follows a record, to a node it initialises or an address
\* whose old value is logged.
StoreKnown(h) ==
    IF pc \in {"log", "store"} /\ next # NoStore
    THEN /\ next \in [addr : Addr \cup live, val : Value]
         /\ next.addr \in Allocated(h) \/ \E i \in 1 .. h.n : Writes(h, i, next.addr)
    ELSE next = NoStore

\* abort is between the last record it has not undone and the next one.  It
\* never stands at the beginning of a line.
BackAt(o) ==
    \E m \in -1 .. 2 * NumLines - 1, b \in 3 .. LineSize :
       o = Place(m, b) /\ back = [line |-> m % NumLines, next |-> b, ver |-> Version(m)]

Undoing(h) ==
    pc = "undo" =>
        /\ BackAt(h.st[h.n + 1])
        /\ area[wr.line].ok /\ area[wr.line].ver = wr.ver /\ wr.next > 2

Intact == base = Working

DataTypes ==
    /\ data \in [Memory -> Value \cup {0, RAW}] /\ nvmData \in [Memory -> Value \cup {0, RAW}]
    /\ base \in [Memory -> Value \cup {0, RAW, FREE}]
    /\ live \subseteq Node /\ IsFiniteSet(live) /\ nvmLive \subseteq Node /\ written \subseteq Memory
    /\ redo \in Seq([addr : Memory, val : Value]) /\ del \in Seq(Node)
    /\ \A i \in 1 .. Len(redo) : redo[i].addr \in Addr \cup live
    /\ \A i \in 1 .. Len(del) : del[i] \in live
    /\ \A a \in Addr : data[a] # RAW
    /\ DOMAIN nvm = Lines

Phases(h) ==
    /\ pc \in {"none", "run", "log", "store", "commit", "seal", "apply", "undo", "aborted"}
    /\ pc \in {"none", "undo", "aborted"} => redo = <<>> /\ del = <<>>
    /\ pc \in {"run", "log", "store"} => h.st[h.n + 1] = End(h)
    /\ pc \in {"commit", "seal"} => Offset(tail) =< Offset(tx) /\ Offset(tx) =< Offset(wr)
    /\ pc = "commit" /\ End(h) = Offset(tx) => Intact
    /\ CommitFilledLine => Intact
    /\ pc \in {"none", "apply", "aborted"} => Intact
    /\ pc \in {"none", "commit", "seal", "apply", "aborted"} =>
          \A n \in live : data[n] # RAW \/ n \in Deleted

IInv(h) ==
    /\ LogTypes /\ DataTypes
    /\ Copied(h) /\ ToCopy(h) /\ Fits(h) /\ Quiet /\ Phases(h)
    /\ InTx => Logged(h) /\ BaseKnown(h)
    /\ StoreKnown(h) /\ Undoing(h)

Inv == \E h : IInv(h)
=============================================================================
