-------------------------- MODULE NvmLogBuf_proofs --------------------------
(***************************************************************************)
(* The log buffer keeps its account: the row of bytes of NvmLogInv under the *)
(* steps of writeLog, completeLine2Log and flushLog, wherever the lines wrap *)
(* around.  The arithmetic of lines and bytes comes first.                 *)
(***************************************************************************)
EXTENDS NvmLogInv, WellFoundedInduction, FiniteSetTheorems, TLAPS

\* Multiplication distributes over sums and differences.
LEMMA Distributes == ASSUME NEW p \in Int, NEW a \in Int, NEW b \in Int
  PROVE (a + b) * p = a * p + b * p /\ (a - b) * p = a * p - b * p
  OBVIOUS

\* Lines of the row do not overlap: the bytes of one end before the next begin.
LEMMA LinesApart ==
  ASSUME NEW p \in Nat \ {0}, NEW a \in Int, NEW b \in Int, a < b
  PROVE  a * p + p =< b * p /\ a * p \in Int /\ b * p \in Int
<1>1. b - a - 1 \in Nat
  OBVIOUS
<1>2. (b - a - 1) * p \in Nat
  BY <1>1
<1>3. (b - a - 1) * p = b * p - a * p - p
  OBVIOUS
<1> QED BY <1>2, <1>3

\* A byte of the row is in one line, at one place in it.
LEMMA OnePlace ==
  ASSUME NEW p \in Nat \ {0}, NEW a \in Int, NEW b \in Int, NEW r \in 0 .. p - 1, NEW s \in 0 .. p - 1,
         a * p + r = b * p + s
  PROVE  a = b /\ r = s
<1>1. ~(a < b)
  BY LinesApart
<1>2. ~(b < a)
  BY LinesApart
<1> QED BY <1>1, <1>2

\* Division with rest.
LEMMA Division ==
  ASSUME NEW p \in Nat \ {0}, NEW x \in Int
  PROVE  /\ x \div p \in Int /\ x % p \in 0 .. p - 1
         /\ x = (x \div p) * p + (x % p)
<1>1. x \div p \in Int /\ x % p \in 0 .. p - 1
  OBVIOUS
<1>2. x = p * (x \div p) + (x % p)
  OBVIOUS
<1> QED BY <1>1, <1>2

\* The line a byte of the row is in, and its place in it.
LEMMA Quotient ==
  ASSUME NEW p \in Nat \ {0}, NEW a \in Int, NEW r \in 0 .. p - 1
  PROVE  (a * p + r) \div p = a /\ (a * p + r) % p = r
<1> DEFINE x == a * p + r
<1>1. x \in Int
  OBVIOUS
<1>2. /\ x \div p \in Int /\ x % p \in 0 .. p - 1
      /\ x = (x \div p) * p + (x % p)
  BY <1>1, Division
<1>3. x \div p = a /\ x % p = r
  BY <1>2, OnePlace
<1> QED BY <1>3

\* Lines of the row that are less than a round apart and share a line of the
\* buffer are the same.
LEMMA SameLine ==
  ASSUME NEW p \in Nat \ {0}, NEW a \in Int, NEW b \in Int, a % p = b % p, a - b < p, b - a < p
  PROVE  a = b
<1> DEFINE qa == a \div p
           qb == b \div p
<1>1. qa \in Int /\ a = qa * p + (a % p) /\ a % p \in 0 .. p - 1
  BY Division
<1>2. qb \in Int /\ b = qb * p + (b % p)
  BY Division
<1>3. ~(qa < qb)
  <2> SUFFICES ASSUME qa < qb PROVE FALSE
    OBVIOUS
  <2>1. qa * p + p =< qb * p /\ qa * p \in Int /\ qb * p \in Int
    BY <1>1, <1>2, LinesApart
  <2> QED BY <1>1, <1>2, <2>1
<1>4. ~(qb < qa)
  <2> SUFFICES ASSUME qb < qa PROVE FALSE
    OBVIOUS
  <2>1. qb * p + p =< qa * p /\ qa * p \in Int /\ qb * p \in Int
    BY <1>1, <1>2, LinesApart
  <2> QED BY <1>1, <1>2, <2>1
<1>5. qa = qb
  BY <1>1, <1>2, <1>3, <1>4
<1> QED BY <1>1, <1>2, <1>5

\* A line of the buffer is the first of its lines in the row, and the one a
\* round on or back.
LEMMA LineOf ==
  ASSUME NEW p \in Nat \ {0}, NEW a \in 0 .. p - 1
  PROVE  a % p = a /\ (a + p) % p = a /\ (a - p) % p = a
<1>1. (0 * p + a) % p = a
  BY Quotient
<1>2. (1 * p + a) % p = a
  BY Quotient
<1>3. ((-1) * p + a) % p = a
  BY Quotient
<1> QED BY <1>1, <1>2, <1>3

\* A round on or back is the same line of the buffer.
LEMMA AroundOnce ==
  ASSUME NEW p \in Nat \ {0}, NEW a \in Int
  PROVE  (a + p) % p = a % p /\ (a - p) % p = a % p
<1>1. PICK q \in Int, r \in 0 .. p - 1 : a = q * p + r
  BY Division
<1>2. (q + 1) * p = q * p + p /\ (q - 1) * p = q * p - p
  OBVIOUS
<1>3. ((q + 1) * p + r) % p = r /\ ((q - 1) * p + r) % p = r /\ (q * p + r) % p = r
  <2>1. \A b \in Int : (b * p + r) % p = r
    BY Quotient
  <2> QED BY <2>1
<1> QED BY <1>1, <1>2, <1>3

-----------------------------------------------------------------------------
\* The sizes that LogAssumption gives: at least one log byte in a line, and two lines
\* (the layout at nvm-common.h:241-253).
LEMMA Sizes ==
  ASSUME LogAssumption
  PROVE  /\ PerLine \in Nat \ {0} /\ LineSize \in Nat /\ LineSize = PerLine + 2 /\ LineSize >= 3
         /\ NumLines \in Nat \ {0} /\ NumLines >= 2
         /\ Lines = 0 .. NumLines - 1
  BY DEF LogAssumption, PerLine, Lines

\* Where a position of the log (nl_log_pointer_t, nvm-common.h:259) is in the row.
LEMMA Positions ==
  ASSUME LogAssumption, tail.ver \in {0, 1}, tail.line \in Lines,
         NEW pos, pos.ver \in {0, 1}, pos.line \in Lines, pos.next \in Int
  PROVE  /\ AbsLine(pos) \in 0 .. 2 * NumLines - 1 /\ AbsLine(pos) % NumLines = pos.line
         /\ AbsLine(pos) * PerLine \in Nat
         /\ Version(AbsLine(pos)) = pos.ver
         /\ Offset(pos) = AbsLine(pos) * PerLine + pos.next - 2 /\ Offset(pos) \in Int
         /\ AbsLine(tail) = tail.line
<1>1. PerLine \in Nat \ {0} /\ NumLines \in Nat \ {0} /\ Lines = 0 .. NumLines - 1
  BY Sizes
<1>2. AbsLine(pos) \in 0 .. 2 * NumLines - 1
  BY <1>1 DEF AbsLine
<1>3. pos.line % NumLines = pos.line /\ (pos.line + NumLines) % NumLines = pos.line
  BY <1>1, LineOf
<1>4. AbsLine(pos) % NumLines = pos.line
  <2>1. AbsLine(pos) = pos.line \/ AbsLine(pos) = pos.line + NumLines
    BY <1>1 DEF AbsLine
  <2> QED BY <1>3, <2>1
<1>5. Version(AbsLine(pos)) = pos.ver
  BY <1>1 DEF AbsLine, Version
<1>6. AbsLine(pos) * PerLine \in Nat
  BY <1>1, <1>2
<1>7. AbsLine(tail) = tail.line
  BY <1>1 DEF AbsLine
<1> QED
  BY <1>1, <1>2, <1>4, <1>5, <1>6, <1>7 DEF Offset

\* The types of a few terms, for the lines around the writer.
LEMMA Around ==
  ASSUME LogAssumption, LogTypes, Offset(tail) =< Offset(wr),
         tail.line =< AbsLine(wr), AbsLine(wr) < tail.line + NumLines
  PROVE  /\ AbsLine(wr) \in Nat /\ AbsLine(wr) % NumLines = wr.line
         /\ AbsLine(wr) * PerLine \in Nat /\ tail.line * PerLine \in Nat
         /\ tail.line =< AbsLine(wr)
         /\ Version(AbsLine(wr)) = wr.ver
         /\ Offset(wr) = AbsLine(wr) * PerLine + wr.next - 2 /\ Offset(wr) \in Nat
         /\ Offset(tail) = tail.line * PerLine + tail.next - 2 /\ Offset(tail) \in Nat
         /\ tail.line \in Nat /\ tail.next \in 2 .. LineSize - 1 /\ wr.next \in 2 .. LineSize
         /\ tail.line \in Lines /\ wr.line \in Lines
         /\ \A m \in tail.line .. AbsLine(wr) : m % NumLines = wr.line => m = AbsLine(wr)
         /\ \A m \in tail.line .. AbsLine(wr) : m % NumLines \in Lines
<1>1. /\ PerLine \in Nat \ {0} /\ LineSize = PerLine + 2
      /\ NumLines \in Nat \ {0} /\ Lines = 0 .. NumLines - 1
  BY Sizes
<1>2. /\ wr.ver \in {0, 1} /\ wr.line \in Lines /\ wr.next \in 2 .. LineSize
      /\ tail.ver \in {0, 1} /\ tail.line \in Lines /\ tail.next \in 2 .. LineSize - 1
  BY DEF LogTypes
<1>3. wr.next \in Int /\ tail.next \in Int
  BY <1>1, <1>2
<1>4. /\ AbsLine(wr) \in 0 .. 2 * NumLines - 1 /\ AbsLine(wr) % NumLines = wr.line
      /\ AbsLine(wr) * PerLine \in Nat
      /\ Version(AbsLine(wr)) = wr.ver
      /\ Offset(wr) = AbsLine(wr) * PerLine + wr.next - 2
  BY <1>2, <1>3, Positions
<1>5. /\ AbsLine(tail) = tail.line /\ tail.line * PerLine \in Nat
      /\ Offset(tail) = tail.line * PerLine + tail.next - 2
  BY <1>2, <1>3, Positions
<1>6. tail.line \in Nat /\ AbsLine(wr) \in Nat
  BY <1>1, <1>2, <1>4
<1>8. \A m \in tail.line .. AbsLine(wr) : m % NumLines = wr.line => m = AbsLine(wr)
  <2> SUFFICES ASSUME NEW m \in tail.line .. AbsLine(wr), m % NumLines = wr.line
               PROVE  m = AbsLine(wr)
    OBVIOUS
  <2>1. m \in Int /\ AbsLine(wr) \in Int /\ m % NumLines = AbsLine(wr) % NumLines
    BY <1>4, <1>6
  <2>2. m - AbsLine(wr) < NumLines /\ AbsLine(wr) - m < NumLines
    BY <1>1, <1>6, <2>1
  <2> QED BY <1>1, <2>1, <2>2, SameLine
<1>9. \A m \in tail.line .. AbsLine(wr) : m % NumLines \in Lines
  BY <1>1, <1>6
<1>7. Offset(wr) \in Nat /\ Offset(tail) \in Nat
  BY <1>2, <1>3, <1>4, <1>5
<1> QED
  BY <1>2, <1>4, <1>5, <1>6, <1>7, <1>8, <1>9

-----------------------------------------------------------------------------
\* The log bytes of a line that is not wr's, or in front of wr, stay.
LEMMA StillCopied ==
  ASSUME LogAssumption, NEW h, LogTypes, Copied(h),
         tail' = tail, AbsLine(wr)' = AbsLine(wr), Offset(wr)' = Offset(wr),
         \A l \in Lines : l # wr.line => area'[l] = area[l],
         \A b \in 2 .. LineSize - 1 : b < wr.next => area'[wr.line].byte[b] = area[wr.line].byte[b]
  PROVE  Copied(h)'
<1> DEFINE w == AbsLine(wr)
<1>1. /\ PerLine \in Nat \ {0} /\ LineSize = PerLine + 2
      /\ NumLines \in Nat \ {0} /\ Lines = 0 .. NumLines - 1
  BY Sizes
<1>2. /\ w \in Nat /\ w * PerLine \in Nat
      /\ Offset(wr) = w * PerLine + wr.next - 2
      /\ tail.line \in Nat /\ wr.next \in 2 .. LineSize
      /\ \A m \in tail.line .. w : m % NumLines = wr.line => m = w
      /\ \A m \in tail.line .. w : m % NumLines \in Lines
  BY Around DEF Copied
<1>3. Offset(tail)' = Offset(tail) /\ AbsLine(tail)' = AbsLine(tail) /\ (\A m : Version(m)' = Version(m))
  BY DEF Offset, AbsLine, Version
<1>4. ASSUME NEW m \in tail.line .. w, NEW b \in 2 .. LineSize - 1,
             Offset(tail) =< Place(m, b), Place(m, b) < Offset(wr)
      PROVE  area'[m % NumLines].byte[b] = h.byte[Place(m, b)]
  <2>1. area[m % NumLines].byte[b] = h.byte[Place(m, b)]
    BY <1>4 DEF Copied
  <2>2. CASE m % NumLines = wr.line
    <3>1. m = w
      BY <1>2, <2>2
    <3>2. b < wr.next
      <4>1. w * PerLine + b - 2 < w * PerLine + wr.next - 2
        BY <1>2, <1>4, <3>1 DEF Place
      <4> QED BY <1>1, <1>2, <4>1
    <3> QED BY <2>1, <2>2, <3>2
  <2>3. CASE m % NumLines # wr.line
    BY <1>2, <2>1, <2>3
  <2> QED BY <2>2, <2>3
<1>5. ASSUME NEW m \in tail.line .. w - 1
      PROVE  area'[m % NumLines].ok /\ area'[m % NumLines].ver = Version(m)
  <2>1. m \in tail.line .. w /\ m # w
    BY <1>2
  <2>2. area'[m % NumLines] = area[m % NumLines]
    BY <1>2, <2>1
  <2> QED BY <2>2 DEF Copied
<1>6. /\ Offset(tail) =< Offset(wr) /\ tail.line =< w /\ w < tail.line + NumLines
  BY DEF Copied
<1> HIDE DEF w
<1>7. \A m, b : Place(m, b)' = Place(m, b)
  BY DEF Place
<1> QED
  BY <1>3, <1>4, <1>5, <1>6, <1>7 DEF Copied, w

\* What the stores to a line make of it.
LEMMA SetBytesIs ==
  ASSUME LogAssumption, NEW line \in LineType, NEW bytes, \A i \in DOMAIN bytes : bytes[i] \in Int
  PROVE  /\ SetBytes(line, bytes).ver = line.ver /\ SetBytes(line, bytes) \in LineType
         /\ \A i \in 1 .. LineSize - 1 :
               SetBytes(line, bytes).byte[i] = IF i \in DOMAIN bytes THEN bytes[i] ELSE line.byte[i]
<1> DEFINE new == [i \in 1 .. LineSize - 1 |-> IF i \in DOMAIN bytes THEN bytes[i] ELSE line.byte[i]]
<1>1. line.byte \in [1 .. LineSize - 1 -> Int] /\ line.ver \in {0, 1}
      /\ line = [ver |-> line.ver, ok |-> line.ok, byte |-> line.byte]
  BY DEF LineType
<1>2. new \in [1 .. LineSize - 1 -> Int]
  BY <1>1
<1>3. [i \in DOMAIN line.byte |-> IF i \in DOMAIN bytes THEN bytes[i] ELSE line.byte[i]] = new
  BY <1>1
<1>4. SetBytes(line, bytes) = [[line EXCEPT !.ok = FALSE] EXCEPT !.byte = new]
  BY <1>3 DEF SetBytes
<1> HIDE DEF new
<1>5. SetBytes(line, bytes) = [ver |-> line.ver, ok |-> FALSE, byte |-> new]
  BY <1>1, <1>4
<1>6. SetBytes(line, bytes) \in LineType
  BY <1>1, <1>2, <1>5 DEF LineType
<1> QED
  BY <1>1, <1>2, <1>5, <1>6 DEF new

\* setByteOne completes the line, with the version of the writer, and leaves its
\* log bytes.
LEMMA SealedIs ==
  ASSUME LogAssumption, NEW line \in LineType, wr.ver \in {0, 1}, wr.off \in Int
  PROVE  /\ Sealed(line) \in LineType /\ Sealed(line).ok /\ Sealed(line).ver = wr.ver
         /\ \A i \in 2 .. LineSize - 1 : Sealed(line).byte[i] = line.byte[i]
<1>1. LineSize \in Nat /\ LineSize >= 3
  BY Sizes
<1>2. line.byte \in [1 .. LineSize - 1 -> Int]
  BY DEF LineType
<1>3. [line.byte EXCEPT ![1] = wr.off] \in [1 .. LineSize - 1 -> Int]
  BY <1>2
<1>4. \A i \in 2 .. LineSize - 1 : [line.byte EXCEPT ![1] = wr.off][i] = line.byte[i]
  BY <1>1, <1>2
<1> QED
  BY <1>3, <1>4 DEF Sealed, LineType

\* flushLog (nvm-common.h:438) leaves the row as it is, and the line it seals is
\* complete.
LEMMA FlushKeeps ==
  ASSUME LogAssumption, NEW h, LogTypes, Copied(h), ToCopy(h), FlushLog, UNCHANGED <<tail, tx>>
  PROVE  /\ LogTypes' /\ Copied(h)' /\ ToCopy(h)' /\ Offset(wr)' = Offset(wr) /\ End(h)' = End(h)
         /\ todo = <<>> /\ wr.next < LineSize
         /\ wr.next > 2 => area'[wr.line].ok /\ area'[wr.line].ver = wr.ver
         /\ wr' = wr /\ todo' = todo /\ mid' = mid
         /\ (DOMAIN nvm = Lines => DOMAIN nvm' = Lines)
<1>0. /\ PerLine \in Nat \ {0} /\ LineSize = PerLine + 2
      /\ NumLines \in Nat \ {0} /\ Lines = 0 .. NumLines - 1
  BY Sizes
<1>1. wr' = wr /\ todo' = todo /\ mid' = mid /\ todo = <<>> /\ wr.next < LineSize
  BY DEF FlushLog, Written
<1>2. /\ wr.line \in Lines /\ wr.next \in 2 .. LineSize /\ wr.ver \in {0, 1}
      /\ wr.off \in {0} \cup 2 .. LineSize - 1
      /\ area \in [Lines -> LineType]
  BY DEF LogTypes
<1> DEFINE line == area[wr.line]
           zero == [i \in {wr.next} |-> NL_INVALID]
           filled == SetBytes(line, zero)
<1>3. line \in LineType /\ wr.off \in Int
  BY <1>0, <1>2
<1>4. /\ filled \in LineType
      /\ \A i \in 1 .. LineSize - 1 : i # wr.next => filled.byte[i] = line.byte[i]
  <2>1. DOMAIN zero = {wr.next} /\ \A i \in DOMAIN zero : zero[i] \in Int
    BY DEF NL_INVALID
  <2> HIDE DEF zero
  <2> QED BY <1>3, <2>1, SetBytesIs
<1>5. /\ Sealed(filled) \in LineType
      /\ Sealed(filled).ok /\ Sealed(filled).ver = wr.ver
      /\ \A i \in 2 .. LineSize - 1 : Sealed(filled).byte[i] = filled.byte[i]
  BY <1>2, <1>3, <1>4, SealedIs
<1>6. wr.next > 2 => area' = [area EXCEPT ![wr.line] = Sealed(filled)]
  BY DEF FlushLog
<1>7. ~(wr.next > 2) => area' = area
  BY DEF FlushLog
<1> HIDE DEF filled
<1>8. /\ \A l \in Lines : l # wr.line => area'[l] = area[l]
      /\ \A b \in 2 .. LineSize - 1 : b < wr.next => area'[wr.line].byte[b] = area[wr.line].byte[b]
      /\ area' \in [Lines -> LineType]
      /\ wr.next > 2 => area'[wr.line].ok /\ area'[wr.line].ver = wr.ver
  <2>1. CASE wr.next > 2
    <3>1. area'[wr.line] = Sealed(filled) /\ area' \in [Lines -> LineType]
      BY <1>2, <1>5, <1>6, <2>1
    <3>2. \A l \in Lines : l # wr.line => area'[l] = area[l]
      BY <1>2, <1>6, <2>1
    <3>3. ASSUME NEW b \in 2 .. LineSize - 1, b < wr.next
          PROVE  area'[wr.line].byte[b] = area[wr.line].byte[b]
      <4>1. b \in 1 .. LineSize - 1 /\ b # wr.next
        BY <1>0, <1>2, <3>3
      <4> QED BY <1>4, <1>5, <3>1, <4>1
    <3> QED BY <1>5, <3>1, <3>2, <3>3
  <2>2. CASE ~(wr.next > 2)
    BY <1>7, <1>2, <2>2
  <2> QED BY <2>1, <2>2
<1>9. AbsLine(wr)' = AbsLine(wr) /\ Offset(wr)' = Offset(wr)
  BY <1>1 DEF AbsLine, Offset
<1>10. Copied(h)'
  BY <1>8, <1>9, StillCopied
<1>11. LogTypes'
  BY <1>1, <1>8 DEF LogTypes
<1>12. ToCopy(h)' /\ End(h)' = End(h)
  BY <1>1, <1>9 DEF ToCopy, End
<1>13. DOMAIN nvm = Lines => DOMAIN nvm' = Lines
  BY DEF FlushLog
<1> QED
  BY <1>1, <1>8, <1>9, <1>10, <1>11, <1>12, <1>13

\* The row ends where the writer is, or behind it when there is more to copy.
LEMMA EndBehind ==
  ASSUME NEW h, LogTypes, ToCopy(h)
  PROVE  /\ Offset(wr) =< End(h) /\ End(h) \in Int /\ Offset(wr) \in Int
         /\ todo = <<>> => End(h) = Offset(wr)
<1>1. Len(todo) \in Nat
  BY DEF LogTypes
<1>2. 1 \in 1 .. Len(todo) + 1 /\ Len(todo) + 1 \in 1 .. Len(todo) + 1
  BY <1>1
<1> QED
  BY <1>1, <1>2 DEF ToCopy, End

\* completeLine2Log (nvm-common.h:390) goes to the next line of the row; since the
\* row does not reach its own beginning, no byte of it is overwritten.
LEMMA CompleteKeeps ==
  ASSUME LogAssumption, NEW h, LogTypes, Copied(h), ToCopy(h), CompleteLine2Log, UNCHANGED <<tail, tx>>,
         End(h) + 1 =< Limit
  PROVE  /\ LogTypes' /\ Copied(h)' /\ ToCopy(h)' /\ Offset(wr)' = Offset(wr) /\ End(h)' = End(h)
         /\ wr'.next = 2 /\ (DOMAIN nvm = Lines => DOMAIN nvm' = Lines)
<1> DEFINE w == AbsLine(wr)
<1>0. /\ PerLine \in Nat \ {0} /\ LineSize = PerLine + 2
      /\ NumLines \in Nat \ {0} /\ Lines = 0 .. NumLines - 1
  BY Sizes
<1>1. wr.next = LineSize /\ wr' = NextLine(wr) /\ todo' = todo /\ mid' = mid
      /\ area' = [area EXCEPT ![wr.line] = Sealed(area[wr.line])]
  BY DEF CompleteLine2Log
<1>2. /\ wr.line \in Lines /\ wr.next \in 2 .. LineSize /\ wr.ver \in {0, 1}
      /\ wr.off \in {0} \cup 2 .. LineSize - 1
      /\ area \in [Lines -> LineType]
  BY DEF LogTypes
<1>3. wr.off \in Int
  BY <1>0, <1>2
<1>4. /\ w \in Nat /\ w * PerLine \in Nat /\ Version(w) = wr.ver /\ w % NumLines = wr.line
      /\ Offset(wr) = w * PerLine + wr.next - 2
      /\ tail.line \in Nat /\ wr.next \in 2 .. LineSize /\ tail.line \in Lines
      /\ tail.line * PerLine \in Nat
      /\ \A m \in tail.line .. w : m % NumLines = wr.line => m = w
      /\ \A m \in tail.line .. w : m % NumLines \in Lines
  BY Around DEF Copied
<1>5. tail.line =< w /\ w < tail.line + NumLines /\ Offset(tail) =< Offset(wr)
  BY DEF Copied
<1>6. Offset(wr) =< End(h) /\ End(h) \in Int
  BY EndBehind
<1>7. (w + 1) * PerLine = w * PerLine + PerLine
  BY <1>0, <1>4
<1>8. w + 1 < tail.line + NumLines
  <2> HIDE DEF w
  <2>2. w \in Int /\ tail.line \in Int /\ NumLines \in Int
    BY <1>0, <1>4
  <2> SUFFICES ASSUME w + 1 = tail.line + NumLines PROVE FALSE
    BY <1>5, <2>2
  <2>1. (tail.line + NumLines) * PerLine = w * PerLine + PerLine
    BY <1>7
  <2> QED BY <1>0, <1>1, <1>4, <1>6, <2>1 DEF Limit
<1>9. /\ AbsLine(wr)' = w + 1 /\ wr'.next = 2
      /\ wr' \in [ver : {0, 1}, off : {0} \cup 2 .. LineSize - 1, line : Lines, next : 2 .. LineSize]
  <2>1. tail.ver \in {0, 1}
    BY DEF LogTypes
  <2>2. CASE wr.line + 1 < NumLines
    <3>1. wr' = [ver |-> wr.ver, off |-> 0, line |-> wr.line + 1, next |-> 2]
      BY <1>1, <2>2 DEF NextLine
    <3>2. AbsLine(wr)' = w + 1
      BY <1>0, <1>2, <3>1 DEF AbsLine
    <3> QED BY <1>0, <1>2, <2>2, <3>1, <3>2
  <2>3. CASE ~(wr.line + 1 < NumLines)
    <3>1. wr' = [ver |-> 1 - wr.ver, off |-> 0, line |-> 0, next |-> 2]
      BY <1>1, <2>3 DEF NextLine, PrepareLogForWriting
    <3>2. wr.line = NumLines - 1
      BY <1>0, <1>2, <2>3
    <3>3. wr.ver = tail.ver
      <4> SUFFICES ASSUME wr.ver # tail.ver PROVE FALSE
        OBVIOUS
      <4>1. w = wr.line + NumLines
        BY DEF AbsLine
      <4>0. NumLines \in Nat /\ tail.line \in 0 .. NumLines - 1
        BY <1>0, <1>4
      <4>2. NumLines \in Nat /\ tail.line \in Nat /\ tail.line < NumLines
        BY ONLY <4>0
      <4>3. (NumLines - 1) + NumLines + 1 < tail.line + NumLines
        BY <1>8, <3>2, <4>1
      <4> HIDE DEF w
      <4> QED BY ONLY <4>2, <4>3
    <3>4. AbsLine(wr)' = w + 1
      BY <1>0, <1>2, <3>1, <3>2, <3>3 DEF AbsLine
    <3> QED BY <1>0, <1>2, <3>1, <3>4
  <2> QED BY <2>2, <2>3
<1>10. Offset(wr)' = Offset(wr)
  <2>1. PerLine' = PerLine /\ Offset(wr)' = AbsLine(wr)' * PerLine + wr'.next - 2
    BY DEF Offset, PerLine
  <2> QED BY <1>0, <1>1, <1>4, <1>7, <1>9, <2>1
<1>11. /\ Sealed(area[wr.line]) \in LineType
       /\ Sealed(area[wr.line]).ok /\ Sealed(area[wr.line]).ver = wr.ver
       /\ \A i \in 2 .. LineSize - 1 : Sealed(area[wr.line]).byte[i] = area[wr.line].byte[i]
  <2>1. area[wr.line] \in LineType
    BY <1>2
  <2> QED BY <1>2, <1>3, <2>1, SealedIs
<1>12. /\ area' \in [Lines -> LineType]
       /\ \A l \in Lines : l # wr.line => area'[l] = area[l]
       /\ area'[wr.line] = Sealed(area[wr.line])
  BY <1>1, <1>2, <1>11
<1>13. LogTypes'
  BY <1>1, <1>9, <1>12 DEF LogTypes
<1>14. Offset(tail)' = Offset(tail) /\ (\A m : Version(m)' = Version(m))
  BY DEF Offset, AbsLine, Version
<1> HIDE DEF w
<1>15. ASSUME NEW m \in tail.line .. w + 1, NEW b \in 2 .. LineSize - 1,
              Offset(tail) =< Place(m, b), Place(m, b) < Offset(wr)
       PROVE  area'[m % NumLines].byte[b] = h.byte[Place(m, b)]
  <2>1. m \in tail.line .. w
    <3> SUFFICES ASSUME m = w + 1 PROVE FALSE
      BY <1>4
    <3> QED BY <1>0, <1>1, <1>4, <1>7, <1>15 DEF Place
  <2>2. area[m % NumLines].byte[b] = h.byte[Place(m, b)]
    BY <1>15, <2>1 DEF Copied, w
  <2>3. area'[m % NumLines].byte[b] = area[m % NumLines].byte[b]
    <3>1. m % NumLines \in Lines
      BY <1>4, <2>1
    <3>2. CASE m % NumLines = wr.line
      BY <1>11, <1>12, <3>2
    <3>3. CASE m % NumLines # wr.line
      BY <1>12, <3>1, <3>3
    <3> QED BY <3>2, <3>3
  <2> QED BY <2>2, <2>3
<1>16. ASSUME NEW m \in tail.line .. w
       PROVE  area'[m % NumLines].ok /\ area'[m % NumLines].ver = Version(m)
  <2>1. CASE m = w
    BY <1>4, <1>11, <1>12, <2>1
  <2>2. CASE m # w
    <3>1. m \in tail.line .. w - 1 /\ m % NumLines \in Lines /\ m % NumLines # wr.line
      BY <1>4, <2>2
    <3>2. area[m % NumLines].ok /\ area[m % NumLines].ver = Version(m)
      BY <3>1 DEF Copied, w
    <3> QED BY <1>12, <3>1, <3>2
  <2> QED BY <2>1, <2>2
<1>17. \A m, b : Place(m, b)' = Place(m, b)
  BY DEF Place
<1>18. w + 1 - 1 = w
  BY <1>4
<1>19. Copied(h)'
  BY <1>5, <1>8, <1>9, <1>10, <1>14, <1>15, <1>16, <1>17, <1>18, <1>4 DEF Copied
<1>20. ToCopy(h)' /\ End(h)' = End(h)
  BY <1>1, <1>10 DEF ToCopy, End
<1>21. DOMAIN nvm = Lines => DOMAIN nvm' = Lines
  BY DEF CompleteLine2Log
<1> QED
  BY <1>9, <1>10, <1>13, <1>19, <1>20, <1>21

\* What CopyToLine leaves of todo, and where it goes.
Copies == LET rec == Head(todo)
          IN IF Len(rec) < LineSize - wr.next THEN Len(rec) ELSE LineSize - wr.next

\* The account after it.
CopiedTo(h, g) ==
    /\ g.byte = h.byte
    /\ g.td = [q \in 1 .. Len(todo') + 1 |->
                 IF q = 1 THEN Offset(wr) + Copies ELSE IF mid' THEN h.td[q] ELSE h.td[q + 1]]

\* A step of writeLog (nvm-common.h:415) copies the next bytes of the row to where
\* they belong, up to the end of the line.
LEMMA CopyKeeps ==
  ASSUME LogAssumption, NEW h, NEW g, LogTypes, Copied(h), ToCopy(h), CopyToLine, UNCHANGED <<tail, tx>>,
         CopiedTo(h, g)
  PROVE  /\ LogTypes' /\ Copied(g)' /\ ToCopy(g)' /\ End(g)' = End(h)
         /\ Offset(wr) =< Offset(wr)' /\ Offset(wr)' \in Int
         /\ todo # <<>> /\ wr'.next >= wr.next
         /\ (\A q \in 1 .. Len(todo) : todo[q] # <<>>) =>
               wr'.next > 2 /\ \A q \in 1 .. Len(todo') : todo'[q] # <<>>
<1> DEFINE w == AbsLine(wr)
           rec == Head(todo)
           n == Copies
<1>0. /\ PerLine \in Nat \ {0} /\ LineSize = PerLine + 2
      /\ NumLines \in Nat \ {0} /\ Lines = 0 .. NumLines - 1
  BY Sizes
<1>1. /\ wr.line \in Lines /\ wr.next \in 2 .. LineSize /\ wr.ver \in {0, 1}
      /\ wr.off \in {0} \cup 2 .. LineSize - 1
      /\ area \in [Lines -> LineType] /\ todo \in Seq(Seq(Int))
      /\ wr \in [ver : {0, 1}, off : {0} \cup 2 .. LineSize - 1, line : Lines, next : 2 .. LineSize]
  BY DEF LogTypes
<1>1a. wr.next \in Nat /\ LineSize \in Nat /\ PerLine \in Nat /\ wr.next >= 2
  BY <1>0, <1>1
<1>2. todo # <<>> /\ wr.next < LineSize
  BY DEF CopyToLine
<1>3. /\ w \in Nat /\ w * PerLine \in Nat /\ Version(w) = wr.ver /\ w % NumLines = wr.line
      /\ Offset(wr) = w * PerLine + wr.next - 2 /\ Offset(wr) \in Nat
      /\ tail.line \in Nat
      /\ \A m \in tail.line .. w : m % NumLines = wr.line => m = w
      /\ \A m \in tail.line .. w : m % NumLines \in Lines
  BY Around DEF Copied
<1>4. tail.line =< w /\ w < tail.line + NumLines /\ Offset(tail) =< Offset(wr)
  BY DEF Copied
<1>5. rec \in Seq(Int) /\ Len(rec) \in Nat /\ Len(todo) \in Nat \ {0} /\ rec = todo[1]
  BY <1>1, <1>2
<1>6. /\ n \in Nat /\ n =< Len(rec) /\ wr.next + n =< LineSize
      /\ n < Len(rec) => wr.next + n = LineSize
  BY <1>0, <1>1, <1>2, <1>5 DEF Copies
<1> HIDE DEF n
<1>7. /\ area' = [area EXCEPT ![wr.line] =
                    SetBytes(@, [i \in wr.next .. wr.next + n - 1 |-> rec[i - wr.next + 1]])]
      /\ wr' = [wr EXCEPT !.next = @ + n, !.off = IF @ = 0 /\ ~mid THEN wr.next ELSE @]
      /\ mid' = (n < Len(rec))
      /\ todo' = IF mid' THEN <<SubSeq(rec, n + 1, Len(rec))>> \o Tail(todo) ELSE Tail(todo)
  BY DEF CopyToLine, Copies, n
<1> DEFINE bytes == [i \in wr.next .. wr.next + n - 1 |-> rec[i - wr.next + 1]]
<1>8. /\ DOMAIN bytes = wr.next .. wr.next + n - 1
      /\ \A i \in DOMAIN bytes : bytes[i] = rec[i - wr.next + 1] /\ bytes[i] \in Int
  <2>1. DOMAIN bytes = wr.next .. wr.next + n - 1
    OBVIOUS
  <2>2. ASSUME NEW i \in wr.next .. wr.next + n - 1
        PROVE  bytes[i] = rec[i - wr.next + 1] /\ bytes[i] \in Int
    <3>1. i - wr.next + 1 \in 1 .. Len(rec)
      <4>1. i \in Int /\ wr.next =< i /\ i =< wr.next + n - 1
        BY <1>1a, <1>6
      <4>2. Len(rec) \in Nat /\ n \in Nat /\ n =< Len(rec)
        BY <1>5, <1>6
      <4>3. PICK at, l, e : at = wr.next /\ l = Len(rec) /\ e = n
        OBVIOUS
      <4>4. i \in Int /\ at =< i /\ i =< at + e - 1 /\ at \in Int /\ l \in Nat /\ e \in Nat /\ e =< l
        BY ONLY <1>1a, <4>1, <4>2, <4>3
      <4>5. i - at + 1 \in 1 .. l
        BY ONLY <4>4
      <4> QED BY ONLY <4>3, <4>5
    <3>2. rec[i - wr.next + 1] \in Int
      BY <1>5, <3>1
    <3> QED BY <3>2
  <2> HIDE DEF bytes
  <2> QED BY <2>1, <2>2
<1> HIDE DEF bytes
<1>9. /\ SetBytes(area[wr.line], bytes) \in LineType
      /\ \A i \in 1 .. LineSize - 1 : SetBytes(area[wr.line], bytes).byte[i] =
             IF i \in wr.next .. wr.next + n - 1 THEN rec[i - wr.next + 1] ELSE area[wr.line].byte[i]
  <2>1. area[wr.line] \in LineType
    BY <1>1
  <2>2. /\ SetBytes(area[wr.line], bytes) \in LineType
        /\ \A i \in 1 .. LineSize - 1 : SetBytes(area[wr.line], bytes).byte[i] =
               IF i \in DOMAIN bytes THEN bytes[i] ELSE area[wr.line].byte[i]
    BY <1>8, <2>1, SetBytesIs
  <2> QED BY <1>8, <2>2
<1>10. /\ area' \in [Lines -> LineType]
       /\ \A l \in Lines : l # wr.line => area'[l] = area[l]
       /\ area'[wr.line] = SetBytes(area[wr.line], bytes)
  BY <1>1, <1>7, <1>9 DEF bytes
<1>11. /\ wr' \in [ver : {0, 1}, off : {0} \cup 2 .. LineSize - 1, line : Lines, next : 2 .. LineSize]
       /\ wr'.next = wr.next + n /\ wr'.line = wr.line /\ wr'.ver = wr.ver
  <2>1. wr.next + n \in 2 .. LineSize
    BY <1>0, <1>1, <1>6
  <2>2. (IF wr.off = 0 /\ ~mid THEN wr.next ELSE wr.off) \in {0} \cup 2 .. LineSize - 1
    BY <1>0, <1>1, <1>2
  <2> QED BY <1>1, <1>7, <2>1, <2>2
<1>12. AbsLine(wr)' = w /\ Offset(wr)' = Offset(wr) + n
  <2>1. AbsLine(wr)' = w
    BY <1>11 DEF AbsLine
  <2>2. PerLine' = PerLine /\ Offset(wr)' = AbsLine(wr)' * PerLine' + wr'.next - 2
    BY DEF Offset, PerLine
  <2>3. Offset(wr)' = w * PerLine + (wr.next + n) - 2
    BY <1>11, <2>1, <2>2
  <2> DEFINE x == w * PerLine
  <2>4. x \in Nat /\ Offset(wr) = x + wr.next - 2 /\ Offset(wr)' = x + (wr.next + n) - 2
    BY <1>3, <2>3
  <2> HIDE DEF x
  <2>5. Offset(wr)' = Offset(wr) + n
    BY <1>1a, <1>6, <2>4
  <2> QED BY <2>1, <2>5
<1>13. /\ mid' \in BOOLEAN /\ todo' \in Seq(Seq(Int))
       /\ mid' => /\ Len(todo') = Len(todo)
                  /\ \A q \in 2 .. Len(todo) : todo'[q] = todo[q]
                  /\ Len(todo'[1]) = Len(rec) - n
                  /\ \A j \in 1 .. Len(rec) - n : todo'[1][j] = rec[j + n]
       /\ ~mid' => /\ Len(todo') = Len(todo) - 1 /\ n = Len(rec)
                   /\ \A q \in 1 .. Len(todo) - 1 : todo'[q] = todo[q + 1]
  <2>1. /\ Tail(todo) \in Seq(Seq(Int)) /\ Len(Tail(todo)) = Len(todo) - 1
        /\ \A q \in 1 .. Len(todo) - 1 : Tail(todo)[q] = todo[q + 1]
    BY <1>1, <1>2
  <2>2. CASE n < Len(rec)
    <3> DEFINE rest == SubSeq(rec, n + 1, Len(rec))
    <3>0. rec \in Seq(Int) /\ Len(rec) \in Nat /\ n \in Nat /\ n =< Len(rec)
      BY <1>5, <1>6
    <3>1. /\ rest \in Seq(Int) /\ Len(rest) = Len(rec) - n
          /\ \A j \in 1 .. Len(rec) - n : rest[j] = rec[j + n]
      <4>1. PICK r, c : r = rec /\ c = n
        OBVIOUS
      <4>2. r \in Seq(Int) /\ Len(r) \in Nat /\ c \in Nat /\ c < Len(r)
        BY ONLY <2>2, <3>0, <4>1
      <4>3. /\ SubSeq(r, c + 1, Len(r)) \in Seq(Int) /\ Len(SubSeq(r, c + 1, Len(r))) = Len(r) - c
            /\ \A j \in 1 .. Len(r) - c : SubSeq(r, c + 1, Len(r))[j] = r[j + c]
        BY ONLY <4>2
      <4> QED BY ONLY <4>1, <4>3 DEF rest
    <3> HIDE DEF rest
    <3>2. todo' = <<rest>> \o Tail(todo)
      BY <1>7, <2>2 DEF rest
    <3>3. /\ todo' \in Seq(Seq(Int)) /\ Len(todo') = Len(todo) /\ todo'[1] = rest
          /\ \A q \in 2 .. Len(todo) : todo'[q] = Tail(todo)[q - 1]
      BY ONLY <1>5, <2>1, <3>1, <3>2
    <3>4. ASSUME NEW q \in 2 .. Len(todo) PROVE todo'[q] = todo[q]
      <4>1. q - 1 \in 1 .. Len(todo) - 1 /\ (q - 1) + 1 = q
        BY <1>5
      <4>2. todo'[q] = Tail(todo)[q - 1]
        BY <3>3
      <4>3. Tail(todo)[q - 1] = todo[(q - 1) + 1]
        BY <2>1, <4>1
      <4> QED BY <4>1, <4>2, <4>3
    <3> QED BY <1>7, <2>2, <3>1, <3>3, <3>4
  <2>3. CASE ~(n < Len(rec))
    <3>0. ~mid'
      BY <1>7, <2>3
    <3>2. n = Len(rec)
      BY <1>5, <1>6, <2>3
    <3>1. todo' = Tail(todo) /\ n = Len(rec)
      BY <1>7, <3>0, <3>2
    <3>3. /\ Len(todo') = Len(todo) - 1 /\ todo' \in Seq(Seq(Int))
          /\ \A q \in 1 .. Len(todo) - 1 : todo'[q] = todo[q + 1]
      BY <2>1, <3>1
    <3>4. mid' \in BOOLEAN
      BY <1>7
    <3> HIDE DEF rec
    <3> QED BY <3>0, <3>2, <3>3, <3>4
  <2> QED BY <2>2, <2>3
<1>14. LogTypes'
  BY <1>10, <1>11, <1>13 DEF LogTypes
<1>15. /\ h.td[1] = Offset(wr) /\ h.td[2] = Offset(wr) + Len(rec)
       /\ \A j \in 1 .. Len(rec) : rec[j] = h.byte[Offset(wr) + j - 1]
  <2>1. 1 \in 1 .. Len(todo) /\ 1 + 1 = 2
    BY <1>5
  <2>2. h.td[1 + 1] = h.td[1] + Len(todo[1]) /\ h.td[1] = Offset(wr)
    BY <2>1 DEF ToCopy
  <2>3. \A j \in 1 .. Len(todo[1]) : todo[1][j] = h.byte[h.td[1] + j - 1]
    BY <2>1 DEF ToCopy
  <2> QED BY <1>5, <2>1, <2>2, <2>3
<1> HIDE DEF w, rec
<1>18a. g.byte = h.byte
  BY DEF CopiedTo
<1>16. Copied(g)'
  <2>1. Offset(tail)' = Offset(tail) /\ (\A m : Version(m)' = Version(m))
        /\ (\A m, b : Place(m, b)' = Place(m, b))
    BY DEF Offset, AbsLine, Version, Place
  <2>2. ASSUME NEW m \in tail.line .. w, NEW b \in 2 .. LineSize - 1,
               Offset(tail) =< Place(m, b), Place(m, b) < Offset(wr) + n
        PROVE  area'[m % NumLines].byte[b] = h.byte[Place(m, b)]
    <3>1. m \in Nat /\ b \in Nat /\ m * PerLine \in Nat /\ Place(m, b) = m * PerLine + b - 2
      BY <1>0, <1>3 DEF Place
    <3>2. CASE m = w /\ b >= wr.next
      <4>1. b \in wr.next .. wr.next + n - 1 /\ b - wr.next + 1 \in 1 .. Len(rec)
            /\ Place(m, b) = Offset(wr) + (b - wr.next + 1) - 1
        <5>1. w * PerLine + b - 2 < w * PerLine + wr.next - 2 + n
          BY <1>3, <2>2, <3>1, <3>2
        <5>2. b \in wr.next .. wr.next + n - 1
          <6>1. b < wr.next + n
            <7> DEFINE x == w * PerLine
            <7>1. x \in Nat
              BY <1>3
            <7>2. b \in Nat /\ wr.next \in Nat /\ n \in Nat
              BY <1>1a, <1>6, <3>1
            <7>3. x + b - 2 < x + wr.next - 2 + n
              BY <5>1
            <7> HIDE DEF x
            <7> QED BY ONLY <7>1, <7>2, <7>3
          <6> QED BY <1>1a, <1>6, <3>1, <3>2, <6>1
        <5>3. Place(m, b) = Offset(wr) + (b - wr.next + 1) - 1
          BY <1>1a, <1>3, <3>1, <3>2
        <5>4. b - wr.next + 1 \in 1 .. Len(rec)
          <6>1. b \in Int /\ wr.next =< b /\ b =< wr.next + n - 1
            BY <1>1a, <1>6, <5>2
          <6>2. Len(rec) \in Nat /\ n \in Nat /\ n =< Len(rec)
            BY <1>5, <1>6
          <6> QED BY <1>1a, <6>1, <6>2
        <5> QED BY <5>2, <5>3, <5>4
      <4>2. area'[m % NumLines].byte[b] = rec[b - wr.next + 1]
        <5>1. b \in 1 .. LineSize - 1
          BY <1>1a, <3>1
        <5> QED BY <1>3, <1>9, <1>10, <3>2, <4>1, <5>1
      <4> QED BY <1>15, <4>1, <4>2
    <3>3. CASE ~(m = w /\ b >= wr.next)
      <4>1. Place(m, b) < Offset(wr)
        <5>1. CASE m = w
          BY <1>0, <1>1, <1>3, <3>1, <3>3, <5>1
        <5>2. CASE m < w
          <6>1. m * PerLine + PerLine =< w * PerLine
            BY <1>0, <1>3, <3>1, <5>2, LinesApart
          <6>2. b - 2 < PerLine
            BY <1>0, <3>1
          <6>3. w * PerLine \in Nat /\ Offset(wr) = w * PerLine + wr.next - 2
            BY <1>3
          <6>4. m * PerLine + b - 2 < w * PerLine
            BY <1>1a, <3>1, <6>1, <6>2, <6>3
          <6> QED BY <1>1a, <3>1, <6>3, <6>4
        <5> QED BY <1>3, <5>1, <5>2
      <4>2. area[m % NumLines].byte[b] = h.byte[Place(m, b)]
        BY <2>2, <4>1 DEF Copied, w
      <4>3. area'[m % NumLines].byte[b] = area[m % NumLines].byte[b]
        <5>1. CASE m = w
          <6>1. b \in 1 .. LineSize - 1 /\ ~(b \in wr.next .. wr.next + n - 1)
            BY <1>0, <1>1, <3>1, <3>3, <5>1
          <6> QED BY <1>3, <1>9, <1>10, <5>1, <6>1
        <5>2. CASE m # w
          BY <1>3, <1>10, <5>2
        <5> QED BY <5>1, <5>2
      <4> QED BY <4>2, <4>3
    <3> QED BY <3>2, <3>3
  <2>3. ASSUME NEW m \in tail.line .. w - 1
        PROVE  area'[m % NumLines].ok /\ area'[m % NumLines].ver = Version(m)
    <3>1. m \in tail.line .. w /\ m # w /\ m % NumLines \in Lines /\ m % NumLines # wr.line
      BY <1>3
    <3>2. area[m % NumLines].ok /\ area[m % NumLines].ver = Version(m)
      BY DEF Copied, w
    <3> QED BY <1>10, <3>1, <3>2
  <2>4. Offset(tail) =< Offset(wr) + n
    <3>1. Offset(tail) \in Int
      BY Around DEF Copied
    <3> QED BY <1>3, <1>4, <1>6, <3>1
  <2> QED
    BY <1>4, <1>12, <1>18a, <2>1, <2>2, <2>3, <2>4 DEF Copied
<1>17. ToCopy(g)' /\ End(g)' = End(h)
  <2>1. /\ \A q \in 1 .. Len(todo) + 1 : h.td[q] \in Int
        /\ \A q, r \in 1 .. Len(todo) + 1 : q =< r => h.td[q] =< h.td[r]
    BY DEF ToCopy
  <2>2. \A q \in 1 .. Len(todo) :
          /\ h.td[q + 1] = h.td[q] + Len(todo[q])
          /\ \A j \in 1 .. Len(todo[q]) : todo[q][j] = h.byte[h.td[q] + j - 1]
    BY DEF ToCopy
  <2>3. \A q \in 2 .. Len(todo) + 1 : Offset(wr) + Len(rec) =< h.td[q]
    <3>1. 2 \in 1 .. Len(todo) + 1 /\ \A q \in 2 .. Len(todo) + 1 : q \in 1 .. Len(todo) + 1 /\ 2 =< q
      BY <1>5
    <3> QED BY <1>15, <2>1, <3>1
  <2>4. ASSUME NEW q \in 2 .. Len(todo) + 1 PROVE Offset(wr) + n =< h.td[q]
    <3>1. q \in 1 .. Len(todo) + 1
      BY <1>5
    <3>2. h.td[q] \in Int /\ Offset(wr) + Len(rec) =< h.td[q]
      BY <2>1, <2>3, <3>1
    <3>3. Offset(wr) \in Nat /\ Len(rec) \in Nat /\ n \in Nat /\ n =< Len(rec)
      BY <1>3, <1>5, <1>6
    <3> QED BY ONLY <3>2, <3>3
  <2>5. CASE mid'
    <3>1. g.td = [q \in 1 .. Len(todo) + 1 |-> IF q = 1 THEN Offset(wr) + n ELSE h.td[q]]
      BY <1>13, <2>5 DEF CopiedTo, n
    <3>2. g.td[1] = Offset(wr) + n /\ \A q \in 2 .. Len(todo) + 1 : g.td[q] = h.td[q]
      BY <1>5, <3>1
    <3>3. End(g)' = End(h)
      <4>1. Len(todo) + 1 \in 2 .. Len(todo) + 1
        BY <1>5
      <4> QED BY <1>13, <2>5, <3>2, <4>1 DEF End
    <3>4. /\ \A q \in 1 .. Len(todo) + 1 : g.td[q] \in Int
          /\ \A q, r \in 1 .. Len(todo) + 1 : q =< r => g.td[q] =< g.td[r]
      <4>1. g.td[1] \in Int /\ \A q \in 2 .. Len(todo) + 1 : g.td[1] =< g.td[q] /\ g.td[q] \in Int
        <5>1. Offset(wr) \in Nat /\ n \in Nat /\ g.td[1] = Offset(wr) + n
          BY <1>3, <1>6, <3>2
        <5>2. g.td[1] \in Int
          BY ONLY <5>1
        <5>3. ASSUME NEW q \in 2 .. Len(todo) + 1
              PROVE  g.td[1] =< g.td[q] /\ g.td[q] \in Int
          <6>1. q \in 1 .. Len(todo) + 1
            BY <1>5
          <6>2. h.td[q] \in Int
            BY <2>1, <6>1
          <6>3. Offset(wr) + n =< h.td[q]
            BY <2>4
          <6>4. g.td[q] = h.td[q]
            BY <3>2
          <6> QED BY ONLY <5>1, <6>2, <6>3, <6>4
        <5> QED BY <5>2, <5>3
      <4>2. \A q \in 1 .. Len(todo) + 1 : q = 1 \/ q \in 2 .. Len(todo) + 1
        BY <1>5
      <4>3. \A q \in 1 .. Len(todo) + 1 : g.td[q] \in Int
        BY <4>1, <4>2
      <4>4. ASSUME NEW q \in 1 .. Len(todo) + 1, NEW r \in 1 .. Len(todo) + 1, q =< r
            PROVE  g.td[q] =< g.td[r]
        <5>1. CASE q = 1
          BY <4>1, <4>2, <5>1
        <5>2. CASE q # 1
          <6>1. q \in 2 .. Len(todo) + 1 /\ r \in 2 .. Len(todo) + 1
            BY <1>5, <4>4, <5>2
          <6> QED BY <2>1, <3>2, <4>4, <6>1
        <5> QED BY <5>1, <5>2
      <4> QED BY <4>3, <4>4
    <3>5. ASSUME NEW q \in 1 .. Len(todo)
          PROVE  /\ g.td[q + 1] = g.td[q] + Len(todo'[q])
                 /\ \A j \in 1 .. Len(todo'[q]) : todo'[q][j] = h.byte[g.td[q] + j - 1]
      <4>1. CASE q = 1
        <5>1. g.td[2] = Offset(wr) + Len(rec)
          BY <1>5, <1>15, <3>2
        <5>2. ASSUME NEW j \in 1 .. Len(rec) - n
              PROVE  todo'[1][j] = h.byte[Offset(wr) + n + j - 1]
          <6>0. Offset(wr) \in Nat /\ Len(rec) \in Nat /\ n \in Nat /\ n =< Len(rec)
            BY <1>3, <1>5, <1>6
          <6>1. j + n \in 1 .. Len(rec) /\ Offset(wr) + (j + n) - 1 = Offset(wr) + n + j - 1
            BY ONLY <6>0
          <6> QED BY <1>13, <1>15, <2>5, <6>1
        <5>3. Len(todo'[1]) = Len(rec) - n /\ Offset(wr) + n + (Len(rec) - n) = Offset(wr) + Len(rec)
          <6>1. Offset(wr) \in Nat /\ Len(rec) \in Nat /\ n \in Nat
            BY <1>3, <1>5, <1>6
          <6>2. Len(todo'[1]) = Len(rec) - n
            BY <1>13, <2>5
          <6> QED BY ONLY <6>1, <6>2
        <5>4. g.td[1 + 1] = Offset(wr) + n + (Len(rec) - n)
          BY <5>1, <5>3
        <5> QED BY <3>2, <4>1, <5>2, <5>3, <5>4
      <4>2. CASE q # 1
        <5>1. q \in 2 .. Len(todo) + 1 /\ q + 1 \in 2 .. Len(todo) + 1 /\ q \in 2 .. Len(todo)
          BY <1>5, <4>2
        <5>2. g.td[q] = h.td[q] /\ g.td[q + 1] = h.td[q + 1] /\ todo'[q] = todo[q]
          BY <1>13, <2>5, <3>2, <5>1
        <5> QED BY <2>2, <5>2
      <4> QED BY <4>1, <4>2
    <3> QED BY <1>12, <1>13, <1>18a, <2>5, <3>2, <3>3, <3>4, <3>5 DEF ToCopy
  <2>6. CASE ~mid'
    <3>1. g.td = [q \in 1 .. Len(todo) |-> IF q = 1 THEN Offset(wr) + n ELSE h.td[q + 1]]
      BY <1>5, <1>13, <2>6 DEF CopiedTo, n
    <3>2. \A q \in 1 .. Len(todo) : g.td[q] = h.td[q + 1]
      BY <1>5, <1>13, <1>15, <2>6, <3>1
    <3>3. Len(todo') + 1 = Len(todo)
      BY <1>5, <1>13, <2>6
    <3>4. End(g)' = End(h)
      BY <1>5, <3>2, <3>3 DEF End
    <3>5. /\ \A q \in 1 .. Len(todo) : g.td[q] \in Int
          /\ \A q, r \in 1 .. Len(todo) : q =< r => g.td[q] =< g.td[r]
      <4>1. \A q \in 1 .. Len(todo) : q + 1 \in 1 .. Len(todo) + 1
        BY <1>5
      <4>2. \A q, r \in 1 .. Len(todo) : q =< r => q + 1 =< r + 1
        BY <1>5
      <4> QED BY <2>1, <3>2, <4>1, <4>2
    <3>6. ASSUME NEW q \in 1 .. Len(todo) - 1
          PROVE  /\ g.td[q + 1] = g.td[q] + Len(todo'[q])
                 /\ \A j \in 1 .. Len(todo'[q]) : todo'[q][j] = h.byte[g.td[q] + j - 1]
      <4>1. q \in 1 .. Len(todo) /\ q + 1 \in 1 .. Len(todo) /\ todo'[q] = todo[q + 1]
        BY <1>5, <1>13, <2>6
      <4> QED BY <2>2, <3>2, <4>1
    <3>7. g.td[1] = Offset(wr) + n
      BY <1>5, <3>1
    <3>8. Len(todo') = Len(todo) - 1
      BY <1>13, <2>6
    <3>9. ToCopy(g)'
      BY <1>12, <1>18a, <3>3, <3>5, <3>6, <3>7, <3>8 DEF ToCopy
    <3> QED BY <3>4, <3>9
  <2> QED BY <2>5, <2>6
<1>18. Offset(wr) + n \in Int /\ Offset(wr) =< Offset(wr) + n
  BY <1>3, <1>6
<1>19. ASSUME \A q \in 1 .. Len(todo) : todo[q] # <<>>
       PROVE  wr'.next > 2 /\ \A q \in 1 .. Len(todo') : todo'[q] # <<>>
  <2>1. 1 \in 1 .. Len(todo) /\ rec # <<>>
    BY <1>5, <1>19
  <2>2. Len(rec) \in Nat /\ Len(rec) >= 1
    BY <1>5, <2>1
  <2> HIDE DEF rec
  <2>3. n \in Nat /\ n >= 1
    <3>1. n = Len(rec) \/ n = LineSize - wr.next
      BY DEF n, Copies, rec
    <3> QED BY <1>1a, <1>2, <2>2, <3>1
  <2>4. wr'.next > 2
    BY <1>1a, <1>11, <2>3
  <2>5. ASSUME NEW q \in 1 .. Len(todo') PROVE todo'[q] # <<>>
    <3>1. CASE mid'
      <4>1. CASE q = 1
        <5>1. n < Len(rec) /\ Len(todo'[1]) = Len(rec) - n
          BY <1>7, <1>13, <3>1
        <5>2. Len(todo'[1]) >= 1
          BY <1>6, <2>2, <5>1
        <5> QED BY <4>1, <5>2
      <4>2. CASE q # 1
        <5>1. q \in 2 .. Len(todo) /\ q \in 1 .. Len(todo)
          BY <1>5, <1>13, <3>1, <4>2
        <5> QED BY <1>13, <1>19, <3>1, <5>1
      <4> QED BY <4>1, <4>2
    <3>2. CASE ~mid'
      <4>1. q \in 1 .. Len(todo) - 1 /\ q + 1 \in 1 .. Len(todo)
        BY <1>5, <1>13, <3>2
      <4> QED BY <1>13, <1>19, <3>2, <4>1
    <3> QED BY <3>1, <3>2
  <2> QED BY <2>4, <2>5
<1>20. wr'.next >= wr.next
  BY <1>1a, <1>6, <1>11
<1>21. Offset(wr) =< Offset(wr)' /\ Offset(wr)' \in Int
  BY <1>12, <1>18
<1> QED
  BY <1>2, <1>14, <1>16, <1>17, <1>19, <1>20, <1>21

-----------------------------------------------------------------------------
\* A step that does not touch the log leaves the row as it is.
LEMMA LogStays ==
  ASSUME NEW h, LogTypes, Copied(h), ToCopy(h), UNCHANGED <<area, wr, todo, mid, tail, tx>>
  PROVE  /\ LogTypes' /\ Copied(h)' /\ ToCopy(h)' /\ End(h)' = End(h)
         /\ Offset(wr)' = Offset(wr) /\ Offset(tail)' = Offset(tail) /\ Offset(tx)' = Offset(tx)
<1>1. /\ Offset(wr)' = Offset(wr) /\ Offset(tail)' = Offset(tail) /\ Offset(tx)' = Offset(tx)
      /\ AbsLine(wr)' = AbsLine(wr) /\ (\A m : Version(m)' = Version(m))
      /\ (\A m, b : Place(m, b)' = Place(m, b))
  BY DEF Offset, AbsLine, Version, Place, PerLine, Lines
<1>2. LogTypes'
  BY DEF LogTypes
<1>3. Copied(h)'
  BY <1>1 DEF Copied
<1>4. ToCopy(h)' /\ End(h)' = End(h)
  BY <1>1 DEF ToCopy, End
<1> QED
  BY <1>1, <1>2, <1>3, <1>4

\* Offsets in the row depend on where it begins only.
LEMMA OffsetsStay ==
  ASSUME UNCHANGED <<tail, tx>>
  PROVE  Offset(tail)' = Offset(tail) /\ Offset(tx)' = Offset(tx)
         /\ (\A m : Version(m)' = Version(m)) /\ (\A m, b : Place(m, b)' = Place(m, b))
  BY DEF Offset, AbsLine, Version, Place, PerLine, Lines

\* The account when the writer is given pieces to write, and td says where
\* they go.
Pieces(g, pieces) ==
    /\ pieces \in Seq(Seq(Int)) /\ g.td[1] = Offset(wr)
    /\ \A q \in 1 .. Len(pieces) + 1 : g.td[q] \in Int
    /\ \A q, r \in 1 .. Len(pieces) + 1 : q =< r => g.td[q] =< g.td[r]
    /\ \A q \in 1 .. Len(pieces) : g.td[q + 1] = g.td[q] + Len(pieces[q])

PutTo(h, g, pieces) ==
    g.byte = [o \in Int |->
         IF o < Offset(wr) THEN h.byte[o]
         ELSE LET q == CHOOSE q \in 1 .. Len(pieces) : g.td[q] =< o /\ o < g.td[q + 1]
              IN pieces[q][o - g.td[q] + 1]]

BytesOf(g, pieces) ==
    \A q \in 1 .. Len(pieces) : \A j \in 1 .. Len(pieces[q]) :
        pieces[q][j] = g.byte[g.td[q] + j - 1]

\* When a call starts to write pieces, the row grows by their bytes.
LEMMA PutKeeps ==
  ASSUME LogAssumption, NEW h, LogTypes, Copied(h), ToCopy(h), todo = <<>>,
         NEW pieces, NEW g, Pieces(g, pieces), PutTo(h, g, pieces),
         todo' = pieces, UNCHANGED <<area, wr, mid, tail, tx>>
  PROVE  /\ LogTypes' /\ Copied(g)' /\ ToCopy(g)' /\ End(g)' = g.td[Len(pieces) + 1]
         /\ Offset(wr)' = Offset(wr) /\ Offset(wr) =< End(g)' /\ End(g)' \in Int
         /\ \A o \in Int : o < Offset(wr) => g.byte[o] = h.byte[o]
         /\ BytesOf(g, pieces)
<1>1. /\ Offset(wr)' = Offset(wr) /\ Offset(tail)' = Offset(tail)
      /\ AbsLine(wr)' = AbsLine(wr) /\ (\A m : Version(m)' = Version(m))
      /\ (\A m, b : Place(m, b)' = Place(m, b))
  BY DEF Offset, AbsLine, Version, Place, PerLine, Lines
<1>2. LogTypes'
  BY DEF LogTypes, Pieces
<1>3. /\ Len(pieces) \in Nat
      /\ \A q \in 1 .. Len(pieces) : Len(pieces[q]) \in Nat
  BY DEF Pieces
<1>4. Offset(wr) \in Nat
  BY Around DEF Copied
<1>5. \A o \in Int : o < Offset(wr) => g.byte[o] = h.byte[o]
  BY DEF PutTo
<1>6. ASSUME NEW q \in 1 .. Len(pieces), NEW j \in 1 .. Len(pieces[q])
      PROVE  pieces[q][j] = g.byte[g.td[q] + j - 1]
  <2> DEFINE o == g.td[q] + j - 1
  <2>1. /\ g.td[q] \in Int /\ g.td[q + 1] \in Int /\ g.td[q + 1] = g.td[q] + Len(pieces[q])
        /\ g.td[1] =< g.td[q] /\ g.td[1] = Offset(wr)
    <3>1. q \in 1 .. Len(pieces) + 1 /\ q + 1 \in 1 .. Len(pieces) + 1 /\ 1 \in 1 .. Len(pieces) + 1
          /\ 1 =< q
      BY <1>3
    <3> QED BY <3>1 DEF Pieces
  <2>2. o \in Int /\ g.td[q] =< o /\ o < g.td[q + 1] /\ ~(o < Offset(wr))
    BY <1>3, <1>4, <2>1
  <2> HIDE DEF o
  <2>3. ASSUME NEW r \in 1 .. Len(pieces), g.td[r] =< o, o < g.td[r + 1]
        PROVE  r = q
    <3>1. /\ q \in 1 .. Len(pieces) + 1 /\ q + 1 \in 1 .. Len(pieces) + 1
          /\ r \in 1 .. Len(pieces) + 1 /\ r + 1 \in 1 .. Len(pieces) + 1
      BY <1>3
    <3>2. g.td[q] \in Int /\ g.td[q + 1] \in Int /\ g.td[r] \in Int /\ g.td[r + 1] \in Int
      BY <3>1 DEF Pieces
    <3>3. ~(q < r)
      <4> SUFFICES ASSUME q < r PROVE FALSE
        OBVIOUS
      <4>1. q + 1 =< r
        BY <1>3
      <4>2. g.td[q + 1] =< g.td[r]
        BY <3>1, <4>1 DEF Pieces
      <4> QED BY <2>2, <2>3, <3>2, <4>2
    <3>4. ~(r < q)
      <4> SUFFICES ASSUME r < q PROVE FALSE
        OBVIOUS
      <4>1. r + 1 =< q
        BY <1>3
      <4>2. g.td[r + 1] =< g.td[q]
        BY <3>1, <4>1 DEF Pieces
      <4> QED BY <2>2, <2>3, <3>2, <4>2
    <3> QED BY <1>3, <3>3, <3>4
  <2>4. (CHOOSE r \in 1 .. Len(pieces) : g.td[r] =< o /\ o < g.td[r + 1]) = q
    BY <2>2, <2>3
  <2>5. g.byte[o] = pieces[q][o - g.td[q] + 1]
    BY <2>2, <2>4 DEF PutTo
  <2>6. o - g.td[q] + 1 = j
    BY <1>3, <2>1 DEF o
  <2> QED BY <2>5, <2>6 DEF o
<1>7. Copied(g)'
  <2>1. ASSUME NEW m \in tail.line .. AbsLine(wr), NEW b \in 2 .. LineSize - 1,
               Offset(tail) =< Place(m, b), Place(m, b) < Offset(wr)
        PROVE  area[m % NumLines].byte[b] = g.byte[Place(m, b)]
    <3>1. Place(m, b) \in Int
      <4>1. m \in Int /\ b \in Int
        OBVIOUS
      <4>2. PerLine \in Int
        BY Sizes
      <4> QED BY <4>1, <4>2 DEF Place
    <3> QED BY <1>5, <2>1, <3>1 DEF Copied
  <2> QED BY <1>1, <2>1 DEF Copied
<1>9. ToCopy(g)'
  BY <1>1, <1>6 DEF ToCopy, Pieces
<1>10. End(g)' = g.td[Len(pieces) + 1] /\ End(g)' \in Int /\ Offset(wr) =< End(g)'
  <2>1. End(g)' = g.td[Len(pieces) + 1]
    BY DEF End
  <2>2. 1 \in 1 .. Len(pieces) + 1 /\ Len(pieces) + 1 \in 1 .. Len(pieces) + 1 /\ 1 =< Len(pieces) + 1
    BY <1>3
  <2> QED BY <2>1, <2>2 DEF Pieces
<1> QED
  BY <1>1, <1>2, <1>5, <1>6, <1>7, <1>9, <1>10 DEF BytesOf

OnePiece(rec) == [q \in 1 .. 2 |-> IF q = 1 THEN Offset(wr) ELSE Offset(wr) + Len(rec)]

\* The same of one piece.
LEMMA PutOne ==
  ASSUME LogAssumption, NEW h, LogTypes, Copied(h), ToCopy(h), todo = <<>>,
         NEW rec \in Seq(Int), NEW g, g.td = OnePiece(rec), PutTo(h, g, <<rec>>),
         todo' = <<rec>>, UNCHANGED <<area, wr, mid, tail, tx>>
  PROVE  /\ LogTypes' /\ Copied(g)' /\ ToCopy(g)' /\ End(g)' = End(h) + Len(rec)
         /\ Offset(wr)' = Offset(wr)
         /\ \A o \in Int : o < End(h) => g.byte[o] = h.byte[o]
         /\ \A j \in 1 .. Len(rec) : rec[j] = g.byte[End(h) + j - 1]
<1>1. End(h) = Offset(wr) /\ Offset(wr) \in Int /\ Len(rec) \in Nat
  BY EndBehind
<1>2. g.td[1] = Offset(wr) /\ g.td[2] = Offset(wr) + Len(rec)
  BY DEF OnePiece
<1>3. <<rec>> \in Seq(Seq(Int)) /\ Len(<<rec>>) = 1 /\ <<rec>>[1] = rec
  OBVIOUS
<1>4. Pieces(g, <<rec>>)
  <2>1. \A q \in 1 .. 2 : q = 1 \/ q = 2
    OBVIOUS
  <2>2. \A q \in 1 .. 1 : q = 1
    OBVIOUS
  <2> QED BY <1>1, <1>2, <1>3, <2>1, <2>2 DEF Pieces
<1>5. /\ LogTypes' /\ Copied(g)' /\ ToCopy(g)' /\ End(g)' = g.td[Len(<<rec>>) + 1]
      /\ Offset(wr)' = Offset(wr)
      /\ \A o \in Int : o < Offset(wr) => g.byte[o] = h.byte[o]
      /\ BytesOf(g, <<rec>>)
  <2>1. PICK ps : ps = <<rec>>
    OBVIOUS
  <2>2. Pieces(g, ps) /\ PutTo(h, g, ps) /\ todo' = ps
    BY <1>4, <2>1
  <2>3. LogTypes' /\ Copied(g)' /\ ToCopy(g)' /\ Offset(wr)' = Offset(wr)
    BY <2>2, PutKeeps
  <2>4. End(g)' = g.td[Len(ps) + 1]
    BY <2>2, PutKeeps
  <2>5. \A o \in Int : o < Offset(wr) => g.byte[o] = h.byte[o]
    BY <2>2, PutKeeps
  <2>6. BytesOf(g, ps)
    BY <2>2, PutKeeps
  <2> QED BY <2>1, <2>3, <2>4, <2>5, <2>6
<1>6. \A j \in 1 .. Len(rec) : rec[j] = g.byte[Offset(wr) + j - 1]
  <2>1. 1 \in 1 .. Len(<<rec>>)
    BY <1>3
  <2> QED BY <1>2, <1>3, <1>5, <2>1 DEF BytesOf
<1>7. End(g)' = Offset(wr) + Len(rec)
  BY <1>2, <1>3, <1>5
<1> QED
  BY <1>1, <1>5, <1>6, <1>7
=============================================================================
