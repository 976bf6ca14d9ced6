------------------------------ MODULE NvmLogBuf ------------------------------
(***************************************************************************)
(* NvmLog_Log of common/nvm-common.h: a circular log buffer on NVM, used   *)
(* by one thread.  A line holds the flag byte (a checksum and the version, *)
(* which flips on each round), the offset byte, and log bytes.             *)
(*                                                                         *)
(* Lines are numbered from 0, bytes in a line as in the code.  The flag    *)
(* byte is ver and ok: ok says that setByteOne ran after the last store    *)
(* to the line, i.e. the 7-bit checksum is taken to be exact.  A field of  *)
(* a record (tag, address, value, count) is one byte.  area is the buffer  *)
(* as the thread sees it, nvm what NVM holds of it.                        *)
(***************************************************************************)
EXTENDS Integers, Sequences

CONSTANTS
    NumLines,           \* NVM_LOG_SIZE / CACHE_LINE_SIZE
    LineSize,           \* CACHE_LINE_SIZE
    EvictShared         \* may the cache write back a line with flushed records
                        \* while the next record is copied into it?

ASSUME LogAssumption ==
    /\ NumLines \in Nat \ {0, 1} /\ LineSize \in Nat \ {0, 1, 2}
    /\ EvictShared \in BOOLEAN

VARIABLES
    area,               \* nl_log_area_
    nvm,                \* the lines on NVM
    wr,                 \* nl_log_wr_; line is the one before nextline_ptr_
    todo,               \* arguments of the writeLog calls still to do
    mid                 \* the first of them is partly copied

bufVars == <<area, nvm, wr, todo, mid>>

NL_INVALID == 0
Lines == 0 .. NumLines - 1

\* next_ptr_ of a position.
NextPtr(pos) == [line |-> pos.line, next |-> pos.next]

InitLine == [ver |-> 0, ok |-> TRUE, byte |-> [i \in 1 .. LineSize - 1 |-> 0]]

InitLog ==
    /\ area = [l \in Lines |-> InitLine]
    /\ nvm = area
    /\ wr = [ver |-> 1, off |-> 0, line |-> 0, next |-> 2]
    /\ todo = <<>>
    /\ mid = FALSE

\* Back to the first line, with the other version.
PrepareLogForWriting(p) == [ver |-> 1 - p.ver, off |-> 0, line |-> 0, next |-> 2]

\* Slip: the log goes on after its last line.
PastTheEnd(p) == [ver |-> p.ver, off |-> 0, line |-> p.line + 1, next |-> 2]

NextLine(p) ==
    IF p.line + 1 < NumLines
    THEN [ver |-> p.ver, off |-> 0, line |-> p.line + 1, next |-> 2]
    ELSE PrepareLogForWriting(p)

SetBytes(line, bytes) ==
    [line EXCEPT !.ok = FALSE,
                 !.byte = [i \in DOMAIN @ |-> IF i \in DOMAIN bytes THEN bytes[i] ELSE @[i]]]

\* Slip: the line keeps the version of the round before.
SealedUnversioned(line) == [ver |-> line.ver, ok |-> TRUE, byte |-> [line.byte EXCEPT ![1] = wr.off]]

\* line[1] = offset_; setByteOne
Sealed(line) == [ver |-> wr.ver, ok |-> TRUE, byte |-> [line.byte EXCEPT ![1] = wr.off]]

(***************************************************************************)
(* writeLog copies up to the end of the line, completes the line, and goes *)
(* on in the next one.  offset_ is set when a call starts.                 *)
(***************************************************************************)
CopyToLine ==
    /\ todo # <<>> /\ wr.next < LineSize
    /\ LET rec == Head(todo)
           n == IF Len(rec) < LineSize - wr.next THEN Len(rec) ELSE LineSize - wr.next
       IN /\ area' = [area EXCEPT ![wr.line] =
                        SetBytes(@, [i \in wr.next .. wr.next + n - 1 |-> rec[i - wr.next + 1]])]
          /\ wr' = [wr EXCEPT !.next = @ + n,
                              !.off = IF @ = 0 /\ ~mid THEN wr.next ELSE @]
          /\ mid' = (n < Len(rec))
          /\ todo' = IF mid' THEN <<SubSeq(rec, n + 1, Len(rec))>> \o Tail(todo) ELSE Tail(todo)
    /\ UNCHANGED nvm

CompleteLine2Log ==
    /\ wr.next = LineSize
    /\ area' = [area EXCEPT ![wr.line] = Sealed(@)]
    /\ nvm' = [nvm EXCEPT ![wr.line] = area'[wr.line]]
    /\ wr' = NextLine(wr)
    /\ UNCHANGED <<todo, mid>>

\* All calls to writeLog have returned.
Written == todo = <<>> /\ wr.next < LineSize

\* Slip: flushLog leaves the line in the cache.
KeepInCache == Written /\ UNCHANGED <<area, nvm, wr, todo, mid>>

\* flushLog: nothing to flush if the line holds no log byte yet.
FlushLog ==
    /\ Written
    /\ IF wr.next > 2
       THEN /\ area' = [area EXCEPT ![wr.line] =
                          Sealed(SetBytes(@, [i \in {wr.next} |-> NL_INVALID]))]
            /\ nvm' = [nvm EXCEPT ![wr.line] = area'[wr.line]]
       ELSE UNCHANGED <<area, nvm>>
    /\ UNCHANGED <<wr, todo, mid>>

\* The cache writes a line back between two of the thread's stores.
EvictLine(l) ==
    /\ nvm[l] # area[l]
    /\ EvictShared \/ nvm[l].ver # wr.ver
    /\ nvm' = [nvm EXCEPT ![l] = area[l]]
    /\ UNCHANGED <<area, wr, todo, mid>>

(***************************************************************************)
(* Reading.                                                                *)
(***************************************************************************)
checkByteOne(line, ver) == line.ok /\ line.ver = ver

\* readLog: every byte from pos on, up to a line that is torn or old.
ReadLog(img, pos) ==
    LET from[n \in 0 .. NumLines] ==
          LET l == (pos.line + n) % NumLines
              ver == IF pos.line + n < NumLines THEN pos.ver ELSE 1 - pos.ver
              start == IF n = 0 THEN pos.next ELSE 2
          IN IF n < NumLines /\ checkByteOne(img[l], ver)
             THEN SubSeq(img[l].byte, start, LineSize - 1) \o from[n + 1]
             ELSE <<>>
    IN from[0]

\* prepareForReverseRead, after flushLog: the version is the line's own.
ReverseFrom(img, pos) == [line |-> pos.line, next |-> pos.next, ver |-> img[pos.line].ver]

\* k log bytes before pos; the version flips before the first line.
Before(pos, k) ==
    LET perLine == LineSize - 2
        n == pos.line * perLine + pos.next - 2 - k
    IN [line |-> (n \div perLine) % NumLines, next |-> (n % perLine) + 2,
        ver |-> IF n < 0 THEN 1 - pos.ver ELSE pos.ver]

\* Readers leave byte 2 of a line for the end of the line before it.
LineStartToEnd(pos) == IF pos.next = 2 THEN [Before(pos, 1) EXCEPT !.next = LineSize] ELSE pos

\* readLogReverse, readLogReverseSkip: the bytes before pos, len of them or
\* up to a line that is torn or old, and the position before them.
ReadLogReverse(pos, len) ==
    LET valid(k) == LET p == Before(pos, k) IN checkByteOne(area[p.line], p.ver)
        n == CHOOSE m \in 0 .. len : (\A k \in 1 .. m : valid(k)) /\ (m = len \/ ~valid(m + 1))
    IN [pos   |-> IF n = 0 THEN pos ELSE LineStartToEnd(Before(pos, n)),
        bytes |-> [i \in 1 .. n |-> LET p == Before(pos, n + 1 - i) IN area[p.line].byte[p.next]]]

\* Slip: the position is taken as it is.
AsItIs(pos) == NextPtr(pos)

\* reverseAdjustPtr
ReverseAdjustPtr(pos) == NextPtr(LineStartToEnd(pos))
=============================================================================
