-------------------------- MODULE NvmLogProperties --------------------------
(***************************************************************************)
(* Recovery from the log, as the comment in nvm-common.h (451-484) has it, *)
(* and the properties of NvmLog.                                           *)
(***************************************************************************)
EXTENDS NvmLog

(***************************************************************************)
(* Read the log from where it was truncated; redo the committed            *)
(* transactions, undo the aborted ones and the last one if it is           *)
(* incomplete, in the order of the log.                                    *)
(***************************************************************************)
RedoOne(s, r) ==
    CASE r[1] = Tags.WRITE -> [s EXCEPT !.mem[r[2]] = r[4]]
      [] r[1] \in {Tags.NEW, Tags.REDO} -> [s EXCEPT !.mem[r[2]] = r[3]]
      [] r[1] = Tags.ALLOCNODE -> [s EXCEPT !.live = @ \cup {r[2]}, !.mem[r[2]] = RAW]
      [] r[1] = Tags.DELNODE -> [s EXCEPT !.live = @ \ {r[i] : i \in 3 .. r[2] + 2}]

UndoOne(s, r) ==
    IF r[1] = Tags.WRITE THEN [s EXCEPT !.mem[r[2]] = r[3]] ELSE s

RedoAll(s) ==
    LET f[i \in 0 .. Len(s.run)] == IF i = 0 THEN s ELSE RedoOne(f[i - 1], s.run[i])
    IN [f[Len(s.run)] EXCEPT !.run = <<>>]

UndoAll(s) ==
    LET f[i \in 1 .. Len(s.run) + 1] ==
          IF i > Len(s.run) THEN s ELSE UndoOne(f[i + 1], s.run[i])
    IN [f[1] EXCEPT !.run = <<>>]

RecoverOne(s, r) ==
    CASE r[1] = Tags.COMMIT -> RedoAll(s)
      [] r[1] = Tags.ABORT  -> UndoAll(s)
      [] OTHER -> [s EXCEPT !.run = Append(@, r)]

\* The store a crash at this moment would leave.
Recovered ==
    LET recs == Records(ReadLog(nvm, tail))
        f[i \in 0 .. Len(recs)] ==
            IF i = 0 THEN [mem |-> nvmData, live |-> nvmLive, run |-> <<>>]
                     ELSE RecoverOne(f[i - 1], recs[i])
        s == UndoAll(f[Len(recs)])
    IN Shown(s.mem, s.live)

(***************************************************************************)
(* Refinement of TxStore.                                                  *)
(***************************************************************************)
\* COMMIT is the last byte of its line, and the line is complete.
CommitFilledLine == pc = "seal" /\ Written /\ wr.next = 2

Active == pc \in {"run", "log", "store", "commit", "seal"} /\ ~CommitFilledLine

T == INSTANCE TxStore WITH Places <- Memory, Contents <- Value \cup {RAW, FREE, 0},
                           store <- base, active <- Active,
                           working <- IF pc \in {"undo", "aborted"} THEN base ELSE Working

\* A transaction's writes are seen at once by its thread and become the
\* committed store by commit, or are all taken back by abort.
ImplementsTxStore == T!Spec

\* All or nothing: at every moment, whatever the cache has written back, a
\* crash leaves what recovery makes the store of the last transaction that
\* committed ("(3) For commit transactions, perform redo checks ... for the
\* last transaction if it is incomplete, undo it", nvm-common.h:477-479).
RecoversCommitted == Recovered = base

TypeOK ==
    /\ DOMAIN area = Lines /\ DOMAIN nvm = Lines
    /\ wr.ver \in {0, 1} /\ wr.line \in Lines /\ wr.next \in 2 .. LineSize
    /\ wr.off \in {0} \cup 2 .. LineSize - 1
    /\ data \in [Memory -> Value \cup {0, RAW}] /\ nvmData \in [Memory -> Value \cup {0, RAW}]
    /\ live \subseteq Node /\ nvmLive \subseteq Node /\ written \subseteq Memory
    /\ \A i \in DOMAIN del : del[i] \in live
    /\ pc \in {"none", "run", "log", "store", "commit", "seal", "apply", "undo", "aborted"}

\* Every abort finds a record it knows before each position it stops at
\* ("NvmLog error: invalid log record", nvm-common.h:1019-1022).
AbortReadsRecords ==
    pc = "undo" /\ NextPtr(back) # PEnd => TagBefore \in {Tags.NEW, Tags.WRITE, Tags.ALLOCNODE}

\* The records a transaction logged are all there when it ends: reading the
\* log forward from where it started (print) gives them, however many lines
\* and rounds they span, and abort reads the same records backward.
AbortReadsWhatWasLogged ==
    pc = "undo" =>
        LET recs == Records(ReadLog(area, tx))
            at[i \in 0 .. Len(recs)] ==
                IF i = 0 THEN ReverseFrom(area, wr)
                ELSE ReadLogReverse(at[i - 1], Len(recs[Len(recs) - i + 1])).pos
        IN /\ NextPtr(at[Len(recs)]) = PEnd
           /\ \E i \in 0 .. Len(recs) : back = at[i]

\* abort stops at the start of its transaction (reverseAdjustPtr), and
\* commit ends: every transaction that is ended gets back to its caller.
TransactionsEnd == (pc \notin {"none", "run", "log", "store"}) ~> (pc = "none")
=============================================================================
