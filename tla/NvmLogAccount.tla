--------------------------- MODULE NvmLogAccount ---------------------------
(***************************************************************************)
(* The account of the log that NvmLogInv speaks of, computed from the      *)
(* state, so that TLC can check the inductive invariant.                   *)
(***************************************************************************)
EXTENDS NvmLogInv
LOCAL INSTANCE SequencesExt

AccountOf ==
    LET copied == Offset(wr)
        bytes == [o \in Offset(tail) .. copied - 1 |->
                    area[(o \div PerLine) % NumLines].byte[(o % PerLine) + 2]]
        rest == FlattenSeq(todo)
        row == [o \in Offset(tail) .. copied + Len(rest) - 1 |->
                  IF o < copied THEN bytes[o] ELSE rest[o - copied + 1]]
        td[q \in 1 .. Len(todo) + 1] == IF q = 1 THEN copied ELSE td[q - 1] + Len(todo[q - 1])
        stop == IF pc # "undo" THEN td[Len(todo) + 1]
                ELSE CHOOSE o \in Offset(tx) .. copied : BackAt(o)
        recs == IF InTx THEN Records([i \in 1 .. stop - Offset(tx) |-> row[Offset(tx) + i - 1]])
                ELSE <<>>
        st[i \in 1 .. Len(recs) + 1] ==
            IF i = 1 THEN Offset(tx) ELSE st[i - 1] + Len(recs[i - 1])
    IN [byte |-> row, td |-> td, n |-> Len(recs), rec |-> recs, st |-> st]

\* State invariant: the log fits its account at every step of a transaction,
\* its commit and its abort.  The theorems about NvmLog rest on it.
AccountFits == IInv(AccountOf)
=============================================================================
