--------------------------- MODULE NvmLeaf_proofs ---------------------------
(***************************************************************************)
(* Proofs about NvmLeaf: types for any number of threads, and for a leaf   *)
(* that one thread uses the inductive invariant IInv and what follows.     *)
(***************************************************************************)
EXTENDS NvmLeafInv, TLAPS, FiniteSetTheorems

USE LeafAssumption

-----------------------------------------------------------------------------
(***************************************************************************)
(* Type correctness.                                                       *)
(***************************************************************************)
\* The fingerprints and entries of a leaf are functions on its slots.
LEMMA SlotFacts ==
    /\ 0 \in Slots /\ LEAF_KEY_NUM - 1 \in Slots
    /\ Line0 \subseteq Slots /\ Line0 \subseteq Word0
    /\ LEAF_KEY_NUM - 1 \notin Line0
    /\ Slots \subseteq Int
BY SMT DEF Slots, Line0, Word0

LEMMA InitTypeOK == Init => TypeOK
<1> SUFFICES ASSUME Init PROVE TypeOK
  OBVIOUS
<1>1. bitmap \in SUBSET Slots /\ slot \in Slots
  BY SlotFacts DEF Init
<1>2. ent \in EntryType /\ p_ent \in EntryType
  BY DEF Init, EntryType
<1>3. meta \in MetaType /\ newp \in LeafType
  BY SMT DEF Init, MetaType, LeafType, NoLeaf
<1> QED
  BY <1>1, <1>2, <1>3 DEF Init, TypeOK, LinkType, Labels

LEMMA FlushLine0Type == TypeOK /\ FlushLine0 =>
    p_bitmap' \in SUBSET Slots /\ p_alt' \in {0, 1} /\ p_fgpt' \in [Slots -> Hash]
    /\ p_ent' \in EntryType /\ p_next' \in LinkType
BY DEF TypeOK, FlushLine0, EntryType

LEMMA FlushLineType == ASSUME NEW s, TypeOK, FlushLine(s) PROVE
    p_bitmap' \in SUBSET Slots /\ p_alt' \in {0, 1} /\ p_fgpt' \in [Slots -> Hash]
    /\ p_ent' \in EntryType /\ p_next' \in LinkType
BY DEF TypeOK, FlushLine, EntryType

LEMMA StoreWord0Type == ASSUME NEW u \in BOOLEAN, TypeOK, StoreWord0(u) PROVE
    bitmap' \in SUBSET Slots /\ lock' \in BOOLEAN /\ alt' \in {0, 1}
    /\ fgpt' \in [Slots -> Hash] /\ ent' \in EntryType /\ next' \in LinkType
BY DEF TypeOK, StoreWord0, MetaType

LEMMA LeaveType == ASSUME NEW l \in Labels, Leave(l), fgpt' \in [Slots -> Hash] PROVE
    pc' \in Labels /\ key' \in Keys \cup {NoKey} /\ slot' \in Slots /\ meta' \in MetaType
BY SlotFacts DEF Leave, MetaType

LEMMA TakeType == ASSUME NEW l \in Labels, NEW k \in Keys \cup {NoKey}, TypeOK, Take(l, k)
                  PROVE  TypeOK'
<1>1. meta' \in MetaType
  <2>1. (l = "split") \in BOOLEAN
    OBVIOUS
  <2> QED
    BY <2>1 DEF Take, MetaType, TypeOK
<1>2. newp' \in LeafType
  BY DEF Take, LeafType, NoLeaf
<1>3. /\ bitmap' = bitmap /\ alt' = alt /\ fgpt' = fgpt /\ ent' = ent /\ next' = next
      /\ UNCHANGED nvm /\ UNCHANGED <<slot, tail, safe>>
      /\ lock' = TRUE /\ pc' = l /\ key' = k
  BY DEF Take
<1> QED
  BY <1>1, <1>2, <1>3 DEF TypeOK, nvm

\* The header a call prepares stays a header when its bitmap, its alt or its
\* fingerprints change.
LEMMA MetaEdit == ASSUME TypeOK, NEW b \in SUBSET Slots, NEW a \in {0, 1}, NEW f \in [Slots -> Hash]
    PROVE /\ [meta EXCEPT !.bitmap = b] \in MetaType
          /\ [meta EXCEPT !.bitmap = b, !.fgpt = f] \in MetaType
          /\ [meta EXCEPT !.bitmap = b, !.alt = a] \in MetaType
BY DEF TypeOK, MetaType

LEMMA MetaFields == TypeOK =>
    meta.bitmap \in SUBSET Slots /\ meta.fgpt \in [Slots -> Hash] /\ meta.alt \in {0, 1}
BY DEF TypeOK, MetaType

LEMMA NextTypeOK == IInv /\ [Next]_vars => TypeOK'
<1> SUFFICES ASSUME IInv, [Next]_vars PROVE TypeOK'
  OBVIOUS
<1>0. TypeOK /\ InsertOK /\ CacheOK /\ FullOK /\ SplitOK
  BY DEF IInv
<1> USE DEF cache, header, nvm, caller, others
<1>1. ASSUME NEW k \in Keys, BeginInsert(k) \/ BeginDel(k) PROVE TypeOK'
  BY <1>0, <1>1, TakeType DEF BeginInsert, BeginDel, Labels
<1>2. CASE BeginRelink
  BY <1>0, <1>2, TakeType DEF BeginRelink, Labels
<1>3. CASE WriteEntry
  <2> PICK s \in Slots :
        /\ ent' = [ent EXCEPT ![s] = key] /\ slot' = s
        /\ meta' = [meta EXCEPT !.bitmap = meta.bitmap \cup {s},
                                !.fgpt = [meta.fgpt EXCEPT ![s] = hashcode1B[key]]]
        /\ pc' = IF s \in Line0 THEN "word0" ELSE "copy"
    BY <1>0, <1>3 DEF WriteEntry
  <2>1. key \in Keys
    BY <1>0, <1>3 DEF WriteEntry, InsertOK
  <2>2. [meta.fgpt EXCEPT ![s] = hashcode1B[key]] \in [Slots -> Hash]
    BY <1>0, <2>1, MetaFields
  <2>3. meta' \in MetaType
    BY <1>0, <2>2, MetaEdit, MetaFields
  <2>4. ent' \in EntryType
    BY <1>0, <2>1 DEF TypeOK, EntryType
  <2> QED
    BY <1>0, <1>3, <2>3, <2>4 DEF TypeOK, WriteEntry, Labels
<1>4. CASE CopyEntries
  <2> PICK from \in [EmptyAfter -> Line0] :
        /\ ent' = [s \in Slots |-> IF s \in EmptyAfter THEN ent[from[s]] ELSE ent[s]]
        /\ meta' = [meta EXCEPT
              !.bitmap = MovedBits(from),
              !.fgpt = [s \in Slots |-> IF s \in EmptyAfter THEN meta.fgpt[from[s]]
                                                          ELSE meta.fgpt[s]]]
    BY <1>0, <1>4 DEF CopyEntries
  <2>1. \A s \in EmptyAfter : from[s] \in Slots /\ s \in Slots
    BY SlotFacts DEF EmptyAfter, Line
  <2>2. ent' \in EntryType
    BY <1>0, <2>1 DEF TypeOK, EntryType
  <2>3. [s \in Slots |-> IF s \in EmptyAfter THEN meta.fgpt[from[s]] ELSE meta.fgpt[s]]
           \in [Slots -> Hash]
    BY <1>0, <2>1, MetaFields
  <2>4. MovedBits(from) \in SUBSET Slots
    BY <1>0, <2>1, MetaFields DEF MovedBits
  <2>5. meta' \in MetaType
    BY <1>0, <2>3, <2>4, MetaEdit
  <2> QED
    BY <1>0, <1>4, <2>2, <2>5 DEF TypeOK, CopyEntries, Labels
<1>5. CASE FlushEntry
  BY <1>0, <1>5, FlushLineType DEF TypeOK, FlushEntry, Labels
<1>6. CASE SetWord1
  BY <1>0, <1>6 DEF TypeOK, SetWord1, MetaType, Labels
<1>7. CASE SetWord0 \/ SplitAbove
  BY <1>0, <1>7, StoreWord0Type, LeaveType DEF TypeOK, SetWord0, SplitAbove, Labels
<1>8. CASE FlushHeader \/ FlushSplit \/ EvictLine0
  BY <1>0, <1>8, FlushLine0Type, ZenonT(60) DEF TypeOK, FlushHeader, FlushSplit, EvictLine0, Labels
<1>9. CASE WriteNew
  <2> PICK U \in SUBSET Slots, n \in Nodes :
        /\ newp' = [at |-> n, next |-> next[alt],
                    keys |-> KeysOf(U, ent) \cup (IF Above(U) THEN {key} ELSE {})]
        /\ safe' = safe \ {n}
        /\ meta' = [meta EXCEPT !.bitmap = Slots \ U, !.alt = OtherNext]
    BY <1>9 DEF WriteNew
  <2>1. key \in Keys /\ KeysOf(U, ent) \subseteq Keys
    BY <1>0, <1>9 DEF WriteNew, InsertOK, FullOK, CacheOK, Describes, KeysOf
  <2>2. newp' \in LeafType
    BY <1>0, <2>1 DEF TypeOK, LeafType, LinkType
  <2>3. OtherNext \in {0, 1}
    BY <1>0 DEF TypeOK, OtherNext
  <2>4. meta' \in MetaType
    <3>1. Slots \ U \in SUBSET Slots
      OBVIOUS
    <3> QED
      BY <1>0, <2>3, <3>1 DEF TypeOK, MetaType
  <2> QED
    BY <1>0, <1>9, <2>2, <2>4 DEF TypeOK, WriteNew, Labels
<1>10. CASE LinkNew
  <2>1. next' \in LinkType
    BY <1>0, <1>10 DEF TypeOK, LinkNew, LeafType, LinkType
  <2> QED
    BY <1>0, <1>10, <2>1 DEF TypeOK, LinkNew, Labels
<1>11. CASE FlushNew
  <2>1. newp.at \in Nodes
    BY <1>0, <1>11 DEF FlushNew, SplitOK, Halving
  <2> QED
    BY <1>0, <1>11, <2>1, FlushLineType DEF TypeOK, FlushNew, Labels
<1>12. CASE SplitBelow
  BY <1>0, <1>12, StoreWord0Type DEF TypeOK, SplitBelow, Labels
<1>13. CASE UnlockRoot \/ UnlockSibling
  BY <1>0, <1>13, LeaveType DEF TypeOK, UnlockRoot, UnlockSibling, Labels
<1>14. CASE MarkDeleted
  <2>1. meta' \in MetaType
    <3> PICK s \in bitmap : meta' = [meta EXCEPT !.bitmap = meta.bitmap \ {s}]
      BY <1>14 DEF MarkDeleted
    <3> QED
      BY <1>0 DEF TypeOK, MetaType
  <2> QED
    BY <1>0, <1>14, <2>1 DEF TypeOK, MarkDeleted, Labels
<1>15. CASE WriteNext
  BY <1>0, <1>15 DEF TypeOK, WriteNext, LinkType, Labels
<1>16. CASE FlushNext
  BY <1>0, <1>16, FlushLineType DEF TypeOK, FlushNext, Labels
<1>17. ASSUME NEW s \in Slots, EvictLine(s) PROVE TypeOK'
  BY <1>0, <1>17, FlushLineType DEF TypeOK, EvictLine
<1>18. CASE Crash
  BY <1>0, <1>18, LeaveType DEF TypeOK, Crash, Labels
<1>19. CASE UNCHANGED vars
  BY <1>0, <1>19 DEF TypeOK, vars
<1> QED
  BY <1>0, <1>1, <1>2, <1>3, <1>4, <1>5, <1>6, <1>7, <1>8, <1>9, <1>10, <1>11, <1>12, <1>13, <1>14,
     <1>15, <1>16, <1>17, <1>18, <1>19 DEF Next, Insert, Del, Evict

-----------------------------------------------------------------------------
(***************************************************************************)
(* The keys of a set of slots.                                             *)
(***************************************************************************)
LEMMA KeysOfMember == ASSUME NEW b, NEW e, NEW x
                      PROVE  x \in KeysOf(b, e) <=> \E s \in b : e[s] = x
BY DEF KeysOf

LEMMA KeysOfSame == ASSUME NEW b, NEW c, NEW e, NEW f,
                           \A s \in b : \E r \in c : e[s] = f[r],
                           \A r \in c : \E s \in b : e[s] = f[r]
                    PROVE  KeysOf(b, e) = KeysOf(c, f)
BY DEF KeysOf

-----------------------------------------------------------------------------
(***************************************************************************)
(* What reaches NVM: the effect of the two kinds of flush.                 *)
(***************************************************************************)
LEMMA FlushLine0Effect == ASSUME IInv, FlushLine0 PROVE
    /\ p_bitmap' = bitmap /\ p_alt' = alt /\ p_fgpt' = fgpt /\ p_next' = p_next
    /\ \A s \in bitmap : p_ent'[s] = ent[s]
    /\ \A s \in Slots : p_ent'[s] \in {p_ent[s], ent[s]}
BY DEF IInv, TypeOK, EntriesAgree, FlushLine0

LEMMA FlushLineEffect == ASSUME NEW s, FlushLine(s) PROVE
    /\ p_bitmap' = p_bitmap /\ p_alt' = p_alt /\ p_fgpt' = p_fgpt
    /\ \A r \in Slots : p_ent'[r] \in {p_ent[r], ent[r]}
    /\ \A r \in Line(s) : p_ent'[r] = ent[r]
    /\ p_next' \in {p_next, next}
    /\ s = LEAF_KEY_NUM - 1 => p_next' = next
BY SlotFacts DEF FlushLine, Line

\* A flush of line 0 leaves on NVM what the cached header describes.
LEMMA FlushLine0Keeps == ASSUME IInv, FlushLine0, UNCHANGED cache PROVE
    CacheOK' /\ NvmOK' /\ EntriesAgree'
<1>1. CacheOK'
  BY DEF IInv, CacheOK, cache, header
<1>2. \A s \in bitmap : s \in Slots
  BY DEF IInv, TypeOK
<1>3. NvmOK'
  BY <1>2, FlushLine0Effect DEF IInv, CacheOK, NvmOK, Describes
<1>4. EntriesAgree'
  BY <1>2, FlushLine0Effect DEF EntriesAgree, cache, header
<1> QED
  BY <1>1, <1>3, <1>4

\* A flush of another line changes no entry that NVM shows.
LEMMA FlushLineKeeps == ASSUME IInv, NEW s, FlushLine(s), UNCHANGED cache PROVE
    CacheOK' /\ NvmOK' /\ EntriesAgree'
<1>1. CacheOK'
  BY DEF IInv, CacheOK, cache, header
<1>2. bitmap \subseteq Slots /\ p_bitmap \subseteq Slots
  BY DEF IInv, TypeOK
<1>3. \A r \in p_bitmap : p_ent'[r] = p_ent[r]
  BY <1>2, FlushLineEffect DEF IInv, EntriesAgree
<1>4. NvmOK'
  BY <1>3, FlushLineEffect DEF IInv, NvmOK, Describes
<1>5. EntriesAgree'
  BY <1>2, <1>3, FlushLineEffect DEF IInv, EntriesAgree, cache, header
<1> QED
  BY <1>1, <1>4, <1>5

-----------------------------------------------------------------------------
(***************************************************************************)
(* The steps that leave the leaf and NVM alone.                            *)
(***************************************************************************)
LEMMA SameLeaf == ASSUME IInv, UNCHANGED <<bitmap, fgpt, ent, nvm>> PROVE
    CacheOK' /\ NvmOK' /\ EntriesAgree'
BY DEF IInv, CacheOK, NvmOK, EntriesAgree, nvm

LEMMA TakeStep ==
    ASSUME IInv, Threads = 1, TypeOK', NEW l \in {"insert", "split", "del", "relink"}, NEW k,
           Take(l, k),
           l \in {"insert", "split"} => k \in Keys \ KeysOf(bitmap, ent),
           l = "split" => bitmap = Slots
    PROVE  IInv'
<1> USE DEF Fresh, Filling, Halving, Holding
<1>1. CacheOK' /\ NvmOK' /\ EntriesAgree'
  BY SameLeaf DEF Take
<1>2. ~tail /\ ~tail'
  BY DEF Take
<1>3. ChainAgrees' /\ HeaderAgrees' /\ TailOnlyAfterReturn'
  BY <1>2 DEF Take, IInv, ChainAgrees, HeaderAgrees, HeaderDue, TailOnlyAfterReturn, nvm
<1>4. MetaOK' /\ FreshOK'
  BY DEF Take, IInv, MetaOK, FreshOK, CacheOK, Describes
<1>5. InsertOK' /\ FullOK'
  BY DEF Take, InsertOK, FullOK, KeysOf
<1>6. CopyOK' /\ FillOK' /\ SplitOK' /\ LinkOK'
  BY DEF Take, CopyOK, FillOK, SplitOK, LinkOK
<1> QED
  BY <1>1, <1>3, <1>4, <1>5, <1>6 DEF IInv

LEMMA MarkDeletedStep == ASSUME IInv, TypeOK', MarkDeleted PROVE IInv'
<1> USE DEF Fresh, Filling, Halving, Holding
<1> PICK d \in bitmap : /\ ent[d] = key
                        /\ meta' = [meta EXCEPT !.bitmap = meta.bitmap \ {d}]
  BY DEF MarkDeleted
<1>0. /\ pc = "del" /\ pc' = "word0"
      /\ UNCHANGED <<bitmap, lock, alt, fgpt, ent, next, nvm, key, slot, tail, newp, safe>>
  BY DEF MarkDeleted, cache, header, others
<1>m. /\ meta.bitmap = bitmap /\ meta.alt = alt /\ meta \in MetaType
      /\ meta'.bitmap = bitmap \ {d} /\ meta'.alt = alt /\ meta'.fgpt = meta.fgpt
  BY <1>0 DEF IInv, FreshOK, TypeOK, MetaType
<1>1. CacheOK' /\ NvmOK' /\ EntriesAgree'
  BY <1>0, SameLeaf
<1>3. ChainAgrees' /\ HeaderAgrees' /\ TailOnlyAfterReturn'
  BY <1>0 DEF IInv, ChainAgrees, HeaderAgrees, HeaderDue, TailOnlyAfterReturn, nvm
<1>4. MetaOK' /\ FreshOK'
  BY <1>0, <1>m DEF IInv, MetaOK, FreshOK, CacheOK, Describes
<1>5. InsertOK' /\ FullOK' /\ CopyOK' /\ SplitOK' /\ LinkOK'
  BY <1>0 DEF InsertOK, FullOK, CopyOK, SplitOK, LinkOK
<1>6. Removes'
  BY <1>0, <1>m DEF IInv, CacheOK, Describes, Removes, KeysOf
<1>7. FillOK'
  BY <1>0, <1>m, <1>6 DEF IInv, FillOK, EntriesAgree, MetaOK, CacheOK, Describes, nvm
<1> QED
  BY <1>1, <1>3, <1>4, <1>5, <1>7 DEF IInv

-----------------------------------------------------------------------------
(***************************************************************************)
(* insert into a leaf with room.                                           *)
(***************************************************************************)
LEMMA WriteEntryStep == ASSUME IInv, TypeOK', WriteEntry PROVE IInv'
<1> USE DEF Fresh, Filling, Halving, Holding
<1> PICK s \in Slots :
        /\ FirstEmpty(s, meta.bitmap)
        /\ slot' = s
        /\ ent' = [ent EXCEPT ![s] = key]
        /\ meta' = [meta EXCEPT !.bitmap = meta.bitmap \cup {s},
                                !.fgpt = [meta.fgpt EXCEPT ![s] = hashcode1B[key]]]
        /\ pc' = IF s \in Line0 THEN "word0" ELSE "copy"
  BY DEF WriteEntry
<1>0. /\ pc = "insert"
      /\ UNCHANGED <<bitmap, lock, alt, fgpt, next, nvm, key, tail, newp, safe>>
  BY DEF WriteEntry, header, others
<1>1. /\ ent \in EntryType /\ fgpt \in [Slots -> Hash] /\ meta \in MetaType
      /\ bitmap \subseteq Slots /\ p_bitmap \subseteq Slots
      /\ meta.bitmap = bitmap /\ meta.alt = alt /\ key \in Keys /\ key \notin KeysOf(bitmap, ent)
      /\ p_bitmap = bitmap
  BY <1>0 DEF IInv, FreshOK, InsertOK, TypeOK, HeaderAgrees, HeaderDue, TailOnlyAfterReturn
<1>2. /\ s \notin bitmap /\ ent'[s] = key
      /\ \A r \in Slots : r # s => ent'[r] = ent[r]
  BY <1>1 DEF FirstEmpty, EntryType
<1>3. /\ meta'.bitmap = bitmap \cup {s} /\ meta'.alt = alt
      /\ meta'.fgpt = [meta.fgpt EXCEPT ![s] = hashcode1B[key]]
      /\ meta.fgpt \in [Slots -> Hash]
  BY <1>1 DEF MetaType
<1>4. /\ meta'.fgpt[s] = hashcode1B[key]
      /\ \A r \in Slots : r # s => meta'.fgpt[r] = meta.fgpt[r]
  BY <1>3
<1>5. CacheOK' /\ NvmOK' /\ EntriesAgree'
  BY <1>0, <1>1, <1>2 DEF IInv, CacheOK, NvmOK, EntriesAgree, Describes, nvm
<1>6. ChainAgrees' /\ HeaderAgrees' /\ TailOnlyAfterReturn'
  BY <1>0 DEF IInv, ChainAgrees, HeaderAgrees, HeaderDue, TailOnlyAfterReturn, nvm
<1>7. KeysOf(bitmap, ent') = KeysOf(bitmap, ent)
  BY <1>1, <1>2 DEF KeysOf
<1>8. MetaOK'
  BY <1>0, <1>1, <1>2, <1>3, <1>4 DEF IInv, MetaOK, CacheOK, Describes, KeysOf
<1>9. FreshOK' /\ InsertOK' /\ FullOK' /\ SplitOK' /\ LinkOK'
  BY <1>0, <1>1, <1>7 DEF FreshOK, InsertOK, FullOK, SplitOK, LinkOK
<1>10. CopyOK'
  <2>1. s \notin Line0 => Line0 \subseteq bitmap
    BY <1>1, SlotFacts DEF FirstEmpty, Slots, Line0
  <2> QED
    BY <1>0, <1>2, <1>3, <2>1 DEF CopyOK
<1>11. FillOK'
  <2>1. KeysOf(bitmap \cup {s}, ent') = KeysOf(bitmap, ent) \cup {key}
    BY <1>1, <1>2 DEF KeysOf
  <2>2. Adds'
    BY <1>0, <1>1, <1>3, <1>7, <2>1 DEF Adds
  <2>3. s \in Line0 => \A r \in meta'.bitmap \ Line0 : p_ent'[r] = ent'[r]
    BY <1>0, <1>1, <1>2, <1>3 DEF IInv, EntriesAgree, nvm
  <2>4. s \in Line0 => \A r \in meta'.bitmap \ Word0 : r # s /\ r \in bitmap
    BY <1>3, SlotFacts
  <2>5. s \in Line0 => \A r \in meta'.bitmap \ Word0 : fgpt'[r] = meta'.fgpt[r]
    BY <1>0, <1>1, <1>4, <2>4 DEF IInv, MetaOK, CacheOK, Describes
  <2> QED
    BY <1>0, <1>3, <2>2, <2>3, <2>5 DEF FillOK
<1> QED
  BY <1>5, <1>6, <1>8, <1>9, <1>10, <1>11 DEF IInv

\* The entries copied from line 0 leave the header describing the same keys:
\* the copies get bits, the originals lose theirs.
LEMMA CopyEntriesStep == ASSUME IInv, TypeOK', CopyEntries PROVE IInv'
<1> USE DEF Fresh, Filling, Halving, Holding
<1> PICK from \in [EmptyAfter -> Line0] :
        /\ InOrder(from)
        /\ ent' = [s \in Slots |-> IF s \in EmptyAfter THEN ent[from[s]] ELSE ent[s]]
        /\ meta' = [meta EXCEPT
              !.bitmap = MovedBits(from),
              !.fgpt = [s \in Slots |-> IF s \in EmptyAfter THEN meta.fgpt[from[s]]
                                                          ELSE meta.fgpt[s]]]
  BY DEF CopyEntries
<1> DEFINE moved == {from[s] : s \in EmptyAfter}
<1>0. /\ pc = "copy" /\ pc' = "flushEntry"
      /\ UNCHANGED <<bitmap, lock, alt, fgpt, next, nvm, key, slot, tail, newp, safe>>
  BY DEF CopyEntries, header, others
<1>1. /\ ent \in EntryType /\ meta \in MetaType /\ slot \in Slots
      /\ bitmap \subseteq Slots /\ p_bitmap = bitmap
      /\ meta.bitmap = bitmap \cup {slot} /\ meta.alt = alt
      /\ slot \notin bitmap /\ ent[slot] = key /\ Line0 \subseteq bitmap
      /\ key \in Keys /\ key \notin KeysOf(bitmap, ent)
      /\ Describes(meta.bitmap, meta.fgpt, ent)
  BY <1>0 DEF IInv, CopyOK, InsertOK, MetaOK, TypeOK, HeaderAgrees, HeaderDue,
     TailOnlyAfterReturn
<1>2. /\ EmptyAfter \subseteq Slots /\ EmptyAfter \subseteq Line(slot)
      /\ \A s \in EmptyAfter : s \notin bitmap /\ s # slot /\ s \notin Line0
      /\ \A s \in EmptyAfter : from[s] \in Line0 /\ from[s] \in bitmap
      /\ \A r, s \in EmptyAfter : r # s => from[r] # from[s]
  <2>1. /\ EmptyAfter \subseteq Slots /\ EmptyAfter \subseteq Line(slot)
        /\ \A s \in EmptyAfter : s \notin bitmap /\ s # slot /\ s \notin Line0
    BY <1>1 DEF EmptyAfter, Line
  <2>2. \A s \in EmptyAfter : from[s] \in Line0 /\ from[s] \in bitmap
    BY <1>1
  <2>3. \A r, s \in EmptyAfter : r # s => from[r] # from[s]
    <3>1. \A r, s \in EmptyAfter : r < s => from[r] < from[s]
      BY DEF InOrder
    <3>2. \A r \in EmptyAfter : r \in Int /\ from[r] \in Int
      BY <2>1, <2>2, SlotFacts
    <3> QED
      BY <3>1, <3>2
  <2> QED
    BY <2>1, <2>2, <2>3
<1>3. /\ \A s \in EmptyAfter : ent'[s] = ent[from[s]]
      /\ \A s \in Slots \ EmptyAfter : ent'[s] = ent[s]
  BY <1>2
<1>4. /\ meta'.bitmap = (bitmap \cup {slot} \cup EmptyAfter) \ moved /\ meta'.alt = alt
      /\ \A s \in EmptyAfter : meta'.fgpt[s] = meta.fgpt[from[s]]
      /\ \A s \in Slots \ EmptyAfter : meta'.fgpt[s] = meta.fgpt[s]
  BY <1>1, <1>2 DEF MetaType, MovedBits
<1> HIDE DEF moved
<1>m. /\ \A s \in EmptyAfter : from[s] \in moved
      /\ \A x \in moved : \E s \in EmptyAfter : x = from[s]
  BY DEF moved
<1>5. CacheOK' /\ NvmOK' /\ EntriesAgree'
  BY <1>0, <1>1, <1>2, <1>3 DEF IInv, CacheOK, NvmOK, EntriesAgree, Describes, nvm
<1>6. ChainAgrees' /\ HeaderAgrees' /\ TailOnlyAfterReturn'
  BY <1>0 DEF IInv, ChainAgrees, HeaderAgrees, HeaderDue, TailOnlyAfterReturn, nvm
<1>7. KeysOf(bitmap, ent') = KeysOf(bitmap, ent)
  <2>1. \A s \in bitmap : ent'[s] = ent[s]
    BY <1>1, <1>2, <1>3
  <2> QED
    BY ONLY <2>1 DEF KeysOf
<1>8. Describes(meta'.bitmap, meta'.fgpt, ent')
  <2>1. \A s \in meta'.bitmap : s \notin EmptyAfter => s \in meta.bitmap /\ s \in Slots
    BY <1>1, <1>4
  <2>2. ASSUME NEW s \in meta'.bitmap
        PROVE  ent'[s] \in Keys /\ meta'.fgpt[s] = hashcode1B[ent'[s]]
    BY <1>1, <1>2, <1>3, <1>4, <2>1 DEF Describes
  <2>3. ASSUME NEW r \in meta'.bitmap, NEW s \in meta'.bitmap, r # s
        PROVE  ent'[r] # ent'[s]
    <3>1. CASE r \in EmptyAfter /\ s \in EmptyAfter
      BY <1>1, <1>2, <1>3, <2>3, <3>1 DEF Describes
    <3>2. CASE r \in EmptyAfter /\ s \notin EmptyAfter
      BY <1>1, <1>2, <1>3, <1>4, <1>m, <2>1, <2>3, <3>2 DEF Describes
    <3>3. CASE r \notin EmptyAfter /\ s \in EmptyAfter
      BY <1>1, <1>2, <1>3, <1>4, <1>m, <2>1, <2>3, <3>3 DEF Describes
    <3>4. CASE r \notin EmptyAfter /\ s \notin EmptyAfter
      BY <1>1, <1>3, <2>1, <2>3, <3>4 DEF Describes
    <3> QED
      BY <3>1, <3>2, <3>3, <3>4
  <2> QED
    BY <2>2, <2>3 DEF Describes
<1>9. MetaOK'
  <2>1. \A s \in bitmap : meta'.fgpt[s] = hashcode1B[ent'[s]]
    BY <1>0, <1>1, <1>2, <1>3, <1>4 DEF IInv, MetaOK
  <2> QED
    BY <1>0, <1>8, <2>1 DEF MetaOK
<1>10. FreshOK' /\ InsertOK' /\ FullOK' /\ CopyOK' /\ SplitOK' /\ LinkOK'
  BY <1>0 DEF FreshOK, InsertOK, FullOK, CopyOK, SplitOK, LinkOK
<1>11. KeysOf(meta'.bitmap, ent') = KeysOf(bitmap, ent) \cup {key}
  <2>1. ASSUME NEW x \in bitmap \cup {slot}
        PROVE  \E s \in meta'.bitmap : ent'[s] = ent[x]
    <3>1. CASE x \in moved
      <4> PICK s \in EmptyAfter : x = from[s]
        BY <1>m, <3>1
      <4>1. s \in meta'.bitmap
        BY <1>2, <1>4, <1>m
      <4> QED
        BY <1>3, <4>1
    <3>2. CASE x \notin moved
      BY <1>1, <1>2, <1>3, <1>4, <3>2
    <3> QED
      BY <3>1, <3>2
  <2>2. ASSUME NEW s \in meta'.bitmap
        PROVE  \E x \in bitmap \cup {slot} : ent'[s] = ent[x]
    BY <1>1, <1>2, <1>3, <1>4
  <2>3. KeysOf(meta'.bitmap, ent') = KeysOf(bitmap \cup {slot}, ent)
    BY <2>1, <2>2, KeysOfSame
  <2> QED
    BY <1>1, <2>3 DEF KeysOf
<1>12. FillOK'
  <2>1. Adds'
    BY <1>0, <1>1, <1>7, <1>11 DEF Adds
  <2>2. \A s \in meta'.bitmap \ Line0 : p_ent'[s] = ent'[s] \/ s \in Line(slot)
    <3>1. slot \in Line(slot)
      BY <1>1 DEF Line
    <3> QED
      BY <1>0, <1>1, <1>2, <1>3, <1>4, <3>1 DEF IInv, EntriesAgree, nvm
  <2> QED
    BY <1>0, <1>4, <2>1, <2>2 DEF FillOK, Line
<1> QED
  BY <1>5, <1>6, <1>9, <1>10, <1>12 DEF IInv

LEMMA FlushEntryStep == ASSUME IInv, TypeOK', FlushEntry PROVE IInv'
<1> USE DEF Fresh, Filling, Halving, Holding
<1>0. /\ pc = "flushEntry" /\ pc' = "word1" /\ FlushLine(slot)
      /\ UNCHANGED <<bitmap, lock, alt, fgpt, ent, next, key, slot, meta, tail, newp, safe>>
  BY DEF FlushEntry, cache, header, others
<1>1. CacheOK' /\ NvmOK' /\ EntriesAgree'
  BY <1>0, FlushLineKeeps DEF cache, header
<1>2. ChainAgrees' /\ HeaderAgrees' /\ TailOnlyAfterReturn'
  BY <1>0, FlushLineEffect
     DEF IInv, ChainAgrees, HeaderAgrees, HeaderDue, TailOnlyAfterReturn
<1>3. MetaOK' /\ FreshOK' /\ InsertOK' /\ FullOK' /\ CopyOK' /\ SplitOK' /\ LinkOK'
  BY <1>0 DEF IInv, MetaOK, FreshOK, InsertOK, FullOK, CopyOK, SplitOK, LinkOK
<1>4. FillOK'
  <2>1. meta.bitmap \subseteq Slots
    BY MetaFields DEF IInv
  <2>2. \A s \in meta.bitmap \ Line0 : p_ent'[s] = ent[s]
    BY <1>0, <2>1, FlushLineEffect DEF IInv, FillOK
  <2> QED
    BY <1>0, <2>2 DEF IInv, FillOK, Adds
<1> QED
  BY <1>1, <1>2, <1>3, <1>4 DEF IInv

\* The first word changes no fingerprint of an entry the header shows.
LEMMA SetWord1Step == ASSUME IInv, TypeOK', SetWord1 PROVE IInv'
<1> USE DEF Fresh, Filling, Halving, Holding
<1>0. /\ pc \in {"word1", "splitWord1"} /\ pc' = IF pc = "word1" THEN "word0" ELSE "splitWord0"
      /\ fgpt' = [s \in Slots |-> IF s \in Word0 THEN fgpt[s] ELSE meta.fgpt[s]]
      /\ UNCHANGED <<bitmap, lock, alt, ent, next, nvm, key, slot, meta, tail, newp, safe>>
  BY DEF SetWord1, others
<1>1. bitmap \subseteq Slots /\ meta.bitmap \subseteq Slots
  BY MetaFields DEF IInv, TypeOK
<1>2. CacheOK' /\ NvmOK' /\ EntriesAgree'
  BY <1>0, <1>1 DEF IInv, CacheOK, NvmOK, EntriesAgree, MetaOK, Describes, nvm
<1>3. ChainAgrees' /\ HeaderAgrees' /\ TailOnlyAfterReturn'
  BY <1>0 DEF IInv, ChainAgrees, HeaderAgrees, HeaderDue, TailOnlyAfterReturn, nvm
<1>4. MetaOK' /\ FreshOK' /\ InsertOK' /\ FullOK' /\ CopyOK'
  BY <1>0 DEF IInv, MetaOK, FreshOK, InsertOK, FullOK, CopyOK
<1>5. SplitOK' /\ LinkOK'
  BY <1>0 DEF IInv, SplitOK, LinkOK, IsUpperHalf, Above, nvm
<1>6. FillOK'
  BY <1>0, <1>1 DEF IInv, FillOK, Adds, nvm
<1> QED
  BY <1>2, <1>3, <1>4, <1>5, <1>6 DEF IInv

\* The store of word 0 makes the cached header the one meta prepared.
LEMMA StoreWord0Effect ==
    ASSUME IInv, NEW u, StoreWord0(u), pc \in {"word0", "splitWord0"}
    PROVE  /\ bitmap' = meta.bitmap /\ alt' = meta.alt /\ ent' = ent /\ next' = next
           /\ Describes(meta.bitmap, fgpt', ent)
           /\ \A s \in meta.bitmap \ Line0 : p_ent[s] = ent[s]
           /\ meta.bitmap \subseteq Slots
<1>1. meta.bitmap \subseteq Slots
  BY MetaFields DEF IInv
<1>2. \A s \in meta.bitmap : fgpt'[s] = meta.fgpt[s]
  BY <1>1 DEF StoreWord0, IInv, FillOK
<1>3. Describes(meta.bitmap, meta.fgpt, ent)
  BY DEF IInv, MetaOK, Holding, Halving
<1>4. Describes(meta.bitmap, fgpt', ent)
  BY <1>2, <1>3 DEF Describes
<1> QED
  BY <1>1, <1>4 DEF StoreWord0, IInv, FillOK

LEMMA SetWord0Step == ASSUME IInv, TypeOK', SetWord0 PROVE IInv'
<1> USE DEF Fresh, Filling, Halving, Holding
<1> PICK u : StoreWord0(u)
  BY DEF SetWord0
<1>0. /\ pc = "word0" /\ pc' \in {"idle", "rootLocked"} /\ tail'
      /\ UNCHANGED <<nvm, newp, safe>>
  BY DEF SetWord0, Leave, others
<1>1. /\ CacheOK' /\ NvmOK' /\ EntriesAgree'
  BY <1>0, StoreWord0Effect DEF IInv, CacheOK, NvmOK, EntriesAgree, nvm
<1>2. ChainAgrees' /\ HeaderAgrees' /\ TailOnlyAfterReturn'
  BY <1>0, StoreWord0Effect
     DEF IInv, ChainAgrees, HeaderAgrees, HeaderDue, TailOnlyAfterReturn, FillOK, nvm
<1>3. MetaOK' /\ FreshOK' /\ InsertOK' /\ FullOK' /\ CopyOK' /\ FillOK' /\ SplitOK' /\ LinkOK'
  BY <1>0 DEF MetaOK, FreshOK, InsertOK, FullOK, CopyOK, FillOK, SplitOK, LinkOK
<1> QED
  BY <1>1, <1>2, <1>3 DEF IInv

\* The flush at the end of a call, and the one between a split and the
\* insertion into the half that is left.
LEMMA FlushHeaderStep == ASSUME IInv, TypeOK', FlushHeader PROVE IInv'
<1> USE DEF Fresh, Filling, Halving, Holding
<1>0. /\ tail /\ ~tail' /\ FlushLine0 /\ pc \in {"idle", "rootLocked"}
      /\ UNCHANGED <<bitmap, lock, alt, fgpt, ent, next, pc, key, slot, meta, newp, safe>>
  BY DEF FlushHeader, cache, header, caller, others, IInv, TailOnlyAfterReturn, TypeOK
<1>1. CacheOK' /\ NvmOK' /\ EntriesAgree'
  BY <1>0, FlushLine0Keeps DEF cache, header
<1>2. ChainAgrees' /\ HeaderAgrees' /\ TailOnlyAfterReturn'
  BY <1>0, FlushLine0Effect DEF IInv, ChainAgrees, HeaderAgrees, TailOnlyAfterReturn
<1>3. MetaOK' /\ FreshOK' /\ InsertOK' /\ FullOK' /\ CopyOK' /\ FillOK' /\ SplitOK' /\ LinkOK'
  BY <1>0 DEF MetaOK, FreshOK, InsertOK, FullOK, CopyOK, FillOK, SplitOK, LinkOK
<1> QED
  BY <1>1, <1>2, <1>3 DEF IInv

LEMMA FlushSplitStep == ASSUME IInv, TypeOK', FlushSplit PROVE IInv'
<1> USE DEF Fresh, Filling, Halving, Holding
<1>0. /\ pc = "flushSplit" /\ pc' = "insert" /\ FlushLine0
      /\ UNCHANGED <<bitmap, lock, alt, fgpt, ent, next, key, slot, meta, tail, newp, safe>>
  BY DEF FlushSplit, cache, header, others
<1>1. CacheOK' /\ NvmOK' /\ EntriesAgree'
  BY <1>0, FlushLine0Keeps DEF cache, header
<1>2. ChainAgrees' /\ HeaderAgrees' /\ TailOnlyAfterReturn'
  BY <1>0, FlushLine0Effect DEF IInv, ChainAgrees, HeaderAgrees, TailOnlyAfterReturn
<1>3. MetaOK' /\ FreshOK' /\ InsertOK' /\ FullOK' /\ CopyOK' /\ FillOK' /\ SplitOK' /\ LinkOK'
  BY <1>0 DEF IInv, MetaOK, FreshOK, InsertOK, FullOK, CopyOK, FillOK, SplitOK, LinkOK
<1> QED
  BY <1>1, <1>2, <1>3 DEF IInv

-----------------------------------------------------------------------------
(***************************************************************************)
(* The cache evicts a line at any stage.                                   *)
(***************************************************************************)
LEMMA SameCaller == ASSUME IInv, UNCHANGED <<cache, caller, tail, others>>
                    PROVE  MetaOK' /\ FreshOK' /\ InsertOK' /\ FullOK' /\ CopyOK' /\ SplitOK'
<1>1. UNCHANGED <<bitmap, lock, alt, fgpt, ent, next, pc, key, slot, meta, tail, newp, safe>>
  BY DEF cache, header, caller, others
<1>2. MetaOK' /\ FreshOK' /\ InsertOK' /\ FullOK' /\ CopyOK'
  BY <1>1 DEF IInv, MetaOK, FreshOK, InsertOK, FullOK, CopyOK
<1>3. SplitOK'
  BY <1>1 DEF IInv, SplitOK, IsUpperHalf, Above
<1> QED
  BY <1>2, <1>3

LEMMA EvictLine0Step == ASSUME IInv, TypeOK', EvictLine0 PROVE IInv'
<1>0. /\ FlushLine0 /\ UNCHANGED <<cache, caller, tail, others>>
      /\ UNCHANGED <<bitmap, lock, alt, fgpt, ent, next, pc, key, slot, meta, tail, newp, safe>>
  BY DEF EvictLine0, cache, header, caller, others
<1>1. CacheOK' /\ NvmOK' /\ EntriesAgree'
  BY <1>0, FlushLine0Keeps
<1>2. MetaOK' /\ FreshOK' /\ InsertOK' /\ FullOK' /\ CopyOK' /\ SplitOK'
  BY <1>0, SameCaller
<1>3. ChainAgrees' /\ HeaderAgrees' /\ TailOnlyAfterReturn'
  <2>1. pc = "flushNext" => p_alt' = p_alt
    BY <1>0, FlushLine0Effect DEF IInv, HeaderAgrees, HeaderDue, TailOnlyAfterReturn
  <2> QED
    BY <1>0, <2>1, FlushLine0Effect DEF IInv, ChainAgrees, HeaderAgrees, TailOnlyAfterReturn
<1>4. FillOK' /\ LinkOK'
  <2>1. meta.bitmap \subseteq Slots
    BY MetaFields DEF IInv
  <2> QED
    BY <1>0, <2>1, FlushLine0Effect DEF IInv, FillOK, LinkOK, Adds, Removes
<1> QED
  BY <1>1, <1>2, <1>3, <1>4 DEF IInv

LEMMA EvictLineStep == ASSUME IInv, TypeOK', NEW s \in Slots, EvictLine(s) PROVE IInv'
<1>0. /\ FlushLine(s) /\ UNCHANGED <<cache, caller, tail, others>>
      /\ UNCHANGED <<bitmap, lock, alt, fgpt, ent, next, pc, key, slot, meta, tail, newp, safe>>
  BY DEF EvictLine, cache, header, caller, others
<1>1. CacheOK' /\ NvmOK' /\ EntriesAgree'
  BY <1>0, FlushLineKeeps
<1>2. MetaOK' /\ FreshOK' /\ InsertOK' /\ FullOK' /\ CopyOK' /\ SplitOK'
  BY <1>0, SameCaller
<1>3. ChainAgrees' /\ HeaderAgrees' /\ TailOnlyAfterReturn'
  BY <1>0, FlushLineEffect
     DEF IInv, ChainAgrees, HeaderAgrees, HeaderDue, TailOnlyAfterReturn
<1>4. FillOK' /\ LinkOK'
  <2>1. meta.bitmap \subseteq Slots
    BY MetaFields DEF IInv
  <2> QED
    BY <1>0, <2>1, FlushLineEffect DEF IInv, FillOK, LinkOK, Adds, Removes
<1> QED
  BY <1>1, <1>2, <1>3, <1>4 DEF IInv

-----------------------------------------------------------------------------
(***************************************************************************)
(* insert into a full leaf.                                                *)
(***************************************************************************)
LEMMA WriteNewStep == ASSUME IInv, TypeOK', WriteNew PROVE IInv'
<1> USE DEF Fresh, Filling, Halving, Holding
<1> PICK U \in SUBSET Slots, n \in Nodes \ {next[alt]} :
        /\ IsUpperHalf(U)
        /\ newp' = [at |-> n, next |-> next[alt],
                    keys |-> KeysOf(U, ent) \cup (IF Above(U) THEN {key} ELSE {})]
        /\ safe' = safe \ {n}
        /\ meta' = [meta EXCEPT !.bitmap = Slots \ U, !.alt = OtherNext]
  BY DEF WriteNew
<1>0. /\ pc = "split" /\ pc' = "link" /\ ~tail
      /\ UNCHANGED <<bitmap, lock, alt, fgpt, ent, next, nvm, key, slot, tail>>
  BY DEF WriteNew, cache, header, IInv, TailOnlyAfterReturn, TypeOK
<1>1. meta'.bitmap = Slots \ U /\ meta'.alt = 1 - alt /\ meta'.fgpt = meta.fgpt
  BY DEF IInv, TypeOK, MetaType, OtherNext
<1>2. CacheOK' /\ NvmOK' /\ EntriesAgree'
  BY <1>0, SameLeaf
<1>3. ChainAgrees' /\ HeaderAgrees' /\ TailOnlyAfterReturn'
  BY <1>0 DEF IInv, ChainAgrees, HeaderAgrees, HeaderDue, TailOnlyAfterReturn, nvm
<1>4. MetaOK'
  BY <1>0, <1>1 DEF IInv, MetaOK, FreshOK, FullOK, Describes
<1>5. FreshOK' /\ InsertOK' /\ FullOK' /\ CopyOK' /\ FillOK' /\ LinkOK'
  BY <1>0 DEF IInv, FreshOK, InsertOK, FullOK, CopyOK, FillOK, LinkOK
<1>6. SplitOK'
  <2>1. IsUpperHalf(U)' /\ Above(U)' = Above(U)
    BY <1>0 DEF IsUpperHalf, Above
  <2> QED
    BY <1>0, <1>1, <2>1 DEF SplitOK
<1> QED
  BY <1>2, <1>3, <1>4, <1>5, <1>6 DEF IInv

LEMMA LinkNewStep == ASSUME IInv, TypeOK', LinkNew PROVE IInv'
<1> USE DEF Fresh, Filling, Halving, Holding
<1>0. /\ pc = "link" /\ pc' = "flushNew" /\ ~tail
      /\ UNCHANGED <<bitmap, lock, alt, fgpt, ent, nvm, key, slot, meta, tail, newp, safe>>
  BY DEF LinkNew, header, others, IInv, TailOnlyAfterReturn, TypeOK
<1>1. alt \in {0, 1} /\ next \in LinkType /\ 1 - alt # alt /\ p_alt = alt
  BY <1>0 DEF IInv, TypeOK, HeaderAgrees, HeaderDue
<1>2. next'[1 - alt] = newp.at /\ next'[alt] = next[alt]
  BY <1>1 DEF LinkNew, OtherNext, LinkType
<1>3. CacheOK' /\ NvmOK' /\ EntriesAgree'
  BY <1>0, SameLeaf
<1>4. ChainAgrees' /\ HeaderAgrees' /\ TailOnlyAfterReturn'
  BY <1>0, <1>1, <1>2 DEF IInv, ChainAgrees, HeaderAgrees, HeaderDue, TailOnlyAfterReturn, nvm
<1>5. MetaOK' /\ FreshOK' /\ InsertOK' /\ FullOK' /\ CopyOK' /\ FillOK'
  BY <1>0 DEF IInv, MetaOK, FreshOK, InsertOK, FullOK, CopyOK, FillOK
<1>6. SplitOK' /\ LinkOK'
  BY <1>0, <1>2 DEF IInv, SplitOK, LinkOK, IsUpperHalf, Above
<1> QED
  BY <1>3, <1>4, <1>5, <1>6 DEF IInv

LEMMA FlushNewStep == ASSUME IInv, TypeOK', FlushNew PROVE IInv'
<1> USE DEF Fresh, Filling, Halving, Holding
<1>0. /\ pc = "flushNew" /\ pc' = "splitWord1" /\ FlushLine(LEAF_KEY_NUM - 1)
      /\ safe' = safe \cup {newp.at}
      /\ UNCHANGED <<bitmap, lock, alt, fgpt, ent, next, key, slot, meta, tail, newp>>
  BY DEF FlushNew, cache, header
<1>1. CacheOK' /\ NvmOK' /\ EntriesAgree'
  BY <1>0, FlushLineKeeps DEF cache, header
<1>2. ChainAgrees' /\ HeaderAgrees' /\ TailOnlyAfterReturn'
  BY <1>0, FlushLineEffect
     DEF IInv, ChainAgrees, HeaderAgrees, HeaderDue, TailOnlyAfterReturn
<1>3. MetaOK' /\ FreshOK' /\ InsertOK' /\ FullOK' /\ CopyOK'
  BY <1>0 DEF IInv, MetaOK, FreshOK, InsertOK, FullOK, CopyOK
<1>4. SplitOK' /\ LinkOK'
  BY <1>0, FlushLineEffect DEF IInv, SplitOK, LinkOK, IsUpperHalf, Above
<1>5. FillOK'
  <2>1. \A s \in meta.bitmap \ Line0 : p_ent'[s] = ent[s]
    BY <1>0, <1>1, MetaFields DEF IInv, FullOK, EntriesAgree
  <2> QED
    BY <1>0, <2>1 DEF FillOK
<1> QED
  BY <1>1, <1>2, <1>3, <1>4, <1>5 DEF IInv

\* The store that switches to the new next pointer finds it on NVM.
LEMMA SwitchEffect ==
    ASSUME IInv, NEW u, StoreWord0(u), pc = "splitWord0", UNCHANGED <<nvm, safe>>
    PROVE  /\ CacheOK' /\ NvmOK' /\ EntriesAgree'
           /\ alt' = 1 - alt /\ p_next'[alt'] = next'[alt'] /\ next'[alt'] \in safe
           /\ p_next'[p_alt'] = next'[p_alt'] /\ p_next'[p_alt'] \in safe \cup {NULL}
<1> USE DEF Halving
<1>1. CacheOK' /\ NvmOK' /\ EntriesAgree'
  BY StoreWord0Effect DEF IInv, CacheOK, NvmOK, EntriesAgree, nvm
<1>2. /\ alt' = 1 - alt /\ next' = next /\ p_next' = p_next /\ p_alt' = p_alt
  BY StoreWord0Effect DEF IInv, SplitOK, nvm
<1> QED
  BY <1>1, <1>2 DEF IInv, LinkOK, ChainAgrees

LEMMA SplitAboveStep == ASSUME IInv, TypeOK', SplitAbove PROVE IInv'
<1> USE DEF Fresh, Filling, Halving, Holding
<1> PICK u : StoreWord0(u)
  BY DEF SplitAbove
<1>0. /\ pc = "splitWord0" /\ pc' \in {"idle", "rootLocked"} /\ tail'
      /\ UNCHANGED <<nvm, newp, safe>>
  BY DEF SplitAbove, Leave, others
<1>1. CacheOK' /\ NvmOK' /\ EntriesAgree'
  BY <1>0, SwitchEffect
<1>2. ChainAgrees' /\ HeaderAgrees' /\ TailOnlyAfterReturn'
  BY <1>0, SwitchEffect DEF ChainAgrees, HeaderAgrees, HeaderDue, TailOnlyAfterReturn
<1>3. MetaOK' /\ FreshOK' /\ InsertOK' /\ FullOK' /\ CopyOK' /\ FillOK' /\ SplitOK' /\ LinkOK'
  BY <1>0 DEF MetaOK, FreshOK, InsertOK, FullOK, CopyOK, FillOK, SplitOK, LinkOK
<1> QED
  BY <1>1, <1>2, <1>3 DEF IInv

LEMMA SplitBelowStep == ASSUME IInv, TypeOK', SplitBelow PROVE IInv'
<1> USE DEF Fresh, Filling, Halving, Holding
<1>0. /\ pc = "splitWord0" /\ pc' = "flushSplit" /\ StoreWord0(FALSE)
      /\ UNCHANGED <<nvm, key, slot, meta, tail, newp, safe>>
  BY DEF SplitBelow, others
<1>1. CacheOK' /\ NvmOK' /\ EntriesAgree'
  BY <1>0, SwitchEffect
<1>2. ChainAgrees' /\ HeaderAgrees' /\ TailOnlyAfterReturn'
  BY <1>0, SwitchEffect DEF IInv, ChainAgrees, HeaderAgrees, HeaderDue, TailOnlyAfterReturn
<1>3. bitmap' = meta.bitmap /\ alt' = meta.alt /\ ent' = ent /\ Describes(meta.bitmap, fgpt', ent)
  BY <1>0, StoreWord0Effect
<1>4. MetaOK'
  BY <1>0, <1>3 DEF IInv, MetaOK, Describes
<1>5. InsertOK'
  <2>1. meta.bitmap \subseteq bitmap
    BY <1>0, MetaFields DEF IInv, FullOK
  <2> QED
    BY <1>0, <1>3, <2>1 DEF IInv, InsertOK, KeysOf
<1>6. FreshOK' /\ FullOK' /\ CopyOK' /\ FillOK' /\ SplitOK' /\ LinkOK'
  BY <1>0, <1>3 DEF FreshOK, FullOK, CopyOK, FillOK, SplitOK, LinkOK
<1> QED
  BY <1>1, <1>2, <1>4, <1>5, <1>6 DEF IInv

-----------------------------------------------------------------------------
(***************************************************************************)
(* The relinked sibling, the unlocks, the crash.                           *)
(***************************************************************************)
LEMMA WriteNextStep == ASSUME IInv, TypeOK', WriteNext PROVE IInv'
<1> USE DEF Fresh, Filling, Halving, Holding
<1> PICK n \in (safe \cup {NULL}) \ {next[alt]} : next' = [next EXCEPT ![alt] = n]
  BY DEF WriteNext
<1>0. /\ pc = "relink" /\ pc' = "flushNext"
      /\ UNCHANGED <<bitmap, lock, alt, fgpt, ent, nvm, key, slot, meta, tail, newp, safe>>
  BY DEF WriteNext, header, others
<1>1. next'[alt] = n
  BY DEF IInv, TypeOK, LinkType
<1>2. CacheOK' /\ NvmOK' /\ EntriesAgree'
  BY <1>0, SameLeaf
<1>3. ChainAgrees' /\ HeaderAgrees' /\ TailOnlyAfterReturn'
  BY <1>0, <1>1 DEF IInv, ChainAgrees, HeaderAgrees, HeaderDue, TailOnlyAfterReturn, nvm
<1>4. MetaOK' /\ FreshOK' /\ InsertOK' /\ FullOK' /\ CopyOK' /\ FillOK' /\ SplitOK' /\ LinkOK'
  BY <1>0 DEF MetaOK, FreshOK, InsertOK, FullOK, CopyOK, FillOK, SplitOK, LinkOK
<1> QED
  BY <1>2, <1>3, <1>4 DEF IInv

LEMMA FlushNextStep == ASSUME IInv, TypeOK', FlushNext PROVE IInv'
<1> USE DEF Fresh, Filling, Halving, Holding
<1>0. /\ pc = "flushNext" /\ pc' = "unlockSibling" /\ FlushLine(LEAF_KEY_NUM - 1)
      /\ UNCHANGED <<bitmap, lock, alt, fgpt, ent, next, key, slot, meta, tail, newp, safe>>
  BY DEF FlushNext, cache, header, others
<1>1. CacheOK' /\ NvmOK' /\ EntriesAgree'
  BY <1>0, FlushLineKeeps DEF cache, header
<1>2. ChainAgrees' /\ HeaderAgrees' /\ TailOnlyAfterReturn'
  BY <1>0, FlushLineEffect
     DEF IInv, ChainAgrees, HeaderAgrees, HeaderDue, TailOnlyAfterReturn
<1>3. MetaOK' /\ FreshOK' /\ InsertOK' /\ FullOK' /\ CopyOK' /\ FillOK' /\ SplitOK' /\ LinkOK'
  BY <1>0 DEF MetaOK, FreshOK, InsertOK, FullOK, CopyOK, FillOK, SplitOK, LinkOK
<1> QED
  BY <1>1, <1>2, <1>3 DEF IInv

LEMMA UnlockStep == ASSUME IInv, TypeOK', UnlockRoot \/ UnlockSibling PROVE IInv'
<1> USE DEF Fresh, Filling, Halving, Holding
<1>0. /\ pc \in {"rootLocked", "unlockSibling"} /\ pc' = "idle"
      /\ UNCHANGED <<bitmap, alt, fgpt, ent, next, nvm, tail, newp, safe>>
  BY DEF UnlockRoot, UnlockSibling, Leave, others
<1>1. CacheOK' /\ NvmOK' /\ EntriesAgree'
  BY <1>0, SameLeaf
<1>2. ChainAgrees' /\ HeaderAgrees' /\ TailOnlyAfterReturn'
  BY <1>0 DEF IInv, ChainAgrees, HeaderAgrees, HeaderDue, TailOnlyAfterReturn, nvm
<1>3. MetaOK' /\ FreshOK' /\ InsertOK' /\ FullOK' /\ CopyOK' /\ FillOK' /\ SplitOK' /\ LinkOK'
  BY <1>0 DEF MetaOK, FreshOK, InsertOK, FullOK, CopyOK, FillOK, SplitOK, LinkOK
<1> QED
  BY <1>1, <1>2, <1>3 DEF IInv

LEMMA CrashStep == ASSUME IInv, TypeOK', Crash PROVE IInv'
<1> USE DEF Fresh, Filling, Halving, Holding
<1>0. /\ bitmap' = p_bitmap /\ alt' = p_alt /\ fgpt' = p_fgpt /\ ent' = p_ent /\ next' = p_next
      /\ pc' = "idle" /\ ~tail' /\ UNCHANGED <<nvm, newp, safe>>
  BY DEF Crash, Leave, others
<1>1. CacheOK' /\ NvmOK' /\ EntriesAgree'
  BY <1>0 DEF IInv, CacheOK, NvmOK, EntriesAgree, Describes, nvm
<1>2. ChainAgrees' /\ HeaderAgrees' /\ TailOnlyAfterReturn'
  BY <1>0 DEF IInv, ChainAgrees, HeaderAgrees, HeaderDue, TailOnlyAfterReturn, nvm
<1>3. MetaOK' /\ FreshOK' /\ InsertOK' /\ FullOK' /\ CopyOK' /\ FillOK' /\ SplitOK' /\ LinkOK'
  BY <1>0 DEF MetaOK, FreshOK, InsertOK, FullOK, CopyOK, FillOK, SplitOK, LinkOK
<1> QED
  BY <1>1, <1>2, <1>3 DEF IInv

-----------------------------------------------------------------------------
(***************************************************************************)
(* The theorems.                                                           *)
(***************************************************************************)
LEMMA InitIInv == Init => IInv
<1> SUFFICES ASSUME Init PROVE IInv
  OBVIOUS
<1> USE DEF Fresh, Filling, Halving, Holding
<1>1. TypeOK
  BY InitTypeOK
<1>2. CacheOK /\ NvmOK /\ EntriesAgree
  <2>1. \A r, s \in bitmap : r # s => ent[r] # ent[s]
    <3>1. \A s \in bitmap : s \in Int /\ ent[s] \in Int
      BY <1>1, SlotFacts DEF Init, TypeOK
    <3>2. \A r, s \in bitmap : r < s => ent[r] < ent[s]
      BY DEF Init
    <3> QED
      BY <3>1, <3>2
  <2> QED
    BY <2>1, ZenonT(60) DEF Init, CacheOK, NvmOK, EntriesAgree, Describes
<1>3. ChainAgrees /\ HeaderAgrees /\ TailOnlyAfterReturn
  BY DEF Init, ChainAgrees, HeaderAgrees, TailOnlyAfterReturn
<1>4. MetaOK /\ FreshOK /\ InsertOK /\ FullOK /\ CopyOK /\ FillOK /\ SplitOK /\ LinkOK
  BY DEF Init, MetaOK, FreshOK, InsertOK, FullOK, CopyOK, FillOK, SplitOK, LinkOK
<1> QED
  BY <1>1, <1>2, <1>3, <1>4 DEF IInv

LEMMA NextIInv == ASSUME Threads = 1 PROVE IInv /\ [Next]_vars => IInv'
<1> SUFFICES ASSUME IInv, [Next]_vars PROVE IInv'
  OBVIOUS
<1>t. TypeOK'
  BY NextTypeOK
<1>1. ASSUME NEW k \in Keys, BeginInsert(k) PROVE IInv'
  BY <1>1, <1>t, TakeStep DEF BeginInsert
<1>2. ASSUME NEW k \in Keys, BeginDel(k) PROVE IInv'
  BY <1>2, <1>t, TakeStep DEF BeginDel
<1>3. CASE BeginRelink
  BY <1>3, <1>t, TakeStep DEF BeginRelink
<1>4. CASE Insert
  BY <1>4, <1>t, WriteEntryStep, CopyEntriesStep, FlushEntryStep, SetWord1Step, SetWord0Step,
     FlushHeaderStep, WriteNewStep, LinkNewStep, FlushNewStep, SplitAboveStep, SplitBelowStep,
     FlushSplitStep, UnlockStep DEF Insert
<1>5. CASE Del
  BY <1>5, <1>t, MarkDeletedStep, WriteNextStep, FlushNextStep, UnlockStep DEF Del
<1>6. CASE Evict
  BY <1>6, <1>t, EvictLine0Step, EvictLineStep DEF Evict
<1>7. CASE Crash
  BY <1>7, <1>t, CrashStep
<1>8. CASE UNCHANGED vars
  <2>1. /\ UNCHANGED <<cache, caller, tail, others>>
        /\ UNCHANGED <<bitmap, lock, alt, fgpt, ent, next, pc, key, slot, meta, tail, newp, safe>>
        /\ UNCHANGED nvm
    BY <1>8 DEF vars, cache, header, caller, others
  <2>2. MetaOK' /\ FreshOK' /\ InsertOK' /\ FullOK' /\ CopyOK' /\ SplitOK'
    BY <2>1, SameCaller
  <2>3. CacheOK' /\ NvmOK' /\ EntriesAgree'
    BY <2>1, SameLeaf
  <2>4. ChainAgrees' /\ HeaderAgrees' /\ TailOnlyAfterReturn'
    BY <2>1 DEF IInv, ChainAgrees, HeaderAgrees, HeaderDue, TailOnlyAfterReturn, nvm
  <2>5. FillOK' /\ LinkOK'
    BY <2>1 DEF IInv, FillOK, LinkOK, Adds, Removes, nvm
  <2> QED
    BY <1>t, <2>2, <2>3, <2>4, <2>5 DEF IInv
<1> QED
  BY <1>1, <1>2, <1>3, <1>4, <1>5, <1>6, <1>7, <1>8 DEF Next

LEMMA Invariance == ASSUME Threads = 1 PROVE Spec => []IInv
<1>1. Init => IInv
  BY InitIInv
<1>2. IInv /\ [Next]_vars => IInv'
  BY NextIInv
<1> QED
  BY <1>1, <1>2, PTL DEF Spec

\* With one thread (Threads = 1): every variable of a leaf, and of its copy
\* on NVM, keeps its type.
THEOREM TypeCorrect == ASSUME Threads = 1 PROVE Spec => []TypeOK
<1>1. IInv => TypeOK
  BY DEF IInv
<1> QED
  BY <1>1, Invariance, PTL

\* With one thread (Threads = 1; the run nvm_leaf_shared refutes it for two):
\* whenever power fails, each entry of the leaf on NVM is a key with its own
\* fingerprint: insert shows an entry only after the entry is on NVM.
THEOREM FingerprintsOnNvm == ASSUME Threads = 1 PROVE Spec => []FingerprintsMatch
<1>1. IInv => FingerprintsMatch
  BY DEF IInv, NvmOK, Describes, FingerprintsMatch
<1> QED
  BY <1>1, Invariance, PTL

\* With one thread (Threads = 1): whenever power fails, no key is in the leaf
\* twice, also in the middle of insert's move of entries out of line 0.
THEOREM NoDuplicatesOnNvm == ASSUME Threads = 1 PROVE Spec => []NoDuplicates
<1>1. IInv => NoDuplicates
  BY DEF IInv, NvmOK, Describes, NoDuplicates
<1> QED
  BY <1>1, Invariance, PTL

\* With one thread (Threads = 1): once insert or del has returned, its change
\* survives a power failure.
THEOREM ReturnedSurvives == ASSUME Threads = 1 PROVE Spec => []ReturnedIsDurable
<1>1. IInv => ReturnedIsDurable
  <2> SUFFICES ASSUME IInv, pc = "idle", ~tail PROVE Durable = Seen
    BY DEF ReturnedIsDurable
  <2>1. p_bitmap = bitmap /\ p_alt = alt /\ p_next[alt] = next[alt]
    BY DEF IInv, HeaderAgrees, HeaderDue, ChainAgrees
  <2>2. KeysOf(p_bitmap, p_ent) = KeysOf(bitmap, ent)
    BY <2>1, KeysOfSame DEF IInv, EntriesAgree
  <2> QED
    BY <2>1, <2>2 DEF Durable, Seen
<1> QED
  BY <1>1, Invariance, PTL

\* With one thread (Threads = 1): whenever power fails, the leaf links to a
\* leaf that is whole on NVM: the new leaf of a split is linked in only after
\* it has been flushed.
THEOREM ChainOnNvm == ASSUME Threads = 1 PROVE Spec => []NextIsWhole
<1>1. IInv => NextIsWhole
  BY DEF IInv, ChainAgrees, NextIsWhole
<1> QED
  BY <1>1, Invariance, PTL

-----------------------------------------------------------------------------
(***************************************************************************)
(* The leaf implements DurableLeaf.                                        *)
(***************************************************************************)
LEMMA NothingSeen == ASSUME UNCHANGED <<bitmap, alt, ent, next>> PROVE UNCHANGED Seen
BY DEF Seen

LEMMA NothingDurable == ASSUME UNCHANGED nvm PROVE UNCHANGED Durable
BY DEF Durable, nvm

\* A flush of line 0 makes NVM show what the threads see.
LEMMA FlushLine0Persists == ASSUME IInv, FlushLine0, UNCHANGED cache PROVE
    UNCHANGED Seen /\ (Durable' = Seen \/ UNCHANGED Durable)
<1>1. UNCHANGED <<bitmap, alt, ent, next>>
  BY DEF cache, header
<1>2. KeysOf(p_bitmap', p_ent') = KeysOf(bitmap, ent)
  BY FlushLine0Effect, KeysOfSame
<1>3. p_alt' = alt /\ p_next' = p_next
  BY FlushLine0Effect
<1>4. CASE pc # "flushNext"
  BY <1>1, <1>2, <1>3, <1>4, NothingSeen DEF IInv, ChainAgrees, Seen, Durable
<1>5. CASE pc = "flushNext"
  <2>1. p_bitmap = bitmap /\ p_alt = alt
    BY <1>5 DEF IInv, HeaderAgrees, HeaderDue, TailOnlyAfterReturn
  <2>2. KeysOf(p_bitmap, p_ent) = KeysOf(bitmap, ent)
    BY <2>1, KeysOfSame DEF IInv, EntriesAgree
  <2> QED
    BY <1>1, <1>2, <1>3, <2>1, <2>2, NothingSeen DEF Durable
<1> QED
  BY <1>4, <1>5

\* A flush of another line shows no change but a new next pointer.
LEMMA FlushLinePersists == ASSUME IInv, NEW s, FlushLine(s), UNCHANGED cache PROVE
    UNCHANGED Seen /\ (Durable' = Seen \/ UNCHANGED Durable)
<1>1. UNCHANGED <<bitmap, alt, ent, next>>
  BY DEF cache, header
<1>2. p_bitmap \subseteq Slots
  BY DEF IInv, TypeOK
<1>3. \A r \in p_bitmap : p_ent'[r] = p_ent[r]
  BY <1>2, FlushLineEffect DEF IInv, EntriesAgree
<1>4. KeysOf(p_bitmap', p_ent') = KeysOf(p_bitmap, p_ent) /\ p_alt' = p_alt
  BY <1>3, FlushLineEffect, KeysOfSame
<1>5. CASE pc # "flushNext"
  BY <1>1, <1>4, <1>5, NothingSeen, FlushLineEffect DEF IInv, ChainAgrees, Durable
<1>6. CASE pc = "flushNext"
  <2>1. p_bitmap = bitmap /\ p_alt = alt
    BY <1>6 DEF IInv, HeaderAgrees, HeaderDue, TailOnlyAfterReturn
  <2>2. KeysOf(p_bitmap, p_ent) = KeysOf(bitmap, ent)
    BY <2>1, KeysOfSame DEF IInv, EntriesAgree
  <2> QED
    BY <1>1, <1>4, <2>1, <2>2, NothingSeen, FlushLineEffect DEF Durable, Seen
<1> QED
  BY <1>5, <1>6

\* Neither half of a split is empty.
LEMMA HalvesNonEmpty == ASSUME NEW U, IsUpperHalf(U) PROVE U # {} /\ Slots \ U # {}
<1>1. Cardinality(U) = LEAF_KEY_NUM - LEAF_KEY_NUM \div 2
  BY DEF IsUpperHalf
<1>2. Cardinality(Slots) = LEAF_KEY_NUM
  BY FS_Interval DEF Slots
<1>3. Cardinality(U) # 0 /\ Cardinality(U) # Cardinality(Slots)
  BY <1>1, <1>2
<1> QED
  BY <1>3, FS_EmptySet DEF IsUpperHalf

LEMMA EntriesAreInts == IInv => \A s \in bitmap : ent[s] \in Int
BY DEF IInv, CacheOK, Describes

\* The store that ends a split is the split of DurableLeaf.
LEMMA SwitchSplits ==
    ASSUME IInv, NEW u, StoreWord0(u), pc = "splitWord0", UNCHANGED nvm PROVE DL!Change
<1> USE DEF Halving
<1>1. /\ bitmap = Slots /\ newp.at \in Nodes
      /\ meta.alt = 1 - alt /\ next[1 - alt] = newp.at
  BY DEF IInv, FullOK, SplitOK, LinkOK
<1> PICK U \in SUBSET Slots : IsUpperHalf(U) /\ meta.bitmap = Slots \ U
  BY DEF IInv, SplitOK
<1>2. /\ bitmap' = Slots \ U /\ alt' = meta.alt /\ ent' = ent /\ next' = next
  BY StoreWord0Effect
<1> DEFINE K == KeysOf(U, ent)
<1>3. /\ \A s \in Slots : ent[s] \in Int
      /\ \A r, s \in Slots : r # s => ent[r] # ent[s]
  BY <1>1, EntriesAreInts DEF IInv, CacheOK, Describes
<1>4. Seen.keys = KeysOf(Slots, ent) /\ Seen.next = next[alt]
  BY <1>1 DEF Seen
<1>5. K \subseteq Seen.keys
  BY <1>4 DEF KeysOf
<1>6. \A r \in Slots \ U : ent[r] \notin K
  BY <1>3 DEF KeysOf
<1>7. Seen.keys \ K = KeysOf(Slots \ U, ent)
  BY <1>4, <1>6 DEF KeysOf
<1>8. K # {} /\ K # Seen.keys
  <2>1. PICK s \in U, r \in Slots \ U : TRUE
    BY HalvesNonEmpty
  <2>2. ent[s] \in K /\ ent[r] \in Seen.keys /\ ent[r] \notin K
    BY <1>4, <1>6, <2>1 DEF KeysOf
  <2> QED
    BY <2>2
<1>9. \A x \in K, y \in Seen.keys \ K : y < x
  BY <1>7 DEF KeysOf, IsUpperHalf
<1>10. Seen' = [keys |-> Seen.keys \ K, next |-> newp.at]
  BY <1>1, <1>2, <1>7 DEF Seen
<1>11. DL!Split(K, newp.at)
  BY <1>8, <1>9, <1>10 DEF DL!Split
<1>12. K \in SUBSET Seen.keys
  BY <1>5
<1> HIDE DEF K
<1> QED
  BY <1>1, <1>11, <1>12, NothingDurable DEF DL!Change

LEMMA WithKeys == ASSUME NEW S, NEW T, NEW n
                  PROVE  /\ [keys |-> S, next |-> n].keys = S
                         /\ [[keys |-> S, next |-> n] EXCEPT !.keys = T] = [keys |-> T, next |-> n]
OBVIOUS

\* The last store of any other call adds or removes its key.
LEMMA SetWord0Changes == ASSUME IInv, SetWord0 PROVE DL!Change
<1> PICK u : StoreWord0(u)
  BY DEF SetWord0
<1>1. pc = "word0" /\ UNCHANGED nvm
  BY DEF SetWord0
<1>2. bitmap' = meta.bitmap /\ alt' = alt /\ ent' = ent /\ next' = next
  BY <1>1, StoreWord0Effect DEF IInv, FillOK
<1>3. Seen' = [keys |-> KeysOf(meta.bitmap, ent), next |-> next[alt]]
  BY <1>2 DEF Seen
<1>4. Seen = [keys |-> KeysOf(bitmap, ent), next |-> next[alt]]
  BY DEF Seen
<1>5. CASE Adds
  <2>1. key \in Keys /\ key \notin Seen.keys
    BY <1>4, <1>5 DEF Adds
  <2>2. Seen' = [Seen EXCEPT !.keys = Seen.keys \cup {key}]
    <3>1. KeysOf(meta.bitmap, ent) = KeysOf(bitmap, ent) \cup {key}
      BY <1>5 DEF Adds
    <3> QED
      BY ONLY <1>3, <1>4, <3>1, WithKeys
  <2>3. DL!Add(key)
    BY <2>1, <2>2 DEF DL!Add
  <2> QED
    BY <1>1, <2>1, <2>3, NothingDurable DEF DL!Change
<1>6. CASE Removes
  <2>1. key \in Keys
    BY <1>6 DEF Removes, IInv, CacheOK, Describes, KeysOf
  <2>2. Seen' = [Seen EXCEPT !.keys = Seen.keys \ {key}]
    <3>1. KeysOf(meta.bitmap, ent) = KeysOf(bitmap, ent) \ {key}
      BY <1>6 DEF Removes
    <3> QED
      BY ONLY <1>3, <1>4, <3>1, WithKeys
  <2>3. DL!Remove(key)
    BY <1>4, <1>6, <2>2 DEF Removes, DL!Remove
  <2> QED
    BY <1>1, <2>1, <2>3, NothingDurable DEF DL!Change
<1> QED
  BY <1>1, <1>5, <1>6 DEF IInv, FillOK

\* The sibling of a removed leaf is relinked.
LEMMA WriteNextRelinks == ASSUME IInv, WriteNext PROVE DL!Change
<1> PICK n \in (safe \cup {NULL}) \ {next[alt]} : next' = [next EXCEPT ![alt] = n]
  BY DEF WriteNext
<1>1. UNCHANGED <<bitmap, alt, ent, nvm>>
  BY DEF WriteNext, header
<1>2. next'[alt] = n /\ n \in Nodes \cup {NULL}
  BY DEF IInv, TypeOK, LinkType
<1>3. DL!Relink(n)
  BY <1>1, <1>2 DEF Seen, DL!Relink
<1> QED
  BY <1>1, <1>2, <1>3, NothingDurable DEF DL!Change

\* Entries written or copied while no header shows them change nothing.
LEMMA HiddenEntries == ASSUME IInv, WriteEntry \/ CopyEntries
                       PROVE  UNCHANGED Seen /\ UNCHANGED Durable
<1> USE DEF Fresh
<1>1. UNCHANGED <<bitmap, alt, next, nvm>> /\ bitmap \subseteq Slots
  BY DEF WriteEntry, CopyEntries, header, IInv, TypeOK
<1>2. \A s \in bitmap : ent'[s] = ent[s]
  <2>1. CASE WriteEntry
    <3>1. meta.bitmap = bitmap /\ ent \in EntryType
      BY <2>1 DEF WriteEntry, IInv, FreshOK, TypeOK
    <3>2. PICK s \in Slots : s \notin bitmap /\ ent' = [ent EXCEPT ![s] = key]
      BY <2>1, <3>1 DEF WriteEntry, FirstEmpty
    <3> QED
      BY <1>1, <3>1, <3>2 DEF EntryType
  <2>2. CASE CopyEntries
    BY <1>1, <2>2 DEF CopyEntries, EmptyAfter, IInv, CopyOK
  <2> QED
    BY <2>1, <2>2
<1>3. KeysOf(bitmap', ent') = KeysOf(bitmap, ent)
  BY <1>1, <1>2, KeysOfSame
<1> QED
  BY <1>1, <1>3, NothingDurable DEF Seen

LEMMA LinkNewHidden == ASSUME IInv, LinkNew PROVE UNCHANGED Seen /\ UNCHANGED Durable
<1>1. UNCHANGED <<bitmap, alt, ent, nvm>>
  BY DEF LinkNew, header
<1>2. alt \in {0, 1} /\ next \in LinkType
  BY DEF IInv, TypeOK
<1>3. next'[alt] = next[alt]
  BY <1>2 DEF LinkNew, OtherNext, LinkType
<1> QED
  BY <1>1, <1>3, NothingDurable DEF Seen

Stutter == UNCHANGED Seen /\ UNCHANGED Durable

LEMMA HiddenStutter == UNCHANGED <<bitmap, alt, ent, next, nvm>> => Stutter
BY NothingSeen, NothingDurable DEF Stutter

LEMMA FlushRefines ==
    ASSUME IInv, UNCHANGED cache, FlushLine0 \/ \E s \in Slots : FlushLine(s)
    PROVE  DL!Persist \/ Stutter
BY FlushLine0Persists, FlushLinePersists DEF DL!Persist, Stutter

LEMMA CrashRefines == Crash => DL!Crash
BY NothingDurable DEF Crash, Seen, Durable, DL!Crash, nvm

LEMMA StepRefines == ASSUME IInv, [Next]_vars
                     PROVE  DL!Change \/ DL!Persist \/ DL!Crash \/ Stutter
<1> DEFINE Hidden == UNCHANGED <<bitmap, alt, ent, next, nvm>>
<1>1. ASSUME NEW k \in Keys, BeginInsert(k) \/ BeginDel(k) PROVE Hidden
  BY <1>1 DEF BeginInsert, BeginDel, Take
<1>2. CASE BeginRelink \/ SetWord1
  <2>1. Hidden
    BY <1>2 DEF BeginRelink, Take, SetWord1
  <2> QED
    BY <2>1, HiddenStutter
<1>3. CASE WriteNew \/ MarkDeleted
  <2>1. Hidden
    BY <1>3 DEF WriteNew, MarkDeleted, cache, header
  <2> QED
    BY <2>1, HiddenStutter
<1>4. CASE UnlockRoot \/ UnlockSibling
  <2>1. Hidden
    BY <1>4 DEF UnlockRoot, UnlockSibling
  <2> QED
    BY <2>1, HiddenStutter
<1>5. CASE WriteEntry \/ CopyEntries \/ LinkNew
  BY <1>5, HiddenEntries, LinkNewHidden DEF Stutter
<1>6. CASE FlushHeader \/ FlushSplit \/ EvictLine0
  BY <1>6, FlushRefines DEF FlushHeader, FlushSplit, EvictLine0, cache
<1>7. CASE FlushEntry \/ FlushNew \/ FlushNext
  <2>1. slot \in Slots /\ LEAF_KEY_NUM - 1 \in Slots
    BY SlotFacts DEF IInv, TypeOK
  <2> QED
    BY <1>7, <2>1, FlushRefines DEF FlushEntry, FlushNew, FlushNext
<1>8. ASSUME NEW s \in Slots, EvictLine(s) PROVE DL!Persist \/ Stutter
  BY <1>8, FlushRefines DEF EvictLine
<1>9. CASE SplitAbove \/ SplitBelow
  BY <1>9, SwitchSplits DEF SplitAbove, SplitBelow
<1>10. CASE SetWord0 \/ WriteNext
  BY <1>10, SetWord0Changes, WriteNextRelinks
<1>11. CASE Crash
  BY <1>11, CrashRefines
<1>12. CASE UNCHANGED vars
  <2>1. Hidden
    BY <1>12 DEF vars, cache, header
  <2> QED
    BY <2>1, HiddenStutter
<1>13. ASSUME NEW k \in Keys, BeginInsert(k) \/ BeginDel(k) PROVE Stutter
  BY <1>1, <1>13, HiddenStutter
<1> QED
  BY <1>2, <1>3, <1>4, <1>5, <1>6, <1>7, <1>8, <1>9, <1>10, <1>11, <1>12, <1>13
     DEF Next, Insert, Del, Evict

\* With one thread (Threads = 1; the run nvm_leaf_shared refutes it for two):
\* what that thread sees of a leaf changes by whole operations, and what a
\* power failure would leave follows it in one step.
THEOREM Refinement == ASSUME Threads = 1 PROVE Spec => ImplementsDurableLeaf
<1>1. Init => DL!DInit
  BY DEF Init, Seen, Durable, DL!DInit
<1>2. IInv /\ [Next]_vars => [DL!Change \/ DL!Persist \/ DL!Crash]_<<Seen, Durable>>
  BY StepRefines DEF Stutter
<1> QED
  BY <1>1, <1>2, Invariance, PTL DEF Spec, ImplementsDurableLeaf, DL!DSpec

-----------------------------------------------------------------------------
(***************************************************************************)
(* A split loses no key: what the header store that is yet to be flushed   *)
(* will take off NVM.                                                      *)
(***************************************************************************)
LEMMA FlushedHeader == ASSUME IInv, ~HeaderDue PROVE
    /\ Durable.keys = Seen.keys /\ p_alt = alt
    /\ pc # "flushNext" => Durable.next = Seen.next
<1>1. p_bitmap = bitmap /\ p_alt = alt /\ (pc # "flushNext" => p_next[alt] = next[alt])
  BY DEF IInv, HeaderAgrees, ChainAgrees
<1>2. KeysOf(p_bitmap, p_ent) = KeysOf(bitmap, ent)
  BY <1>1, KeysOfSame DEF IInv, EntriesAgree
<1> QED
  BY <1>1, <1>2 DEF Durable, Seen

LEMMA FlushLine0Shows == ASSUME IInv, FlushLine0, UNCHANGED cache PROVE
    /\ Durable'.keys = Seen.keys /\ p_alt' = alt /\ Seen' = Seen
    /\ pc # "flushNext" => Durable'.next = Seen.next
<1>1. KeysOf(p_bitmap', p_ent') = KeysOf(bitmap, ent)
  BY FlushLine0Effect, KeysOfSame
<1>2. p_alt' = alt /\ p_next' = p_next /\ (pc # "flushNext" => p_next[alt] = next[alt])
  BY FlushLine0Effect DEF IInv, ChainAgrees
<1> QED
  BY <1>1, <1>2, NothingSeen DEF Durable, Seen, cache, header

LEMMA FlushLineShows == ASSUME IInv, NEW s, FlushLine(s), UNCHANGED cache PROVE
    /\ Durable'.keys = Durable.keys /\ p_alt' = p_alt /\ Seen' = Seen
    /\ pc # "flushNext" => Durable'.next = Durable.next
<1>1. p_bitmap \subseteq Slots
  BY DEF IInv, TypeOK
<1>2. \A r \in p_bitmap : p_ent'[r] = p_ent[r]
  BY <1>1, FlushLineEffect DEF IInv, EntriesAgree
<1>3. KeysOf(p_bitmap', p_ent') = KeysOf(p_bitmap, p_ent) /\ p_alt' = p_alt
  BY <1>2, FlushLineEffect, KeysOfSame
<1>4. pc # "flushNext" => p_next'[p_alt] = p_next[p_alt]
  BY FlushLineEffect DEF IInv, ChainAgrees
<1> QED
  BY <1>3, <1>4, NothingSeen DEF Durable, cache, header

LEMMA SetWord0Pending == ASSUME IInv, SetWord0 PROVE PendingOK'
<1> PICK u : StoreWord0(u)
  BY DEF SetWord0
<1>1. pc = "word0" /\ ~HeaderDue /\ UNCHANGED nvm
  BY DEF SetWord0, IInv, HeaderDue, TailOnlyAfterReturn
<1>2. bitmap' = meta.bitmap /\ alt' = alt /\ ent' = ent
  BY <1>1, StoreWord0Effect DEF IInv, FillOK
<1>3. Durable' = Durable /\ Durable.keys = KeysOf(bitmap, ent) /\ p_alt' = alt'
  BY <1>1, <1>2, FlushedHeader, NothingDurable DEF Seen, nvm
<1>4. Seen'.keys = KeysOf(meta.bitmap, ent)
  BY <1>2 DEF Seen
<1>5. KeysOf(bitmap, ent) \ KeysOf(meta.bitmap, ent) \subseteq {key}
  BY <1>1 DEF IInv, FillOK, Adds, Removes
<1>6. key \in Keys \cup {NoKey}
  BY DEF IInv, TypeOK
<1> QED
  BY <1>3, <1>4, <1>5, <1>6 DEF PendingOK

LEMMA SwitchPending ==
    ASSUME IInv, NEW u, StoreWord0(u), pc = "splitWord0", UNCHANGED <<nvm, newp, safe>>
    PROVE  PendingOK'
<1> USE DEF Halving
<1>1. /\ bitmap = Slots /\ meta.alt = 1 - alt /\ next[1 - alt] = newp.at
      /\ newp.next = next[alt] /\ newp.at \in safe
  BY DEF IInv, FullOK, SplitOK, LinkOK
<1> PICK U \in SUBSET Slots : /\ meta.bitmap = Slots \ U
                              /\ KeysOf(U, ent) \subseteq newp.keys
  BY DEF IInv, SplitOK
<1>2. bitmap' = Slots \ U /\ alt' = meta.alt /\ ent' = ent /\ next' = next
  BY StoreWord0Effect
<1>3. ~HeaderDue
  BY DEF IInv, HeaderDue, TailOnlyAfterReturn
<1>4. /\ Durable' = Durable /\ Durable.keys = KeysOf(Slots, ent)
      /\ Durable.next = next[alt]
  BY <1>1, <1>3, FlushedHeader, NothingDurable DEF Seen
<1>5. Seen'.keys = KeysOf(Slots \ U, ent) /\ Seen'.next = newp.at
  BY <1>1, <1>2 DEF Seen
<1>6. KeysOf(Slots, ent) \ KeysOf(Slots \ U, ent) \subseteq KeysOf(U, ent)
  BY DEF KeysOf
<1> QED
  BY <1>1, <1>4, <1>5, <1>6 DEF PendingOK

\* No other call starts, and none goes on, while a header store is due.
LEMMA NotDue ==
    ASSUME Threads = 1, IInv,
           \/ \E k \in Keys : BeginInsert(k) \/ BeginDel(k)
           \/ BeginRelink \/ WriteEntry \/ CopyEntries \/ FlushEntry \/ SetWord1
           \/ FlushHeader \/ WriteNew \/ LinkNew \/ FlushNew \/ FlushSplit \/ UnlockRoot
           \/ Del \/ Crash
    PROVE  ~HeaderDue'
<1> USE DEF HeaderDue
<1>1. ASSUME NEW k \in Keys, BeginInsert(k) \/ BeginDel(k) PROVE ~HeaderDue'
  BY <1>1 DEF BeginInsert, BeginDel, Take
<1>2. CASE BeginRelink
  BY <1>2 DEF BeginRelink, Take
<1>3. CASE WriteEntry \/ CopyEntries \/ FlushEntry \/ SetWord1
  <2>1. pc \in {"insert", "copy", "flushEntry", "word1", "splitWord1"} /\ tail' = tail
    BY <1>3, Zenon DEF WriteEntry, CopyEntries, FlushEntry, SetWord1
  <2>2. pc' \in {"word0", "copy", "flushEntry", "word1", "splitWord0"}
    BY <1>3, Zenon DEF WriteEntry, CopyEntries, FlushEntry, SetWord1
  <2> QED
    BY <2>1, <2>2 DEF IInv, TailOnlyAfterReturn
<1>4. CASE FlushHeader \/ FlushSplit
  BY <1>4 DEF FlushHeader, FlushSplit, caller, IInv, TailOnlyAfterReturn
<1>5. CASE WriteNew \/ LinkNew \/ FlushNew
  <2>1. pc \in {"split", "link", "flushNew"} /\ tail' = tail
    BY <1>5, Zenon DEF WriteNew, LinkNew, FlushNew
  <2>2. pc' \in {"link", "flushNew", "splitWord1"}
    BY <1>5, Zenon DEF WriteNew, LinkNew, FlushNew
  <2> QED
    BY <2>1, <2>2 DEF IInv, TailOnlyAfterReturn
<1>6. CASE UnlockRoot \/ Crash
  BY <1>6 DEF UnlockRoot, Crash, Leave
<1>7. CASE Del
  BY <1>7 DEF Del, MarkDeleted, WriteNext, FlushNext, UnlockSibling, Leave, IInv,
              TailOnlyAfterReturn
<1> QED
  BY <1>1, <1>2, <1>3, <1>4, <1>5, <1>6, <1>7

LEMMA NextPending == ASSUME Threads = 1 PROVE IInv /\ PendingOK /\ [Next]_vars => PendingOK'
<1> SUFFICES ASSUME IInv, PendingOK, [Next]_vars PROVE PendingOK'
  OBVIOUS
<1>1. CASE SetWord0
  BY <1>1, SetWord0Pending
<1>2. CASE SplitAbove \/ SplitBelow
  BY <1>2, SwitchPending DEF SplitAbove, SplitBelow, others
<1>3. CASE EvictLine0
  <2>1. Durable'.keys = Seen'.keys /\ p_alt' = alt'
    BY <1>3, FlushLine0Shows DEF EvictLine0, cache, header
  <2> QED
    BY <2>1 DEF PendingOK
<1>4. ASSUME NEW s \in Slots, EvictLine(s) PROVE PendingOK'
  <2>1. UNCHANGED <<alt, pc, tail, newp, safe>> /\ UNCHANGED cache
    BY <1>4 DEF EvictLine, cache, header, caller, others
  <2>2. HeaderDue => pc # "flushNext"
    BY DEF HeaderDue, IInv, TailOnlyAfterReturn
  <2> QED
    BY <1>4, <2>1, <2>2, FlushLineShows DEF EvictLine, PendingOK, HeaderDue
<1>5. CASE UNCHANGED vars
  <2>1. UNCHANGED <<alt, bitmap, ent, next, pc, tail, newp, safe, p_alt>> /\ UNCHANGED nvm
    BY <1>5 DEF vars, cache, header, caller, others, nvm
  <2> QED
    BY <2>1, NothingSeen, NothingDurable DEF PendingOK, HeaderDue
<1>6. ASSUME ~HeaderDue' PROVE PendingOK'
  BY <1>6 DEF PendingOK
<1> QED
  BY <1>1, <1>2, <1>3, <1>4, <1>5, <1>6, NotDue DEF Next, Insert, Del, Evict

LEMMA FewGone == ASSUME NEW S, NEW k, S \subseteq {k} PROVE ~(Cardinality(S) > 1)
<1>1. IsFiniteSet({k}) /\ Cardinality({k}) = 1
  BY FS_Singleton
<1> QED
  BY <1>1, FS_Subset, FS_CardinalityType

\* What SplitLosesNothing asks of a step.
KeepsKeys ==
    LET gone == Durable.keys \ Durable'.keys
    IN Cardinality(gone) > 1 \/ p_alt' # p_alt =>
         /\ Durable'.next = newp.at /\ newp.at \in safe
         /\ gone \subseteq newp.keys
         /\ newp.next = Durable.next

LEMMA FlushLine0KeepsKeys ==
    ASSUME IInv, PendingOK, FlushLine0, UNCHANGED cache PROVE KeepsKeys
<1>1. Durable'.keys = Seen.keys /\ p_alt' = alt
  BY FlushLine0Shows
<1>2. CASE ~HeaderDue
  <2>1. Durable.keys \ Durable'.keys \subseteq {NoKey} /\ p_alt' = p_alt
    BY <1>1, <1>2, FlushedHeader
  <2> QED
    BY <2>1, FewGone DEF KeepsKeys
<1>3. CASE HeaderDue
  <2>1. Durable'.next = Seen.next
    BY <1>3, FlushLine0Shows DEF IInv, HeaderDue, TailOnlyAfterReturn
  <2> QED
    BY <1>1, <1>3, <2>1, FewGone DEF PendingOK, KeepsKeys
<1> QED
  BY <1>2, <1>3

LEMMA FlushLineKeepsKeys == ASSUME IInv, NEW s, FlushLine(s), UNCHANGED cache PROVE KeepsKeys
<1>1. Durable.keys \ Durable'.keys \subseteq {NoKey} /\ p_alt' = p_alt
  BY FlushLineShows
<1> QED
  BY <1>1, FewGone DEF KeepsKeys

LEMMA StepKeepsKeys == ASSUME IInv, PendingOK, [Next]_vars PROVE KeepsKeys \/ UNCHANGED nvm
<1>1. CASE FlushHeader \/ FlushSplit \/ EvictLine0
  BY <1>1, FlushLine0KeepsKeys DEF FlushHeader, FlushSplit, EvictLine0
<1>2. CASE FlushEntry \/ FlushNew \/ FlushNext
  BY <1>2, FlushLineKeepsKeys DEF FlushEntry, FlushNew, FlushNext
<1>3. ASSUME NEW s \in Slots, EvictLine(s) PROVE KeepsKeys
  BY <1>3, FlushLineKeepsKeys DEF EvictLine
<1>4. ASSUME NEW k \in Keys, BeginInsert(k) \/ BeginDel(k) PROVE UNCHANGED nvm
  BY <1>4 DEF BeginInsert, BeginDel, Take
<1>5. CASE BeginRelink \/ WriteEntry \/ CopyEntries \/ SetWord1
  BY <1>5, Zenon DEF BeginRelink, Take, WriteEntry, CopyEntries, SetWord1
<1>6. CASE SetWord0 \/ WriteNew \/ LinkNew \/ SplitAbove \/ SplitBelow \/ UnlockRoot
  BY <1>6, Zenon DEF SetWord0, WriteNew, LinkNew, SplitAbove, SplitBelow, UnlockRoot
<1>7. CASE MarkDeleted \/ WriteNext \/ UnlockSibling \/ Crash
  BY <1>7 DEF MarkDeleted, WriteNext, UnlockSibling, Crash
<1>8. CASE UNCHANGED vars
  BY <1>8 DEF vars
<1> QED
  BY <1>1, <1>2, <1>3, <1>4, <1>5, <1>6, <1>7, <1>8 DEF Next, Insert, Del, Evict

\* With one thread (Threads = 1): whenever a split reaches NVM, in one
\* write-back of the header's line, the keys it takes off the leaf are in the
\* new leaf, whole and linked in.
THEOREM SplitIsSafe == ASSUME Threads = 1 PROVE Spec => SplitLosesNothing
<1>1. Init => PendingOK
  BY DEF Init, PendingOK, HeaderDue
<1>2. IInv /\ PendingOK /\ [Next]_vars => PendingOK'
  BY NextPending
<1>3. IInv /\ PendingOK /\ [Next]_vars => [KeepsKeys]_nvm
  BY StepKeepsKeys
<1>4. Spec => [][KeepsKeys]_nvm
  BY <1>1, <1>2, <1>3, Invariance, PTL DEF Spec
<1> QED
  BY <1>4 DEF SplitLosesNothing, KeepsKeys
=============================================================================
