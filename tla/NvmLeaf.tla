------------------------------- MODULE NvmLeaf -------------------------------
(***************************************************************************)
(* One leaf of the LB+-Tree (class bleaf) and its copy on NVM: Part 2 of   *)
(* insert and del, store by store.                                         *)
(*                                                                         *)
(* A leaf is a few cache lines.  Line 0 holds the 16-byte header and the   *)
(* first entries, the last line holds the last entries and next[2].  What  *)
(* threads read and write is the cached copy; a line reaches NVM whole     *)
(* when it is flushed (clwb and sfence) or, at any moment, when the cache  *)
(* evicts it.  The header is written as two 8-byte words: word 1, only     *)
(* fingerprints, then word 0 with bitmap, lock, alt and the rest of the    *)
(* fingerprints.  lock and alt share word 0 with the bitmap, so one store  *)
(* shows a change, switches next[alt] and unlocks.                         *)
(*                                                                         *)
(* An entry is its key.  Other leaves are nodes whose contents change only *)
(* when a split of this leaf writes them.                                  *)
(***************************************************************************)
EXTENDS Integers, FiniteSets

CONSTANTS
    Keys,               \* a set of integers
    NoKey,              \* an entry never written
    Hash, hashcode1B,   \* fingerprints, and the fingerprint of each key
    LEAF_KEY_NUM,       \* 14 in the build
    Line0Slots,         \* slots of line 0: 3 in the build
    Word0Slots,         \* slots whose fingerprint is in word 0: 6 in the build
    last_slot_in_line,  \* initUseful's table
    Nodes, NULL,        \* the other leaves, and the end of the chain
    InitKeys,           \* keys of the bulkloaded leaf
    Threads             \* how many threads use the leaf

Slots == 0 .. LEAF_KEY_NUM - 1
Line0 == 0 .. Line0Slots - 1
Word0 == 0 .. Word0Slots - 1
Line(s) == {r \in Slots : last_slot_in_line[r] = last_slot_in_line[s]}
LastLine == Line(LEAF_KEY_NUM - 1)

ASSUME LeafAssumption ==
    /\ Keys \subseteq Int /\ NoKey \notin Keys
    /\ hashcode1B \in [Keys -> Hash]
    /\ LEAF_KEY_NUM \in Nat \ {0, 1}
    /\ Line0Slots \in 1 .. LEAF_KEY_NUM - 1
    /\ Word0Slots \in Line0Slots .. LEAF_KEY_NUM
    /\ last_slot_in_line \in [Slots -> Slots]
    /\ \A s \in Slots : s \in Line0 <=> last_slot_in_line[s] = Line0Slots - 1
    /\ NULL \notin Nodes
    /\ Threads \in Nat \ {0}
    /\ InitKeys \subseteq Keys /\ IsFiniteSet(InitKeys)
    /\ Cardinality(InitKeys) =< LEAF_KEY_NUM

VARIABLES
    bitmap, lock, alt, fgpt, ent, next,         \* the cached copy
    p_bitmap, p_alt, p_fgpt, p_ent, p_next,     \* the copy on NVM
    pc, key,            \* the call that holds the lock bit, and its key
    slot,               \* the slot it fills
    meta,               \* its copy of the header
    tail,               \* a call has unlocked and has yet to flush line 0
    newp,               \* the new leaf of the last call, if it was a split
    safe                \* the other leaves that are whole on NVM

header   == <<bitmap, lock, alt, fgpt>>
cache    == <<header, ent, next>>
nvm      == <<p_bitmap, p_alt, p_fgpt, p_ent, p_next>>
caller   == <<pc, key, slot, meta>>
others   == <<newp, safe>>
vars     == <<cache, nvm, caller, tail, others>>

MetaType == [bitmap : SUBSET Slots, lock : BOOLEAN, alt : {0, 1}, fgpt : [Slots -> Hash]]

LeafType == [at : Nodes \cup {NULL}, keys : SUBSET Keys, next : Nodes \cup {NULL}]
NoLeaf   == [at |-> NULL, keys |-> {}, next |-> NULL]

\* bulkloadSubtree: entries fill the leaf from its last slot down.
Init ==
    /\ bitmap = {s \in Slots : s >= LEAF_KEY_NUM - Cardinality(InitKeys)}
    /\ lock = FALSE /\ alt = 0
    /\ fgpt \in [Slots -> Hash]
    /\ ent \in [Slots -> InitKeys \cup {NoKey}]
    /\ \A s \in bitmap : ent[s] \in InitKeys /\ fgpt[s] = hashcode1B[ent[s]]
    /\ \A s \in Slots \ bitmap : ent[s] = NoKey
    /\ \A r, s \in bitmap : r < s => ent[r] < ent[s]
    /\ next \in [{0, 1} -> Nodes \cup {NULL}]
    /\ next[1] = NULL
    /\ p_bitmap = bitmap /\ p_alt = alt /\ p_fgpt = fgpt /\ p_ent = ent /\ p_next = next
    /\ pc = "idle" /\ key = NoKey /\ slot = 0
    /\ meta = [bitmap |-> {}, lock |-> FALSE, alt |-> 0, fgpt |-> fgpt]
    /\ tail = FALSE
    /\ newp = NoLeaf
    /\ safe = Nodes

KeysOf(b, e) == {e[s] : s \in b}

-----------------------------------------------------------------------------
(***************************************************************************)
(* Lines reaching NVM.                                                     *)
(***************************************************************************)
FlushLine0 ==
    /\ p_bitmap' = bitmap /\ p_alt' = alt /\ p_fgpt' = fgpt
    /\ p_ent' = [s \in Slots |-> IF s \in Line0 THEN ent[s] ELSE p_ent[s]]
    /\ UNCHANGED p_next

FlushLine(s) ==
    /\ p_ent' = [r \in Slots |-> IF r \in Line(s) THEN ent[r] ELSE p_ent[r]]
    /\ p_next' = IF LEAF_KEY_NUM - 1 \in Line(s) THEN next ELSE p_next
    /\ UNCHANGED <<p_bitmap, p_alt, p_fgpt>>

EvictLine0 == FlushLine0 /\ UNCHANGED <<cache, caller, tail, others>>
EvictLine(s) == s \notin Line0 /\ FlushLine(s) /\ UNCHANGED <<cache, caller, tail, others>>

-----------------------------------------------------------------------------
(***************************************************************************)
(* Part 1, as far as the leaf is concerned: an open leaf is locked.  A     *)
(* thread ends one call before its next one, so a call may start while the *)
(* flush of another is still due only if there is another thread.          *)
(***************************************************************************)
\* The locals of a call are gone when it returns (or keeps only a root lock).
Leave(label) ==
    /\ pc' = label /\ key' = NoKey /\ slot' = 0
    /\ meta' = [bitmap |-> {}, lock |-> FALSE, alt |-> 0, fgpt |-> fgpt']

Take(label, k) ==
    /\ pc = "idle" /\ ~lock
    /\ tail => Threads > 1
    /\ lock' = TRUE
    /\ pc' = label /\ key' = k
    /\ meta' = [bitmap |-> bitmap, lock |-> (label = "split"), alt |-> alt, fgpt |-> fgpt]
    /\ newp' = NoLeaf
    /\ UNCHANGED <<bitmap, alt, fgpt, ent, next, nvm, slot, tail, safe>>

BeginInsert(k) == k \notin KeysOf(bitmap, ent)
                  /\ Take(IF bitmap = Slots THEN "split" ELSE "insert", k)
BeginDel(k)    == k \in KeysOf(bitmap, ent) /\ Take("del", k)
BeginRelink    == Take("relink", NoKey)

-----------------------------------------------------------------------------
(***************************************************************************)
(* insert into a leaf with room.  meta is the header to be.                *)
(***************************************************************************)
FirstEmpty(s, b) == s \in Slots \ b /\ \A r \in Slots : r < s => r \in b

WriteEntry ==
    /\ pc = "insert"
    /\ \E s \in Slots :
          /\ FirstEmpty(s, meta.bitmap)
          /\ slot' = s
          /\ ent' = [ent EXCEPT ![s] = key]
          /\ meta' = [meta EXCEPT !.bitmap = meta.bitmap \cup {s},
                                  !.fgpt = [meta.fgpt EXCEPT ![s] = hashcode1B[key]]]
          /\ pc' = IF s \in Line0 THEN "word0" ELSE "copy"
    /\ UNCHANGED <<header, next, nvm, key, tail, others>>

\* Line 0 gives entries 0, 1 .. to the empty slots after slot in its line.
EmptyAfter == {r \in Line(slot) : r > slot /\ r \notin meta.bitmap}
InOrder(f) ==
    /\ \A r, s \in DOMAIN f : r < s => f[r] < f[s]
    /\ \A r \in DOMAIN f : \A x \in Line0 : x < f[r] => \E s \in DOMAIN f : f[s] = x

\* Slip: the originals stay in the bitmap.  (An operator marked Slip is a
\* mutation of the one after it, for checking that a property notices.)
CopiedBits(from) == meta.bitmap \cup EmptyAfter
MovedBits(from)  == (meta.bitmap \cup EmptyAfter) \ {from[s] : s \in EmptyAfter}

CopyEntries ==
    /\ pc = "copy"
    /\ \E from \in [EmptyAfter -> Line0] :
          /\ InOrder(from)
          /\ ent' = [s \in Slots |-> IF s \in EmptyAfter THEN ent[from[s]] ELSE ent[s]]
          /\ meta' = [meta EXCEPT
                !.bitmap = MovedBits(from),
                !.fgpt = [s \in Slots |-> IF s \in EmptyAfter THEN meta.fgpt[from[s]]
                                                            ELSE meta.fgpt[s]]]
    /\ pc' = "flushEntry"
    /\ UNCHANGED <<header, next, nvm, key, slot, tail, others>>

\* Slip: the line with the new entry is not flushed before the header.
SkipEntryFlush ==
    /\ pc = "flushEntry" /\ pc' = "word1"
    /\ UNCHANGED <<cache, nvm, key, slot, meta, tail, others>>

FlushEntry ==
    /\ pc = "flushEntry"
    /\ FlushLine(slot)
    /\ pc' = "word1"
    /\ UNCHANGED <<cache, key, slot, meta, tail, others>>

\* setBothWords: word 1 first.
SetWord1 ==
    /\ pc \in {"word1", "splitWord1"}
    /\ fgpt' = [s \in Slots |-> IF s \in Word0 THEN fgpt[s] ELSE meta.fgpt[s]]
    /\ pc' = IF pc = "word1" THEN "word0" ELSE "splitWord0"
    /\ UNCHANGED <<bitmap, lock, alt, ent, next, nvm, key, slot, meta, tail, others>>

StoreWord0(unlock) ==
    /\ bitmap' = meta.bitmap /\ alt' = meta.alt
    /\ lock' = ~unlock
    /\ fgpt' = [s \in Slots |-> IF s \in Word0 THEN meta.fgpt[s] ELSE fgpt[s]]
    /\ UNCHANGED <<ent, next>>

\* The last header write of a call shows the change and unlocks, before the
\* flush.  The lock of a root that splits goes only when there is a new root.
SetWord0 ==
    /\ pc = "word0"
    /\ \E unlock \in {TRUE, ~meta.lock} : StoreWord0(unlock)
    /\ Leave(IF lock' THEN "rootLocked" ELSE "idle")
    /\ tail' = TRUE
    /\ UNCHANGED <<nvm, others>>

\* Slip: no clwb of line 0 at the end of a call.
SkipHeaderFlush == tail /\ tail' = FALSE /\ UNCHANGED <<cache, nvm, caller, others>>

FlushHeader ==
    /\ tail
    /\ FlushLine0
    /\ tail' = FALSE
    /\ UNCHANGED <<cache, caller, others>>

-----------------------------------------------------------------------------
(***************************************************************************)
(* insert into a full leaf.                                                *)
(***************************************************************************)
\* Slip: sorted_pos in descending order.
IsLowerHalf(U) ==
    /\ U \subseteq Slots
    /\ Cardinality(U) = LEAF_KEY_NUM - LEAF_KEY_NUM \div 2
    /\ \A s \in U, r \in Slots \ U : ent[s] < ent[r]

\* sorted_pos[LEAF_KEY_NUM \div 2 ..]: the slots of the larger keys.
IsUpperHalf(U) ==
    /\ U \subseteq Slots
    /\ Cardinality(U) = LEAF_KEY_NUM - LEAF_KEY_NUM \div 2
    /\ \A s \in U, r \in Slots \ U : ent[r] < ent[s]

\* key > split_key, the smallest of them.
Above(U) == \E s \in U : key > ent[s]

\* Slips: the pointer in use is overwritten; the index is not flipped.
SameNext  == alt
NextIndex == 1 + alt
\* The pointer of next[] that is not in use.
OtherNext == 1 - alt

\* The new leaf and the other next pointer are written, then both flushed
\* under one sfence.  The new leaf may be any but the next one.
WriteNew ==
    /\ pc = "split"
    /\ \E U \in SUBSET Slots, n \in Nodes \ {next[alt]} :
          /\ IsUpperHalf(U)
          /\ newp' = [at |-> n, next |-> next[alt],
                      keys |-> KeysOf(U, ent) \cup (IF Above(U) THEN {key} ELSE {})]
          /\ safe' = safe \ {n}
          /\ meta' = [meta EXCEPT !.bitmap = Slots \ U, !.alt = OtherNext]
    /\ pc' = "link"
    /\ UNCHANGED <<cache, nvm, key, slot, tail>>

LinkNew ==
    /\ pc = "link"
    /\ next' = [next EXCEPT ![OtherNext] = newp.at]
    /\ pc' = "flushNew"
    /\ UNCHANGED <<header, ent, nvm, key, slot, meta, tail, others>>

\* Slip: the new leaf itself is not flushed.
FlushNextOnly ==
    /\ pc = "flushNew" /\ pc' = "splitWord1"
    /\ FlushLine(LEAF_KEY_NUM - 1)
    /\ UNCHANGED <<cache, key, slot, meta, newp, tail, safe>>

FlushNew ==
    /\ pc = "flushNew"
    /\ FlushLine(LEAF_KEY_NUM - 1)
    /\ safe' = safe \cup {newp.at}
    /\ pc' = "splitWord1"
    /\ UNCHANGED <<cache, key, slot, meta, newp, tail>>

\* The key is in the new leaf: the call ends here.
SplitAbove ==
    /\ pc = "splitWord0" /\ key \in newp.keys
    /\ \E unlock \in BOOLEAN : StoreWord0(unlock)
    /\ Leave(IF lock' THEN "rootLocked" ELSE "idle")
    /\ tail' = TRUE
    /\ UNCHANGED <<nvm, others>>

\* Otherwise the lock stays, and the key goes into the half that is left.
SplitBelow ==
    /\ pc = "splitWord0" /\ key \notin newp.keys
    /\ StoreWord0(FALSE)
    /\ pc' = "flushSplit"
    /\ UNCHANGED <<nvm, key, slot, meta, tail, others>>

FlushSplit ==
    /\ pc = "flushSplit"
    /\ FlushLine0
    /\ pc' = "insert"
    /\ UNCHANGED <<cache, key, slot, meta, tail, others>>

\* Part 3 of the call that split the root.
UnlockRoot ==
    /\ pc = "rootLocked" /\ ~tail
    /\ lock' = FALSE
    /\ UNCHANGED <<bitmap, alt, fgpt, ent, next, nvm, tail, others>>
    /\ Leave("idle")

-----------------------------------------------------------------------------
(***************************************************************************)
(* del of a key that is not the leaf's last, or of any key of a root leaf; *)
(* and the change to the left sibling of a leaf del removes.               *)
(***************************************************************************)
MarkDeleted ==
    /\ pc = "del"
    /\ \E s \in bitmap : ent[s] = key
                         /\ meta' = [meta EXCEPT !.bitmap = meta.bitmap \ {s}]
    /\ pc' = "word0"
    /\ UNCHANGED <<cache, nvm, key, slot, tail, others>>

\* The sibling takes over the next pointer of the removed leaf.
WriteNext ==
    /\ pc = "relink"
    /\ \E n \in (safe \cup {NULL}) \ {next[alt]} : next' = [next EXCEPT ![alt] = n]
    /\ pc' = "flushNext"
    /\ UNCHANGED <<header, ent, nvm, key, slot, meta, tail, others>>

FlushNext ==
    /\ pc = "flushNext"
    /\ FlushLine(LEAF_KEY_NUM - 1)
    /\ pc' = "unlockSibling"
    /\ UNCHANGED <<cache, key, slot, meta, tail, others>>

UnlockSibling ==
    /\ pc = "unlockSibling"
    /\ lock' = FALSE
    /\ UNCHANGED <<bitmap, alt, fgpt, ent, next, nvm, tail, others>>
    /\ Leave("idle")

-----------------------------------------------------------------------------
(***************************************************************************)
(* External: power fails, and the tree is opened again on what NVM holds,  *)
(* with lock bits reset.  The source has no recovery code, only a comment  *)
(* that says what it will do to the lock bits.                             *)
(***************************************************************************)
Crash ==
    /\ bitmap' = p_bitmap /\ alt' = p_alt /\ fgpt' = p_fgpt
    /\ ent' = p_ent /\ next' = p_next
    /\ lock' = FALSE /\ tail' = FALSE
    /\ Leave("idle")
    /\ UNCHANGED <<nvm, others>>

Insert == \/ WriteEntry \/ CopyEntries \/ FlushEntry \/ SetWord1 \/ SetWord0 \/ FlushHeader
          \/ WriteNew \/ LinkNew \/ FlushNew \/ SplitAbove \/ SplitBelow \/ FlushSplit
          \/ UnlockRoot
Del    == MarkDeleted \/ WriteNext \/ FlushNext \/ UnlockSibling
Evict  == EvictLine0 \/ \E s \in Slots : EvictLine(s)

Next == \/ \E k \in Keys : BeginInsert(k) \/ BeginDel(k)
        \/ BeginRelink \/ Insert \/ Del \/ Evict \/ Crash

Spec == Init /\ [][Next]_vars

-----------------------------------------------------------------------------
(***************************************************************************)
(* Properties.                                                             *)
(***************************************************************************)
EntryType == [Slots -> Keys \cup {NoKey}]
LinkType  == [{0, 1} -> Nodes \cup {NULL}]
Labels == {"idle", "insert", "copy", "flushEntry", "word1", "word0", "rootLocked", "split",
           "link", "flushNew", "splitWord1", "splitWord0", "flushSplit", "del", "relink",
           "flushNext", "unlockSibling"}

\* Every variable has its type, in the cache and on NVM.
TypeOK ==
    /\ bitmap \in SUBSET Slots /\ lock \in BOOLEAN /\ alt \in {0, 1}
    /\ fgpt \in [Slots -> Hash] /\ ent \in EntryType /\ next \in LinkType
    /\ p_bitmap \in SUBSET Slots /\ p_alt \in {0, 1}
    /\ p_fgpt \in [Slots -> Hash] /\ p_ent \in EntryType /\ p_next \in LinkType
    /\ pc \in Labels /\ key \in Keys \cup {NoKey} /\ slot \in Slots
    /\ meta \in MetaType /\ newp \in LeafType /\ tail \in BOOLEAN
    /\ safe \in SUBSET Nodes

Seen    == [keys |-> KeysOf(bitmap, ent), next |-> next[alt]]
Durable == [keys |-> KeysOf(p_bitmap, p_ent), next |-> p_next[p_alt]]

\* What a crash leaves passes check()'s test of a leaf: each entry the header
\* on NVM shows has the fingerprint of its key.
FingerprintsMatch ==
    \A s \in p_bitmap : p_ent[s] \in Keys /\ p_fgpt[s] = hashcode1B[p_ent[s]]

\* No crash finds a key twice in the leaf, though insert copies entries from
\* line 0 and deletes the originals by the same header write.
NoDuplicates == \A r, s \in p_bitmap : r # s => p_ent[r] # p_ent[s]

\* A call that has returned is on NVM: no crash takes its change back, and
\* no crash brings back a key it deleted.
ReturnedIsDurable == pc = "idle" /\ ~tail => Durable = Seen

\* A crash finds every leaf the chain goes through whole: the next pointer
\* NVM shows is never that of a leaf still being written.
NextIsWhole == p_next[p_alt] \in safe \cup {NULL}

\* When the split reaches NVM, the keys that leave the leaf are in the leaf
\* it then links to, which carries on the chain; any other change to what
\* NVM shows adds or removes one key, or relinks.
SplitLosesNothing ==
    [][LET gone == Durable.keys \ Durable'.keys
       IN Cardinality(gone) > 1 \/ p_alt' # p_alt =>
            /\ Durable'.next = newp.at /\ newp.at \in safe
            /\ gone \subseteq newp.keys
            /\ newp.next = Durable.next]_nvm

\* The leaf does to NVM what DurableLeaf says: each call's change reaches it
\* in one step, whole, in the order the threads saw it.
DL == INSTANCE DurableLeaf WITH seen <- Seen, durable <- Durable
ImplementsDurableLeaf == DL!DSpec
==============================================================================
