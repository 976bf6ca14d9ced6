----------------------------- MODULE NvmLeafInv -----------------------------
(***************************************************************************)
(* The inductive invariant of NvmLeaf for a leaf that one thread uses.     *)
(* What the properties say of NVM at all times follows from what holds of  *)
(* the cached copy, of NVM and of the header to be (meta) at each stage.   *)
(***************************************************************************)
EXTENDS NvmLeaf

\* A header with bitmap b describes entries e that are keys, each once, with
\* the fingerprints f.
Describes(b, f, e) ==
    /\ \A s \in b : e[s] \in Keys /\ f[s] = hashcode1B[e[s]]
    /\ \A r, s \in b : r # s => e[r] # e[s]

CacheOK == Describes(bitmap, fgpt, ent)
NvmOK   == Describes(p_bitmap, p_fgpt, p_ent)

\* Entries that a header shows, or would show if line 0 were flushed now, are
\* on NVM; and so is the next pointer that either header uses.
EntriesAgree ==
    /\ \A s \in bitmap \ Line0 : p_ent[s] = ent[s]
    /\ \A s \in p_bitmap : p_ent[s] = ent[s]

ChainAgrees ==
    /\ pc # "flushNext" => p_next[alt] = next[alt] /\ p_next[p_alt] = next[p_alt]
    /\ next[alt] \in safe \cup {NULL}
    /\ p_next[p_alt] \in safe \cup {NULL}

\* The header store of a call may have to reach NVM yet only right after it.
HeaderDue == tail \/ pc = "flushSplit"
HeaderAgrees == ~HeaderDue => p_bitmap = bitmap /\ p_alt = alt

TailOnlyAfterReturn == tail => pc \in {"idle", "rootLocked"}

\* From the copy of the header to its last store.
Fresh   == {"insert", "del", "split", "relink", "flushSplit"}
Filling == {"flushEntry", "word1"}
Halving == {"link", "flushNew", "splitWord1", "splitWord0"}
Holding == Fresh \cup Filling \cup Halving \cup {"copy", "word0"}

\* The header to be describes the leaf, and so do its fingerprints for the
\* entries the present header shows.
MetaOK ==
    pc \in Holding =>
        /\ Describes(meta.bitmap, meta.fgpt, ent)
        /\ \A s \in bitmap : meta.fgpt[s] = hashcode1B[ent[s]]

FreshOK == pc \in Fresh => meta.bitmap = bitmap /\ meta.alt = alt

InsertOK ==
    pc \in {"insert", "copy", "split", "flushSplit"} \cup Halving =>
        key \in Keys \ KeysOf(bitmap, ent)

FullOK == pc \in {"split"} \cup Halving => bitmap = Slots

CopyOK ==
    pc = "copy" =>
        /\ meta.bitmap = bitmap \cup {slot} /\ meta.alt = alt
        /\ slot \notin bitmap /\ ent[slot] = key
        /\ Line0 \subseteq bitmap

\* meta adds the key to the leaf, which it had not, or removes it.
Adds    == key \in Keys \ KeysOf(bitmap, ent)
           /\ KeysOf(meta.bitmap, ent) = KeysOf(bitmap, ent) \cup {key}
Removes == key \in KeysOf(bitmap, ent)
           /\ KeysOf(meta.bitmap, ent) = KeysOf(bitmap, ent) \ {key}

FillOK ==
    /\ pc \in Filling \cup {"word0"} => meta.alt = alt
    /\ pc \in Filling => Adds
    /\ pc = "flushEntry" =>
          \A s \in meta.bitmap \ Line0 : p_ent[s] = ent[s] \/ s \in Line(slot)
    /\ pc = "word0" => Adds \/ Removes
    /\ pc \in {"word1", "word0", "splitWord1", "splitWord0"} =>
          \A s \in meta.bitmap \ Line0 : p_ent[s] = ent[s]
    /\ pc \in {"word0", "splitWord0"} =>
          \A s \in meta.bitmap \ Word0 : fgpt[s] = meta.fgpt[s]

\* The new leaf of a split takes over exactly the keys meta gives up.
SplitOK ==
    pc \in Halving =>
        /\ meta.alt = 1 - alt
        /\ \E U \in SUBSET Slots :
              /\ IsUpperHalf(U) /\ meta.bitmap = Slots \ U
              /\ newp.keys = KeysOf(U, ent) \cup (IF Above(U) THEN {key} ELSE {})
        /\ newp.next = next[alt] /\ newp.at \in Nodes

LinkOK ==
    /\ pc \in {"flushNew", "splitWord1", "splitWord0"} => next[1 - alt] = newp.at
    /\ pc \in {"splitWord1", "splitWord0"} =>
          p_next[1 - alt] = newp.at /\ newp.at \in safe

IInv ==
    /\ TypeOK
    /\ CacheOK /\ NvmOK /\ EntriesAgree /\ ChainAgrees /\ HeaderAgrees
    /\ TailOnlyAfterReturn
    /\ MetaOK /\ FreshOK /\ InsertOK /\ FullOK /\ CopyOK /\ FillOK
    /\ SplitOK /\ LinkOK
\* What a header store that is yet to be flushed will take off the leaf on
\* NVM: one key at most, or the keys the new leaf of a split has, to which it
\* links.  Not part of IInv: it is inductive once IInv holds.
PendingOK ==
    HeaderDue =>
        \/ /\ p_alt = alt
           /\ \E k \in Keys \cup {NoKey} : Durable.keys \ Seen.keys \subseteq {k}
        \/ /\ Durable.keys \ Seen.keys \subseteq newp.keys
           /\ newp.next = Durable.next
           /\ Seen.next = newp.at /\ newp.at \in safe
==============================================================================
