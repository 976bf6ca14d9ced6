------------------------------- MODULE Driver -------------------------------
(***************************************************************************)
(* parse_command: the commands of the driver, each a script of bulkloads,  *)
(* rounds of worker threads that call insert, del and lookup on their      *)
(* parts of the keys, and checks.  The threads' calls interleave; each     *)
(* runs on the tree as if alone, which is what LBTree is about.            *)
(***************************************************************************)
EXTENDS TreeCalls, Shares

CONSTANTS
    Jobs,               \* [command, keynum, workers, leafFill, nodeFill,
                        \*  memSize, nvmSize], the sizes in nodes
    MaxPoolSize,        \* bound: the largest of the pools
    PageSize, Align, LeastSize, \* 4KB and MB, in nodes
    StableShare         \* the 10 in keynum/10

VARIABLES
    script,             \* what is left to do
    work,               \* the calls each thread of the round has left
    cursors,            \* the cursors of the threads of stable
    found               \* what the threads' lookups found

vars == <<bulkVars, rest, script, work, cursors, found>>
driverVars == <<rest, script, work, cursors, found>>

\* What only a bulkload, or only a call on the tree, changes.
loadVars == <<job, request, bta, at, tops, above>>
treeVars == <<mem, nvm, leaf, node, meta, rest>>

(***************************************************************************)
(* The scripts.  A call is [op, source, ii]; a check has what is asserted  *)
(* of the first and last key.                                              *)
(***************************************************************************)
Load(keynum, input) == [op |-> "bulkload", keynum |-> keynum, input |-> input]
Exact(first, last) == [op |-> "check", how |-> "equal", first |-> first, last |-> last]
Within(first, last) == [op |-> "check", how |-> "within", first |-> first, last |-> last]
StartWithin(first) == [op |-> "check", how |-> "start", first |-> first]
Report(call, keynum) == [op |-> "report", call |-> call, keynum |-> keynum]
Round(call, source, num, parts) ==
    [op |-> "round", num |-> num, file |-> source = "cursor",
     work |-> [t \in DOMAIN parts |-> [i \in DOMAIN parts[t] |->
                 [op |-> call, source |-> source, ii |-> parts[t][i]]]]]

Scaled(parts, step, add) ==
    [t \in DOMAIN parts |-> [i \in DOMAIN parts[t] |-> step * parts[t][i] + add]]

NoAssertion == [op |-> "check", how |-> "none"]

\* debug_bulkload
BulkloadTest(keynum) ==
    LET input == simpleKeyInput(2 * keynum, 0, 2)
    IN <<Load(keynum, input),
         Exact(get_key(input, NoCursor, 0), get_key(input, NoCursor, keynum - 1))>>

\* The main thread looks for all keys: those at odd indexes are in the tree,
\* and those at even ones "present" or "absent".
LookupAll(keynum, evens) ==
    [op |-> "round", num |-> 2 * keynum, file |-> FALSE,
     work |-> [t \in {0} |-> [i \in 1 .. 2 * keynum |->
                 [op |-> IF i % 2 = 1 THEN evens ELSE "present", source |-> "memory", ii |-> i - 1]]]]

\* debug_lookup
LookupTest(keynum) ==
    <<Load(keynum, inMemKeyInput(2 * keynum, 1, 2)),
      Exact(MemKey(1), MemKey(2 * keynum - 1)), LookupAll(keynum, "absent")>>

\* debug_insert
InsertTest(keynum, w) ==
    LET input == inMemKeyInput(2 * keynum, 1, 2)
        evens == Round("insert", "memory", 2 * keynum, Scaled(Parts(0, keynum, w, 1), 2, 0))
        all == Exact(MemKey(0), MemKey(2 * keynum - 1))
    IN <<Load(1, input),
         Round("insert", "memory", 2 * keynum, Scaled(Parts(1, keynum, w, 1), 2, 1)),
         Exact(MemKey(1), MemKey(2 * keynum - 1)),
         LookupAll(keynum, "absent"),
         Load(keynum, input), evens, all, evens, all,
         LookupAll(keynum, "present")>>

\* for (skey = keynum*3/4; skey >= keynum/2+2; ...)
RECURSIVE DelRight(_, _, _, _, _)
DelRight(keynum, w, skey, ekey, step) ==
    IF skey < keynum \div 2 + 2 THEN <<>>
    ELSE LET next == IF skey % 2 = 1 THEN skey ELSE skey - 1
         IN <<Round("del", "memory", keynum, PartsDown(ekey, skey, w)),
              Within(MemKey(1), MemKey(next))>>
            \o DelRight(keynum, w, skey - step, next, IF step > 2 THEN step \div 2 ELSE 2)

\* for (ekey = keynum/4; ekey <= keynum/2-2; ...)
RECURSIVE DelLeft(_, _, _, _, _)
DelLeft(keynum, w, skey, ekey, step) ==
    IF ekey > keynum \div 2 - 2 THEN <<>>
    ELSE LET next == IF ekey % 2 = 1 THEN ekey ELSE ekey + 1
         IN <<Round("del", "memory", keynum, Parts(skey, ekey, w, 2)),
              StartWithin(MemKey(next))>>
            \o DelLeft(keynum, w, next, ekey + step, IF step > 2 THEN step \div 2 ELSE 2)

\* debug_del; keynum is at least 10, and even: from an odd one on, ekey is
\* keynum, and keys[keynum] is past the array.
DelTest(keynum, w) ==
    LET half == Round("del", "memory", keynum, Parts(0, keynum, w, 2))
        last == IF (keynum - 1) % 2 = 1 THEN keynum - 1 ELSE keynum
    IN <<Load(keynum, inMemKeyInput(keynum, 0, 1)), half, NoAssertion, half, NoAssertion>>
       \o DelRight(keynum, w, (keynum * 3) \div 4, last, keynum \div 8)
       \o DelLeft(keynum, w, 1, keynum \div 4, keynum \div 8)

\* stable
Stable(keynum, w) ==
    LET bulkload_num == keynum \div StableShare
    IN <<Load(bulkload_num, bufferedKeyInput(0, keynum)),
         Round("insert", "cursor", keynum, Parts(bulkload_num, keynum, w, 1)), NoAssertion>>

\* lookupTest, insertTest, delTest with debug_test: the calls, and for the
\* last two a lookup of each key by the same thread.
Tested(call, keynum, w) ==
    LET parts == Parts(0, keynum, w, 1)
        calls == Round(call, "array", keynum, parts)
        lookups == Round("lookup", "array", keynum, parts)
    IN <<IF call = "lookup" THEN calls
         ELSE [calls EXCEPT !.work = [t \in DOMAIN parts |-> @[t] \o lookups.work[t]]],
         Report(call, keynum)>>

\* bulkload of half of the keys, then insert, lookup and del of all
FileTests(keynum, w) ==
    <<Load(keynum \div 2, bufferedKeyInput(0, keynum \div 2)), NoAssertion>>
    \o Tested("insert", keynum, w) \o Tested("lookup", keynum, w) \o Tested("del", keynum, w)

Script(j) ==
    CASE j.command = "debug_bulkload" -> BulkloadTest(j.keynum)
      [] j.command = "debug_lookup" -> LookupTest(j.keynum)
      [] j.command = "debug_insert" -> InsertTest(j.keynum, j.workers)
      [] j.command = "debug_del" -> DelTest(j.keynum, j.workers)
      [] j.command = "stable" -> Stable(j.keynum, j.workers)
      [] j.command = "files" -> FileTests(j.keynum, j.workers)

(***************************************************************************)
(* thread, mempool and nvmpool come first: the pools, and a page of worker *)
(* 0's pool for first_leaf.                                                *)
(***************************************************************************)
Init ==
    /\ job \in Jobs
    /\ script = Script(job)
    /\ mem = InitPools(job.workers, SizePerPool(job.memSize, job.workers, Align, LeastSize))
    /\ nvm = LET pools == InitPools(job.workers, SizePerPool(job.nvmSize, job.workers, Align, LeastSize))
             IN [pools EXCEPT ![0] = Alloc(@, PageSize)]
    /\ leaf = <<>> /\ node = <<>>
    /\ request = [keynum |-> 0, input |-> simpleKeyInput(0, 0, 0)]
    /\ bta = [t \in Workers |-> Idle] /\ at = [t \in Workers |-> "done"]
    /\ main = "next"
    /\ tops = <<>> /\ above = <<>> /\ meta = [root |-> NULL, level |-> 0, first |-> NULL]
    /\ work = [t \in Workers |-> <<>>] /\ cursors = [t \in Workers |-> NoCursor]
    /\ rest = NothingLeft /\ found = 0

Command(op) == main = "next" /\ script # <<>> /\ Head(script).op = op /\ script' = Tail(script)

DoBulkload ==
    /\ Command("bulkload")
    /\ request' = [keynum |-> Head(script).keynum, input |-> Head(script).input]
    /\ main' = "bulkload"
    /\ UNCHANGED <<job, bta, at, tops, above, treeVars, work, cursors, found>>

\* delete[] bta
Loaded ==
    /\ main = "loaded"
    /\ bta' = [t \in Workers |-> Idle]
    /\ main' = "next"
    /\ UNCHANGED <<job, request, at, tops, above, treeVars, script, work, cursors, found>>

Holds(assertion) ==
    CASE assertion.how = "equal" -> Min(index) = assertion.first /\ Max(index) = assertion.last
      [] assertion.how = "within" -> Min(index) =< assertion.first /\ Max(index) >= assertion.last
      [] assertion.how = "start" -> Min(index) =< assertion.first
      [] assertion.how = "none" -> TRUE

DoCheck ==
    /\ Command("check")
    /\ main' = IF check /\ checkFirstLeaf /\ Holds(Head(script)) THEN "next" ELSE "abort"
    /\ UNCHANGED <<loadVars, treeVars, work, cursors, found>>

DoReport ==
    /\ Command("report")
    /\ found' = 0
    /\ UNCHANGED <<bulkVars, rest, work, cursors>>

\* The threads are created; those of stable open a cursor of their own.
StartRound ==
    /\ Command("round")
    /\ work' = [t \in Workers |->
                  IF t \in DOMAIN Head(script).work THEN Head(script).work[t] ELSE <<>>]
    /\ cursors' = [t \in Workers |->
                     IF Head(script).file /\ work'[t] # <<>>
                     THEN OpenCursor(work'[t][1].ii) ELSE NoCursor]
    /\ main' = "round"
    /\ UNCHANGED <<loadVars, treeVars, found>>

CursorInput == bufferedKeyInput(0, 0)

KeyOf(t, call) ==
    CASE call.source = "memory" -> MemKey(call.ii)
      [] call.source = "array" -> File[call.ii + 1]     \* getKeys
      [] call.source = "cursor" -> get_key(CursorInput, cursors[t], call.ii)

CallOf(t) == Head(work[t])

MayCall(t) == main = "round" /\ rest = NothingLeft /\ work[t] # <<>>

CursorWaits(t) ==
    /\ MayCall(t) /\ CallOf(t).source = "cursor"
    /\ ~Ready(CursorInput, cursors[t], CallOf(t).ii)

ReadMore(t) ==
    /\ CursorWaits(t)
    /\ cursors' = [cursors EXCEPT ![t] = Refill(@)]
    /\ UNCHANGED <<bulkVars, rest, script, work, found>>

Calls(t, op) ==
    /\ MayCall(t) /\ ~CursorWaits(t) /\ CallOf(t).op = op
    /\ work' = [work EXCEPT ![t] = Tail(@)]
    /\ UNCHANGED <<loadVars, script, cursors>>

Insert(t) == Calls(t, "insert") /\ insert(t, KeyOf(t, CallOf(t))) /\ UNCHANGED found

Delete(t) == Calls(t, "del") /\ del(t, KeyOf(t, CallOf(t))) /\ UNCHANGED found

GoOn(t) == main = "round" /\ Part3(t) /\ UNCHANGED <<loadVars, script, work, cursors, found>>

Lookup(t) ==
    /\ Calls(t, "lookup")
    /\ found' = IF KeyOf(t, CallOf(t)) \in index THEN found + 1 ELSE found
    /\ UNCHANGED <<treeVars, main>>

\* a lookup that must find its key
LookupPresent(t) ==
    /\ Calls(t, "present")
    /\ main' = IF KeyOf(t, CallOf(t)) \in index THEN main ELSE "abort"
    /\ UNCHANGED <<treeVars, found>>

\* a lookup that must not; one that finds the key in slot 0 goes unnoticed
LookupAbsent(t) ==
    /\ Calls(t, "absent")
    /\ main' \in {main} \union {"abort" : k \in {KeyOf(t, CallOf(t))} \intersect index}
    /\ UNCHANGED <<treeVars, found>>

Join ==
    /\ main = "round" /\ rest = NothingLeft /\ \A t \in Workers : work[t] = <<>>
    /\ main' = "next"
    /\ UNCHANGED <<loadVars, treeVars, script, work, cursors, found>>

Ended == main \in {"exit", "abort", "undefined"} \/ (main = "next" /\ script = <<>>)

Call(t) ==
    \/ ReadMore(t) \/ Insert(t) \/ Delete(t) \/ GoOn(t)
    \/ Lookup(t) \/ LookupPresent(t) \/ LookupAbsent(t)

Bulkloading == MainStep \/ \E t \in Workers : ThreadStep(t)

Main == DoBulkload \/ Loaded \/ DoCheck \/ DoReport \/ StartRound \/ Join

Next ==
    \/ Bulkloading /\ UNCHANGED driverVars
    \/ Main
    \/ \E t \in Workers : Call(t)
    \/ Ended /\ UNCHANGED vars          \* the process is gone

Spec == Init /\ [][Next]_vars

\* A thread that can run does, and the loops of get_key are threads' steps.
FairSpec ==
    /\ Spec
    /\ WF_vars((MainStep /\ UNCHANGED driverVars) \/ Main)
    /\ \A t \in 0 .. MaxWorkers - 1 :
         WF_vars(t \in Workers /\ ((ThreadStep(t) /\ UNCHANGED driverVars) \/ Call(t)))
=============================================================================
