------------------------------ MODULE KeyInput ------------------------------
(***************************************************************************)
(* The key inputs (keyinput.h): numbers computed from the index, keys in   *)
(* memory, or cursors that read a file through a buffer of KeyBuffer keys. *)
(* An input is [class, start, step, num]; all are described by key_start   *)
(* and key_step.                                                           *)
(***************************************************************************)
EXTENDS Integers, Sequences

CONSTANTS
    File,               \* the key file, a sequence of keys
    KeyBuffer           \* KEY_BUFFER_SIZE, in keys

simpleKeyInput(num, start, step) ==
    [class |-> "simple", start |-> start, step |-> step, num |-> num]
inMemKeyInput(num, start, step) ==
    [class |-> "memory", start |-> start, step |-> step, num |-> num]
bufferedKeyInput(start, num) ==
    [class |-> "file", start |-> start, step |-> 1, num |-> num]

\* keygen with KEYS_FOR_DBG; sorted and without duplicates as it stands.
MemKey(i) == i + 1

\* A cursor of any class; only a buffered one has an own place in the file.
OpenCursor(start) ==
    [start |-> start, at |-> start, bottom |-> 0, top |-> 0, buffer |-> <<>>]

NoCursor == OpenCursor(0)

\* Slip: the index as given, not counted from where the cursor starts.
Absolute(c, index) == index

Relative(c, index) == index - c.start

Ready(input, c, index) == input.class = "file" => Relative(c, index) < c.top

\* One turn of get_key's loop; at the end of the file it reads nothing and
\* leaves the buffer alone.
Refill(c) ==
    LET left == Len(File) - c.at
        len == IF left < 0 THEN 0 ELSE IF left < KeyBuffer THEN left ELSE KeyBuffer
    IN [c EXCEPT !.at = @ + len, !.bottom = c.top, !.top = @ + len,
                 !.buffer = IF len = 0 THEN @ ELSE SubSeq(File, c.at + 1, c.at + len)]

\* get_key's assertion (in memory: that the index is one of the array).
KeyThere(input, c, index) ==
    CASE input.class = "simple" -> TRUE
      [] input.class = "memory" -> input.start + input.step * index \in 0 .. input.num - 1
      [] input.class = "file" -> Relative(c, index) >= c.bottom

get_key(input, c, index) ==
    CASE input.class = "simple" -> input.start + input.step * index
      [] input.class = "memory" -> MemKey(input.start + input.step * index)
      [] input.class = "file" -> c.buffer[Relative(c, index) - c.bottom + 1]
=============================================================================
