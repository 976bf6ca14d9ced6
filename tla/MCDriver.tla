------------------------------ MODULE MCDriver ------------------------------
(***************************************************************************)
(* The commands with few keys and one to three workers.  Bulkloads of more *)
(* than PerThread keys per worker are done by all workers; with two or     *)
(* three workers and five or seven keys the last subtree is higher than    *)
(* the others.                                                             *)
(***************************************************************************)
EXTENDS DriverProperties

\* The first eight keys are sorted, as stable requires of a tenth of its file.
MCFile == <<2, 4, 6, 8, 10, 12, 14, 16, 5, 3, 15, 1, 7, 18>>

Job(command, keynum, w, leafFill, nodeFill) ==
    [command |-> command, keynum |-> keynum, workers |-> w,
     leafFill |-> leafFill, nodeFill |-> nodeFill, memSize |-> 30, nvmSize |-> 45]

MCJobs ==
    {Job("debug_bulkload", k, w, f[1], f[2]) :
        k \in {1, 5, 7, 13}, w \in {2, 3}, f \in {<<1, 2>>, <<2, 1>>, <<2, 2>>}}
    \union {Job("debug_lookup", 5, 2, 2, 2)}
    \union {Job("debug_insert", k, w, 2, 2) : k \in {1, 4}, w \in 1 .. 3}
    \union {Job("debug_insert", 7, w, 2, 2) : w \in 1 .. 2}
    \union {Job("debug_del", k, w, 2, 2) : k \in {10, 14}, w \in 1 .. 3}
    \union {Job("debug_del", 20, 2, 2, 2)}
    \union {Job("debug_del", 28, 3, 2, 2)}
    \union {Job("stable", k, 2, 2, 2) : k \in {10, 11, 12}}
    \union {Job("stable", 14, 3, 2, 1)}
    \union {Job("files", k, w, 2, 2) : k \in {7, 10}, w \in 1 .. 2}
    \union {Job("files", 7, 3, 2, 2)}
    \union {[Job("stable", 10, 2, 2, 2) EXCEPT !.memSize = 2],
            [Job("stable", 10, 2, 2, 2) EXCEPT !.nvmSize = 7],
            [Job("debug_insert", 4, 2, 2, 2) EXCEPT !.nvmSize = 6],
            [Job("debug_insert", 7, 1, 2, 2) EXCEPT !.memSize = 3]}
=============================================================================
