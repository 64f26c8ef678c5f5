-------------------------- MODULE MCFileValidators --------------------------
(***************************************************************************)
(* Two processes and four paths: d is a directory or could become one,     *)
(* dummy is "dummy.txt" in it, l is a link to t or nothing.                *)
(***************************************************************************)
EXTENDS FileValidators, TLC

CONSTANTS v1, v2, d, dummy, l, t

Processes == {v1, v2}

Symmetry == Permutations(Processes)

MCPath == {d, dummy, l, t}

MCBelow == [p \in MCPath |-> IF p = d THEN {dummy} ELSE {}]

MCDummy == [p \in MCPath |-> dummy]

MCTarget == [p \in MCPath |-> t]

\* The directory can hold a dummy.txt that is the user's own.
MCFileSystems ==
    {f \in [MCPath -> Entry] :
        /\ f[d] \in {"none", "dir", "data"}
        /\ f[dummy] \in {"none", "data"} /\ (f[dummy] # "none" => f[d] = "dir")
        /\ f[l] \in {"none", "link"}
        /\ f[t] \in {"none", "data"}}

MCPermissions ==
    {[unreadable |-> {}, unwritable |-> {}], [unreadable |-> {d, t}, unwritable |-> {d, t}],
     [unreadable |-> {}, unwritable |-> {dummy}]}

Checking(kind, p) ==
    [kind |-> kind, path |-> p, create_new |-> FALSE, extension_fits |-> TRUE]

MCRequests ==
    {Checking("output_file", p) : p \in {dummy, l, t}}
    \cup {[Checking("output_file", t) EXCEPT !.create_new = TRUE],
          [Checking("output_file", d) EXCEPT !.extension_fits = FALSE],
          Checking("output_directory", d), Checking("input_file", l),
          Checking("input_file", d), [Checking("input_file", d) EXCEPT !.extension_fits = FALSE],
          Checking("input_directory", d)}
=============================================================================
