-------------------------- MODULE MCInventoryImport --------------------------
(***************************************************************************)
(* Instances of InventoryImport for TLC.                                   *)
(***************************************************************************)
EXTENDS InventoryImport, TLC

CONSTANTS a, b

\* Sessions are interchangeable.
Symmetry == Permutations(Operators)

\* Any list of groups.
AnyGroups == SUBSET Names

\* No file, files that cannot be appended to, a file that loads, and one whose
\* group lists a member it does not register.
MCInitial ==
    { Missing, Broken, Malformed,
      [devices |-> {a}, groups |-> {}],
      [devices |-> {}, groups |-> {<<b, a>>}] }
=============================================================================
