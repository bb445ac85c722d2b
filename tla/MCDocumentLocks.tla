--------------------------- MODULE MCDocumentLocks ---------------------------
(* Instances of DocumentLocks for TLC.                                       *)
EXTENDS DocumentLocks

\* Programs and users are only compared for equality.
LocksSymmetry == Permutations(Program) \cup Permutations(User)
=============================================================================
