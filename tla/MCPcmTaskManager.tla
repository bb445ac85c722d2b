-------------------------- MODULE MCPcmTaskManager --------------------------
(* Instances of PcmTaskManager for TLC.                                      *)
EXTENDS PcmTaskManager

\* Packages and versions are only compared for equality.
PackageSymmetry == Permutations(Package) \cup Permutations(Version)
=============================================================================
