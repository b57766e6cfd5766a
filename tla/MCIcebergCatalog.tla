-------------------------- MODULE MCIcebergCatalog --------------------------
(* Small instances of IcebergCatalog for TLC. *)
EXTENDS IcebergCatalog, TLC

\* Every file is below 1 MB, the unit in which the portal takes the threshold.
MCFileSize == [f \in File |-> 1]

Symmetry == Permutations(Request) \cup Permutations(SeedFile)
=============================================================================
