----------------------------- MODULE MCLfsFile -----------------------------
(* LfsFile with blocks that are interchangeable.                            *)
EXTENDS LfsFile, TLC

Interchangeable == Permutations(Blocks)
=============================================================================
