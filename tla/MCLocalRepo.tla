------------------------------- MODULE MCLocalRepo -------------------------------
(* Files and views are interchangeable.                                        *)
EXTENDS LocalRepo, TLC

Symmetry == Permutations(Files) \cup Permutations(Views)
=============================================================================
