-------------------------------- MODULE MCBoard --------------------------------
(* An instance of Board: jobs are interchangeable.                          *)
EXTENDS Board, TLC

Interchangeable == Permutations(Job)
=============================================================================
