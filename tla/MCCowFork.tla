------------------------------ MODULE MCCowFork ------------------------------
(* Instances of CowFork: a program, its children and grandchildren. *)
EXTENDS CowFork
=============================================================================
