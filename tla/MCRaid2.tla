------------------------------- MODULE MCRaid2 -------------------------------
(***************************************************************************)
(* Disks of two bits: a group holds eight bits, and additions of five and  *)
(* of three bits end in the middle of a row, at its end and across groups. *)
(***************************************************************************)
EXTENDS Raid2

MCInputs == {<<1, 0, 1, 1, 1>>, <<0, 1, 1>>}
=============================================================================
