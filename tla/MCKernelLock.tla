---------------------------- MODULE MCKernelLock ----------------------------
(* Three processors: the one that boots the system and two APs, so that a   *)
(* CPU can spin while a second one drops the lock and a third one takes it. *)
EXTENDS KernelLock
=============================================================================
