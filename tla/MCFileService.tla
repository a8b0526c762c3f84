---------------------------- MODULE MCFileService ----------------------------
(***************************************************************************)
(* Instances of FileService: a is the shell, which opens files and forks b;*)
(* b reads the files it inherits, as the commands of a shell do.           *)
(***************************************************************************)
EXTENDS FileService, TLC
CONSTANTS a, b
MCClient == {a, b}
MCKillable == {b}
MCCalls == (a :> {FSREQ_OPEN, FSREQ_READ, FSREQ_FLUSH})
             @@ (b :> {FSREQ_READ, FSREQ_STAT})
=============================================================================
