------------------------------- MODULE MCPipe -------------------------------
(* Instances of Pipe: a made the pipe and writes, b reads. *)
EXTENDS Pipe
=============================================================================
