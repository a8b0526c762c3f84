---------------------------- MODULE AbstractLock ----------------------------
(***************************************************************************)
(* What the big kernel lock promises to the rest of the kernel: a CPU asks *)
(* for the kernel, at most one CPU has it, and when the kernel is free and *)
(* some CPU asks, some CPU gets it.  KernelLock.tla shows that the         *)
(* spinlock of kern/spinlock.c, used the way kern/trap.c, kern/sched.c and *)
(* kern/init.c use it, implements this module.                             *)
(***************************************************************************)
CONSTANTS CPU,  \* the processors
          None  \* the owner of a lock nobody holds

VARIABLES owner,   \* the CPU that runs the kernel, or None
          waiting  \* the CPUs that asked for the kernel

vars == <<owner, waiting>>

Init == owner = None /\ waiting = {}

\* A CPU asks for the kernel; it neither has it nor waits for it yet.
Request(c) ==
  /\ owner # c
  /\ c \notin waiting
  /\ waiting' = waiting \cup {c}
  /\ UNCHANGED owner

\* The kernel is free and goes to a CPU that asked for it.
Grant(c) ==
  /\ owner = None
  /\ c \in waiting
  /\ owner' = c
  /\ waiting' = waiting \ {c}

\* The CPU leaves the kernel.
Release(c) ==
  /\ owner = c
  /\ owner' = None
  /\ UNCHANGED waiting

Next == \E c \in CPU : Request(c) \/ Grant(c) \/ Release(c)

\* No promise is made to a particular CPU: the lock is not fair.
Spec == Init /\ [][Next]_vars /\ WF_vars(\E c \in CPU : Grant(c))

SafetySpec == Init /\ [][Next]_vars
=============================================================================
