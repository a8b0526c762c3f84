-------------------------------- MODULE Pipe --------------------------------
(***************************************************************************)
(* One pipe (lib/pipe.c) shared by several environments, which read, write,*)
(* test, duplicate and close its ends and fork.  A step is one system call *)
(* or one access to the shared pages.                                      *)
(*                                                                         *)
(* Descriptor s of an environment is the page at address s, which it shares*)
(* with every descriptor of the same end, and the pipe itself, mapped at   *)
(* address Data(s).  map says which of them are mapped; pageref counts the *)
(* mappings.                                                               *)
(***************************************************************************)
EXTENDS Integers, FiniteSets

CONSTANTS Env,             \* the environments
          Parent,          \* the one that called pipe()
          Reader, Writer,  \* the one that reads, the one that writes
          NCPU,            \* how many run at the same time
          NFD,             \* descriptors; 0 and the ones from 2 on can read
          PIPEBUFSIZ,      \* size of p_buf
          MaxBytes         \* bound: bytes written

ASSUME PipeAssumption ==
  /\ {Parent, Reader, Writer} \subseteq Env /\ IsFiniteSet(Env)
  /\ NCPU \in Nat \ {0} /\ NFD \in Nat /\ NFD >= 2
  /\ PIPEBUFSIZ \in Nat \ {0} /\ MaxBytes \in Nat

VARIABLES
  map,       \* the addresses of the descriptors each environment has mapped
  pc,        \* where each one is, with its local variables
  running,   \* the ones that have a CPU
  p_rpos, p_wpos,
  p_buf      \* byte number k written has the value k

vars == <<map, pc, running, p_rpos, p_wpos, p_buf>>
buffer == <<p_rpos, p_wpos, p_buf>>

Fd == 0 .. NFD - 1
Data(s) == NFD + s
Addr == 0 .. 2 * NFD - 1

\* The descriptors with the same end as s.
SameEnd(s) == IF s = 1 THEN {1} ELSE Fd \ {1}

Refs(A) == Cardinality({m \in Env \X A : m[2] \in map[m[1]]})

\* pageref(fd) and pageref(p).
FdRefs(s) == Refs(SameEnd(s))
PipeRefs == Refs({Data(s) : s \in Fd})

(* The places:                                                             *)
(*  "none"     does not exist     "new"      created, not started          *)
(*  "idle"     in its own code                                             *)
(*  "close"    devpipe_close has unmapped fd                               *)
(*  "dup"      dup has mapped the data page of fd                          *)
(*  "fork"     fork, spawn: todo is yet to be mapped in child              *)
(*  "test"     _pipeisclosed has read n = env_runs                         *)
(*  "fdRead", "pipeRead"  and one count, val                               *)
(*  "compare"  and both; val = 1 when they are equal                       *)
(*  "closed"   it has returned 1                                           *)
(*  "read", "take", "took"     devpipe_read: loop, byte there, byte taken  *)
(*  "write", "store", "stored" devpipe_write, likewise                     *)
(* fd is the descriptor in use, by who called _pipeisclosed, and switched  *)
(* that env_runs has changed since n.                                      *)
Place == {"none", "new", "idle", "close", "dup", "fork", "test", "fdRead",
          "pipeRead", "compare", "closed", "read", "take", "took", "write",
          "store", "stored"}

Local == [at : Place, fd : Fd, by : {"idle", "read", "write"}, val : Nat,
          switched : BOOLEAN, todo : SUBSET Addr, child : Env]

At(place, s) == [at |-> place, fd |-> s, by |-> "idle", val |-> 0,
                 switched |-> FALSE, todo |-> {}, child |-> Parent]

Idle == At("idle", 0)

\* _pipeisclosed has been called by by.
AtFor(place, s, by) == [At(place, s) EXCEPT !.by = by]

Testing == {"test", "fdRead", "pipeRead", "compare"}

\* pipe() has returned; nobody else knows of it.
Init ==
  /\ map = [e \in Env |-> IF e = Parent THEN {0, 1, Data(0), Data(1)} ELSE {}]
  /\ pc = [e \in Env |-> IF e = Parent THEN Idle ELSE At("none", 0)]
  /\ running = {Parent}
  /\ p_rpos = 0 /\ p_wpos = 0
  /\ p_buf = [i \in 0 .. PIPEBUFSIZ - 1 |-> 0]

-----------------------------------------------------------------------------
Started(e) == pc[e].at \notin {"none", "new"}

\* f is not taken off its CPU (mutant).
EnvRunBoth(e, f) ==
  /\ Started(e) /\ e \notin running \ {f}
  /\ Cardinality((running \ {f}) \cup {e}) <= NCPU
  /\ running' = running \cup {e}
  /\ pc' = [pc EXCEPT ![e].switched = (pc[e].at \in Testing)]
  /\ UNCHANGED <<map, buffer>>

\* env_run does not count (mutant).
EnvRunUncounted(e, f) ==
  /\ Started(e) /\ e \notin running \ {f}
  /\ Cardinality((running \ {f}) \cup {e}) <= NCPU
  /\ running' = (running \ {f}) \cup {e}
  /\ UNCHANGED <<map, pc, buffer>>

\* A CPU starts to execute e, perhaps in the place of f, perhaps again after an
\* interrupt: env_run counts it.
EnvRun(e, f) ==
  /\ Started(e) /\ e \notin running \ {f}
  /\ Cardinality((running \ {f}) \cup {e}) <= NCPU
  /\ running' = (running \ {f}) \cup {e}
  /\ pc' = [pc EXCEPT ![e].switched = (pc[e].at \in Testing)]
  /\ UNCHANGED <<map, buffer>>

\* e executes, from the given place to the local state next.
Step(e, place, next) ==
  /\ e \in running /\ pc[e].at = place
  /\ pc' = [pc EXCEPT ![e] = next]
  /\ UNCHANGED running

Unmap(e, a) == map' = [map EXCEPT ![e] = @ \ {a}]
Map(e, a) == map' = [map EXCEPT ![e] = @ \cup {a}]

\* A close that drops the pipe before the descriptor (mutant).
CloseDataFirst(e, s) ==
  /\ s \in map[e]
  /\ Step(e, "idle", At("close", s))
  /\ Unmap(e, Data(s)) /\ UNCHANGED buffer

\* close: devpipe_close unmaps the descriptor, then the data page.
Close(e, s) ==
  /\ s \in map[e]
  /\ Step(e, "idle", At("close", s))
  /\ Unmap(e, s) /\ UNCHANGED buffer

CloseData(e) ==
  /\ Step(e, "close", Idle)
  /\ Unmap(e, Data(pc[e].fd)) /\ UNCHANGED buffer

\* dup to the closed descriptor s; one that is open is closed first.
Dup(e, s) ==
  /\ s \notin map[e] /\ \E old \in SameEnd(s) : old \in map[e]
  /\ Step(e, "idle", At("dup", s))
  /\ Map(e, Data(s)) /\ UNCHANGED buffer

DupFd(e) ==
  /\ Step(e, "dup", Idle)
  /\ Map(e, pc[e].fd) /\ UNCHANGED buffer

\* fork, and copy_shared_pages of spawn: sys_exofork, then every page in the
\* order of the addresses, then the child is started.
Fork(e, f) ==
  /\ pc[f].at = "none" /\ f # Parent
  /\ e \in running /\ pc[e].at = "idle"
  /\ pc' = [pc EXCEPT ![e] = [At("fork", 0) EXCEPT !.todo = map[e], !.child = f],
                      ![f] = At("new", 0)]
  /\ UNCHANGED <<map, running, buffer>>

DupPage(e) ==
  \E a \in pc[e].todo :
    /\ \A b \in pc[e].todo : a <= b
    /\ Step(e, "fork", [pc[e] EXCEPT !.todo = @ \ {a}])
    /\ Map(pc[e].child, a) /\ UNCHANGED buffer

Start(e) ==
  /\ e \in running /\ pc[e].at = "fork" /\ pc[e].todo = {}
  /\ pc' = [pc EXCEPT ![e] = Idle, ![pc[e].child] = Idle]
  /\ UNCHANGED <<map, running, buffer>>

\* f calls sys_env_destroy, at the end of its exit or on a child, wherever
\* the child is.
Exit(f, e) ==
  /\ f \in running /\ pc[f].at = "idle" /\ Started(e) /\ f \in {e, Parent}
  /\ map' = [map EXCEPT ![e] = {}]
  /\ pc' = [pc EXCEPT ![e] = At("none", 0)]
  /\ running' = running \ {e}
  /\ UNCHANGED buffer

-----------------------------------------------------------------------------
(* _pipeisclosed.  C does not say in which order the two operands of ==    *)
(* are evaluated.                                                          *)

PipeIsClosed(e, s) ==
  /\ s \in map[e]
  /\ Step(e, "idle", At("test", s))
  /\ UNCHANGED <<map, buffer>>

ReadFdRefs(e) ==
  LET l == pc[e]
  IN  /\ \/ Step(e, "test", [l EXCEPT !.at = "fdRead", !.val = FdRefs(l.fd)])
         \/ Step(e, "pipeRead", [l EXCEPT !.at = "compare",
                                   !.val = IF @ = FdRefs(l.fd) THEN 1 ELSE 0])
      /\ UNCHANGED <<map, buffer>>

ReadPipeRefs(e) ==
  LET l == pc[e]
  IN  /\ \/ Step(e, "test", [l EXCEPT !.at = "pipeRead", !.val = PipeRefs])
         \/ Step(e, "fdRead", [l EXCEPT !.at = "compare",
                                 !.val = IF @ = PipeRefs THEN 1 ELSE 0])
      /\ UNCHANGED <<map, buffer>>

\* What the caller does when the pipe is open: return, or sys_yield and loop.
NotClosed(l) == At(l.by, IF l.by = "idle" THEN 0 ELSE l.fd)

Compare(e) ==
  LET l == pc[e]
  IN  /\ Step(e, "compare",
              IF l.switched THEN AtFor("test", l.fd, l.by)
              ELSE IF l.val = 1 THEN AtFor("closed", l.fd, l.by)
              ELSE NotClosed(l))
      /\ UNCHANGED <<map, buffer>>

\* pipeisclosed returns 1; read and write return 0.
Closed(e) ==
  /\ Step(e, "closed", Idle)
  /\ UNCHANGED <<map, buffer>>

-----------------------------------------------------------------------------
(* devpipe_read and devpipe_write, one byte at a time.                     *)

Read(e, s) ==
  /\ e = Reader /\ s \in map[e] /\ s \in SameEnd(0)
  /\ Step(e, "idle", At("read", s))
  /\ UNCHANGED <<map, buffer>>

CheckEmpty(e) ==
  /\ Step(e, "read", IF p_rpos = p_wpos
                     THEN AtFor("test", pc[e].fd, "read")
                     ELSE At("take", pc[e].fd))
  /\ UNCHANGED <<map, buffer>>

\* buf[i] = ...; the byte is what p_buf holds in this state.
Take(e) ==
  /\ Step(e, "take", At("took", pc[e].fd))
  /\ UNCHANGED <<map, buffer>>

IncRpos(e) ==
  /\ Step(e, "took", Idle)
  /\ p_rpos' = p_rpos + 1
  /\ UNCHANGED <<map, p_wpos, p_buf>>

Write(e, s) ==
  /\ e = Writer /\ s \in map[e] /\ s = 1 /\ p_wpos < MaxBytes
  /\ Step(e, "idle", At("write", s))
  /\ UNCHANGED <<map, buffer>>

\* Off by one (mutant).
CheckFullLate(e) ==
  /\ Step(e, "write", IF p_wpos > p_rpos + PIPEBUFSIZ
                      THEN AtFor("test", pc[e].fd, "write")
                      ELSE At("store", pc[e].fd))
  /\ UNCHANGED <<map, buffer>>

CheckFull(e) ==
  /\ Step(e, "write", IF p_wpos >= p_rpos + PIPEBUFSIZ
                      THEN AtFor("test", pc[e].fd, "write")
                      ELSE At("store", pc[e].fd))
  /\ UNCHANGED <<map, buffer>>

Store(e) ==
  /\ Step(e, "store", At("stored", pc[e].fd))
  /\ p_buf' = [p_buf EXCEPT ![p_wpos % PIPEBUFSIZ] = p_wpos]
  /\ UNCHANGED <<map, p_rpos, p_wpos>>

IncWpos(e) ==
  /\ Step(e, "stored", Idle)
  /\ p_wpos' = p_wpos + 1
  /\ UNCHANGED <<map, p_rpos, p_buf>>

-----------------------------------------------------------------------------
Next == \E e \in Env :
  \/ \E f \in Env : EnvRun(e, f) \/ Fork(e, f) \/ Exit(e, f)
  \/ \E s \in Fd : Close(e, s) \/ Dup(e, s) \/ PipeIsClosed(e, s)
                   \/ Read(e, s) \/ Write(e, s)
  \/ CloseData(e) \/ DupFd(e) \/ DupPage(e) \/ Start(e)
  \/ ReadFdRefs(e) \/ ReadPipeRefs(e) \/ Compare(e) \/ Closed(e)
  \/ CheckEmpty(e) \/ Take(e) \/ IncRpos(e)
  \/ CheckFull(e) \/ Store(e) \/ IncWpos(e)

Spec == Init /\ [][Next]_vars
-----------------------------------------------------------------------------
TypeOK ==
  /\ map \in [Env -> SUBSET Addr]
  /\ pc \in [Env -> Local]
  /\ running \subseteq Env /\ Cardinality(running) <= NCPU
  /\ p_rpos \in 0 .. MaxBytes /\ p_wpos \in 0 .. MaxBytes
  /\ p_buf \in [0 .. PIPEBUFSIZ - 1 -> 0 .. MaxBytes]

\* No environment is created and not yet started.
NoFork == \A e \in Env : pc[e].at # "new"

\* dup maps the pipe before the descriptor and close unmaps it after it, so
\* the pipe always has at least the references of both ends, except during a fork.
PipeCountedFirst == NoFork => FdRefs(0) + FdRefs(1) <= PipeRefs

\* The end of the pipe that a descriptor is not.
OtherEnd(s) == Fd \ SameEnd(s)

\* On one CPU, _pipeisclosed says so only when no descriptor of the other end
\* is left, if nobody is in a fork: env_runs tells that the counts were read
\* without interruption.
ClosedIsTrue ==
  \A e \in running :
    pc[e].at = "compare" /\ pc[e].val = 1 /\ ~pc[e].switched /\ NoFork
    => Refs(OtherEnd(pc[e].fd)) = 0

\* Every byte the reader takes is the next one written, and was written.
InOrder ==
  \A e \in Env : pc[e].at = "take" =>
    p_rpos < p_wpos /\ p_buf[p_rpos % PIPEBUFSIZ] = p_rpos

\* user/testpiperace2.c: who holds both ends never finds the pipe closed.
HoldsBothEnds ==
  \A e \in Env : pc[e].at = "closed" => ~({0, 1} \subseteq map[e])

\* user/testpipe.c: the reader gets all that was written before end of file.
AllReadAtEof ==
  \A e \in Env : pc[e].at = "closed" /\ pc[e].by = "read" => p_rpos = p_wpos
=============================================================================
