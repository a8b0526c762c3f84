----------------------------- MODULE KernelLock -----------------------------
(***************************************************************************)
(* The big kernel lock, one memory access at a time: spin_lock and         *)
(* spin_unlock (kern/spinlock.c), and every place that takes or drops the  *)
(* lock: the boot of the first CPU and of the others (kern/init.c), the    *)
(* entry of trap() (kern/trap.c), and the two ways out of the kernel,      *)
(* env_run (kern/env.c) and sched_halt (kern/sched.c).                     *)
(*                                                                         *)
(* What the kernel does while it holds the lock is the subject of          *)
(* Kernel.tla; here it is the single program point "kernel".               *)
(***************************************************************************)
CONSTANTS CPU,   \* cpus[0 .. ncpu-1]
          BSP,   \* bootcpu, the processor that runs i386_init
          None   \* a null CpuInfo pointer

ASSUME KernelLockAssumption == BSP \in CPU /\ None \notin CPU

VARIABLES
  locked,      \* kernel_lock.locked, read and written by xchg
  lkcpu,       \* kernel_lock.cpu, the recorded holder or None
  cpu_status,  \* CpuInfo.cpu_status of each CPU
  pc,          \* where each CPU is
  ret,         \* where the call of lock_kernel or unlock_kernel returns to
  tfmode,      \* the mode the last trap of each CPU interrupted
  startap      \* the AP that boot_aps waits for, or None

vars == <<locked, lkcpu, cpu_status, pc, ret, tfmode, startap>>

(* spin_lock: holding() reads locked, then cpu; then the xchg loop.        *)
Acquiring == {"holdLocked", "holdCpu", "xchg"}
(* The lock is held from the successful xchg to the xchg that clears it:   *)
(* recording the owner, the kernel itself, the body of spin_unlock.        *)
Releasing == {"relLocked", "relCpu", "clearCpu", "xchg0"}
Holding == {"setCpu", "bootAps", "kernel", "trapMode", "monitor"} \cup Releasing

PC == Acquiring \cup Holding \cup
      {"off", "i386_init", "mp_main", "user", "halted", "trap", "panic", "dead"}

\* "trapMode" is reached with the lock (after a halt) and without it.
HasLock(c) ==
  \/ pc[c] \in Holding \ {"trapMode"}
  \/ pc[c] = "trapMode" /\ tfmode[c] = "halted"

Goto(c, p) == pc' = [pc EXCEPT ![c] = p]

\* A call of lock_kernel or unlock_kernel that returns to r.
Call(c, entry, r) == Goto(c, entry) /\ ret' = [ret EXCEPT ![c] = r]

Init ==
  /\ locked = FALSE
  /\ lkcpu = None
  /\ cpu_status = [c \in CPU |-> IF c = BSP THEN "STARTED" ELSE "UNUSED"]
  /\ pc = [c \in CPU |-> IF c = BSP THEN "i386_init" ELSE "off"]
  /\ ret = [c \in CPU |-> "kernel"]
  /\ tfmode = [c \in CPU |-> "user"]
  /\ startap = None

-----------------------------------------------------------------------------
(* spin_lock *)

\* holding(): locked is read first, and && stops there when it is 0.
HoldingLocked(c) ==
  /\ pc[c] = "holdLocked"
  /\ Goto(c, IF locked THEN "holdCpu" ELSE "xchg")
  /\ UNCHANGED <<locked, lkcpu, cpu_status, ret, tfmode, startap>>

\* holding(): then cpu is compared with thiscpu; equal means a second
\* acquisition by the same CPU, and the kernel panics.
HoldingCpu(c) ==
  /\ pc[c] = "holdCpu"
  /\ Goto(c, IF lkcpu = c THEN "panic" ELSE "xchg")
  /\ UNCHANGED <<locked, lkcpu, cpu_status, ret, tfmode, startap>>

\* The xchg that finds 0; those that find 1 change nothing.
XchgAcquire(c) ==
  /\ pc[c] = "xchg"
  /\ ~locked
  /\ locked' = TRUE
  /\ Goto(c, "setCpu")
  /\ UNCHANGED <<lkcpu, cpu_status, ret, tfmode, startap>>

\* Mutant of SetCpu: the return address is recorded as the owner.
SetCpuWrongField(c) ==
  /\ pc[c] = "setCpu"
  /\ lkcpu' = ret[c]
  /\ Goto(c, ret[c])
  /\ UNCHANGED <<locked, cpu_status, ret, tfmode, startap>>

SetCpu(c) ==
  /\ pc[c] = "setCpu"
  /\ lkcpu' = c
  /\ Goto(c, ret[c])
  /\ UNCHANGED <<locked, cpu_status, ret, tfmode, startap>>

(* spin_unlock *)

ReleaseLocked(c) ==
  /\ pc[c] = "relLocked"
  /\ Goto(c, IF locked THEN "relCpu" ELSE "panic")
  /\ UNCHANGED <<locked, lkcpu, cpu_status, ret, tfmode, startap>>

ReleaseCpu(c) ==
  /\ pc[c] = "relCpu"
  /\ Goto(c, IF lkcpu = c THEN "clearCpu" ELSE "panic")
  /\ UNCHANGED <<locked, lkcpu, cpu_status, ret, tfmode, startap>>

\* Mutant of ClearCpu: the owner stays recorded after the release.
ClearCpuMissing(c) ==
  /\ pc[c] = "clearCpu"
  /\ Goto(c, "xchg0")
  /\ UNCHANGED <<locked, lkcpu, cpu_status, ret, tfmode, startap>>

ClearCpu(c) ==
  /\ pc[c] = "clearCpu"
  /\ lkcpu' = None
  /\ Goto(c, "xchg0")
  /\ UNCHANGED <<locked, cpu_status, ret, tfmode, startap>>

\* Mutant of XchgRelease: the lock word is never cleared.
XchgReleaseMissing(c) ==
  /\ pc[c] = "xchg0"
  /\ Goto(c, ret[c])
  /\ UNCHANGED <<locked, lkcpu, cpu_status, ret, tfmode, startap>>

XchgRelease(c) ==
  /\ pc[c] = "xchg0"
  /\ locked' = FALSE
  /\ Goto(c, ret[c])
  /\ UNCHANGED <<lkcpu, cpu_status, ret, tfmode, startap>>

-----------------------------------------------------------------------------
(* Boot *)

\* Mutant of I386Init: boot_aps runs before lock_kernel.
I386InitUnlocked(c) ==
  /\ pc[c] = "i386_init"
  /\ Goto(c, "bootAps")
  /\ UNCHANGED <<locked, lkcpu, cpu_status, ret, tfmode, startap>>

\* i386_init takes the lock before it wakes up the other CPUs.
I386Init(c) ==
  /\ pc[c] = "i386_init"
  /\ Call(c, "holdLocked", "bootAps")
  /\ UNCHANGED <<locked, lkcpu, cpu_status, tfmode, startap>>

\* One turn of the loop of boot_aps: the AP it waited for is up, and the next
\* one is started.
BootAp(c) ==
  /\ pc[c] = "bootAps"
  /\ startap # None => cpu_status[startap] = "STARTED"
  /\ \E ap \in CPU : /\ pc[ap] = "off"
                     /\ startap' = ap
                     /\ pc' = [pc EXCEPT ![ap] = "mp_main"]
  /\ UNCHANGED <<locked, lkcpu, cpu_status, ret, tfmode>>

\* All APs are up: boot_aps returns and the rest of i386_init runs.
BootDone(c) ==
  /\ pc[c] = "bootAps"
  /\ startap # None => cpu_status[startap] = "STARTED"
  /\ \A ap \in CPU : pc[ap] # "off"
  /\ Goto(c, "kernel")
  /\ startap' = None
  /\ UNCHANGED <<locked, lkcpu, cpu_status, ret, tfmode>>

\* An AP tells boot_aps it is up, and only then asks for the lock.
MpMain(c) ==
  /\ pc[c] = "mp_main"
  /\ cpu_status' = [cpu_status EXCEPT ![c] = "STARTED"]
  /\ Call(c, "holdLocked", "kernel")
  /\ UNCHANGED <<locked, lkcpu, tfmode, startap>>

(* trap() *)

\* An interrupt, exception or system call, from user code or from the hlt of
\* sched_halt.  After a panic the CPU stops here for ever.
Trap(c) ==
  /\ pc[c] \in {"user", "halted"}
  /\ IF \E d \in CPU : pc[d] = "panic"
     THEN Goto(c, "dead") /\ UNCHANGED tfmode
     ELSE Goto(c, "trap") /\ tfmode' = [tfmode EXCEPT ![c] = pc[c]]
  /\ UNCHANGED <<locked, lkcpu, cpu_status, ret, startap>>

\* Mutant of TrapStatus: a CPU woken from hlt does not take the lock again.
TrapStatusUnlocked(c) ==
  /\ pc[c] = "trap"
  /\ cpu_status' = [cpu_status EXCEPT ![c] = "STARTED"]
  /\ Goto(c, "trapMode")
  /\ UNCHANGED <<locked, lkcpu, ret, tfmode, startap>>

\* xchg(&thiscpu->cpu_status, CPU_STARTED) == CPU_HALTED: take the lock again.
TrapStatus(c) ==
  /\ pc[c] = "trap"
  /\ cpu_status' = [cpu_status EXCEPT ![c] = "STARTED"]
  /\ IF cpu_status[c] = "HALTED"
     THEN Call(c, "holdLocked", "trapMode")
     ELSE Goto(c, "trapMode") /\ UNCHANGED ret
  /\ UNCHANGED <<locked, lkcpu, tfmode, startap>>

\* (tf->tf_cs & 3) == 3: a trap from user code takes the lock here.
TrapMode(c) ==
  /\ pc[c] = "trapMode"
  /\ IF tfmode[c] = "user"
     THEN Call(c, "holdLocked", "kernel")
     ELSE Goto(c, "kernel") /\ UNCHANGED ret
  /\ UNCHANGED <<locked, lkcpu, cpu_status, tfmode, startap>>

(* The ways out of the kernel *)

\* env_run: drop the lock and return to user code.
EnvRun(c) ==
  /\ pc[c] = "kernel"
  /\ Call(c, "relLocked", "user")
  /\ UNCHANGED <<locked, lkcpu, cpu_status, tfmode, startap>>

\* sched_halt with nothing to run: mark the CPU halted, drop the lock, hlt.
SchedHalt(c) ==
  /\ pc[c] = "kernel"
  /\ cpu_status' = [cpu_status EXCEPT ![c] = "HALTED"]
  /\ Call(c, "relLocked", "halted")
  /\ UNCHANGED <<locked, lkcpu, tfmode, startap>>

\* sched_halt with no live environment at all: the monitor, with the lock.
Monitor(c) ==
  /\ pc[c] = "kernel"
  /\ Goto(c, "monitor")
  /\ UNCHANGED <<locked, lkcpu, cpu_status, ret, tfmode, startap>>

-----------------------------------------------------------------------------
SpinLock(c) == HoldingLocked(c) \/ HoldingCpu(c) \/ XchgAcquire(c) \/ SetCpu(c)

SpinUnlock(c) ==
  ReleaseLocked(c) \/ ReleaseCpu(c) \/ ClearCpu(c) \/ XchgRelease(c)

Boot(c) == I386Init(c) \/ BootAp(c) \/ BootDone(c) \/ MpMain(c)

TrapEntry(c) == TrapStatus(c) \/ TrapMode(c)

KernelExit(c) == EnvRun(c) \/ SchedHalt(c) \/ Monitor(c)

\* Everything a CPU does of its own accord; Trap comes from outside.
Step(c) ==
  SpinLock(c) \/ SpinUnlock(c) \/ Boot(c) \/ TrapEntry(c) \/ KernelExit(c)

Next == \E c \in CPU : Trap(c) \/ Step(c)

(* A CPU that can execute its next instruction does; the timer of each CPU *)
(* interrupts user code and hlt.  Which spinning CPU wins the xchg is left *)
(* open.                                                                   *)
Fairness == \A c \in CPU : WF_vars(Step(c)) /\ WF_vars(Trap(c))

Spec == Init /\ [][Next]_vars /\ Fairness
-----------------------------------------------------------------------------
TypeOK ==
  /\ locked \in BOOLEAN
  /\ lkcpu \in CPU \cup {None}
  /\ cpu_status \in [CPU -> {"UNUSED", "STARTED", "HALTED"}]
  /\ pc \in [CPU -> PC]
  /\ ret \in [CPU -> {"bootAps", "trapMode", "kernel", "user", "halted"}]
  /\ tfmode \in [CPU -> {"user", "halted"}]
  /\ startap \in CPU \cup {None}

\* Two CPUs never execute kernel code at once: from the successful xchg of
\* spin_lock to the xchg of spin_unlock, whichever of the four ways into the
\* kernel and two ways out of it each of them takes.
MutualExclusion == \A c, d \in CPU : HasLock(c) /\ HasLock(d) => c = d

\* The checks of DEBUG_SPINLOCK never fire: no CPU asks for the lock it already
\* holds ("already holding") or drops one it does not hold ("cannot release"),
\* although holding() reads locked and cpu one after the other while other CPUs
\* write them.
NoLockPanic == \A c \in CPU : pc[c] # "panic"

\* A CPU is marked CPU_HALTED exactly from the mark in sched_halt to the trap
\* that wakes it up, so trap() takes the lock once on every path.
HaltedMark ==
  \A c \in CPU : cpu_status[c] = "HALTED" <=>
    \/ pc[c] \in Releasing /\ ret[c] = "halted"
    \/ pc[c] = "halted"
    \/ pc[c] = "trap" /\ tfmode[c] = "halted"

\* The handshake of boot_aps and mp_main ends: the first CPU holds the lock
\* while it waits for each AP, and goes on to start the first environment.
BootCompletes == <>(pc[BSP] = "kernel")

\* The spinlock with its users implements AbstractLock: the owner is the CPU
\* between the two xchgs, the waiting ones are those inside spin_lock.
Lock == INSTANCE AbstractLock WITH
          owner   <- IF \E c \in CPU : HasLock(c)
                     THEN CHOOSE c \in CPU : HasLock(c) ELSE None,
          waiting <- {c \in CPU : pc[c] \in Acquiring}

ImplementsLock == Lock!Spec
=============================================================================
