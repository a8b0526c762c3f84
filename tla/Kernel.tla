------------------------------- MODULE Kernel -------------------------------
(***************************************************************************)
(* The environment table, the scheduler and the system calls that act on   *)
(* environments, on several processors.  A step of this module is one      *)
(* entry into the kernel, from the trap to the iret or the hlt: the big    *)
(* kernel lock makes it atomic (KernelLock.tla).  Only env_pop_tf, which   *)
(* runs after unlock_kernel, is a step of its own.                         *)
(*                                                                         *)
(* Spec lets user code make any system call with any argument.  LibSpec    *)
(* lets it use sys_env_set_status and sys_env_destroy only the way the     *)
(* library and the programs of the repository do.                          *)
(***************************************************************************)
EXTENDS Integers, Sequences

CONSTANTS CPU,         \* the processors
          BSP,         \* the one that runs i386_init
          NENV,        \* size of envs[]
          NGEN,        \* number of generations of an env_id, 2^19 in inc/env.h
          Priorities,  \* values user code passes to sys_change_priority
          None         \* a null Env pointer

Slot == 0 .. NENV - 1

ASSUME KernelAssumption ==
  /\ BSP \in CPU
  /\ NENV \in Nat /\ NENV >= 2
  /\ NGEN \in Nat /\ NGEN >= 2
  /\ Priorities \subseteq Int /\ 0 \in Priorities
  /\ None \notin Slot

VARIABLES
  envs,           \* the table of environments
  env_free_list,  \* the free slots, in the order of the env_link chain
  curenv,         \* cpu_env of each CPU, or None
  mode            \* what each CPU does

vars == <<envs, env_free_list, curenv, mode>>

Status == {"FREE", "DYING", "RUNNABLE", "RUNNING", "NOT_RUNNABLE"}

\* An env_id is a generation and a slot; the id 0 is <<0, 0>>.
Id == (0 .. NGEN - 1) \X Slot
NoId == <<0, 0>>

(* struct Env.  runs is env_runs > 0, pgdir is env_pgdir # 0, ipc_from is  *)
(* env_ipc_from # 0; registers, address space and IPC payload are left     *)
(* out.                                                                    *)
Env == [status : Status, gen : 0 .. NGEN - 1, parent_id : Id, runs : BOOLEAN,
        pgdir : BOOLEAN, ipc_recving : BOOLEAN, ipc_from : BOOLEAN,
        priority : Priorities]

(* "boot": waiting in i386_init or mp_main for its first environment;      *)
(* "leaving": past unlock_kernel, in env_pop_tf; "monitor", "panic": in    *)
(* the kernel for ever, holding the lock.                                  *)
Mode == {"boot", "leaving", "user", "halted", "monitor", "panic"}

EnvId(e) == <<envs[e].gen, e>>

FreeEnv == [status |-> "FREE", gen |-> 0, parent_id |-> NoId, runs |-> FALSE,
            pgdir |-> FALSE, ipc_recving |-> FALSE, ipc_from |-> FALSE,
            priority |-> 0]

\* env_init, then two ENV_CREATE: the file server in slot 0, a program in 1.
Init ==
  /\ envs = [e \in Slot |->
               IF e \in {0, 1}
               THEN [FreeEnv EXCEPT !.status = "RUNNABLE", !.gen = 1,
                                    !.pgdir = TRUE]
               ELSE FreeEnv]
  /\ env_free_list = [i \in 1 .. NENV - 2 |-> i + 1]
  /\ curenv = [c \in CPU |-> None]
  /\ mode = [c \in CPU |-> "boot"]

-----------------------------------------------------------------------------
(* The scheduler.  A handler computes the table es and the current         *)
(* environment cur of CPU c that it leaves behind, and ends in one of the  *)
(* operators below, which choose what c does next.                         *)

Panic(c, es, cur) ==
  /\ envs' = es
  /\ curenv' = [curenv EXCEPT ![c] = cur]
  /\ mode' = [mode EXCEPT ![c] = "panic"]

\* Mutant of Demote: env_run forgets the environment it switches from.
DemoteNothing(es, cur) == es

\* env_run puts the environment it switches from back in the queue, unless
\* it is blocked or dying.
Demote(es, cur) ==
  IF cur # None /\ es[cur].status = "RUNNING"
  THEN [es EXCEPT ![cur].status = "RUNNABLE"] ELSE es

\* env_run(e): PADDR panics when e has no page directory.
EnvRun(c, es, cur, e) ==
  IF es[e].pgdir
  THEN /\ envs' = [Demote(es, cur) EXCEPT ![e].status = "RUNNING",
                                          ![e].runs = TRUE]
       /\ curenv' = [curenv EXCEPT ![c] = e]
       /\ mode' = [mode EXCEPT ![c] = "leaving"]
  ELSE Panic(c, es, e)

\* Mutant of Runnable: environments running elsewhere are candidates too.
RunnableOrRunning(es) == {e \in Slot : es[e].status \in {"RUNNABLE", "RUNNING"}}

\* Mutant of Runnable: a zombie is a candidate too.
RunnableOrDying(es) == {e \in Slot : es[e].status \in {"RUNNABLE", "DYING"}}

Runnable(es) == {e \in Slot : es[e].status = "RUNNABLE"}

\* Mutant of Distance: the search always starts at slot 0.
DistanceFromZero(cur, e) == e

\* How many slots sched_yield looks at before e: it starts after cur.
Distance(cur, e) ==
  LET start == IF cur = None THEN 0 ELSE cur + 1
  IN  (e + NENV - start) % NENV

\* Mutant of Best: the comparison of the priorities is the wrong way round.
BestLowest(es, cur) ==
  {e \in Runnable(es) : \A f \in Runnable(es) \ {e} :
     \/ es[e].priority < es[f].priority
     \/ /\ es[f].priority = es[e].priority
        /\ Distance(cur, e) < Distance(cur, f)}

\* Mutant of Best: the search loop ends one slot too early.
BestShort(es, cur) ==
  LET seen == {e \in Runnable(es) : Distance(cur, e) < NENV - 1}
  IN  {e \in seen : \A f \in seen \ {e} :
         \/ es[f].priority < es[e].priority
         \/ /\ es[f].priority = es[e].priority
            /\ Distance(cur, e) < Distance(cur, f)}

\* The environment the search loop ends with: the highest priority, and the
\* first one met among equals.  No element when nothing is runnable.
Best(es, cur) ==
  {e \in Runnable(es) : \A f \in Runnable(es) \ {e} :
     \/ es[f].priority < es[e].priority
     \/ /\ es[f].priority = es[e].priority
        /\ Distance(cur, e) < Distance(cur, f)}

IsRunning(es, e) == e # None /\ es[e].status = "RUNNING"

\* Mutant of SchedHalt: dying environments are not counted.
SchedHaltIgnoresDying(c, es, cur) ==
  /\ envs' = es
  /\ IF \E e \in Slot : es[e].status \in {"RUNNABLE", "RUNNING"}
     THEN /\ curenv' = [curenv EXCEPT ![c] = None]
          /\ mode' = [mode EXCEPT ![c] = "halted"]
     ELSE /\ curenv' = [curenv EXCEPT ![c] = cur]
          /\ mode' = [mode EXCEPT ![c] = "monitor"]

\* sched_halt: the monitor when no environment is left, else hlt.
SchedHalt(c, es, cur) ==
  /\ envs' = es
  /\ IF \E e \in Slot : es[e].status \in {"RUNNABLE", "RUNNING", "DYING"}
     THEN /\ curenv' = [curenv EXCEPT ![c] = None]
          /\ mode' = [mode EXCEPT ![c] = "halted"]
     ELSE /\ curenv' = [curenv EXCEPT ![c] = cur]
          /\ mode' = [mode EXCEPT ![c] = "monitor"]

\* sched_yield: a running environment is kept only if it has a higher
\* priority than all the others, or is the only one.
SchedYield(c, es, cur) ==
  LET next == {e \in Best(es, cur) :
                 IsRunning(es, cur) => es[e].priority >= es[cur].priority}
  IN  \/ \E e \in next : EnvRun(c, es, cur, e)
      \/ next = {} /\ IsRunning(es, cur) /\ EnvRun(c, es, cur, cur)
      \/ next = {} /\ ~IsRunning(es, cur) /\ SchedHalt(c, es, cur)

\* The end of trap(): back to the current environment if it may run.
Resume(c, es, cur) ==
  IF IsRunning(es, cur) THEN EnvRun(c, es, cur, cur) ELSE SchedYield(c, es, cur)

\* The fields env_free changes; the slot goes to the head of env_free_list.
Freed(es, e) == [es EXCEPT ![e].status = "FREE", ![e].pgdir = FALSE]

\* Mutant of FreeCurrent: the slot is not returned to env_free_list.
FreeCurrentLeaks(c, e) ==
  /\ UNCHANGED env_free_list
  /\ SchedYield(c, Freed(envs, e), None)

\* env_free(e), which walks the page directory of e, then sched_yield with
\* no current environment.
FreeCurrent(c, e) ==
  IF envs[e].pgdir
  THEN /\ env_free_list' = <<e>> \o env_free_list
       /\ SchedYield(c, Freed(envs, e), None)
  ELSE /\ UNCHANGED env_free_list
       /\ Panic(c, envs, e)

\* Mutant of Destroy: an environment running on another CPU is freed at once.
DestroyRunning(c, e) ==
  IF e = curenv[c] THEN FreeCurrent(c, e)
  ELSE IF envs[e].pgdir
  THEN /\ env_free_list' = <<e>> \o env_free_list
       /\ Resume(c, Freed(envs, e), curenv[c])
  ELSE /\ UNCHANGED env_free_list
       /\ Panic(c, envs, curenv[c])

\* env_destroy(e), then, when e was not the current environment, the end of
\* trap().  An environment running on another CPU is only marked.
Destroy(c, e) ==
  IF e = curenv[c] THEN FreeCurrent(c, e)
  ELSE IF envs[e].status = "RUNNING"
  THEN /\ UNCHANGED env_free_list
       /\ Resume(c, [envs EXCEPT ![e].status = "DYING"], curenv[c])
  ELSE IF envs[e].pgdir
  THEN /\ env_free_list' = <<e>> \o env_free_list
       /\ Resume(c, Freed(envs, e), curenv[c])
  ELSE /\ UNCHANGED env_free_list
       /\ Panic(c, envs, curenv[c])

-----------------------------------------------------------------------------
(* Ways into the kernel *)

\* No CPU keeps the lock for ever, and the boot CPU, which holds it from
\* before it starts the others, has run sched_yield.
LockAvailable(c) ==
  /\ \A d \in CPU : mode[d] \notin {"monitor", "panic"}
  /\ c # BSP => mode[BSP] # "boot"

\* The end of i386_init and of mp_main.
Boot(c) ==
  /\ mode[c] = "boot" /\ LockAvailable(c)
  /\ SchedYield(c, envs, None)
  /\ UNCHANGED env_free_list

\* Any interrupt of a halted CPU.
WakeUp(c) ==
  /\ mode[c] = "halted" /\ LockAvailable(c)
  /\ SchedYield(c, envs, None)
  /\ UNCHANGED env_free_list

\* env_pop_tf, without the lock.
PopTf(c) ==
  /\ mode[c] = "leaving"
  /\ mode' = [mode EXCEPT ![c] = "user"]
  /\ UNCHANGED <<envs, env_free_list, curenv>>

\* Mutant of ReapZombie: the trap ends with an iret to the zombie.
ReapZombieNever(c) ==
  /\ mode[c] = "user" /\ LockAvailable(c)
  /\ envs[curenv[c]].status = "DYING"
  /\ mode' = [mode EXCEPT ![c] = "leaving"]
  /\ UNCHANGED <<envs, env_free_list, curenv>>

\* A trap from user code, whatever its cause, by a zombie.
ReapZombie(c) ==
  /\ mode[c] = "user" /\ LockAvailable(c)
  /\ envs[curenv[c]].status = "DYING"
  /\ FreeCurrent(c, curenv[c])

\* A trap from user code that is dispatched.
UserTrap(c) ==
  /\ mode[c] = "user" /\ LockAvailable(c)
  /\ envs[curenv[c]].status # "DYING"

\* The timer, or sys_yield.
Yield(c) ==
  /\ UserTrap(c)
  /\ SchedYield(c, envs, curenv[c])
  /\ UNCHANGED env_free_list

\* A device interrupt, a system call that leaves the table alone, or one that
\* returns an error before it changes anything.
Return(c) ==
  /\ UserTrap(c)
  /\ Resume(c, envs, curenv[c])
  /\ UNCHANGED env_free_list

\* A page fault sent to the upcall, and sys_exec: env_run without looking at
\* the status.
Rerun(c) ==
  /\ UserTrap(c)
  /\ EnvRun(c, envs, curenv[c], curenv[c])
  /\ UNCHANGED env_free_list

\* An exception, a page fault without upcall, a bad pointer in a system call.
Fault(c) ==
  /\ UserTrap(c)
  /\ Destroy(c, curenv[c])

-----------------------------------------------------------------------------
(* System calls.  e is the environment an envid argument resolves to.      *)

\* envid2env: id 0 is the caller, whatever its status.
Envid2env(c, e) == e = curenv[c] \/ envs[e].status # "FREE"

\* envid2env with checkperm: the caller itself or a child of it.
MayManage(c, e) ==
  \/ e = curenv[c]
  \/ envs[e].status # "FREE" /\ envs[e].parent_id = EnvId(curenv[c])

\* Mutant of NextGen: the test for an id that is not positive is dropped.
NextGenNoWrap(g) == g + 1

\* The id after the last generation is that of generation 1.
NextGen(g) == IF g + 1 = NGEN THEN 1 ELSE g + 1

\* env_alloc as sys_exofork leaves it: priority and env_ipc_from keep the
\* values of the slot's previous environment.
Allocated(e, parent) ==
  [envs EXCEPT ![e].status = "NOT_RUNNABLE", ![e].gen = NextGen(@),
               ![e].parent_id = parent, ![e].runs = FALSE,
               ![e].pgdir = TRUE, ![e].ipc_recving = FALSE]

Exofork(c) ==
  /\ UserTrap(c)
  /\ env_free_list # <<>>
  /\ env_free_list' = Tail(env_free_list)
  /\ Resume(c, Allocated(Head(env_free_list), EnvId(curenv[c])), curenv[c])

\* sys_env_destroy; also sys_env_set_trapframe with a trapframe that is not
\* mapped in e, which destroys e and returns to the caller.
EnvDestroy(c, e) ==
  /\ UserTrap(c)
  /\ MayManage(c, e)
  /\ Destroy(c, e)

EnvSetStatus(c, e, status) ==
  /\ UserTrap(c)
  /\ MayManage(c, e)
  /\ Resume(c, [envs EXCEPT ![e].status = status], curenv[c])
  /\ UNCHANGED env_free_list

IpcRecv(c) ==
  /\ UserTrap(c)
  /\ SchedYield(c, [envs EXCEPT ![curenv[c]].ipc_recving = TRUE,
                                ![curenv[c]].status = "NOT_RUNNABLE",
                                ![curenv[c]].ipc_from = FALSE], curenv[c])
  /\ UNCHANGED env_free_list

\* Mutant of IpcTrySend: the receiver gets its message and stays blocked.
IpcTrySendNoWakeup(c, e) ==
  /\ UserTrap(c)
  /\ Envid2env(c, e)
  /\ envs[e].ipc_recving /\ ~envs[e].ipc_from
  /\ Resume(c, [envs EXCEPT ![e].ipc_recving = FALSE, ![e].ipc_from = TRUE],
            curenv[c])
  /\ UNCHANGED env_free_list

IpcTrySend(c, e) ==
  /\ UserTrap(c)
  /\ Envid2env(c, e)
  /\ envs[e].ipc_recving /\ ~envs[e].ipc_from
  /\ Resume(c, [envs EXCEPT ![e].ipc_recving = FALSE, ![e].ipc_from = TRUE,
                            ![e].status = "RUNNABLE"], curenv[c])
  /\ UNCHANGED env_free_list

ChangePriority(c, e, p) ==
  /\ UserTrap(c)
  /\ MayManage(c, e)
  /\ Resume(c, [envs EXCEPT ![e].priority = p], curenv[c])
  /\ UNCHANGED env_free_list

-----------------------------------------------------------------------------
\* What every program does with the kernel.
CommonNext(c) ==
  \/ Boot(c) \/ WakeUp(c) \/ PopTf(c) \/ ReapZombie(c)
  \/ Yield(c) \/ Return(c) \/ Rerun(c) \/ Fault(c)
  \/ Exofork(c) \/ IpcRecv(c)
  \/ \E e \in Slot : IpcTrySend(c, e)
  \/ \E e \in Slot, p \in Priorities : ChangePriority(c, e, p)

Next == \E c \in CPU :
  \/ CommonNext(c)
  \/ \E e \in Slot : EnvDestroy(c, e)
  \/ \E e \in Slot, s \in {"RUNNABLE", "NOT_RUNNABLE"} : EnvSetStatus(c, e, s)

Spec == Init /\ [][Next]_vars

\* A child that sys_exofork created and nobody started: fork, spawn and
\* dumbfork make it runnable once, when its address space is complete.
Unstarted(e) == envs[e].status = "NOT_RUNNABLE" /\ ~envs[e].runs

LibSetStatus(c, e) == Unstarted(e) /\ EnvSetStatus(c, e, "RUNNABLE")

\* No program destroys the same child twice.
LibDestroy(c, e) == envs[e].status # "DYING" /\ EnvDestroy(c, e)

LibNext == \E c \in CPU :
  \/ CommonNext(c)
  \/ \E e \in Slot : LibDestroy(c, e)
  \/ \E e \in Slot : LibSetStatus(c, e)

LibSpec == Init /\ [][LibNext]_vars

(* The timer of a CPU fires again and again, and stays pending while the   *)
(* CPU is in the kernel: user code is interrupted sooner or later, even if *)
(* it traps all the time for other reasons, and so is hlt.                 *)
Fairness == \A c \in CPU :
  /\ WF_vars(Boot(c)) /\ WF_vars(WakeUp(c)) /\ WF_vars(PopTf(c))
  /\ SF_vars(Yield(c)) /\ SF_vars(ReapZombie(c))

FairLibSpec == LibSpec /\ Fairness
-----------------------------------------------------------------------------
TypeOK ==
  /\ envs \in [Slot -> Env]
  /\ env_free_list \in Seq(Slot)
  /\ curenv \in [CPU -> Slot \cup {None}]
  /\ mode \in [CPU -> Mode]

\* A CPU that executes user code, or is about to.
OnCpu(c) == mode[c] \in {"leaving", "user"}

\* No environment is current on two CPUs.
OneCpuPerEnv ==
  \A c, d \in CPU : curenv[c] = curenv[d] /\ curenv[c] # None => c = d

\* RUNNING and DYING say that a CPU executes the environment, and the other
\* statuses that none does: the scheduler and env_destroy decide on the status
\* alone.
StatusTellsTheCpu ==
  \A e \in Slot : envs[e].status \in {"RUNNING", "DYING"} <=>
                  \E c \in CPU : OnCpu(c) /\ curenv[c] = e

\* A blocked environment waits for a message or has not been started, and a
\* receiver that has no message yet cannot run: sys_ipc_try_send, which makes its
\* target runnable, never meets one that runs.
BlockedHasReason ==
  \A e \in Slot :
    /\ envs[e].status = "NOT_RUNNABLE" => (envs[e].ipc_recving <=> envs[e].runs)
    /\ envs[e].ipc_recving => /\ envs[e].status \in {"NOT_RUNNABLE", "FREE"}
                              /\ ~envs[e].ipc_from

\* env_free_list holds every free slot once, and nothing else.
FreeListExact ==
  /\ \A i, j \in 1 .. Len(env_free_list) :
       env_free_list[i] = env_free_list[j] => i = j
  /\ \A e \in Slot : envs[e].status = "FREE" <=>
                     \E i \in 1 .. Len(env_free_list) : env_free_list[i] = e

\* An environment has a page directory as long as it exists, so env_run and
\* env_free never meet a null one, and the kernel never panics.
PgdirWhileAlive ==
  /\ \A e \in Slot : envs[e].pgdir <=> envs[e].status # "FREE"
  /\ \A c \in CPU : mode[c] # "panic"

\* A CPU enters the monitor for lack of environments only when no other CPU
\* executes one.
MonitorIsIdle ==
  (\E c \in CPU : mode[c] = "monitor") => \A d \in CPU : ~OnCpu(d)

\* While a CPU executes an environment, the other CPUs can do one thing to its
\* status, mark it DYING, and cannot take that back: a zombie is not started,
\* woken, scheduled or freed by anyone but the CPU it dies on.
OnlyKilledRemotely ==
  [][\A c \in CPU :
       OnCpu(c) /\ mode'[c] = mode[c] =>
         \/ envs'[curenv[c]].status = envs[curenv[c]].status
         \/ envs'[curenv[c]].status = "DYING"]_vars

\* The stage of its life an environment is in.
LifeOf(r) ==
  CASE r.status = "FREE"     -> "unused"
    [] r.status = "DYING"    -> "killed"
    [] r.status = "RUNNABLE" -> "ready"
    [] r.status = "RUNNING"  -> "running"
    [] r.status = "NOT_RUNNABLE" /\ r.ipc_recving  -> "waiting"
    [] r.status = "NOT_RUNNABLE" /\ ~r.ipc_recving -> "made"

LifeIn(es) == [e \in Slot |-> LifeOf(es[e])]

PriorityIn(es) == [e \in Slot |-> es[e].priority]

\* The environment each CPU executes.
Executing == [c \in CPU |-> IF OnCpu(c) THEN curenv[c] ELSE None]

Lives == INSTANCE AbstractEnvs WITH
  life <- LifeIn(envs), on <- Executing, prio <- PriorityIn(envs)

\* With all its handlers on several CPUs, the kernel behaves like environments
\* that are created, started, scheduled by priority and ended one step at a time:
\* a processor passes to another environment, or becomes idle, only as
\* AbstractEnvs allows, and an environment that was killed does nothing more.
ImplementsLives == Lives!Spec

\* "A zombie environment will be freed the next time it traps to the kernel"
\* (kern/env.c), and the timer makes it trap.
ZombieReaped ==
  \A e \in Slot : envs[e].status = "DYING" ~> envs[e].status = "FREE"

NothingIsFreed ==
  \A e \in Slot : envs'[e].status = "FREE" => envs[e].status = "FREE"

EqualPriorities == \A e, f \in Slot : envs[e].priority = envs[f].priority

\* With equal priorities, and once environments stop exiting, sched_yield is a
\* round robin: whatever the others do, a runnable environment gets a CPU.
RoundRobin ==
  <>[][NothingIsFreed]_vars /\ <>[]EqualPriorities =>
    \A e \in Slot : envs[e].status = "RUNNABLE" ~> envs[e].status # "RUNNABLE"

\* A runnable environment whose priority stays above all others does not wait
\* for ever, whatever the others do, even if they exit.
HighestPriorityRuns ==
  \A e \in Slot :
    ~<>[](/\ envs[e].status = "RUNNABLE"
          /\ \A f \in Slot \ {e} : envs[f].priority < envs[e].priority)

\* The same without the condition: the comments of sched_yield.
StarvationFree ==
  \A e \in Slot : envs[e].status = "RUNNABLE" ~> envs[e].status # "RUNNABLE"
=============================================================================
