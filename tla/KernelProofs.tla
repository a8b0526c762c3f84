---------------------------- MODULE KernelProofs ----------------------------
(***************************************************************************)
(* For any number of processors and environments: the environment table,   *)
(* the free list and the CPUs' curenv stay consistent as long as programs  *)
(* call the kernel the way the library does (LibSpec), and what it does    *)
(* implements the life cycle of AbstractEnvs.                              *)
(***************************************************************************)
EXTENDS Kernel, SequenceTheorems, WellFoundedInduction, TLAPS

(* The conjuncts of the invariant that only look at the table, as          *)
(* operators of the table that a handler leaves behind.                    *)
Alive(es) ==
  \A e \in Slot :
    /\ es[e].pgdir <=> es[e].status # "FREE"
    /\ es[e].status \in {"RUNNING", "DYING"} => es[e].runs

Blocking(es) ==
  \A e \in Slot :
    /\ es[e].status = "NOT_RUNNABLE" => (es[e].ipc_recving <=> es[e].runs)
    /\ es[e].ipc_recving => /\ es[e].status \in {"NOT_RUNNABLE", "FREE"}
                            /\ ~es[e].ipc_from

FreeList(es, fl) ==
  /\ fl \in Seq(Slot)
  /\ \A i, j \in 1 .. Len(fl) : fl[i] = fl[j] => i = j
  /\ \A e \in Slot : es[e].status = "FREE" <=> \E i \in 1 .. Len(fl) : fl[i] = e

Table(es, fl) ==
  es \in [Slot -> Env] /\ Alive(es) /\ Blocking(es) /\ FreeList(es, fl)

(* A CPU has a current environment exactly while it executes one; in the   *)
(* monitor it may keep a blocked one.                                      *)
CurrentMode ==
  \A c \in CPU :
    /\ OnCpu(c) => curenv[c] # None
    /\ mode[c] \in {"boot", "halted"} => curenv[c] = None
    /\ mode[c] # "panic"

(* The inductive invariant.                                                *)
IInv ==
  /\ Table(envs, env_free_list)
  /\ curenv \in [CPU -> Slot \cup {None}]
  /\ mode \in [CPU -> Mode]
  /\ CurrentMode
  /\ OneCpuPerEnv
  /\ StatusTellsTheCpu
  /\ MonitorIsIdle

(* In the table es, environment e of another CPU has its old status or is  *)
(* DYING.                                                                  *)
KeptOrKilled(c, es, e) ==
  (\E d \in CPU \ {c} : OnCpu(d) /\ curenv[d] = e) =>
    es[e].status \in {envs[e].status, "DYING"}

(* What a handler on CPU c has to leave behind for the scheduler: a        *)
(* consistent table in which the environments of the other CPUs are        *)
(* RUNNING or DYING, and cur, of no other CPU, is RUNNING or blocked.      *)
Handled(c, es, cur, fl) ==
  /\ Table(es, fl)
  /\ cur \in Slot \cup {None}
  /\ \A d \in CPU \ {c} : curenv[d] # None => curenv[d] # cur
  /\ \A e \in Slot : es[e].status \in {"RUNNING", "DYING"} <=>
       \/ \E d \in CPU \ {c} : OnCpu(d) /\ curenv[d] = e
       \/ e = cur /\ es[e].status = "RUNNING"
  /\ cur # None => es[cur].status \in {"RUNNING", "NOT_RUNNABLE"}
  /\ \A d \in CPU : mode[d] \notin {"monitor", "panic"}
  /\ mode[c] # "leaving"
  /\ \A e \in Slot : KeptOrKilled(c, es, e)

(* What a step of CPU c keeps: the invariant, and the status of the        *)
(* environments of the other CPUs unless it kills them.                    *)
Keeps(c) ==
  /\ IInv'
  /\ \A e \in Slot : KeptOrKilled(c, envs', e)
  /\ OnCpu(c) => mode'[c] # mode[c]
-----------------------------------------------------------------------------
LEMMA DemoteIs ==
  ASSUME NEW es \in [Slot -> Env], NEW cur \in Slot \cup {None}
  PROVE  /\ Demote(es, cur) \in [Slot -> Env]
         /\ \A f \in Slot :
              /\ f = cur /\ es[f].status = "RUNNING" =>
                   Demote(es, cur)[f] = [es[f] EXCEPT !.status = "RUNNABLE"]
              /\ ~(f = cur /\ es[f].status = "RUNNING") =>
                   Demote(es, cur)[f] = es[f]
  <1>1. CASE cur # None /\ es[cur].status = "RUNNING"
    BY <1>1 DEF Demote, Env, Status
  <1>2. CASE ~(cur # None /\ es[cur].status = "RUNNING")
    BY <1>2, KernelAssumption DEF Demote
  <1>3. QED
    BY <1>1, <1>2

\* The table env_run leaves behind.
LEMMA EnvRunIs ==
  ASSUME NEW c \in CPU, NEW es \in [Slot -> Env],
         NEW cur \in Slot \cup {None}, NEW e \in Slot, es[e].pgdir,
         EnvRun(c, es, cur, e)
  PROVE  /\ envs' \in [Slot -> Env]
         /\ envs'[e] = [es[e] EXCEPT !.status = "RUNNING", !.runs = TRUE]
         /\ \A f \in Slot \ {e} :
              /\ f = cur /\ es[f].status = "RUNNING" =>
                   envs'[f] = [es[f] EXCEPT !.status = "RUNNABLE"]
              /\ ~(f = cur /\ es[f].status = "RUNNING") => envs'[f] = es[f]
         /\ curenv' = [curenv EXCEPT ![c] = e]
         /\ mode' = [mode EXCEPT ![c] = "leaving"]
  <1> DEFINE D == Demote(es, cur)
  <1>1. /\ envs' = [D EXCEPT ![e].status = "RUNNING", ![e].runs = TRUE]
        /\ curenv' = [curenv EXCEPT ![c] = e]
        /\ mode' = [mode EXCEPT ![c] = "leaving"]
    BY DEF EnvRun
  <1>2. D \in [Slot -> Env]
    BY DemoteIs
  <1>3. [D[e] EXCEPT !.status = "RUNNING", !.runs = TRUE] =
        [es[e] EXCEPT !.status = "RUNNING", !.runs = TRUE]
    <2>1. CASE e = cur /\ es[e].status = "RUNNING"
      <3>1. D[e] = [es[e] EXCEPT !.status = "RUNNABLE"]
        BY <2>1, DemoteIs
      <3>2. QED
        BY <3>1 DEF Env
    <2>2. CASE ~(e = cur /\ es[e].status = "RUNNING")
      <3>1. D[e] = es[e]
        BY <2>2, DemoteIs
      <3>2. QED
        BY <3>1
    <2>3. QED
      BY <2>1, <2>2
  <1> HIDE DEF D
  <1>10. envs' = [D EXCEPT ![e] = [D[e] EXCEPT !.status = "RUNNING", !.runs = TRUE]]
    BY <1>1, <1>2 DEF Env
  <1>11. [D[e] EXCEPT !.status = "RUNNING", !.runs = TRUE] \in Env
    BY <1>2 DEF Env, Status
  <1>4. envs' \in [Slot -> Env]
    BY <1>10, <1>11, <1>2
  <1>5. /\ envs'[e] = [D[e] EXCEPT !.status = "RUNNING", !.runs = TRUE]
        /\ \A f \in Slot \ {e} : envs'[f] = D[f]
    BY <1>10, <1>2
  <1>6. \A f \in Slot \ {e} :
              /\ f = cur /\ es[f].status = "RUNNING" =>
                   envs'[f] = [es[f] EXCEPT !.status = "RUNNABLE"]
              /\ ~(f = cur /\ es[f].status = "RUNNING") => envs'[f] = es[f]
    <2>1. \A f \in Slot :
            /\ f = cur /\ es[f].status = "RUNNING" =>
                 D[f] = [es[f] EXCEPT !.status = "RUNNABLE"]
            /\ ~(f = cur /\ es[f].status = "RUNNING") => D[f] = es[f]
      BY DemoteIs DEF D
    <2>2. QED
      BY <1>5, <2>1
  <1>7. QED
    BY <1>1, <1>3, <1>4, <1>5, <1>6

\* FreeList looks at the table only to see which slots are free.
LEMMA FreeListSame ==
  ASSUME NEW es, NEW es2, NEW fl, FreeList(es, fl),
         \A f \in Slot : es2[f].status = "FREE" <=> es[f].status = "FREE"
  PROVE  FreeList(es2, fl)
  BY DEF FreeList

\* While no CPU is in the monitor, a CPU with a current environment runs it.
LEMMA CurrentRuns ==
  ASSUME IInv, NEW d \in CPU, curenv[d] # None,
         mode[d] \notin {"monitor", "panic"}
  PROVE  OnCpu(d) /\ curenv[d] \in Slot
  BY DEF IInv, CurrentMode, OnCpu, Mode

LEMMA EnvRunKeeps ==
  ASSUME IInv, NEW c \in CPU, NEW es, NEW cur, NEW e \in Slot,
         Handled(c, es, cur, env_free_list'),
         (e = cur /\ es[e].status = "RUNNING") \/ es[e].status = "RUNNABLE",
         EnvRun(c, es, cur, e)
  PROVE  Keeps(c)
  <1> USE KernelAssumption
  <1>0. es \in [Slot -> Env] /\ cur \in Slot \cup {None} /\ es[e].pgdir
    BY DEF Handled, Table, Alive
  <1>1. /\ envs' \in [Slot -> Env]
        /\ envs'[e] = [es[e] EXCEPT !.status = "RUNNING", !.runs = TRUE]
        /\ \A f \in Slot \ {e} :
              /\ f = cur /\ es[f].status = "RUNNING" =>
                   envs'[f] = [es[f] EXCEPT !.status = "RUNNABLE"]
              /\ ~(f = cur /\ es[f].status = "RUNNING") => envs'[f] = es[f]
        /\ curenv' = [curenv EXCEPT ![c] = e]
        /\ mode' = [mode EXCEPT ![c] = "leaving"]
    BY <1>0, EnvRunIs
  <1>2. \A f \in Slot :
          /\ envs'[f].pgdir = es[f].pgdir
          /\ envs'[f].ipc_recving = es[f].ipc_recving
          /\ envs'[f].ipc_from = es[f].ipc_from
          /\ f # e => envs'[f].runs = es[f].runs
    <2> TAKE f \in Slot
    <2>0. es[f] \in Env
      BY <1>0
    <2>1. CASE f = e
      BY <2>0, <2>1, <1>1 DEF Env
    <2>2. CASE f # e /\ f = cur /\ es[f].status = "RUNNING"
      <3>1. envs'[f] = [es[f] EXCEPT !.status = "RUNNABLE"]
        BY <2>2, <1>1
      <3>2. QED
        BY <2>0, <3>1 DEF Env
    <2>3. CASE f # e /\ ~(f = cur /\ es[f].status = "RUNNING")
      BY <2>3, <1>1
    <2>4. QED
      BY <2>1, <2>2, <2>3
  <1>3. /\ envs'[e].status = "RUNNING" /\ envs'[e].runs
        /\ \A f \in Slot \ {e} :
             IF f = cur /\ es[f].status = "RUNNING"
             THEN envs'[f].status = "RUNNABLE"
             ELSE envs'[f].status = es[f].status
    BY <1>0, <1>1 DEF Env
  <1> HIDE DEF Env
  <1>4. Alive(envs')
    BY <1>2, <1>3 DEF Handled, Table, Alive
  <1>5. Blocking(envs')
    BY <1>2, <1>3 DEF Handled, Table, Blocking
  <1>6. FreeList(envs', env_free_list')
    <2>1. \A f \in Slot : envs'[f].status = "FREE" <=> es[f].status = "FREE"
      BY <1>3
    <2>2. QED
      BY <2>1, FreeListSame DEF Handled, Table
  <1>7. /\ curenv' \in [CPU -> Slot \cup {None}] /\ mode' \in [CPU -> Mode]
        /\ curenv'[c] = e /\ mode'[c] = "leaving"
        /\ \A d \in CPU \ {c} : curenv'[d] = curenv[d] /\ mode'[d] = mode[d]
    BY <1>1 DEF IInv, Mode
  <1>8. CurrentMode'
    BY <1>7 DEF CurrentMode, OnCpu, IInv
  <1>9. \A d \in CPU \ {c} : curenv[d] # None => OnCpu(d)
    BY CurrentRuns DEF Handled
  <1>10. OneCpuPerEnv'
    <2>1. \A d \in CPU \ {c} : curenv[d] # e
      BY <1>9 DEF Handled
    <2>2. QED
      BY <1>7, <2>1 DEF OneCpuPerEnv, IInv
  <1>11. StatusTellsTheCpu'
    <2> SUFFICES ASSUME NEW f \in Slot
                 PROVE  envs'[f].status \in {"RUNNING", "DYING"} <=>
                        \E d \in CPU : OnCpu(d)' /\ curenv'[d] = f
      BY DEF StatusTellsTheCpu
    <2>1. CASE f = e
      BY <2>1, <1>3, <1>7 DEF OnCpu
    <2>2. CASE f # e
      <3>1. (\E d \in CPU : OnCpu(d)' /\ curenv'[d] = f) <=>
            \E d \in CPU \ {c} : OnCpu(d) /\ curenv[d] = f
        BY <2>2, <1>7 DEF OnCpu
      <3>2. CASE f = cur /\ es[f].status = "RUNNING"
        BY <2>2, <3>1, <3>2, <1>3 DEF Handled
      <3>3. CASE ~(f = cur /\ es[f].status = "RUNNING")
        BY <2>2, <3>1, <3>3, <1>3 DEF Handled
      <3>4. QED
        BY <3>2, <3>3
    <2>3. QED
      BY <2>1, <2>2
  <1>12. MonitorIsIdle'
    BY <1>7 DEF MonitorIsIdle, Handled
  <1>13. ASSUME NEW f \in Slot
         PROVE  KeptOrKilled(c, envs', f)
    <2>1. CASE \E d \in CPU \ {c} : OnCpu(d) /\ curenv[d] = f
      <3>1. f # cur /\ f # e
        BY <2>1 DEF Handled
      <3>2. envs'[f].status = es[f].status
        BY <3>1, <1>3
      <3>3. QED
        BY <3>2 DEF Handled, KeptOrKilled
    <2>2. CASE ~\E d \in CPU \ {c} : OnCpu(d) /\ curenv[d] = f
      BY <2>2 DEF KeptOrKilled
    <2>3. QED
      BY <2>1, <2>2
  <1>14. IInv'
    BY <1>1, <1>4, <1>5, <1>6, <1>7, <1>8, <1>10, <1>11, <1>12 DEF IInv, Table
  <1>15. QED
    BY <1>7, <1>13, <1>14 DEF Keeps, Handled

LEMMA SchedHaltKeeps ==
  ASSUME IInv, NEW c \in CPU, NEW es, NEW cur,
         Handled(c, es, cur, env_free_list'),
         ~IsRunning(es, cur), SchedHalt(c, es, cur)
  PROVE  Keeps(c)
  <1> USE KernelAssumption
  <1>1. envs' = es /\ Table(envs', env_free_list')
    BY DEF SchedHalt, Handled
  <1>2. /\ curenv'[c] \in {None, cur} /\ mode'[c] \in {"halted", "monitor"}
        /\ mode'[c] = "halted" => curenv'[c] = None
        /\ \A d \in CPU \ {c} : curenv'[d] = curenv[d] /\ mode'[d] = mode[d]
        /\ curenv' \in [CPU -> Slot \cup {None}] /\ mode' \in [CPU -> Mode]
    BY DEF SchedHalt, Handled, IInv, Mode
  <1>3. CurrentMode'
    BY <1>2 DEF CurrentMode, OnCpu, IInv
  <1>4. OneCpuPerEnv'
    BY <1>2 DEF OneCpuPerEnv, IInv, Handled
  <1>5. \A f \in Slot : es[f].status \in {"RUNNING", "DYING"} <=>
                         \E d \in CPU \ {c} : OnCpu(d) /\ curenv[d] = f
    BY DEF Handled, IsRunning
  <1>6. StatusTellsTheCpu'
    <2>1. \A f \in Slot : (\E d \in CPU : OnCpu(d)' /\ curenv'[d] = f) <=>
                           \E d \in CPU \ {c} : OnCpu(d) /\ curenv[d] = f
      BY <1>2 DEF OnCpu
    <2>2. QED
      BY <1>1, <1>5, <2>1 DEF StatusTellsTheCpu
  <1>7. MonitorIsIdle'
    <2>1. CASE \E e \in Slot : es[e].status \in {"RUNNABLE", "RUNNING", "DYING"}
      <3>1. mode' = [mode EXCEPT ![c] = "halted"]
        BY <2>1 DEF SchedHalt
      <3>2. QED
        BY <3>1, <1>2 DEF MonitorIsIdle, Handled, IInv
    <2>2. CASE ~\E e \in Slot : es[e].status \in {"RUNNABLE", "RUNNING", "DYING"}
      <3>1. \A d \in CPU \ {c} : ~OnCpu(d)
        BY <2>2, <1>5 DEF IInv, CurrentMode
      <3>2. QED
        BY <3>1, <1>2 DEF MonitorIsIdle, OnCpu
    <2>3. QED
      BY <2>1, <2>2
  <1>8. IInv'
    BY <1>1, <1>2, <1>3, <1>4, <1>6, <1>7 DEF IInv
  <1>9. QED
    BY <1>1, <1>2, <1>8 DEF Keeps, Handled, OnCpu

LEMMA SchedYieldKeeps ==
  ASSUME IInv, NEW c \in CPU, NEW es, NEW cur,
         Handled(c, es, cur, env_free_list'), SchedYield(c, es, cur)
  PROVE  Keeps(c)
  <1>1. ASSUME NEW e \in Best(es, cur), EnvRun(c, es, cur, e)
        PROVE  Keeps(c)
    BY <1>1, EnvRunKeeps DEF Best, Runnable
  <1>2. ASSUME IsRunning(es, cur), EnvRun(c, es, cur, cur)
        PROVE  Keeps(c)
    <2>1. cur \in Slot /\ es[cur].status = "RUNNING"
      BY <1>2 DEF IsRunning, Handled
    <2>2. QED
      BY <1>2, <2>1, EnvRunKeeps
  <1>3. ASSUME ~IsRunning(es, cur), SchedHalt(c, es, cur)
        PROVE  Keeps(c)
    BY <1>3, SchedHaltKeeps
  <1>4. QED
    BY <1>1, <1>2, <1>3 DEF SchedYield

LEMMA ResumeKeeps ==
  ASSUME IInv, NEW c \in CPU, NEW es, NEW cur,
         Handled(c, es, cur, env_free_list'), Resume(c, es, cur)
  PROVE  Keeps(c)
  <1>1. CASE IsRunning(es, cur)
    <2>1. /\ cur \in Slot /\ es[cur].status = "RUNNING"
          /\ EnvRun(c, es, cur, cur)
      BY <1>1 DEF IsRunning, Handled, Resume
    <2>2. QED
      BY <2>1, EnvRunKeeps
  <1>2. CASE ~IsRunning(es, cur)
    BY <1>2, SchedYieldKeeps DEF Resume
  <1>3. QED
    BY <1>1, <1>2
-----------------------------------------------------------------------------
(* What each handler leaves behind for the scheduler.                      *)

LEMMA IdleHandled ==
  ASSUME IInv, NEW c \in CPU, mode[c] \in {"boot", "halted"}, LockAvailable(c)
  PROVE  Handled(c, envs, None, env_free_list)
  <1>1. /\ curenv[c] = None /\ ~OnCpu(c)
        /\ \A d \in CPU : mode[d] \notin {"monitor", "panic"}
    BY DEF IInv, CurrentMode, LockAvailable, OnCpu
  <1>2. \A e \in Slot : envs[e].status \in {"RUNNING", "DYING"} <=>
                         \E d \in CPU \ {c} : OnCpu(d) /\ curenv[d] = e
    BY <1>1 DEF IInv, StatusTellsTheCpu
  <1>3. \A e \in Slot : e # None
    BY KernelAssumption
  <1>4. QED
    BY <1>1, <1>2, <1>3 DEF Handled, IInv, KeptOrKilled

LEMMA UserCurrent ==
  ASSUME IInv, NEW c \in CPU, mode[c] = "user", LockAvailable(c)
  PROVE  /\ curenv[c] \in Slot /\ OnCpu(c)
         /\ envs[curenv[c]].status \in {"RUNNING", "DYING"}
         /\ \A d \in CPU \ {c} : curenv[d] # curenv[c]
         /\ \A d \in CPU : mode[d] \notin {"monitor", "panic"}
  <1>1. OnCpu(c) /\ curenv[c] # None /\ curenv[c] \in Slot
    BY DEF OnCpu, IInv, CurrentMode
  <1>2. QED
    BY <1>1 DEF IInv, StatusTellsTheCpu, OneCpuPerEnv, LockAvailable

LEMMA TrapHandled ==
  ASSUME IInv, NEW c \in CPU, UserTrap(c)
  PROVE  /\ Handled(c, envs, curenv[c], env_free_list)
         /\ curenv[c] \in Slot /\ envs[curenv[c]].status = "RUNNING"
  <1>1. /\ curenv[c] \in Slot /\ OnCpu(c)
        /\ envs[curenv[c]].status = "RUNNING"
        /\ \A d \in CPU \ {c} : curenv[d] # curenv[c]
        /\ \A d \in CPU : mode[d] \notin {"monitor", "panic"}
    BY UserCurrent DEF UserTrap
  <1>2. \A e \in Slot : envs[e].status \in {"RUNNING", "DYING"} <=>
                         \/ \E d \in CPU \ {c} : OnCpu(d) /\ curenv[d] = e
                         \/ e = curenv[c] /\ envs[e].status = "RUNNING"
    BY <1>1 DEF IInv, StatusTellsTheCpu
  <1>3. QED
    BY <1>1, <1>2 DEF Handled, IInv, KeptOrKilled, UserTrap

\* A handler that neither starts nor stops anything on a CPU.
LEMMA HandledAfter ==
  ASSUME NEW c \in CPU, NEW es, NEW cur, NEW fl, Handled(c, es, cur, fl),
         NEW es2, NEW fl2, Table(es2, fl2),
         \A f \in Slot : es2[f].status \in {"RUNNING", "DYING"} <=>
                          es[f].status \in {"RUNNING", "DYING"},
         cur # None => es2[cur].status = es[cur].status,
         \A f \in Slot : KeptOrKilled(c, es2, f)
  PROVE  Handled(c, es2, cur, fl2)
  <1>1. \A e \in Slot : e = cur => es2[e].status = es[e].status
    BY KernelAssumption
  <1>2. QED
    BY <1>1 DEF Handled

\* One environment replaced by a record that is consistent in itself.
LEMMA SlotChange ==
  ASSUME NEW es, NEW fl, Table(es, fl), NEW e \in Slot, NEW r \in Env,
         r.pgdir <=> r.status # "FREE",
         r.status \in {"RUNNING", "DYING"} => r.runs,
         r.status = "NOT_RUNNABLE" => (r.ipc_recving <=> r.runs),
         r.ipc_recving => r.status \in {"NOT_RUNNABLE", "FREE"} /\ ~r.ipc_from
  PROVE  LET es2 == [es EXCEPT ![e] = r]
         IN  /\ es2 \in [Slot -> Env] /\ Alive(es2) /\ Blocking(es2)
             /\ es2[e] = r /\ \A f \in Slot \ {e} : es2[f] = es[f]
  <1> DEFINE es2 == [es EXCEPT ![e] = r]
  <1>1. es2 \in [Slot -> Env] /\ es2[e] = r /\ \A f \in Slot \ {e} : es2[f] = es[f]
    BY DEF Table
  <1> HIDE DEF es2
  <1>2. Alive(es2)
    BY <1>1 DEF Table, Alive
  <1>3. Blocking(es2)
    BY <1>1 DEF Table, Blocking
  <1>4. QED
    BY <1>1, <1>2, <1>3 DEF es2

LEMMA FreeListPush ==
  ASSUME NEW es, NEW fl, FreeList(es, fl), NEW e \in Slot,
         es[e].status # "FREE", NEW es2, es2[e].status = "FREE",
         \A f \in Slot \ {e} : es2[f].status = es[f].status
  PROVE  FreeList(es2, <<e>> \o fl)
  <1> DEFINE fl2 == <<e>> \o fl
  <1>1. /\ fl2 \in Seq(Slot) /\ Len(fl2) = Len(fl) + 1 /\ fl2[1] = e
        /\ Len(fl) \in Nat
        /\ \A i \in 1 .. Len(fl) : fl2[i + 1] = fl[i]
        /\ \A i \in 2 .. Len(fl2) : fl2[i] = fl[i - 1] /\ i - 1 \in 1 .. Len(fl)
    BY DEF FreeList
  <1> HIDE DEF fl2
  <1>2. \A i \in 1 .. Len(fl) : fl[i] # e
    BY DEF FreeList
  <1>3. \A i \in 2 .. Len(fl2) : fl2[i] # e
    BY <1>1, <1>2
  <1>4. \A i, j \in 1 .. Len(fl2) : fl2[i] = fl2[j] => i = j
    <2>1. \A i, j \in 2 .. Len(fl2) : fl2[i] = fl2[j] => i = j
      BY <1>1 DEF FreeList
    <2>2. QED
      BY <1>1, <1>3, <2>1
  <1>5. \A f \in Slot : es2[f].status = "FREE" <=>
                         \E i \in 1 .. Len(fl2) : fl2[i] = f
    <2>1. \A f \in Slot \ {e} : (\E i \in 1 .. Len(fl2) : fl2[i] = f) <=>
                                 \E i \in 1 .. Len(fl) : fl[i] = f
      <3> TAKE f \in Slot \ {e}
      <3>1. ASSUME NEW i \in 1 .. Len(fl2), fl2[i] = f
            PROVE  \E j \in 1 .. Len(fl) : fl[j] = f
        BY <1>1, <3>1
      <3>2. ASSUME NEW i \in 1 .. Len(fl), fl[i] = f
            PROVE  \E j \in 1 .. Len(fl2) : fl2[j] = f
        <4>1. i + 1 \in 1 .. Len(fl2) /\ fl2[i + 1] = f
          BY <1>1, <3>2
        <4>2. QED
          BY <4>1
      <3>3. QED
        BY <3>1, <3>2
    <2>2. 1 \in 1 .. Len(fl2)
      BY <1>1
    <2>3. QED
      BY <1>1, <2>1, <2>2 DEF FreeList
  <1>6. QED
    BY <1>1, <1>4, <1>5 DEF FreeList, fl2

LEMMA FreeListPop ==
  ASSUME NEW es, NEW fl, FreeList(es, fl), fl # <<>>,
         NEW es2, es2[Head(fl)].status # "FREE",
         \A f \in Slot \ {Head(fl)} : es2[f].status = es[f].status
  PROVE  /\ FreeList(es2, Tail(fl))
         /\ Head(fl) \in Slot /\ es[Head(fl)].status = "FREE"
  <1> DEFINE e == Head(fl)
             fl2 == Tail(fl)
  <1>1. /\ fl2 \in Seq(Slot) /\ e \in Slot /\ fl[1] = e /\ Len(fl) \in Nat
        /\ Len(fl) >= 1 /\ Len(fl2) = Len(fl) - 1
        /\ \A i \in 1 .. Len(fl2) : fl2[i] = fl[i + 1] /\ i + 1 \in 2 .. Len(fl)
        /\ \A i \in 2 .. Len(fl) : fl[i] = fl2[i - 1] /\ i - 1 \in 1 .. Len(fl2)
    BY DEF FreeList
  <1>2. es2[e].status # "FREE" /\ \A f \in Slot \ {e} : es2[f].status = es[f].status
    OBVIOUS
  <1> HIDE DEF e, fl2
  <1>3. 1 \in 1 .. Len(fl) /\ \A i \in 2 .. Len(fl) : i \in 1 .. Len(fl) /\ fl[i] # e
    BY <1>1 DEF FreeList
  <1>4. es[e].status = "FREE"
    BY <1>1, <1>3 DEF FreeList
  <1>5. \A i, j \in 1 .. Len(fl2) : fl2[i] = fl2[j] => i = j
    BY <1>1, <1>3 DEF FreeList
  <1>6. \A f \in Slot : es2[f].status = "FREE" <=>
                         \E i \in 1 .. Len(fl2) : fl2[i] = f
    <2> TAKE f \in Slot
    <2>1. CASE f = e
      BY <2>1, <1>1, <1>2, <1>3
    <2>2. CASE f # e
      <3>1. (\E i \in 1 .. Len(fl) : fl[i] = f) <=>
            \E i \in 1 .. Len(fl2) : fl2[i] = f
        <4>1. ASSUME NEW i \in 1 .. Len(fl), fl[i] = f
              PROVE  \E j \in 1 .. Len(fl2) : fl2[j] = f
          <5>1. i \in 2 .. Len(fl)
            BY <2>2, <4>1, <1>1
          <5>2. QED
            BY <5>1, <4>1, <1>1
        <4>2. ASSUME NEW i \in 1 .. Len(fl2), fl2[i] = f
              PROVE  \E j \in 1 .. Len(fl) : fl[j] = f
          BY <4>2, <1>1, <1>3
        <4>3. QED
          BY <4>1, <4>2
      <3>2. QED
        BY <2>2, <3>1, <1>2 DEF FreeList
    <2>3. QED
      BY <2>1, <2>2
  <1>7. QED
    BY <1>1, <1>4, <1>5, <1>6 DEF FreeList, e, fl2
-----------------------------------------------------------------------------
(* One lemma per handler.                                                  *)

\* env_free: the slot is consistent, free, and at the head of the list.
LEMMA FreedTable ==
  ASSUME NEW es, NEW fl, Table(es, fl), NEW e \in Slot, es[e].status # "FREE"
  PROVE  /\ Table(Freed(es, e), <<e>> \o fl)
         /\ Freed(es, e)[e].status = "FREE"
         /\ \A f \in Slot \ {e} : Freed(es, e)[f] = es[f]
  <1> DEFINE r == [es[e] EXCEPT !.status = "FREE", !.pgdir = FALSE]
             es2 == [es EXCEPT ![e] = r]
  <1>1. es[e] \in Env /\ es \in [Slot -> Env]
    BY DEF Table
  <1>2. Freed(es, e) = es2
    BY <1>1 DEF Freed, Env
  <1>3. /\ r \in Env /\ r.status = "FREE" /\ ~r.pgdir
        /\ r.ipc_recving = es[e].ipc_recving /\ r.ipc_from = es[e].ipc_from
    BY <1>1 DEF Env, Status
  <1>4. r.ipc_recving => ~r.ipc_from
    BY <1>3 DEF Table, Blocking
  <1> HIDE DEF r
  <1>5. /\ es2 \in [Slot -> Env] /\ Alive(es2) /\ Blocking(es2)
        /\ es2[e] = r /\ \A f \in Slot \ {e} : es2[f] = es[f]
    BY <1>3, <1>4, SlotChange
  <1> HIDE DEF es2
  <1>6. FreeList(es2, <<e>> \o fl)
    BY <1>3, <1>5, FreeListPush DEF Table
  <1>7. QED
    BY <1>2, <1>3, <1>5, <1>6 DEF Table

LEMMA FreeCurrentKeeps ==
  ASSUME IInv, NEW c \in CPU, mode[c] = "user", LockAvailable(c),
         FreeCurrent(c, curenv[c])
  PROVE  Keeps(c)
  <1> DEFINE e == curenv[c]
             es == Freed(envs, e)
  <1>1. /\ e \in Slot /\ OnCpu(c) /\ envs[e].status \in {"RUNNING", "DYING"}
        /\ \A d \in CPU \ {c} : curenv[d] # e
        /\ \A d \in CPU : mode[d] \notin {"monitor", "panic"}
    BY UserCurrent
  <1>2. /\ Table(es, <<e>> \o env_free_list) /\ es[e].status = "FREE"
        /\ \A f \in Slot \ {e} : es[f] = envs[f]
    BY <1>1, FreedTable DEF IInv
  <1>3. env_free_list' = <<e>> \o env_free_list /\ SchedYield(c, es, None)
    BY <1>1 DEF FreeCurrent, IInv, Table, Alive
  <1>4. \A f \in Slot : es[f].status \in {"RUNNING", "DYING"} <=>
                         \E d \in CPU \ {c} : OnCpu(d) /\ curenv[d] = f
    <2> TAKE f \in Slot
    <2>1. CASE f = e
      BY <2>1, <1>1, <1>2
    <2>2. CASE f # e
      <3>1. es[f] = envs[f]
        BY <2>2, <1>2
      <3>2. QED
        BY <2>2, <3>1, <1>1 DEF IInv, StatusTellsTheCpu
    <2>3. QED
      BY <2>1, <2>2
  <1> HIDE DEF es
  <1>5. Handled(c, es, None, env_free_list')
    BY <1>1, <1>2, <1>3, <1>4, KernelAssumption DEF Handled, KeptOrKilled
  <1>6. QED
    BY <1>3, <1>5, SchedYieldKeeps

LEMMA BootKeeps ==
  ASSUME IInv, NEW c \in CPU, Boot(c) \/ WakeUp(c)
  PROVE  Keeps(c)
  <1>1. /\ mode[c] \in {"boot", "halted"} /\ LockAvailable(c)
        /\ SchedYield(c, envs, None) /\ env_free_list' = env_free_list
    BY DEF Boot, WakeUp
  <1>2. Handled(c, envs, None, env_free_list')
    BY <1>1, IdleHandled
  <1>3. QED
    BY <1>1, <1>2, SchedYieldKeeps

LEMMA PopTfKeeps ==
  ASSUME IInv, NEW c \in CPU, PopTf(c)
  PROVE  Keeps(c)
  <1>1. /\ mode[c] = "leaving" /\ mode'[c] = "user" /\ mode' \in [CPU -> Mode]
        /\ \A d \in CPU \ {c} : mode'[d] = mode[d]
        /\ envs' = envs /\ env_free_list' = env_free_list /\ curenv' = curenv
    BY DEF PopTf, IInv, Mode
  <1>2. \A d \in CPU : /\ OnCpu(d)' <=> OnCpu(d)
                       /\ \A m \in {"boot", "halted", "monitor", "panic"} :
                             mode'[d] = m <=> mode[d] = m
    BY <1>1 DEF OnCpu
  <1>3. CurrentMode'
    BY <1>1, <1>2 DEF IInv, CurrentMode
  <1>4. StatusTellsTheCpu' /\ OneCpuPerEnv'
    BY <1>1, <1>2 DEF IInv, StatusTellsTheCpu, OneCpuPerEnv
  <1>5. MonitorIsIdle'
    BY <1>1, <1>2 DEF IInv, MonitorIsIdle
  <1>6. IInv'
    BY <1>1, <1>3, <1>4, <1>5 DEF IInv
  <1>7. QED
    BY <1>1, <1>6 DEF Keeps, KeptOrKilled

LEMMA SameTableKeeps ==
  ASSUME IInv, NEW c \in CPU, Yield(c) \/ Return(c) \/ Rerun(c)
  PROVE  Keeps(c)
  <1>1. /\ UserTrap(c) /\ env_free_list' = env_free_list
        /\ \/ SchedYield(c, envs, curenv[c]) \/ Resume(c, envs, curenv[c])
           \/ EnvRun(c, envs, curenv[c], curenv[c])
    BY DEF Yield, Return, Rerun
  <1>2. /\ Handled(c, envs, curenv[c], env_free_list')
        /\ curenv[c] \in Slot /\ envs[curenv[c]].status = "RUNNING"
    BY <1>1, TrapHandled
  <1>3. QED
    BY <1>1, <1>2, SchedYieldKeeps, ResumeKeeps, EnvRunKeeps

(* A system call that replaces the record of one environment, other than   *)
(* the caller or with the same status, by a consistent one.                *)
LEMMA RecordHandled ==
  ASSUME IInv, NEW c \in CPU, UserTrap(c), NEW e \in Slot, NEW r \in Env,
         r.pgdir <=> r.status # "FREE",
         r.status \in {"RUNNING", "DYING"} => r.runs,
         r.status = "NOT_RUNNABLE" => (r.ipc_recving <=> r.runs),
         r.ipc_recving => r.status \in {"NOT_RUNNABLE", "FREE"} /\ ~r.ipc_from,
         r.status \in {"RUNNING", "DYING"} <=>
           envs[e].status \in {"RUNNING", "DYING"},
         r.status \in {"RUNNING", "DYING"} =>
           r.status \in {envs[e].status, "DYING"},
         e = curenv[c] => r.status = envs[e].status,
         NEW fl, FreeList([envs EXCEPT ![e] = r], fl)
  PROVE  Handled(c, [envs EXCEPT ![e] = r], curenv[c], fl)
  <1> DEFINE es2 == [envs EXCEPT ![e] = r]
  <1>1. /\ Handled(c, envs, curenv[c], env_free_list)
        /\ curenv[c] \in Slot /\ Table(envs, env_free_list)
    BY TrapHandled DEF IInv
  <1>2. /\ es2 \in [Slot -> Env] /\ Alive(es2) /\ Blocking(es2)
        /\ es2[e] = r /\ \A f \in Slot \ {e} : es2[f] = envs[f]
    BY <1>1, SlotChange
  <1>3. FreeList(es2, fl)
    OBVIOUS
  <1> HIDE DEF es2
  <1>4. Table(es2, fl)
    BY <1>2, <1>3 DEF Table
  <1>5. /\ \A f \in Slot : es2[f].status \in {"RUNNING", "DYING"} <=>
                            envs[f].status \in {"RUNNING", "DYING"}
        /\ es2[curenv[c]].status = envs[curenv[c]].status
        /\ \A f \in Slot : KeptOrKilled(c, es2, f)
    BY <1>1, <1>2 DEF KeptOrKilled, Handled
  <1>6. Handled(c, es2, curenv[c], fl)
    BY <1>1, <1>4, <1>5, HandledAfter
  <1>7. QED
    BY <1>6 DEF es2

\* The same when the slot stays free or stays in use.
LEMMA RecordKeeps ==
  ASSUME IInv, NEW c \in CPU, UserTrap(c), NEW e \in Slot, NEW r \in Env,
         r.pgdir <=> r.status # "FREE",
         r.status \in {"RUNNING", "DYING"} => r.runs,
         r.status = "NOT_RUNNABLE" => (r.ipc_recving <=> r.runs),
         r.ipc_recving => r.status \in {"NOT_RUNNABLE", "FREE"} /\ ~r.ipc_from,
         r.status \in {"RUNNING", "DYING"} <=>
           envs[e].status \in {"RUNNING", "DYING"},
         r.status \in {"RUNNING", "DYING"} =>
           r.status \in {envs[e].status, "DYING"},
         e = curenv[c] => r.status = envs[e].status,
         r.status = "FREE" <=> envs[e].status = "FREE",
         Resume(c, [envs EXCEPT ![e] = r], curenv[c]),
         UNCHANGED env_free_list
  PROVE  Keeps(c)
  <1> DEFINE es2 == [envs EXCEPT ![e] = r]
  <1>1. \A f \in Slot : es2[f].status = "FREE" <=> envs[f].status = "FREE"
    BY DEF IInv, Table
  <1>2. FreeList(envs, env_free_list)
    BY DEF IInv, Table
  <1>3. FreeList(es2, env_free_list)
    <2> HIDE DEF es2
    <2>1. QED
      BY <1>1, <1>2, FreeListSame
  <1>4. Handled(c, es2, curenv[c], env_free_list)
    BY <1>3, RecordHandled
  <1> HIDE DEF es2
  <1>5. Resume(c, es2, curenv[c]) /\ env_free_list' = env_free_list
    BY DEF es2
  <1>6. QED
    BY <1>4, <1>5, ResumeKeeps

LEMMA ChangePriorityKeeps ==
  ASSUME IInv, NEW c \in CPU, NEW e \in Slot, NEW p \in Priorities,
         ChangePriority(c, e, p)
  PROVE  Keeps(c)
  <1> DEFINE r == [envs[e] EXCEPT !.priority = p]
  <1>1. envs[e] \in Env
    BY DEF IInv, Table
  <1>2. /\ UserTrap(c) /\ UNCHANGED env_free_list
        /\ Resume(c, [envs EXCEPT ![e] = r], curenv[c])
    BY DEF ChangePriority
  <1>3. /\ r \in Env /\ r.status = envs[e].status /\ r.pgdir = envs[e].pgdir
        /\ r.runs = envs[e].runs /\ r.ipc_recving = envs[e].ipc_recving
        /\ r.ipc_from = envs[e].ipc_from
    BY <1>1 DEF Env
  <1> HIDE DEF r
  <1>4. QED
    BY <1>2, <1>3, RecordKeeps DEF IInv, Table, Alive, Blocking

LEMMA IpcTrySendKeeps ==
  ASSUME IInv, NEW c \in CPU, NEW e \in Slot, IpcTrySend(c, e)
  PROVE  Keeps(c)
  <1> DEFINE r == [envs[e] EXCEPT !.ipc_recving = FALSE, !.ipc_from = TRUE,
                                  !.status = "RUNNABLE"]
  <1>1. envs[e] \in Env /\ envs \in [Slot -> Env]
    BY DEF IInv, Table
  <1>2. /\ UserTrap(c) /\ UNCHANGED env_free_list
        /\ Resume(c, [envs EXCEPT ![e] = r], curenv[c])
    BY <1>1 DEF IpcTrySend, Env
  <1>3. envs[e].status = "NOT_RUNNABLE" /\ e # curenv[c]
    <2>1. envs[e].ipc_recving /\ Envid2env(c, e)
      BY DEF IpcTrySend
    <2>2. envs[curenv[c]].status = "RUNNING"
      BY <1>2, TrapHandled
    <2>3. QED
      BY <2>1, <2>2 DEF IInv, Table, Blocking, Envid2env
  <1>4. /\ r \in Env /\ r.status = "RUNNABLE" /\ r.pgdir = envs[e].pgdir
        /\ ~r.ipc_recving
    BY <1>1 DEF Env, Status
  <1> HIDE DEF r
  <1>5. QED
    BY <1>2, <1>3, <1>4, RecordKeeps DEF IInv, Table, Alive

LEMMA SetStatusKeeps ==
  ASSUME IInv, NEW c \in CPU, NEW e \in Slot, LibSetStatus(c, e)
  PROVE  Keeps(c)
  <1> DEFINE r == [envs[e] EXCEPT !.status = "RUNNABLE"]
  <1>1. envs[e] \in Env
    BY DEF IInv, Table
  <1>2. /\ UserTrap(c) /\ UNCHANGED env_free_list
        /\ Resume(c, [envs EXCEPT ![e] = r], curenv[c])
        /\ envs[e].status = "NOT_RUNNABLE" /\ ~envs[e].runs
    BY DEF LibSetStatus, EnvSetStatus, Unstarted
  <1>3. ~envs[e].ipc_recving /\ e # curenv[c]
    <2>1. envs[curenv[c]].status = "RUNNING"
      BY <1>2, TrapHandled
    <2>2. QED
      BY <1>2, <2>1 DEF IInv, Table, Blocking
  <1>4. /\ r \in Env /\ r.status = "RUNNABLE" /\ r.pgdir = envs[e].pgdir
        /\ ~r.ipc_recving
    BY <1>1, <1>3 DEF Env, Status
  <1> HIDE DEF r
  <1>5. QED
    BY <1>2, <1>3, <1>4, RecordKeeps DEF IInv, Table, Alive

LEMMA IpcRecvKeeps ==
  ASSUME IInv, NEW c \in CPU, IpcRecv(c)
  PROVE  Keeps(c)
  <1> DEFINE e == curenv[c]
             r == [envs[e] EXCEPT !.ipc_recving = TRUE,
                                  !.status = "NOT_RUNNABLE", !.ipc_from = FALSE]
             es2 == [envs EXCEPT ![e] = r]
  <1>1. /\ UserTrap(c) /\ Handled(c, envs, e, env_free_list) /\ e \in Slot
        /\ envs[e].status = "RUNNING"
    BY TrapHandled DEF IpcRecv
  <1>2. envs[e] \in Env /\ envs \in [Slot -> Env] /\ Table(envs, env_free_list)
    BY <1>1 DEF IInv, Table
  <1>3. env_free_list' = env_free_list /\ SchedYield(c, es2, e)
    <2>1. es2 = [envs EXCEPT ![e].ipc_recving = TRUE,
                             ![e].status = "NOT_RUNNABLE", ![e].ipc_from = FALSE]
      BY <1>1, <1>2 DEF Env
    <2>2. QED
      BY <2>1 DEF IpcRecv
  <1>4. /\ r \in Env /\ r.status = "NOT_RUNNABLE" /\ r.pgdir = envs[e].pgdir
        /\ r.ipc_recving /\ ~r.ipc_from /\ r.runs = envs[e].runs
    BY <1>2 DEF Env, Status
  <1>5. envs[e].pgdir /\ envs[e].runs
    BY <1>1, <1>2 DEF Table, Alive
  <1> HIDE DEF r
  <1>6. /\ es2 \in [Slot -> Env] /\ Alive(es2) /\ Blocking(es2)
        /\ es2[e] = r /\ \A f \in Slot \ {e} : es2[f] = envs[f]
    BY <1>1, <1>2, <1>4, <1>5, SlotChange
  <1> HIDE DEF es2, e
  <1>7. FreeList(es2, env_free_list)
    <2>1. FreeList(envs, env_free_list)
      BY <1>2 DEF Table
    <2>2. \A f \in Slot : es2[f].status = "FREE" <=> envs[f].status = "FREE"
      BY <1>1, <1>4, <1>6
    <2>3. QED
      BY <2>1, <2>2, FreeListSame
  <1>8. Handled(c, es2, e, env_free_list)
    <2>1. \A f \in Slot : es2[f].status \in {"RUNNING", "DYING"} <=>
            \E d \in CPU \ {c} : OnCpu(d) /\ curenv[d] = f
      <3> TAKE f \in Slot
      <3>1. CASE f = e
        BY <3>1, <1>1, <1>4, <1>6, KernelAssumption DEF Handled
      <3>2. CASE f # e
        BY <3>2, <1>1, <1>6 DEF Handled
      <3>3. QED
        BY <3>1, <3>2
    <2>2. QED
      BY <1>1, <1>4, <1>6, <1>7, <2>1 DEF Handled, Table, KeptOrKilled
  <1>9. QED
    BY <1>3, <1>8, SchedYieldKeeps

LEMMA NextGenType ==
  ASSUME NEW g \in 0 .. NGEN - 1
  PROVE  NextGen(g) \in 0 .. NGEN - 1
  BY KernelAssumption DEF NextGen

LEMMA ExoforkKeeps ==
  ASSUME IInv, NEW c \in CPU, Exofork(c)
  PROVE  Keeps(c)
  <1> DEFINE e == Head(env_free_list)
             me == EnvId(curenv[c])
             r == [envs[e] EXCEPT !.status = "NOT_RUNNABLE", !.gen = NextGen(@),
                                  !.parent_id = me, !.runs = FALSE,
                                  !.pgdir = TRUE, !.ipc_recving = FALSE]
             es2 == [envs EXCEPT ![e] = r]
  <1>1. /\ UserTrap(c) /\ env_free_list # <<>>
        /\ env_free_list' = Tail(env_free_list)
        /\ Resume(c, Allocated(e, me), curenv[c])
    BY DEF Exofork
  <1>2. /\ curenv[c] \in Slot /\ envs[curenv[c]].status = "RUNNING"
        /\ envs \in [Slot -> Env] /\ FreeList(envs, env_free_list)
    BY <1>1, TrapHandled DEF IInv, Table
  <1>3. e \in Slot
    BY <1>1, <1>2 DEF FreeList
  <1>4. envs[e] \in Env /\ me \in Id
    BY <1>2, <1>3 DEF EnvId, Env, Id
  <1>5. Allocated(e, me) = es2
    BY <1>2, <1>3, <1>4 DEF Allocated, Env
  <1>6. /\ r \in Env /\ r.status = "NOT_RUNNABLE" /\ r.pgdir /\ ~r.runs
        /\ ~r.ipc_recving
    <2>1. NextGen(envs[e].gen) \in 0 .. NGEN - 1
      BY <1>4, NextGenType DEF Env
    <2>2. QED
      BY <1>4, <2>1 DEF Env, Status
  <1> HIDE DEF r
  <1>7. es2[e] = r /\ \A f \in Slot \ {e} : es2[f] = envs[f]
    BY <1>2, <1>3
  <1> HIDE DEF es2, me
  <1>8. FreeList(es2, Tail(env_free_list)) /\ envs[e].status = "FREE"
    <2>1. /\ es2[Head(env_free_list)].status # "FREE"
          /\ \A f \in Slot \ {Head(env_free_list)} : es2[f].status = envs[f].status
      BY <1>6, <1>7
    <2>2. QED
      BY <1>1, <1>2, <2>1, FreeListPop
  <1> HIDE DEF e
  <1>9. Handled(c, es2, curenv[c], Tail(env_free_list))
    BY <1>1, <1>2, <1>3, <1>6, <1>8, RecordHandled DEF es2
  <1>10. QED
    BY <1>1, <1>5, <1>9, ResumeKeeps

LEMMA ZombieKeeps ==
  ASSUME IInv, NEW c \in CPU, ReapZombie(c) \/ Fault(c)
  PROVE  Keeps(c)
  <1>1. mode[c] = "user" /\ LockAvailable(c) /\ FreeCurrent(c, curenv[c])
    BY DEF ReapZombie, Fault, UserTrap, Destroy
  <1>2. QED
    BY <1>1, FreeCurrentKeeps

LEMMA LibDestroyKeeps ==
  ASSUME IInv, NEW c \in CPU, NEW e \in Slot, LibDestroy(c, e)
  PROVE  Keeps(c)
  <1>1. /\ UserTrap(c) /\ MayManage(c, e) /\ Destroy(c, e)
        /\ envs[e].status # "DYING"
    BY DEF LibDestroy, EnvDestroy
  <1>2. /\ Handled(c, envs, curenv[c], env_free_list)
        /\ curenv[c] \in Slot /\ envs[curenv[c]].status = "RUNNING"
        /\ envs[e] \in Env /\ envs[e].status # "FREE"
        /\ Table(envs, env_free_list)
    BY <1>1, TrapHandled DEF MayManage, IInv, Table
  <1>3. CASE e = curenv[c]
    BY <1>1, <1>3, FreeCurrentKeeps DEF Destroy, UserTrap
  <1>4. CASE e # curenv[c] /\ envs[e].status = "RUNNING"
    <2> DEFINE r == [envs[e] EXCEPT !.status = "DYING"]
    <2>1. /\ UNCHANGED env_free_list
          /\ Resume(c, [envs EXCEPT ![e] = r], curenv[c])
      BY <1>1, <1>4 DEF Destroy
    <2>2. /\ r \in Env /\ r.status = "DYING" /\ r.pgdir = envs[e].pgdir
          /\ r.runs = envs[e].runs /\ r.ipc_recving = envs[e].ipc_recving
      BY <1>2 DEF Env, Status
    <2> HIDE DEF r
    <2>3. QED
      BY <1>1, <1>2, <1>4, <2>1, <2>2, RecordKeeps DEF Table, Alive, Blocking
  <1>5. CASE e # curenv[c] /\ envs[e].status # "RUNNING"
    <2> DEFINE es == Freed(envs, e)
    <2>1. /\ env_free_list' = <<e>> \o env_free_list
          /\ Resume(c, es, curenv[c])
      BY <1>1, <1>2, <1>5 DEF Destroy, Table, Alive
    <2>2. /\ Table(es, <<e>> \o env_free_list) /\ es[e].status = "FREE"
          /\ \A f \in Slot \ {e} : es[f] = envs[f]
      BY <1>2, FreedTable
    <2> HIDE DEF es
    <2>3. Handled(c, es, curenv[c], env_free_list')
      <3>1. \A f \in Slot : es[f].status \in {"RUNNING", "DYING"} <=>
                             envs[f].status \in {"RUNNING", "DYING"}
        BY <1>1, <1>5, <2>2
      <3>2. es[curenv[c]].status = envs[curenv[c]].status
        BY <1>2, <1>5, <2>2
      <3>3. \A f \in Slot : KeptOrKilled(c, es, f)
        BY <1>1, <1>2, <1>5, <2>2 DEF KeptOrKilled, Handled
      <3>4. QED
        BY <1>2, <2>1, <2>2, <3>1, <3>2, <3>3, HandledAfter
    <2>4. QED
      BY <2>1, <2>3, ResumeKeeps
  <1>6. QED
    BY <1>3, <1>4, <1>5
-----------------------------------------------------------------------------
LEMMA InitIInv == Init => IInv
  <1> SUFFICES ASSUME Init PROVE IInv
    OBVIOUS
  <1> USE KernelAssumption
  <1> DEFINE first == [FreeEnv EXCEPT !.status = "RUNNABLE", !.gen = 1, !.pgdir = TRUE]
  <1>1. /\ FreeEnv \in Env
        /\ first \in Env /\ first.status = "RUNNABLE" /\ first.pgdir
        /\ first.ipc_recving = FreeEnv.ipc_recving
    <2>1. /\ FreeEnv.gen = 0 /\ FreeEnv.parent_id = NoId
          /\ 0 \in 0 .. NGEN - 1 /\ 1 \in 0 .. NGEN - 1 /\ NoId \in Id
      BY DEF FreeEnv, NoId, Id, Slot
    <2>2. FreeEnv \in Env
      BY <2>1 DEF FreeEnv, Env, Status
    <2>3. QED
      BY <2>1, <2>2 DEF Env, Status
  <1>2. /\ envs \in [Slot -> Env]
        /\ \A e \in Slot : IF e \in {0, 1} THEN envs[e] = first ELSE envs[e] = FreeEnv
    BY <1>1 DEF Init
  <1>3. /\ first.status = "RUNNABLE" /\ first.pgdir /\ ~first.ipc_recving
        /\ FreeEnv.status = "FREE" /\ ~FreeEnv.pgdir /\ ~FreeEnv.ipc_recving
    <2>1. FreeEnv.status = "FREE" /\ ~FreeEnv.pgdir /\ ~FreeEnv.ipc_recving
      BY DEF FreeEnv
    <2>2. QED
      BY <2>1, <1>1
  <1> HIDE DEF first
  <1>4. Alive(envs) /\ Blocking(envs)
    BY <1>2, <1>3 DEF Alive, Blocking
  <1>5. FreeList(envs, env_free_list)
    <2>1. /\ env_free_list \in Seq(Slot) /\ Len(env_free_list) = NENV - 2
          /\ \A i \in 1 .. NENV - 2 : env_free_list[i] = i + 1
      <3> DEFINE fl == [i \in 1 .. NENV - 2 |-> i + 1]
      <3>1. \A i \in 1 .. NENV - 2 : i + 1 \in Slot
        BY DEF Slot
      <3>2. NENV - 2 \in Nat /\ fl \in [1 .. NENV - 2 -> Slot]
        BY <3>1
      <3>3. fl \in Seq(Slot) /\ Len(fl) = NENV - 2
        BY <3>2, SMTT(30)
      <3>4. QED
        BY <3>3 DEF Init
    <2>2. \A e \in Slot : envs[e].status = "FREE" <=>
                           \E i \in 1 .. NENV - 2 : i + 1 = e
      <3> TAKE e \in Slot
      <3>1. CASE e \in {0, 1}
        BY <3>1, <1>2, <1>3
      <3>2. CASE e \notin {0, 1}
        <4>1. e - 1 \in 1 .. NENV - 2 /\ (e - 1) + 1 = e
          BY <3>2 DEF Slot
        <4>2. QED
          BY <3>2, <4>1, <1>2, <1>3
      <3>3. QED
        BY <3>1, <3>2
    <2>3. QED
      <3>1. \A i, j \in 1 .. Len(env_free_list) :
              env_free_list[i] = env_free_list[j] => i = j
        BY <2>1
      <3>2. \A e \in Slot : (\E i \in 1 .. Len(env_free_list) : env_free_list[i] = e)
                              <=> \E i \in 1 .. NENV - 2 : i + 1 = e
        BY <2>1
      <3>3. QED
        BY <2>1, <2>2, <3>1, <3>2 DEF FreeList
  <1>6. /\ curenv \in [CPU -> Slot \cup {None}] /\ mode \in [CPU -> Mode]
        /\ \A c \in CPU : curenv[c] = None /\ mode[c] = "boot" /\ ~OnCpu(c)
    BY DEF Init, Mode, OnCpu
  <1>7. CurrentMode /\ OneCpuPerEnv /\ MonitorIsIdle
    BY <1>6 DEF CurrentMode, OneCpuPerEnv, MonitorIsIdle
  <1>8. StatusTellsTheCpu
    BY <1>2, <1>3, <1>6 DEF StatusTellsTheCpu
  <1>9. QED
    BY <1>2, <1>4, <1>5, <1>6, <1>7, <1>8 DEF IInv, Table

LEMMA LibNextKeeps ==
  ASSUME IInv, LibNext
  PROVE  \E c \in CPU : Keeps(c)
  <1>1. ASSUME NEW c \in CPU, CommonNext(c)
        PROVE  Keeps(c)
    BY <1>1, BootKeeps, PopTfKeeps, ZombieKeeps, SameTableKeeps, ExoforkKeeps,
       IpcRecvKeeps, IpcTrySendKeeps, ChangePriorityKeeps DEF CommonNext
  <1>2. ASSUME NEW c \in CPU, NEW e \in Slot, LibDestroy(c, e)
        PROVE  Keeps(c)
    BY <1>2, LibDestroyKeeps
  <1>3. ASSUME NEW c \in CPU, NEW e \in Slot, LibSetStatus(c, e)
        PROVE  Keeps(c)
    BY <1>3, SetStatusKeeps
  <1>4. QED
    BY <1>1, <1>2, <1>3 DEF LibNext

LEMMA NextIInv == IInv /\ [LibNext]_vars => IInv'
  <1>1. CASE UNCHANGED vars
    BY <1>1 DEF vars, IInv, CurrentMode, OneCpuPerEnv, StatusTellsTheCpu,
                MonitorIsIdle, OnCpu
  <1>2. QED
    BY <1>1, LibNextKeeps DEF Keeps

LEMMA IInvAlways == LibSpec => []IInv
  BY InitIInv, NextIInv, PTL DEF LibSpec
-----------------------------------------------------------------------------
\* The environment table, the free list and the CPUs keep their types.
THEOREM TypeCorrect == LibSpec => []TypeOK
  <1>1. IInv => TypeOK
    BY DEF IInv, Table, FreeList, TypeOK
  <1>2. QED
    BY <1>1, IInvAlways, PTL

\* No two CPUs ever have the same current environment.
THEOREM OneCpu == LibSpec => []OneCpuPerEnv
  <1>1. IInv => OneCpuPerEnv
    BY DEF IInv
  <1>2. QED
    BY <1>1, IInvAlways, PTL

\* env_status says which environments the CPUs execute.
THEOREM StatusIsExact == LibSpec => []StatusTellsTheCpu
  <1>1. IInv => StatusTellsTheCpu
    BY DEF IInv
  <1>2. QED
    BY <1>1, IInvAlways, PTL

\* An environment is blocked in sys_ipc_recv or was not started, or runs, and
\* a receiver without a message does not run.
THEOREM BlockedForAReason == LibSpec => []BlockedHasReason
  <1>1. IInv => BlockedHasReason
    BY DEF IInv, Table, Blocking, BlockedHasReason
  <1>2. QED
    BY <1>1, IInvAlways, PTL

\* env_free_list is the set of free slots, without repetition.
THEOREM FreeListIsExact == LibSpec => []FreeListExact
  <1>1. IInv => FreeListExact
    BY DEF IInv, Table, FreeList, FreeListExact
  <1>2. QED
    BY <1>1, IInvAlways, PTL

\* env_run and env_free never meet a null page directory: no kernel panic.
THEOREM NoNullPgdir == LibSpec => []PgdirWhileAlive
  <1>1. IInv => PgdirWhileAlive
    BY DEF IInv, Table, Alive, CurrentMode, PgdirWhileAlive
  <1>2. QED
    BY <1>1, IInvAlways, PTL

\* The monitor is entered only when no CPU executes an environment.
THEOREM MonitorAlone == LibSpec => []MonitorIsIdle
  <1>1. IInv => MonitorIsIdle
    BY DEF IInv
  <1>2. QED
    BY <1>1, IInvAlways, PTL

\* The CPUs cannot change the status of an environment another one executes,
\* except from RUNNING to DYING.
THEOREM OnlyKilled == LibSpec => OnlyKilledRemotely
  <1> DEFINE A(c) == OnCpu(c) /\ mode'[c] = mode[c] =>
                       \/ envs'[curenv[c]].status = envs[curenv[c]].status
                       \/ envs'[curenv[c]].status = "DYING"
  <1>1. ASSUME IInv, LibNext, NEW c \in CPU
        PROVE  A(c)
    <2>1. PICK d \in CPU : Keeps(d)
      BY <1>1, LibNextKeeps
    <2>2. OnCpu(c) => curenv[c] \in Slot
      BY <1>1 DEF IInv, CurrentMode
    <2>3. CASE d = c
      BY <2>1, <2>3 DEF Keeps
    <2>4. CASE d # c
      BY <2>1, <2>2, <2>4 DEF Keeps, KeptOrKilled
    <2>5. QED
      BY <2>3, <2>4
  <1>2. IInv /\ [LibNext]_vars => [\A c \in CPU : A(c)]_vars
    BY <1>1
  <1>3. QED
    BY <1>2, IInvAlways, PTL DEF LibSpec, OnlyKilledRemotely
-----------------------------------------------------------------------------
(* The table implements AbstractEnvs.  First the scheduler: the search of  *)
(* sched_yield finds an environment whenever one is runnable.              *)

\* A set of numbers that is not empty has a least element.
LEMMA Least ==
  ASSUME NEW T, T \subseteq Nat, T # {}
  PROVE  \E x \in T : \A y \in T : x <= y
  <1>1. IsWellFoundedOn(OpToRel(<, Nat), Nat)
    BY NatLessThanWellFounded
  <1>2. PICK x \in T : \A y \in T : ~ (<<y, x>> \in OpToRel(<, Nat))
    BY <1>1, WFMin
  <1>3. \A y \in T : ~ (y < x)
    BY <1>2 DEF OpToRel
  <1>4. QED
    BY <1>3

LEMMA ModTwice ==
  ASSUME NEW n \in Nat \ {0}, NEW x \in 0 .. 2 * n - 1
  PROVE  x % n = IF x < n THEN x ELSE x - n
  OBVIOUS

\* The search meets different slots at different times.
LEMMA DistanceDiffers ==
  ASSUME NEW cur \in Slot \cup {None}, NEW e \in Slot, NEW f \in Slot
  PROVE  /\ Distance(cur, e) \in Int
         /\ e # f => Distance(cur, e) # Distance(cur, f)
  <1> DEFINE start == IF cur = None THEN 0 ELSE cur + 1
  <1>1. /\ NENV \in Nat \ {0} /\ start \in 0 .. NENV
        /\ e \in 0 .. NENV - 1 /\ f \in 0 .. NENV - 1
    BY KernelAssumption DEF Slot
  <1>2. /\ Distance(cur, e) = (e + NENV - start) % NENV
        /\ Distance(cur, f) = (f + NENV - start) % NENV
    BY DEF Distance
  <1> HIDE DEF start
  <1>3. /\ e + NENV - start \in 0 .. 2 * NENV - 1
        /\ f + NENV - start \in 0 .. 2 * NENV - 1
    BY <1>1
  <1>4. /\ Distance(cur, e) = IF e + NENV - start < NENV
                              THEN e + NENV - start ELSE e - start
        /\ Distance(cur, f) = IF f + NENV - start < NENV
                              THEN f + NENV - start ELSE f - start
    <2>1. \A x \in 0 .. 2 * NENV - 1 : x % NENV = IF x < NENV THEN x ELSE x - NENV
      BY <1>1, ModTwice
    <2>2. QED
      BY <1>1, <1>2, <1>3, <2>1
  <1>5. QED
    BY <1>1, <1>4

\* sched_yield prefers e to f.
Beats(es, cur, e, f) ==
  \/ es[f].priority < es[e].priority
  \/ /\ es[f].priority = es[e].priority
     /\ Distance(cur, e) < Distance(cur, f)

\* The best of the first k slots.
Champion(es, cur, k, e) ==
  /\ e \in Runnable(es) /\ e < k
  /\ \A f \in Runnable(es) \ {e} : f < k => Beats(es, cur, e, f)

LEMMA BeatsOrder ==
  ASSUME NEW es \in [Slot -> Env], NEW cur \in Slot \cup {None},
         NEW e \in Slot, NEW f \in Slot, NEW g \in Slot
  PROVE  /\ e # f => Beats(es, cur, e, f) \/ Beats(es, cur, f, e)
         /\ Beats(es, cur, e, f) /\ Beats(es, cur, f, g) => Beats(es, cur, e, g)
         /\ ~(Beats(es, cur, e, f) /\ Beats(es, cur, f, e))
  <1>1. /\ es[e].priority \in Int /\ es[f].priority \in Int
        /\ es[g].priority \in Int
    BY KernelAssumption DEF Env
  <1>2. /\ Distance(cur, e) \in Int /\ Distance(cur, f) \in Int
        /\ Distance(cur, g) \in Int
        /\ e # f => Distance(cur, e) # Distance(cur, f)
    BY DistanceDiffers
  <1>3. QED
    BY <1>1, <1>2 DEF Beats

LEMMA BestExists ==
  ASSUME NEW es \in [Slot -> Env], NEW cur \in Slot \cup {None},
         Runnable(es) # {}
  PROVE  Best(es, cur) # {}
  <1> DEFINE R == Runnable(es)
             Found(k) == \/ \A e \in R : e >= k
                         \/ \E e \in R : Champion(es, cur, k, e)
             T == {k \in 0 .. NENV : ~Found(k)}
  <1>1. R \subseteq Slot /\ NENV \in Nat /\ Slot = 0 .. NENV - 1
    BY KernelAssumption DEF Runnable, Slot
  <1>2. Found(0)
    BY <1>1
  <1>3. ASSUME NEW k \in 0 .. NENV - 1, Found(k)
        PROVE  Found(k + 1)
    <2>1. CASE k \notin R
      <3>1. \A e \in R : (e >= k => e >= k + 1) /\ (e < k + 1 <=> e < k)
        BY <1>1, <2>1
      <3>2. \A e \in R : Champion(es, cur, k, e) => Champion(es, cur, k + 1, e)
        BY <3>1 DEF Champion
      <3>3. QED
        BY <1>3, <3>1, <3>2
    <2>2. CASE k \in R /\ \A e \in R : e >= k
      <3>1. \A f \in R : f < k + 1 => f = k
        BY <1>1, <2>2
      <3>2. Champion(es, cur, k + 1, k)
        BY <2>2, <3>1 DEF Champion
      <3>3. QED
        BY <2>2, <3>2
    <2>3. ASSUME k \in R, NEW e \in R, Champion(es, cur, k, e)
          PROVE  Found(k + 1)
      <3>1. /\ e \in Slot /\ k \in Slot /\ e < k /\ e # k
            /\ \A f \in R : f < k + 1 => f < k \/ f = k
        BY <1>1, <2>3 DEF Champion
      <3>2. CASE Beats(es, cur, e, k)
        <4>1. Champion(es, cur, k + 1, e)
          BY <2>3, <3>1, <3>2 DEF Champion
        <4>2. QED
          BY <4>1
      <3>3. CASE Beats(es, cur, k, e)
        <4>1. ASSUME NEW f \in R \ {k}, f < k + 1
              PROVE  Beats(es, cur, k, f)
          <5>1. CASE f = e
            BY <3>3, <5>1
          <5>2. CASE f # e
            <6>1. Beats(es, cur, e, f) /\ f \in Slot
              BY <1>1, <2>3, <3>1, <4>1, <5>2 DEF Champion
            <6>2. QED
              BY <3>1, <3>3, <6>1, BeatsOrder
          <5>3. QED
            BY <5>1, <5>2
        <4>2. Champion(es, cur, k + 1, k)
          BY <2>3, <4>1 DEF Champion
        <4>3. QED
          BY <2>3, <4>2
      <3>4. QED
        BY <3>1, <3>2, <3>3, BeatsOrder
    <2>4. QED
      BY <1>3, <2>1, <2>2, <2>3
  <1>4. Found(NENV)
    <2> HIDE DEF Found
    <2>1. T \subseteq Nat /\ NENV \in 0 .. NENV
      BY <1>1
    <2>2. ASSUME T # {}
          PROVE  FALSE
      <3>1. PICK x \in T : \A y \in T : x <= y
        BY <2>1, <2>2, Least
      <3>2. x - 1 \in 0 .. NENV - 1 /\ (x - 1) + 1 = x
        BY <1>1, <1>2, <3>1
      <3>3. x - 1 \notin T
        BY <3>1, <3>2
      <3>4. Found(x - 1)
        BY <1>1, <3>2, <3>3
      <3>5. Found((x - 1) + 1)
        BY <1>3, <3>2, <3>4
      <3>6. QED
        BY <3>1, <3>2, <3>5
    <2>3. QED
      BY <2>1, <2>2
  <1>5. \A e \in R : e < NENV /\ ~(e >= NENV)
    BY <1>1
  <1>6. PICK e \in R : Champion(es, cur, NENV, e)
    BY <1>4, <1>5
  <1>7. e \in Best(es, cur)
    BY <1>5, <1>6 DEF Champion, Best, Beats
  <1>8. QED
    BY <1>7
-----------------------------------------------------------------------------
(* The steps of the handlers in terms of AbstractEnvs.                     *)

LEMMA LifeIs ==
  ASSUME NEW r \in Env
  PROVE  /\ LifeOf(r) = "unused" <=> r.status = "FREE"
         /\ LifeOf(r) = "killed" <=> r.status = "DYING"
         /\ LifeOf(r) = "ready" <=> r.status = "RUNNABLE"
         /\ LifeOf(r) = "running" <=> r.status = "RUNNING"
         /\ r.status = "NOT_RUNNABLE" =>
              LifeOf(r) = IF r.ipc_recving THEN "waiting" ELSE "made"
  <1>1. r.status \in Status /\ r.ipc_recving \in BOOLEAN
    BY DEF Env
  <1>2. QED
    BY <1>1 DEF LifeOf, Status

LEMMA SameLife ==
  ASSUME NEW r \in Env, NEW s \in Env, r.status = s.status,
         r.ipc_recving = s.ipc_recving
  PROVE  LifeOf(r) = LifeOf(s)
  BY DEF LifeOf

\* One environment changes its stage, or its priority.
LEMMA ChangedLife ==
  ASSUME NEW es \in [Slot -> Env], NEW es2 \in [Slot -> Env], NEW e \in Slot,
         \A f \in Slot \ {e} : es2[f] = es[f]
  PROVE  /\ LifeIn(es2) = [LifeIn(es) EXCEPT ![e] = LifeOf(es2[e])]
         /\ PriorityIn(es2) = [PriorityIn(es) EXCEPT ![e] = es2[e].priority]
  BY DEF LifeIn, PriorityIn

LEMMA RunnableReady ==
  ASSUME NEW es \in [Slot -> Env]
  PROVE  Lives!Ready(LifeIn(es)) = Runnable(es)
  <1>1. \A e \in Slot : LifeIn(es)[e] = "ready" <=> es[e].status = "RUNNABLE"
    BY LifeIs DEF LifeIn
  <1>2. QED
    BY <1>1 DEF Lives!Ready, Runnable

\* What sched_yield finds is among the environments of highest priority.
LEMMA BestIsTop ==
  ASSUME NEW es \in [Slot -> Env], NEW cur, NEW e \in Best(es, cur),
         PriorityIn(es) = PriorityIn(envs)
  PROVE  e \in Lives!Top(LifeIn(es))
  <1>1. e \in Runnable(es) /\ Runnable(es) \subseteq Slot
    BY DEF Best, Runnable
  <1>2. \A f \in Runnable(es) : es[f].priority <= es[e].priority
    <2>1. \A f \in Slot : es[f].priority \in Int
      BY KernelAssumption DEF Env
    <2>2. QED
      BY <1>1, <2>1 DEF Best
  <1>3. \A f \in Slot : PriorityIn(envs)[f] = es[f].priority
    <2>1. \A f \in Slot : PriorityIn(es)[f] = es[f].priority
      BY DEF PriorityIn
    <2>2. QED
      BY <2>1
  <1>4. QED
    BY <1>1, <1>2, <1>3, RunnableReady DEF Lives!Top

\* What env_run does to the stages and the CPUs.
LEMMA EnvRunLives ==
  ASSUME IInv, NEW c \in CPU, NEW es \in [Slot -> Env],
         NEW cur \in Slot \cup {None}, NEW e \in Slot, es[e].pgdir,
         EnvRun(c, es, cur, e)
  PROVE  /\ LifeIn(envs') =
              [f \in Slot |-> IF f = e THEN "running"
                              ELSE IF f = cur /\ es[f].status = "RUNNING"
                              THEN "ready" ELSE LifeIn(es)[f]]
         /\ PriorityIn(envs') = PriorityIn(es)
         /\ Executing' = [Executing EXCEPT ![c] = e]
  <1>1. /\ envs' \in [Slot -> Env]
        /\ envs'[e] = [es[e] EXCEPT !.status = "RUNNING", !.runs = TRUE]
        /\ \A f \in Slot \ {e} :
              /\ f = cur /\ es[f].status = "RUNNING" =>
                   envs'[f] = [es[f] EXCEPT !.status = "RUNNABLE"]
              /\ ~(f = cur /\ es[f].status = "RUNNING") => envs'[f] = es[f]
        /\ curenv' = [curenv EXCEPT ![c] = e]
        /\ mode' = [mode EXCEPT ![c] = "leaving"]
    BY EnvRunIs
  <1>2. /\ envs'[e].status = "RUNNING" /\ envs'[e].priority = es[e].priority
        /\ \A f \in Slot \ {e} :
             /\ envs'[f].priority = es[f].priority
             /\ IF f = cur /\ es[f].status = "RUNNING"
                THEN envs'[f].status = "RUNNABLE" ELSE envs'[f] = es[f]
    BY <1>1 DEF Env
  <1>3. \A f \in Slot :
          LifeOf(envs'[f]) = IF f = e THEN "running"
                             ELSE IF f = cur /\ es[f].status = "RUNNING"
                             THEN "ready" ELSE LifeOf(es[f])
    <2>1. \A f \in Slot : envs'[f] \in Env
      BY <1>1
    <2>2. QED
      BY <1>2, <2>1, LifeIs
  <1>4. /\ LifeIn(envs') =
             [f \in Slot |-> IF f = e THEN "running"
                             ELSE IF f = cur /\ es[f].status = "RUNNING"
                             THEN "ready" ELSE LifeIn(es)[f]]
    BY <1>3 DEF LifeIn
  <1>5. PriorityIn(envs') = PriorityIn(es)
    BY <1>2 DEF PriorityIn
  <1>6. Executing' = [Executing EXCEPT ![c] = e]
    <2>1. /\ curenv \in [CPU -> Slot \cup {None}] /\ mode \in [CPU -> Mode]
      BY DEF IInv
    <2>2. QED
      BY <1>1, <2>1 DEF Executing, OnCpu
  <1>7. QED
    BY <1>4, <1>5, <1>6

\* A CPU that goes on with its environment.
LEMMA GoesOn ==
  ASSUME IInv, NEW c \in CPU, OnCpu(c), NEW es \in [Slot -> Env],
         IsRunning(es, curenv[c]), Alive(es),
         EnvRun(c, es, curenv[c], curenv[c])
  PROVE  /\ LifeIn(envs') = LifeIn(es)
         /\ PriorityIn(envs') = PriorityIn(es)
         /\ Executing' = Executing
  <1>1. curenv[c] \in Slot /\ es[curenv[c]].status = "RUNNING"
    BY DEF IInv, IsRunning
  <1>2. es[curenv[c]].pgdir
    BY <1>1 DEF Alive
  <1>3. /\ LifeIn(envs') =
              [f \in Slot |-> IF f = curenv[c] THEN "running"
                              ELSE IF f = curenv[c] /\ es[f].status = "RUNNING"
                              THEN "ready" ELSE LifeIn(es)[f]]
        /\ PriorityIn(envs') = PriorityIn(es)
        /\ Executing' = [Executing EXCEPT ![c] = curenv[c]]
    BY <1>1, <1>2, EnvRunLives
  <1>4. LifeIn(es)[curenv[c]] = "running"
    BY <1>1, LifeIs DEF LifeIn
  <1>5. LifeIn(envs') = LifeIn(es)
    BY <1>3, <1>4 DEF LifeIn
  <1>6. Executing' = Executing
    BY <1>3 DEF Executing
  <1>7. QED
    BY <1>3, <1>5, <1>6

\* A CPU without an environment to go on with.
LEMMA YieldDispatches ==
  ASSUME IInv, NEW c \in CPU, NEW es \in [Slot -> Env], Alive(es),
         NEW cur \in Slot \cup {None}, ~IsRunning(es, cur),
         PriorityIn(es) = PriorityIn(envs), SchedYield(c, es, cur)
  PROVE  Lives!Dispatch(c, LifeIn(es))
  <1>1. ASSUME NEW e \in Best(es, cur), EnvRun(c, es, cur, e)
        PROVE  Lives!Dispatch(c, LifeIn(es))
    <2>1. e \in Slot /\ es[e].pgdir
      BY <1>1 DEF Best, Runnable, Alive
    <2>2. /\ LifeIn(envs') =
              [f \in Slot |-> IF f = e THEN "running"
                              ELSE IF f = cur /\ es[f].status = "RUNNING"
                              THEN "ready" ELSE LifeIn(es)[f]]
          /\ PriorityIn(envs') = PriorityIn(es)
          /\ Executing' = [Executing EXCEPT ![c] = e]
      BY <1>1, <2>1, EnvRunLives
    <2>3. \A f \in Slot : ~(f = cur /\ es[f].status = "RUNNING")
      BY KernelAssumption DEF IsRunning
    <2>4. LifeIn(envs') =
            [f \in Slot |-> IF f = e THEN "running" ELSE LifeIn(es)[f]]
      BY <2>2, <2>3
    <2>5. e \in Lives!Top(LifeIn(es))
      BY <1>1, BestIsTop
    <2>6. QED
      BY <2>2, <2>4, <2>5 DEF Lives!Dispatch, Lives!Give
  <1>2. ASSUME Best(es, cur) = {}, SchedHalt(c, es, cur)
        PROVE  Lives!Dispatch(c, LifeIn(es))
    <2>1. Lives!Ready(LifeIn(es)) = {}
      BY <1>2, BestExists, RunnableReady
    <2>2. LifeIn(envs') = LifeIn(es) /\ PriorityIn(envs') = PriorityIn(envs)
      BY <1>2 DEF SchedHalt
    <2>3. /\ mode'[c] \in {"halted", "monitor"}
          /\ \A d \in CPU \ {c} : curenv'[d] = curenv[d] /\ mode'[d] = mode[d]
      BY <1>2 DEF SchedHalt, IInv
    <2>4. Executing' = [Executing EXCEPT ![c] = None]
      BY <2>3 DEF Executing, OnCpu
    <2>5. QED
      BY <2>1, <2>2, <2>4 DEF Lives!Dispatch
  <1>3. QED
    BY <1>1, <1>2 DEF SchedYield

LEMMA RunsHere ==
  ASSUME IInv, NEW c \in CPU, UserTrap(c)
  PROVE  /\ curenv[c] \in Slot /\ OnCpu(c) /\ IsRunning(envs, curenv[c])
         /\ Executing[c] = curenv[c] /\ Lives!Runs(c)
         /\ envs \in [Slot -> Env] /\ Alive(envs) /\ Blocking(envs)
  <1>1. /\ curenv[c] \in Slot /\ envs[curenv[c]].status = "RUNNING" /\ OnCpu(c)
        /\ envs \in [Slot -> Env] /\ Alive(envs) /\ Blocking(envs)
    BY TrapHandled, UserCurrent DEF UserTrap, IInv, Table
  <1>2. Executing[c] = curenv[c] /\ curenv[c] # None
    BY <1>1, KernelAssumption DEF Executing
  <1>3. LifeIn(envs)[curenv[c]] = "running"
    BY <1>1, LifeIs DEF LifeIn
  <1>4. QED
    BY <1>1, <1>2, <1>3 DEF IsRunning, Lives!Runs

\* Yield, Return and Rerun: the processor stays with its environment or passes
\* to another one.
LEMMA SameTableLives ==
  ASSUME IInv, NEW c \in CPU, Yield(c) \/ Return(c) \/ Rerun(c)
  PROVE  Lives!Preempt(c) \/ UNCHANGED Lives!vars
  <1>1. /\ UserTrap(c)
        /\ \/ SchedYield(c, envs, curenv[c]) \/ Resume(c, envs, curenv[c])
           \/ EnvRun(c, envs, curenv[c], curenv[c])
    BY DEF Yield, Return, Rerun
  <1>2. /\ curenv[c] \in Slot /\ OnCpu(c) /\ IsRunning(envs, curenv[c])
        /\ Executing[c] = curenv[c] /\ Lives!Runs(c)
        /\ envs \in [Slot -> Env] /\ Alive(envs)
    BY <1>1, RunsHere
  <1>3. ASSUME EnvRun(c, envs, curenv[c], curenv[c])
        PROVE  UNCHANGED Lives!vars
    BY <1>2, <1>3, GoesOn DEF Lives!vars
  <1>4. ASSUME NEW e \in Best(envs, curenv[c]), EnvRun(c, envs, curenv[c], e),
               envs[e].priority >= envs[curenv[c]].priority
        PROVE  Lives!Preempt(c)
    <2>1. e \in Slot /\ envs[e].pgdir /\ envs[e].status = "RUNNABLE"
      BY <1>2, <1>4 DEF Best, Runnable, Alive
    <2>2. /\ LifeIn(envs') =
              [f \in Slot |-> IF f = e THEN "running"
                              ELSE IF f = curenv[c] /\ envs[f].status = "RUNNING"
                              THEN "ready" ELSE LifeIn(envs)[f]]
          /\ PriorityIn(envs') = PriorityIn(envs)
          /\ Executing' = [Executing EXCEPT ![c] = e]
      BY <1>2, <1>4, <2>1, EnvRunLives
    <2>3. LifeIn(envs') =
            [f \in Slot |-> IF f = e THEN "running"
                            ELSE [LifeIn(envs) EXCEPT ![Executing[c]] = "ready"][f]]
      BY <1>2, <2>2 DEF IsRunning, LifeIn
    <2>4. e \in Lives!Top(LifeIn(envs))
      BY <1>2, <1>4, BestIsTop
    <2>5. PriorityIn(envs)[Executing[c]] <= PriorityIn(envs)[e]
      <3>1. envs[e].priority \in Int /\ envs[curenv[c]].priority \in Int
        BY <1>2, <2>1, KernelAssumption DEF Env
      <3>2. QED
        BY <1>2, <1>4, <2>1, <3>1 DEF PriorityIn
    <2>6. QED
      BY <1>2, <2>2, <2>3, <2>4, <2>5 DEF Lives!Preempt, Lives!Give
  <1>5. QED
    BY <1>1, <1>2, <1>3, <1>4 DEF SchedYield, Resume

LEMMA StartLives ==
  ASSUME IInv, NEW c \in CPU, Boot(c) \/ WakeUp(c)
  PROVE  Lives!Start(c)
  <1>1. /\ mode[c] \in {"boot", "halted"} /\ SchedYield(c, envs, None)
    BY DEF Boot, WakeUp
  <1>2. Executing[c] = None
    BY <1>1 DEF Executing, OnCpu
  <1>3. Lives!Dispatch(c, LifeIn(envs))
    BY <1>1, YieldDispatches DEF IInv, Table, IsRunning
  <1>4. QED
    BY <1>2, <1>3 DEF Lives!Start

LEMMA PopTfLives ==
  ASSUME IInv, NEW c \in CPU, PopTf(c)
  PROVE  UNCHANGED Lives!vars
  <1>1. /\ mode[c] = "leaving" /\ mode'[c] = "user"
        /\ \A d \in CPU \ {c} : mode'[d] = mode[d]
        /\ envs' = envs /\ curenv' = curenv
    BY DEF PopTf, IInv
  <1>2. Executing' = Executing
    BY <1>1 DEF Executing, OnCpu
  <1>3. QED
    BY <1>1, <1>2 DEF Lives!vars

\* The environment of c is freed: it exits, faults or was marked.
LEMMA EndLives ==
  ASSUME IInv, NEW c \in CPU, mode[c] = "user", LockAvailable(c),
         FreeCurrent(c, curenv[c])
  PROVE  Lives!End(c)
  <1> DEFINE e == curenv[c]
             es == Freed(envs, e)
  <1>1. /\ e \in Slot /\ OnCpu(c) /\ envs[e].status \in {"RUNNING", "DYING"}
        /\ envs \in [Slot -> Env]
    BY UserCurrent DEF IInv, Table
  <1>2. /\ Table(es, <<e>> \o env_free_list) /\ es[e].status = "FREE"
        /\ \A f \in Slot \ {e} : es[f] = envs[f]
    BY <1>1, FreedTable DEF IInv
  <1>3. SchedYield(c, es, None)
    BY <1>1 DEF FreeCurrent, IInv, Table, Alive
  <1>4. es[e].priority = envs[e].priority
    BY <1>1 DEF Freed, Env
  <1>5. Executing[c] = e /\ e # None
    BY <1>1, KernelAssumption DEF Executing
  <1> HIDE DEF es, e
  <1>6. es \in [Slot -> Env] /\ Alive(es)
    BY <1>2 DEF Table
  <1>7. LifeOf(es[e]) = "unused"
    BY <1>1, <1>2, <1>6, LifeIs
  <1>8. /\ LifeIn(es) = [LifeIn(envs) EXCEPT ![e] = "unused"]
        /\ PriorityIn(es) = PriorityIn(envs)
    <2>1. /\ LifeIn(es) = [LifeIn(envs) EXCEPT ![e] = LifeOf(es[e])]
          /\ PriorityIn(es) = [PriorityIn(envs) EXCEPT ![e] = es[e].priority]
      BY <1>1, <1>2, <1>6, ChangedLife
    <2>2. QED
      BY <1>1, <1>4, <1>7, <2>1 DEF PriorityIn
  <1>9. Lives!Dispatch(c, LifeIn(es))
    BY <1>3, <1>6, <1>8, YieldDispatches DEF IsRunning
  <1>10. QED
    BY <1>5, <1>8, <1>9 DEF Lives!End

LEMMA WaitLives ==
  ASSUME IInv, NEW c \in CPU, IpcRecv(c)
  PROVE  Lives!Wait(c)
  <1> DEFINE e == curenv[c]
             r == [envs[e] EXCEPT !.ipc_recving = TRUE,
                                  !.status = "NOT_RUNNABLE", !.ipc_from = FALSE]
             es2 == [envs EXCEPT ![e] = r]
  <1>1. /\ e \in Slot /\ Executing[c] = e /\ Lives!Runs(c)
        /\ envs \in [Slot -> Env] /\ envs[e] \in Env /\ Alive(envs)
    BY RunsHere DEF IpcRecv
  <1>2. SchedYield(c, es2, e)
    <2>1. es2 = [envs EXCEPT ![e].ipc_recving = TRUE,
                             ![e].status = "NOT_RUNNABLE", ![e].ipc_from = FALSE]
      BY <1>1 DEF Env
    <2>2. QED
      BY <2>1 DEF IpcRecv
  <1>3. /\ r \in Env /\ r.status = "NOT_RUNNABLE" /\ r.ipc_recving
        /\ r.pgdir = envs[e].pgdir /\ r.priority = envs[e].priority
    BY <1>1 DEF Env, Status
  <1> HIDE DEF r
  <1>4. /\ es2 \in [Slot -> Env] /\ es2[e] = r
        /\ \A f \in Slot \ {e} : es2[f] = envs[f]
    BY <1>1, <1>3
  <1> HIDE DEF es2
  <1>5. Alive(es2)
    <2>1. envs[e].pgdir
      <3>1. envs[e].status # "FREE"
        BY RunsHere DEF IpcRecv, IsRunning
      <3>2. QED
        BY <1>1, <3>1 DEF Alive
    <2>2. QED
      BY <1>1, <1>3, <1>4, <2>1 DEF Alive
  <1>6. LifeOf(es2[e]) = "waiting"
    BY <1>3, <1>4, LifeIs
  <1>7. /\ LifeIn(es2) = [LifeIn(envs) EXCEPT ![e] = "waiting"]
        /\ PriorityIn(es2) = PriorityIn(envs)
    <2>1. /\ LifeIn(es2) = [LifeIn(envs) EXCEPT ![e] = LifeOf(es2[e])]
          /\ PriorityIn(es2) = [PriorityIn(envs) EXCEPT ![e] = es2[e].priority]
      BY <1>1, <1>4, ChangedLife
    <2>2. QED
      BY <1>1, <1>3, <1>4, <1>6, <2>1 DEF PriorityIn
  <1>8. Lives!Dispatch(c, LifeIn(es2))
    <2>1. ~IsRunning(es2, e)
      BY <1>3, <1>4 DEF IsRunning
    <2>2. QED
      BY <1>1, <1>2, <1>4, <1>5, <1>7, <2>1, YieldDispatches
  <1>9. QED
    BY <1>1, <1>7, <1>8 DEF Lives!Wait

(* A system call on one environment, that of c or another one, after which *)
(* c goes on.                                                              *)
LEMMA ManagedLives ==
  ASSUME IInv, NEW c \in CPU, UserTrap(c), NEW e \in Slot, NEW r \in Env,
         r.pgdir <=> r.status # "FREE",
         r.status \in {"RUNNING", "DYING"} => r.runs,
         e = curenv[c] => r.status = envs[e].status,
         Resume(c, [envs EXCEPT ![e] = r], curenv[c])
  PROVE  /\ LifeIn(envs') = [LifeIn(envs) EXCEPT ![e] = LifeOf(r)]
         /\ PriorityIn(envs') = [PriorityIn(envs) EXCEPT ![e] = r.priority]
         /\ Executing' = Executing
  <1> DEFINE es2 == [envs EXCEPT ![e] = r]
  <1>1. /\ curenv[c] \in Slot /\ OnCpu(c) /\ IsRunning(envs, curenv[c])
        /\ envs \in [Slot -> Env] /\ Alive(envs)
    BY RunsHere
  <1>2. /\ es2 \in [Slot -> Env] /\ es2[e] = r
        /\ \A f \in Slot \ {e} : es2[f] = envs[f]
    BY <1>1
  <1>3. Resume(c, es2, curenv[c])
    OBVIOUS
  <1> HIDE DEF es2
  <1>4. Alive(es2)
    BY <1>1, <1>2 DEF Alive
  <1>5. IsRunning(es2, curenv[c])
    BY <1>1, <1>2 DEF IsRunning
  <1>6. EnvRun(c, es2, curenv[c], curenv[c])
    BY <1>3, <1>5 DEF Resume
  <1>7. /\ LifeIn(envs') = LifeIn(es2) /\ PriorityIn(envs') = PriorityIn(es2)
        /\ Executing' = Executing
    BY <1>1, <1>2, <1>4, <1>5, <1>6, GoesOn
  <1>8. QED
    BY <1>1, <1>2, <1>7, ChangedLife

LEMMA ManageLives ==
  ASSUME IInv, NEW c \in CPU, UserTrap(c), NEW e \in Slot, NEW r \in Env,
         r.pgdir <=> r.status # "FREE",
         r.status \in {"RUNNING", "DYING"} => r.runs,
         e # curenv[c], r.priority = envs[e].priority,
         <<LifeOf(envs[e]), LifeOf(r)>> \in Lives!Change,
         Resume(c, [envs EXCEPT ![e] = r], curenv[c])
  PROVE  Lives!Manage(c, e)
  <1>1. /\ LifeIn(envs') = [LifeIn(envs) EXCEPT ![e] = LifeOf(r)]
        /\ PriorityIn(envs') = [PriorityIn(envs) EXCEPT ![e] = r.priority]
        /\ Executing' = Executing
    BY ManagedLives
  <1>2. PriorityIn(envs') = PriorityIn(envs) /\ LifeIn(envs)[e] = LifeOf(envs[e])
    BY <1>1 DEF PriorityIn, LifeIn
  <1>3. Executing[c] = curenv[c] /\ Lives!Runs(c)
    BY RunsHere
  <1>4. LifeOf(r) \in Lives!Stage
    BY DEF Lives!Change, Lives!Stage
  <1>5. QED
    BY <1>1, <1>2, <1>3, <1>4 DEF Lives!Manage

LEMMA ExoforkLives ==
  ASSUME IInv, NEW c \in CPU, Exofork(c)
  PROVE  \E e \in Slot : Lives!Manage(c, e)
  <1> DEFINE e == Head(env_free_list)
             me == EnvId(curenv[c])
             r == [envs[e] EXCEPT !.status = "NOT_RUNNABLE", !.gen = NextGen(@),
                                  !.parent_id = me, !.runs = FALSE,
                                  !.pgdir = TRUE, !.ipc_recving = FALSE]
  <1>1. /\ UserTrap(c) /\ env_free_list # <<>>
        /\ Resume(c, Allocated(e, me), curenv[c])
    BY DEF Exofork
  <1>2. /\ curenv[c] \in Slot /\ envs[curenv[c]].status = "RUNNING"
        /\ envs \in [Slot -> Env] /\ FreeList(envs, env_free_list)
    BY <1>1, TrapHandled DEF IInv, Table
  <1>3. e \in Slot /\ envs[e].status = "FREE"
    <2>1. /\ env_free_list \in Seq(Slot) /\ 1 \in 1 .. Len(env_free_list)
          /\ e = env_free_list[1]
      BY <1>1, <1>2 DEF FreeList
    <2>2. QED
      BY <1>2, <2>1 DEF FreeList
  <1>4. envs[e] \in Env /\ me \in Id
    BY <1>2, <1>3 DEF EnvId, Env, Id
  <1>5. Allocated(e, me) = [envs EXCEPT ![e] = r]
    BY <1>2, <1>3, <1>4 DEF Allocated, Env
  <1>6. /\ r \in Env /\ r.status = "NOT_RUNNABLE" /\ r.pgdir
        /\ ~r.ipc_recving /\ r.priority = envs[e].priority
    <2>1. NextGen(envs[e].gen) \in 0 .. NGEN - 1
      BY <1>4, NextGenType DEF Env
    <2>2. QED
      BY <1>4, <2>1 DEF Env, Status
  <1> HIDE DEF r, e, me
  <1>7. <<LifeOf(envs[e]), LifeOf(r)>> \in Lives!Change
    BY <1>3, <1>4, <1>6, LifeIs DEF Lives!Change
  <1>8. Lives!Manage(c, e)
    BY <1>1, <1>2, <1>3, <1>5, <1>6, <1>7, ManageLives
  <1>9. QED
    BY <1>3, <1>8

LEMMA IpcTrySendLives ==
  ASSUME IInv, NEW c \in CPU, NEW e \in Slot, IpcTrySend(c, e)
  PROVE  Lives!Manage(c, e)
  <1> DEFINE r == [envs[e] EXCEPT !.ipc_recving = FALSE, !.ipc_from = TRUE,
                                  !.status = "RUNNABLE"]
  <1>1. envs[e] \in Env /\ envs \in [Slot -> Env]
    BY DEF IInv, Table
  <1>2. UserTrap(c) /\ Resume(c, [envs EXCEPT ![e] = r], curenv[c])
    BY <1>1 DEF IpcTrySend, Env
  <1>3. /\ envs[e].status = "NOT_RUNNABLE" /\ envs[e].ipc_recving
        /\ envs[e].pgdir /\ e # curenv[c]
    <2>1. envs[e].ipc_recving /\ Envid2env(c, e)
      BY DEF IpcTrySend
    <2>2. envs[curenv[c]].status = "RUNNING"
      BY <1>2, TrapHandled
    <2>3. QED
      BY <2>1, <2>2 DEF IInv, Table, Alive, Blocking, Envid2env
  <1>4. /\ r \in Env /\ r.status = "RUNNABLE" /\ r.pgdir = envs[e].pgdir
        /\ r.priority = envs[e].priority
    BY <1>1 DEF Env, Status
  <1> HIDE DEF r
  <1>5. <<LifeOf(envs[e]), LifeOf(r)>> \in Lives!Change
    BY <1>1, <1>3, <1>4, LifeIs DEF Lives!Change
  <1>6. QED
    BY <1>2, <1>3, <1>4, <1>5, ManageLives

LEMMA SetStatusLives ==
  ASSUME IInv, NEW c \in CPU, NEW e \in Slot, LibSetStatus(c, e)
  PROVE  Lives!Manage(c, e)
  <1> DEFINE r == [envs[e] EXCEPT !.status = "RUNNABLE"]
  <1>1. envs[e] \in Env
    BY DEF IInv, Table
  <1>2. /\ UserTrap(c) /\ Resume(c, [envs EXCEPT ![e] = r], curenv[c])
        /\ envs[e].status = "NOT_RUNNABLE" /\ ~envs[e].runs
    BY DEF LibSetStatus, EnvSetStatus, Unstarted
  <1>3. ~envs[e].ipc_recving /\ envs[e].pgdir /\ e # curenv[c]
    <2>1. envs[curenv[c]].status = "RUNNING"
      BY <1>2, TrapHandled
    <2>2. QED
      BY <1>2, <2>1 DEF IInv, Table, Alive, Blocking
  <1>4. /\ r \in Env /\ r.status = "RUNNABLE" /\ r.pgdir = envs[e].pgdir
        /\ r.priority = envs[e].priority
    BY <1>1 DEF Env, Status
  <1> HIDE DEF r
  <1>5. <<LifeOf(envs[e]), LifeOf(r)>> \in Lives!Change
    BY <1>1, <1>2, <1>3, <1>4, LifeIs DEF Lives!Change
  <1>6. QED
    BY <1>2, <1>3, <1>4, <1>5, ManageLives

LEMMA ChangePriorityLives ==
  ASSUME IInv, NEW c \in CPU, NEW e \in Slot, NEW p \in Priorities,
         ChangePriority(c, e, p)
  PROVE  Lives!SetPriority(c, e, p)
  <1> DEFINE r == [envs[e] EXCEPT !.priority = p]
  <1>1. envs[e] \in Env
    BY DEF IInv, Table
  <1>2. UserTrap(c) /\ Resume(c, [envs EXCEPT ![e] = r], curenv[c])
    BY DEF ChangePriority
  <1>3. /\ r \in Env /\ r.status = envs[e].status /\ r.pgdir = envs[e].pgdir
        /\ r.runs = envs[e].runs /\ r.ipc_recving = envs[e].ipc_recving
        /\ r.priority = p
    BY <1>1 DEF Env
  <1> HIDE DEF r
  <1>4. /\ LifeIn(envs') = [LifeIn(envs) EXCEPT ![e] = LifeOf(r)]
        /\ PriorityIn(envs') = [PriorityIn(envs) EXCEPT ![e] = r.priority]
        /\ Executing' = Executing
    BY <1>2, <1>3, ManagedLives DEF IInv, Table, Alive
  <1>5. LifeIn(envs') = LifeIn(envs)
    <2>1. LifeOf(r) = LifeOf(envs[e])
      BY <1>1, <1>3, SameLife
    <2>2. QED
      BY <1>4, <2>1 DEF LifeIn
  <1>6. Lives!Runs(c)
    BY <1>2, RunsHere
  <1>7. QED
    BY <1>3, <1>4, <1>5, <1>6 DEF Lives!SetPriority

LEMMA LibDestroyLives ==
  ASSUME IInv, NEW c \in CPU, NEW e \in Slot, LibDestroy(c, e)
  PROVE  Lives!End(c) \/ Lives!Manage(c, e)
  <1>1. /\ UserTrap(c) /\ MayManage(c, e) /\ Destroy(c, e)
        /\ envs[e].status # "DYING"
    BY DEF LibDestroy, EnvDestroy
  <1>2. /\ curenv[c] \in Slot /\ envs[curenv[c]].status = "RUNNING"
        /\ envs[e] \in Env /\ envs[e].status # "FREE" /\ envs[e].pgdir
        /\ envs \in [Slot -> Env] /\ Alive(envs)
    BY <1>1, TrapHandled DEF MayManage, IInv, Table, Alive
  <1>3. CASE e = curenv[c]
    BY <1>1, <1>3, EndLives DEF Destroy, UserTrap
  <1>4. CASE e # curenv[c] /\ envs[e].status = "RUNNING"
    <2> DEFINE r == [envs[e] EXCEPT !.status = "DYING"]
    <2>1. Resume(c, [envs EXCEPT ![e] = r], curenv[c])
      BY <1>1, <1>4 DEF Destroy
    <2>2. /\ r \in Env /\ r.status = "DYING" /\ r.pgdir = envs[e].pgdir
          /\ r.runs = envs[e].runs /\ r.priority = envs[e].priority
      BY <1>2 DEF Env, Status
    <2> HIDE DEF r
    <2>3. <<LifeOf(envs[e]), LifeOf(r)>> \in Lives!Change
      BY <1>2, <1>4, <2>2, LifeIs DEF Lives!Change
    <2>4. envs[e].runs
      BY <1>2, <1>4 DEF Alive
    <2>5. QED
      BY <1>1, <1>2, <1>4, <2>1, <2>2, <2>3, <2>4, ManageLives
  <1>5. CASE e # curenv[c] /\ envs[e].status # "RUNNING"
    <2> DEFINE r == [envs[e] EXCEPT !.status = "FREE", !.pgdir = FALSE]
    <2>1. Resume(c, Freed(envs, e), curenv[c])
      BY <1>1, <1>2, <1>5 DEF Destroy
    <2>2. Freed(envs, e) = [envs EXCEPT ![e] = r]
      BY <1>2 DEF Freed, Env
    <2>3. /\ r \in Env /\ r.status = "FREE" /\ ~r.pgdir
          /\ r.priority = envs[e].priority
      BY <1>2 DEF Env, Status
    <2> HIDE DEF r
    <2>4. <<LifeOf(envs[e]), LifeOf(r)>> \in Lives!Change
      <3>1. envs[e].status \in {"RUNNABLE", "NOT_RUNNABLE"}
        BY <1>1, <1>2, <1>5 DEF Env, Status
      <3>2. LifeOf(envs[e]) \in {"ready", "waiting", "made"}
        BY <1>2, <3>1, LifeIs
      <3>3. LifeOf(r) = "unused"
        BY <2>3, LifeIs
      <3>4. QED
        BY <3>2, <3>3 DEF Lives!Change
    <2>5. QED
      BY <1>1, <1>5, <2>1, <2>2, <2>3, <2>4, ManageLives
  <1>6. QED
    BY <1>3, <1>4, <1>5

LEMMA InitLives == Init => Lives!Init
  <1> SUFFICES ASSUME Init
               PROVE  Lives!Init
    OBVIOUS
  <1>1. \A e \in Slot : /\ envs[e] \in Env
                        /\ envs[e].status \in {"FREE", "RUNNABLE"}
    <2>1. envs \in [Slot -> Env]
      BY InitIInv DEF IInv, Table
    <2>2. QED
      BY <2>1 DEF Init, FreeEnv
  <1>2. LifeIn(envs) \in [Slot -> {"unused", "ready"}]
    BY <1>1, LifeIs DEF LifeIn
  <1>3. PriorityIn(envs) \in [Slot -> Priorities]
    BY <1>1 DEF PriorityIn, Env
  <1>4. Executing = [c \in CPU |-> None]
    BY DEF Init, Executing, OnCpu
  <1>5. QED
    BY <1>2, <1>3, <1>4 DEF Lives!Init

LEMMA NextLives == IInv /\ [LibNext]_vars => [Lives!Next]_(Lives!vars)
  <1> SUFFICES ASSUME IInv, [LibNext]_vars
               PROVE  Lives!Next \/ UNCHANGED Lives!vars
    OBVIOUS
  <1>1. ASSUME NEW c \in CPU, CommonNext(c)
        PROVE  Lives!Next \/ UNCHANGED Lives!vars
    <2>1. CASE Boot(c) \/ WakeUp(c)
      BY <2>1, StartLives DEF Lives!Next
    <2>2. CASE PopTf(c)
      BY <2>2, PopTfLives
    <2>3. CASE ReapZombie(c) \/ Fault(c)
      <3>1. mode[c] = "user" /\ LockAvailable(c) /\ FreeCurrent(c, curenv[c])
        BY <2>3 DEF ReapZombie, Fault, UserTrap, Destroy
      <3>2. QED
        BY <3>1, EndLives DEF Lives!Next
    <2>4. CASE Yield(c) \/ Return(c) \/ Rerun(c)
      BY <2>4, SameTableLives DEF Lives!Next
    <2>5. CASE Exofork(c)
      BY <2>5, ExoforkLives DEF Lives!Next
    <2>6. CASE IpcRecv(c)
      BY <2>6, WaitLives DEF Lives!Next
    <2>7. CASE \E e \in Slot : IpcTrySend(c, e)
      BY <2>7, IpcTrySendLives DEF Lives!Next
    <2>8. CASE \E e \in Slot, p \in Priorities : ChangePriority(c, e, p)
      BY <2>8, ChangePriorityLives DEF Lives!Next
    <2>9. QED
      BY <1>1, <2>1, <2>2, <2>3, <2>4, <2>5, <2>6, <2>7, <2>8 DEF CommonNext
  <1>2. ASSUME NEW c \in CPU, NEW e \in Slot, LibDestroy(c, e)
        PROVE  Lives!Next
    BY <1>2, LibDestroyLives DEF Lives!Next
  <1>3. ASSUME NEW c \in CPU, NEW e \in Slot, LibSetStatus(c, e)
        PROVE  Lives!Next
    BY <1>3, SetStatusLives DEF Lives!Next
  <1>4. CASE UNCHANGED vars
    BY <1>4 DEF vars, Lives!vars, Executing, OnCpu
  <1>5. QED
    BY <1>1, <1>2, <1>3, <1>4 DEF LibNext

\* The environment table, the scheduler and the system calls implement the
\* life cycle of AbstractEnvs, on any number of processors.
THEOREM Refinement == LibSpec => ImplementsLives
  BY IInvAlways, InitLives, NextLives, PTL DEF LibSpec, ImplementsLives, Lives!Spec
=============================================================================
