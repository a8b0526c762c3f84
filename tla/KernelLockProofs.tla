-------------------------- MODULE KernelLockProofs --------------------------
(***************************************************************************)
(* For any number of processors: the big kernel lock excludes, its debug   *)
(* checks never fire, and it implements AbstractLock (safety).             *)
(***************************************************************************)
EXTENDS KernelLock, TLAPS

SafetySpec == Init /\ [][Next]_vars

(* The lock word says whether some CPU has the lock, and the owner field   *)
(* names it between the write that sets it and the one that clears it.     *)
LockWord == locked <=> \E c \in CPU : HasLock(c)

OwnerField ==
  \A c \in CPU : lkcpu = c <=> HasLock(c) /\ pc[c] \notin {"setCpu", "xchg0"}

(* Where a call of spin_lock and of spin_unlock may return.                *)
Returns ==
  \A c \in CPU :
    /\ pc[c] \in Acquiring \cup {"setCpu"} =>
         /\ ret[c] \in {"bootAps", "trapMode", "kernel"}
         /\ ret[c] = "trapMode" => tfmode[c] = "halted"
    /\ pc[c] \in Releasing => ret[c] \in {"user", "halted"}

(* The inductive invariant: mutual exclusion alone is not inductive, since *)
(* it does not say that the lock word and the owner field tell the truth,  *)
(* nor where the two calls return.                                         *)
IInv ==
  /\ TypeOK
  /\ MutualExclusion
  /\ NoLockPanic
  /\ HaltedMark
  /\ LockWord
  /\ OwnerField
  /\ Returns
-----------------------------------------------------------------------------
LEMMA InitIInv == Init => IInv
  <1> SUFFICES ASSUME Init PROVE IInv
    OBVIOUS
  <1> USE KernelLockAssumption
  <1>1. \A c \in CPU : pc[c] \in {"i386_init", "off"} /\ ~HasLock(c)
    BY DEF Init, HasLock, Holding, Releasing
  <1>2. TypeOK
    BY DEF Init, TypeOK, PC, Acquiring, Holding, Releasing
  <1>3. MutualExclusion /\ NoLockPanic
    BY <1>1 DEF MutualExclusion, NoLockPanic
  <1>4. HaltedMark /\ Returns
    BY <1>1 DEF Init, HaltedMark, Returns, Releasing, Acquiring
  <1>5. LockWord /\ OwnerField
    BY <1>1 DEF Init, LockWord, OwnerField
  <1>6. QED
    BY <1>2, <1>3, <1>4, <1>5 DEF IInv

LEMMA StepIInv == IInv /\ [Next]_vars => IInv'
  <1> SUFFICES ASSUME IInv, [Next]_vars PROVE IInv'
    OBVIOUS
  <1> USE KernelLockAssumption
      DEF IInv, TypeOK, PC, Acquiring, Holding, Releasing, HasLock, Goto, Call,
          MutualExclusion, NoLockPanic, HaltedMark, LockWord, OwnerField, Returns
  <1>1. ASSUME NEW c \in CPU, HoldingLocked(c) PROVE IInv'
    BY <1>1 DEF HoldingLocked
  <1>2. ASSUME NEW c \in CPU, HoldingCpu(c) PROVE IInv'
    BY <1>2 DEF HoldingCpu
  <1>3. ASSUME NEW c \in CPU, XchgAcquire(c) PROVE IInv'
    BY <1>3 DEF XchgAcquire
  <1>4. ASSUME NEW c \in CPU, SetCpu(c) PROVE IInv'
    BY <1>4 DEF SetCpu
  <1>5. ASSUME NEW c \in CPU, ReleaseLocked(c) PROVE IInv'
    BY <1>5 DEF ReleaseLocked
  <1>6. ASSUME NEW c \in CPU, ReleaseCpu(c) PROVE IInv'
    BY <1>6 DEF ReleaseCpu
  <1>7. ASSUME NEW c \in CPU, ClearCpu(c) PROVE IInv'
    BY <1>7 DEF ClearCpu
  <1>8. ASSUME NEW c \in CPU, XchgRelease(c) PROVE IInv'
    <2> USE <1>8 DEF XchgRelease
    <2>0. /\ pc[c] = "xchg0" /\ pc' = [pc EXCEPT ![c] = ret[c]]
          /\ pc'[c] \in {"user", "halted"}
          /\ \A d \in CPU : d # c => pc'[d] = pc[d]
      OBVIOUS
    <2>1. TypeOK'
      <3>1. pc' \in [CPU -> PC]
        BY <2>0
      <3>2. locked' \in BOOLEAN
        OBVIOUS
      <3>3. QED
        BY <3>1, <3>2
    <2>6. NoLockPanic'
      <3>1. \A d \in CPU : pc'[d] # "panic"
        BY <2>0
      <3>2. QED
        BY <3>1
    <2>8. Returns'
      <3>1. ret' = ret /\ tfmode' = tfmode
        OBVIOUS
      <3>2. QED
        BY <2>0, <3>1
    <2>7. HaltedMark'
      BY <2>0
    <2>2. \A d \in CPU : ~HasLock(d)'
      OBVIOUS
    <2>3. MutualExclusion' /\ LockWord'
      BY <2>2
    <2>4. OwnerField'
      <3>1. \A d \in CPU : lkcpu # d
        OBVIOUS
      <3>2. QED
        BY <2>2, <3>1
    <2>5. QED
      BY <2>1, <2>3, <2>4, <2>6, <2>7, <2>8
  <1>9. ASSUME NEW c \in CPU, I386Init(c) PROVE IInv'
    BY <1>9 DEF I386Init
  <1>10. ASSUME NEW c \in CPU, BootAp(c) PROVE IInv'
    BY <1>10 DEF BootAp
  <1>11. ASSUME NEW c \in CPU, BootDone(c) PROVE IInv'
    BY <1>11 DEF BootDone
  <1>12. ASSUME NEW c \in CPU, MpMain(c) PROVE IInv'
    BY <1>12 DEF MpMain
  <1>13. ASSUME NEW c \in CPU, Trap(c) PROVE IInv'
    BY <1>13 DEF Trap
  <1>14. ASSUME NEW c \in CPU, TrapStatus(c) PROVE IInv'
    BY <1>14 DEF TrapStatus
  <1>15. ASSUME NEW c \in CPU, TrapMode(c) PROVE IInv'
    BY <1>15 DEF TrapMode
  <1>16. ASSUME NEW c \in CPU, EnvRun(c) PROVE IInv'
    BY <1>16 DEF EnvRun
  <1>17. ASSUME NEW c \in CPU, SchedHalt(c) PROVE IInv'
    BY <1>17 DEF SchedHalt
  <1>18. ASSUME NEW c \in CPU, Monitor(c) PROVE IInv'
    BY <1>18 DEF Monitor
  <1>19. CASE UNCHANGED vars
    BY <1>19 DEF vars
  <1>20. QED
    BY <1>1, <1>2, <1>3, <1>4, <1>5, <1>6, <1>7, <1>8, <1>9, <1>10, <1>11,
       <1>12, <1>13, <1>14, <1>15, <1>16, <1>17, <1>18, <1>19
    DEF Next, Step, SpinLock, SpinUnlock, Boot, TrapEntry, KernelExit

\* The inductive invariant holds for ever, whatever the fairness.
LEMMA Invariant == SafetySpec => []IInv
  BY InitIInv, StepIInv, PTL DEF SafetySpec

LEMMA SpecIsSafe == Spec => SafetySpec
  BY PTL DEF Spec, SafetySpec

\* Type correctness: lock word, owner, CPU statuses and program points keep
\* their types for any number of processors.
THEOREM TypeCorrect == Spec => []TypeOK
  BY Invariant, SpecIsSafe, PTL DEF IInv

\* The big kernel lock: no two processors ever execute kernel code together.
THEOREM Exclusion == Spec => []MutualExclusion
  BY Invariant, SpecIsSafe, PTL DEF IInv

\* Neither "already holding" nor "cannot release" can ever be reported.
THEOREM NeverPanics == Spec => []NoLockPanic
  BY Invariant, SpecIsSafe, PTL DEF IInv

\* cpu_status tells trap() the truth about whether the CPU comes from hlt.
THEOREM HaltedMarkCorrect == Spec => []HaltedMark
  BY Invariant, SpecIsSafe, PTL DEF IInv
-----------------------------------------------------------------------------
(* The refinement.  AbsOwner and AbsWaiting are the substitutions of Lock. *)

AbsOwner == IF \E c \in CPU : HasLock(c)
            THEN CHOOSE c \in CPU : HasLock(c) ELSE None

AbsWaiting == {c \in CPU : pc[c] \in Acquiring}

LEMMA OwnerIs ==
  ASSUME IInv
  PROVE  /\ \A c \in CPU : HasLock(c) => AbsOwner = c
         /\ (\A c \in CPU : ~HasLock(c)) => AbsOwner = None
  BY DEF IInv, MutualExclusion, AbsOwner

LEMMA OwnerIsNext ==
  ASSUME IInv'
  PROVE  /\ \A c \in CPU : HasLock(c)' => AbsOwner' = c
         /\ (\A c \in CPU : ~HasLock(c)') => AbsOwner' = None
  BY DEF IInv, MutualExclusion, AbsOwner

LEMMA RefineInit == Init => Lock!Init
  <1> SUFFICES ASSUME Init PROVE Lock!Init
    OBVIOUS
  <1>1. \A c \in CPU : pc[c] \in {"i386_init", "off"} /\ ~HasLock(c)
    BY DEF Init, HasLock, Holding, Releasing
  <1>2. QED
    BY <1>1 DEF Lock!Init, Acquiring

\* A step that moves no CPU into or out of the lock or the queue stutters.
LEMMA Stutters ==
  ASSUME IInv, IInv',
         \A d \in CPU : HasLock(d)' <=> HasLock(d),
         \A d \in CPU : pc'[d] \in Acquiring <=> pc[d] \in Acquiring
  PROVE  UNCHANGED Lock!vars
  <1>1. AbsOwner' = AbsOwner
    <2>1. CASE \E c \in CPU : HasLock(c)
      BY <2>1, OwnerIs, OwnerIsNext
    <2>2. CASE \A c \in CPU : ~HasLock(c)
      BY <2>2, OwnerIs, OwnerIsNext
    <2>3. QED
      BY <2>1, <2>2
  <1>2. AbsWaiting' = AbsWaiting
    BY DEF AbsWaiting
  <1>3. QED
    BY <1>1, <1>2 DEF Lock!vars, AbsOwner, AbsWaiting

\* A CPU that enters spin_lock, and nothing else moves.
LEMMA Requests ==
  ASSUME IInv, IInv', NEW c \in CPU,
         \A d \in CPU : HasLock(d)' <=> HasLock(d),
         ~HasLock(c), pc[c] \notin Acquiring, pc'[c] \in Acquiring,
         \A d \in CPU : d # c => pc'[d] = pc[d]
  PROVE  Lock!Request(c)
  <1>1. AbsOwner' = AbsOwner
    <2>1. CASE \E d \in CPU : HasLock(d)
      BY <2>1, OwnerIs, OwnerIsNext
    <2>2. CASE \A d \in CPU : ~HasLock(d)
      BY <2>2, OwnerIs, OwnerIsNext
    <2>3. QED
      BY <2>1, <2>2
  <1>2. AbsOwner # c
    <2>1. CASE \E d \in CPU : HasLock(d)
      BY <2>1, OwnerIs
    <2>2. CASE \A d \in CPU : ~HasLock(d)
      BY <2>2, OwnerIs, KernelLockAssumption
    <2>3. QED
      BY <2>1, <2>2
  <1>3. AbsWaiting' = AbsWaiting \cup {c} /\ c \notin AbsWaiting
    BY DEF AbsWaiting
  <1>4. QED
    BY <1>1, <1>2, <1>3 DEF Lock!Request, AbsOwner, AbsWaiting

LEMMA RefineStep == IInv /\ IInv' /\ [Next]_vars => [Lock!Next]_(Lock!vars)
  <1> SUFFICES ASSUME IInv, IInv', [Next]_vars
               PROVE  Lock!Next \/ UNCHANGED Lock!vars
    OBVIOUS
  <1> USE DEF Goto, Call
  <1>1. ASSUME NEW c \in CPU, HoldingLocked(c) \/ HoldingCpu(c)
        PROVE  UNCHANGED Lock!vars
    <2>1. /\ pc[c] \in Acquiring /\ pc'[c] \in Acquiring
          /\ \A d \in CPU : d # c => pc'[d] = pc[d]
          /\ tfmode' = tfmode
      BY <1>1 DEF HoldingLocked, HoldingCpu, Acquiring, IInv, NoLockPanic, TypeOK
    <2>2. QED
      BY <2>1, Stutters DEF HasLock, Acquiring, Holding, Releasing
  <1>2. ASSUME NEW c \in CPU, XchgAcquire(c) PROVE Lock!Grant(c)
    <2>1. /\ pc[c] = "xchg" /\ pc'[c] = "setCpu"
          /\ \A d \in CPU : d # c => pc'[d] = pc[d]
          /\ ~locked
      BY <1>2 DEF XchgAcquire, IInv, TypeOK
    <2>2. AbsOwner = None /\ AbsOwner' = c
      BY <2>1, OwnerIs, OwnerIsNext DEF IInv, LockWord, HasLock, Holding
    <2>3. c \in AbsWaiting /\ AbsWaiting' = AbsWaiting \ {c}
      BY <2>1 DEF AbsWaiting, Acquiring
    <2>4. QED
      BY <2>2, <2>3 DEF Lock!Grant, AbsOwner, AbsWaiting
  <1>3. ASSUME NEW c \in CPU, SetCpu(c) PROVE UNCHANGED Lock!vars
    <2>1. /\ pc[c] = "setCpu" /\ pc'[c] = ret[c]
          /\ \A d \in CPU : d # c => pc'[d] = pc[d]
          /\ tfmode' = tfmode
          /\ ret[c] \in {"bootAps", "trapMode", "kernel"}
          /\ ret[c] = "trapMode" => tfmode[c] = "halted"
      BY <1>3 DEF SetCpu, IInv, TypeOK, Returns
    <2>2. QED
      BY <2>1, Stutters DEF HasLock, Acquiring, Holding, Releasing
  <1>4. ASSUME NEW c \in CPU, ReleaseLocked(c) \/ ReleaseCpu(c) \/ ClearCpu(c)
        PROVE  UNCHANGED Lock!vars
    <2>1. /\ pc[c] \in Releasing /\ pc'[c] \in Releasing
          /\ \A d \in CPU : d # c => pc'[d] = pc[d]
          /\ tfmode' = tfmode
      BY <1>4 DEF ReleaseLocked, ReleaseCpu, ClearCpu, Releasing, IInv,
                  NoLockPanic, TypeOK
    <2>2. QED
      BY <2>1, Stutters DEF HasLock, Acquiring, Holding, Releasing
  <1>5. ASSUME NEW c \in CPU, XchgRelease(c) PROVE Lock!Release(c)
    <2>1. /\ pc[c] = "xchg0" /\ pc'[c] \in {"user", "halted"}
          /\ \A d \in CPU : d # c => pc'[d] = pc[d]
          /\ tfmode' = tfmode
      BY <1>5 DEF XchgRelease, IInv, TypeOK, Returns, Releasing
    <2>2. HasLock(c) /\ \A d \in CPU : ~HasLock(d)'
      BY <2>1 DEF HasLock, Holding, Releasing, IInv, MutualExclusion
    <2>3. AbsOwner = c /\ AbsOwner' = None
      BY <2>2, OwnerIs, OwnerIsNext
    <2>4. AbsWaiting' = AbsWaiting
      BY <2>1 DEF AbsWaiting, Acquiring
    <2>5. QED
      BY <2>3, <2>4 DEF Lock!Release, AbsOwner, AbsWaiting
  <1>6. ASSUME NEW c \in CPU, I386Init(c) \/ MpMain(c) PROVE Lock!Request(c)
    <2>1. /\ pc[c] \in {"i386_init", "mp_main"} /\ pc'[c] = "holdLocked"
          /\ \A d \in CPU : d # c => pc'[d] = pc[d]
          /\ tfmode' = tfmode
      BY <1>6 DEF I386Init, MpMain, IInv, TypeOK
    <2>2. QED
      BY <2>1, Requests DEF HasLock, Acquiring, Holding, Releasing
  <1>7. ASSUME NEW c \in CPU, BootAp(c) PROVE UNCHANGED Lock!vars
    <2>1. PICK ap \in CPU : pc[ap] = "off" /\ pc' = [pc EXCEPT ![ap] = "mp_main"]
      BY <1>7 DEF BootAp
    <2>2. /\ pc'[ap] = "mp_main"
          /\ \A d \in CPU : d # ap => pc'[d] = pc[d]
          /\ tfmode' = tfmode
      BY <1>7, <2>1 DEF BootAp, IInv, TypeOK
    <2>3. QED
      BY <2>1, <2>2, Stutters DEF HasLock, Acquiring, Holding, Releasing
  <1>8. ASSUME NEW c \in CPU, BootDone(c) \/ Monitor(c) PROVE UNCHANGED Lock!vars
    <2>1. /\ pc[c] \in {"bootAps", "kernel"} /\ pc'[c] \in {"kernel", "monitor"}
          /\ \A d \in CPU : d # c => pc'[d] = pc[d]
          /\ tfmode' = tfmode
      BY <1>8 DEF BootDone, Monitor, IInv, TypeOK
    <2>2. QED
      BY <2>1, Stutters DEF HasLock, Acquiring, Holding, Releasing
  <1>9. ASSUME NEW c \in CPU, Trap(c) PROVE UNCHANGED Lock!vars
    <2>1. /\ pc[c] \in {"user", "halted"} /\ pc'[c] \in {"trap", "dead"}
          /\ \A d \in CPU : d # c => pc'[d] = pc[d] /\ tfmode'[d] = tfmode[d]
      BY <1>9 DEF Trap, IInv, TypeOK
    <2>2. QED
      BY <2>1, Stutters DEF HasLock, Acquiring, Holding, Releasing
  <1>10. ASSUME NEW c \in CPU, TrapStatus(c)
         PROVE  Lock!Request(c) \/ UNCHANGED Lock!vars
    <2>1. /\ pc[c] = "trap"
          /\ \A d \in CPU : d # c => pc'[d] = pc[d]
          /\ tfmode' = tfmode
      BY <1>10 DEF TrapStatus, IInv, TypeOK
    <2>2. CASE cpu_status[c] = "HALTED"
      <3>1. pc'[c] = "holdLocked"
        BY <1>10, <2>2 DEF TrapStatus, IInv, TypeOK
      <3>2. QED
        BY <2>1, <3>1, Requests DEF HasLock, Acquiring, Holding, Releasing
    <2>3. CASE cpu_status[c] # "HALTED"
      <3>1. pc'[c] = "trapMode" /\ tfmode[c] # "halted"
        BY <1>10, <2>1, <2>3 DEF TrapStatus, IInv, TypeOK, HaltedMark
      <3>2. QED
        BY <2>1, <3>1, Stutters DEF HasLock, Acquiring, Holding, Releasing
    <2>4. QED
      BY <2>2, <2>3
  <1>11. ASSUME NEW c \in CPU, TrapMode(c)
         PROVE  Lock!Request(c) \/ UNCHANGED Lock!vars
    <2>1. /\ pc[c] = "trapMode"
          /\ \A d \in CPU : d # c => pc'[d] = pc[d]
          /\ tfmode' = tfmode
      BY <1>11 DEF TrapMode, IInv, TypeOK
    <2>2. CASE tfmode[c] = "user"
      <3>1. pc'[c] = "holdLocked"
        BY <1>11, <2>2 DEF TrapMode, IInv, TypeOK
      <3>2. QED
        BY <2>1, <2>2, <3>1, Requests DEF HasLock, Acquiring, Holding, Releasing
    <2>3. CASE tfmode[c] = "halted"
      <3>1. pc'[c] = "kernel"
        BY <1>11, <2>3 DEF TrapMode, IInv, TypeOK
      <3>2. QED
        BY <2>1, <2>3, <3>1, Stutters DEF HasLock, Acquiring, Holding, Releasing
    <2>4. QED
      BY <2>2, <2>3 DEF IInv, TypeOK
  <1>12. ASSUME NEW c \in CPU, EnvRun(c) \/ SchedHalt(c) PROVE UNCHANGED Lock!vars
    <2>1. /\ pc[c] = "kernel" /\ pc'[c] = "relLocked"
          /\ \A d \in CPU : d # c => pc'[d] = pc[d]
          /\ tfmode' = tfmode
      BY <1>12 DEF EnvRun, SchedHalt, IInv, TypeOK
    <2>2. QED
      BY <2>1, Stutters DEF HasLock, Acquiring, Holding, Releasing
  <1>13. CASE UNCHANGED vars
    BY <1>13 DEF vars, Lock!vars, HasLock
  <1>14. QED
    BY <1>1, <1>2, <1>3, <1>4, <1>5, <1>6, <1>7, <1>8, <1>9, <1>10, <1>11,
       <1>12, <1>13
    DEF Lock!Next, Next, Step, SpinLock, SpinUnlock, Boot, TrapEntry, KernelExit

\* Safety half of ImplementsLock: every behaviour of the spinlock and of its
\* users is, seen through the mapping, a behaviour of the abstract lock.
THEOREM Refinement == Spec => Lock!SafetySpec
  BY Invariant, SpecIsSafe, RefineInit, RefineStep, PTL
  DEF SafetySpec, Lock!SafetySpec
=============================================================================
