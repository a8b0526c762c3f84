---------------------------- MODULE AbstractEnvs ----------------------------
(***************************************************************************)
(* What the kernel promises about environments and processors: the stages  *)
(* of the life of an environment, who moves it from one to the next, and   *)
(* that processors are given to the ready environments with the highest    *)
(* priority.  Kernel.tla shows that the environment table, the scheduler   *)
(* and the system calls implement this module.                             *)
(***************************************************************************)
EXTENDS Integers

CONSTANTS CPU,         \* the processors
          Slot,        \* the environments that can exist at a time
          Priorities,  \* integers
          None         \* what an idle processor executes

VARIABLES life,  \* the stage of each environment
          on,    \* the environment each CPU executes, or None
          prio   \* the priority of each environment

vars == <<life, on, prio>>

Stage == {"unused", "made", "ready", "running", "waiting", "killed"}

Init ==
  /\ life \in [Slot -> {"unused", "ready"}]
  /\ on = [c \in CPU |-> None]
  /\ prio \in [Slot -> Priorities]

Ready(l) == {e \in Slot : l[e] = "ready"}

\* The ready environments nobody is preferred to.
Top(l) == {e \in Ready(l) : \A f \in Ready(l) : prio[f] <= prio[e]}

\* In the stages l, c begins to execute e.
Give(c, l, e) ==
  /\ life' = [f \in Slot |-> IF f = e THEN "running" ELSE l[f]]
  /\ on' = [on EXCEPT ![c] = e]

\* c needs an environment, and is idle only when none is ready.
Dispatch(c, l) ==
  /\ \/ Ready(l) = {} /\ life' = l /\ on' = [on EXCEPT ![c] = None]
     \/ \E e \in Top(l) : Give(c, l, e)
  /\ UNCHANGED prio

\* c executes an environment that was not killed: only such a one acts.
Runs(c) == on[c] # None /\ life[on[c]] = "running"

Start(c) == on[c] = None /\ Dispatch(c, life)

\* The environment of c waits for a message.
Wait(c) == Runs(c) /\ Dispatch(c, [life EXCEPT ![on[c]] = "waiting"])

\* The environment of c exits, fails or has been killed.
End(c) == on[c] # None /\ Dispatch(c, [life EXCEPT ![on[c]] = "unused"])

\* c passes to another environment, never to one of lower priority.
Preempt(c) ==
  /\ Runs(c)
  /\ \E e \in Top(life) :
       prio[on[c]] <= prio[e] /\ Give(c, [life EXCEPT ![on[c]] = "ready"], e)
  /\ UNCHANGED prio

\* What the environment of c does to another one: create it, start it, send
\* it a message, destroy it at once or, on another CPU, by a mark.
Change == {<<"unused", "made">>, <<"made", "ready">>, <<"waiting", "ready">>,
           <<"made", "unused">>, <<"ready", "unused">>, <<"waiting", "unused">>,
           <<"running", "killed">>}

Manage(c, e) ==
  /\ Runs(c) /\ e # on[c]
  /\ \E new \in Stage : /\ <<life[e], new>> \in Change
                        /\ life' = [life EXCEPT ![e] = new]
  /\ UNCHANGED <<on, prio>>

SetPriority(c, e, p) ==
  /\ Runs(c)
  /\ prio' = [prio EXCEPT ![e] = p]
  /\ UNCHANGED <<life, on>>

Next == \E c \in CPU :
  \/ Start(c) \/ Wait(c) \/ End(c) \/ Preempt(c)
  \/ \E e \in Slot : Manage(c, e)
  \/ \E e \in Slot, p \in Priorities : SetPriority(c, e, p)

Spec == Init /\ [][Next]_vars
=============================================================================
