---------------------------- MODULE AbstractFork -----------------------------
(***************************************************************************)
(* What programs see of fork: each environment has a memory of its own,    *)
(* which a child gets a copy of, and some addresses are shared by all of   *)
(* them.  There are no pages, no copy-on-write and no page faults here.    *)
(***************************************************************************)
CONSTANTS Env, Root, Private, Shared, Value, None

VARIABLES
  memory,   \* the value at each private address of each environment, or None
  common,   \* the value at each shared address
  parent    \* for an environment that does not run yet, the one that forks it

vars == <<memory, common, parent>>

TypeOK ==
  /\ memory \in [Env -> [Private -> Value \cup {None}]]
  /\ common \in [Shared -> Value]
  /\ parent \in [Env -> Env \cup {None}]

Empty == [va \in Private |-> None]
Exists(e) == parent[e] # None \/ memory[e] # Empty
Runs(e) == parent[e] = None /\ memory[e] # Empty

Init ==
  /\ \E v \in Value : memory = [e \in Env |-> IF e = Root
                                  THEN [va \in Private |-> v] ELSE Empty]
  /\ common \in [Shared -> Value]
  /\ parent = [e \in Env |-> None]

\* A write changes the memory of the writer.  A child that is being copied from
\* it may get it too; one that runs does not.
Write(e, va, v) ==
  /\ Runs(e)
  /\ \E D \in SUBSET {d \in Env : parent[d] = e /\ memory[d][va] # None} :
       memory' = [f \in Env |-> IF f \in D \cup {e}
                                  THEN [memory[f] EXCEPT ![va] = v] ELSE memory[f]]
  /\ UNCHANGED <<common, parent>>

WriteShared(e, va, v) ==
  /\ Runs(e) /\ common' = [common EXCEPT ![va] = v]
  /\ UNCHANGED <<memory, parent>>

Fork(e, d) ==
  /\ Runs(e) /\ ~Exists(d)
  /\ parent' = [parent EXCEPT ![d] = e] /\ UNCHANGED <<memory, common>>

Copy(e, d, va) ==
  /\ parent[d] = e /\ memory' = [memory EXCEPT ![d][va] = memory[e][va]]
  /\ UNCHANGED <<common, parent>>

\* The child runs when all has been copied.
Start(e, d) ==
  /\ parent[d] = e /\ \A va \in Private : memory[d][va] # None
  /\ parent' = [parent EXCEPT ![d] = None] /\ UNCHANGED <<memory, common>>

\* With the last one the shared memory goes.
Exit(e) ==
  /\ Runs(e) /\ memory' = [memory EXCEPT ![e] = Empty]
  /\ common' \in [Shared -> Value]
  /\ (\E f \in Env \ {e} : Exists(f)) => UNCHANGED common
  /\ UNCHANGED parent

Next ==
  \/ \E e \in Env, v \in Value : \/ \E va \in Private : Write(e, va, v)
                                 \/ \E va \in Shared : WriteShared(e, va, v)
  \/ \E e, d \in Env : \/ Fork(e, d) \/ Start(e, d)
                       \/ \E va \in Private : Copy(e, d, va)
  \/ \E e \in Env : Exit(e)

\* Most steps of an implementation change nothing here.
Spec == Init /\ [][UNCHANGED vars \/ Next]_vars
=============================================================================
