----------------------------- MODULE PipeProofs -----------------------------
(***************************************************************************)
(* For any number of environments, descriptors and bytes, and any size of  *)
(* the buffer: a pipe keeps the order of its bytes, its reference counts   *)
(* tell open from closed outside a fork, and on one CPU _pipeisclosed does *)
(* not err then.                                                           *)
(***************************************************************************)
EXTENDS Pipe, FiniteSetTheorems, TLAPS

-----------------------------------------------------------------------------
\* Facts about the operators of Pipe.

LEMMA RefsSet ==
  ASSUME PipeAssumption, NEW A, IsFiniteSet(A)
  PROVE  /\ IsFiniteSet({m \in Env \X A : m[2] \in map[m[1]]})
         /\ Refs(A) \in Nat
<1>1. IsFiniteSet(Env \X A)
  BY FS_Product DEF PipeAssumption
<1>2. {m \in Env \X A : m[2] \in map[m[1]]} \subseteq Env \X A
  OBVIOUS
<1> QED
  BY <1>1, <1>2, FS_Subset, FS_CardinalityType DEF Refs

LEMMA FdFinite ==
  ASSUME PipeAssumption
  PROVE  /\ IsFiniteSet(Fd)
         /\ \A s \in Fd : IsFiniteSet(SameEnd(s)) /\ SameEnd(s) \subseteq Fd
         /\ IsFiniteSet({Data(s) : s \in Fd})
<1>1. IsFiniteSet(Fd)
  BY FS_Interval DEF PipeAssumption, Fd
<1>2. \A s \in Fd : SameEnd(s) \subseteq Fd
  BY DEF SameEnd
<1>3. {Data(s) : s \in Fd} \subseteq NFD .. 2 * NFD
  BY DEF PipeAssumption, Fd, Data
<1>4. IsFiniteSet(NFD .. 2 * NFD)
  BY FS_Interval DEF PipeAssumption
<1> QED
  BY <1>1, <1>2, <1>3, <1>4, FS_Subset

LEMMA CountsAreNumbers ==
  ASSUME PipeAssumption
  PROVE  PipeRefs \in Nat /\ \A s \in Fd : FdRefs(s) \in Nat
BY RefsSet, FdFinite DEF PipeRefs, FdRefs

\* Places of the buffer less than its size apart are different.
LEMMA Mod ==
  ASSUME NEW n \in Nat \ {0}, NEW a \in Nat, NEW b \in Nat, a < b, b < a + n
  PROVE  a % n # b % n
<1>1. a = n * (a \div n) + (a % n) /\ (a \div n) \in Int /\ a % n \in 0 .. n - 1
  OBVIOUS
<1>2. b = n * (b \div n) + (b % n) /\ (b \div n) \in Int
  OBVIOUS
<1> DEFINE q == (b \div n) - (a \div n)
<1>3. SUFFICES ASSUME a % n = b % n PROVE FALSE
  OBVIOUS
<1>4. q \in Int /\ b - a = n * q
  BY <1>1, <1>2, <1>3
<1> HIDE DEF q
<1>5. q <= 0 => n * q <= 0
  BY <1>4
<1>6. q >= 1 => n * q >= n
  BY <1>4
<1> QED
  BY <1>4, <1>5, <1>6

-----------------------------------------------------------------------------
\* The types.
Types ==
  /\ map \in [Env -> SUBSET Addr]
  /\ pc \in [Env -> Local]
  /\ running \subseteq Env /\ Cardinality(running) <= NCPU

USE PipeAssumption DEF PipeAssumption

LEMMA InitTypes == Init => Types
<1> SUFFICES ASSUME Init PROVE Types
  OBVIOUS
<1>1. map \in [Env -> SUBSET Addr]
  BY DEF Init, Addr, Data
<1>2. pc \in [Env -> Local]
  BY DEF Init, Idle, At, Local, Place, Fd
<1>3. running \subseteq Env /\ Cardinality(running) <= NCPU
  <2>1. Cardinality({Parent}) = 1
    BY FS_Singleton
  <2> QED
    BY <2>1 DEF Init
<1> QED
  BY <1>1, <1>2, <1>3 DEF Types

LEMMA PlacesTyped ==
  ASSUME NEW place \in Place, NEW s \in Fd
  PROVE  /\ At(place, s) \in Local
         /\ \A by \in {"idle", "read", "write"} : AtFor(place, s, by) \in Local
         /\ Idle \in Local
<1>1. At(place, s) \in Local /\ At("idle", 0) \in Local
  BY DEF At, Local, Fd, Place
<1> QED
  BY <1>1 DEF Idle, Local, At, AtFor

LEMMA StepTypes ==
  ASSUME Types, NEW e \in Env, NEW place, NEW next \in Local, Step(e, place, next)
  PROVE  /\ pc' \in [Env -> Local]
         /\ running' \subseteq Env /\ Cardinality(running') <= NCPU
BY DEF Types, Step

LEMMA UnmapTypes ==
  ASSUME Types, NEW e \in Env, NEW a \in Addr, Unmap(e, a) \/ Map(e, a) \/ UNCHANGED map
  PROVE  map' \in [Env -> SUBSET Addr]
BY DEF Types, Map, Unmap

LEMMA NextTypes == Types /\ [Next]_vars => Types'
<1> SUFFICES ASSUME Types, [Next]_vars PROVE Types'
  OBVIOUS
<1>0. CASE UNCHANGED vars
  BY <1>0 DEF Types, vars
<1>1. ASSUME NEW e \in Env, NEW f \in Env, EnvRun(e, f) PROVE Types'
  <2>1. \A b \in BOOLEAN : [pc[e] EXCEPT !.switched = b] \in Local
    <3>1. pc[e] \in Local
      BY DEF Types
    <3> QED
      BY <3>1 DEF Local
  <2>3. \E b \in BOOLEAN : pc' = [pc EXCEPT ![e] = [pc[e] EXCEPT !.switched = b]]
    <3>1. (pc[e].at \in Testing) \in BOOLEAN
      OBVIOUS
    <3>2. pc' = [pc EXCEPT ![e] = [pc[e] EXCEPT !.switched = (pc[e].at \in Testing)]]
      BY <1>1, Zenon DEF EnvRun
    <3> QED
      BY <3>1, <3>2, Zenon
  <2>4. pc' \in [Env -> Local]
    BY <2>1, <2>3 DEF Types
  <2>2. running' \subseteq Env /\ Cardinality(running') <= NCPU
    BY <1>1 DEF EnvRun, Types
  <2> QED
    BY <1>1, <2>4, <2>2 DEF Types, EnvRun
<1>2. ASSUME NEW e \in Env, NEW f \in Env, Fork(e, f) PROVE Types'
  <2>0. At("fork", 0) \in Local /\ map[e] \in SUBSET Addr
    BY PlacesTyped DEF Types, Fd, Place
  <2>1. [At("fork", 0) EXCEPT !.todo = map[e], !.child = f] \in Local
    BY <2>0 DEF Local
  <2>2. At("new", 0) \in Local
    BY PlacesTyped DEF Fd, Place
  <2>3. pc' \in [Env -> Local]
    BY <1>2, <2>1, <2>2 DEF Fork, Types
  <2> QED
    BY <1>2, <2>3 DEF Fork, Types
<1>3. ASSUME NEW e \in Env, NEW f \in Env, Exit(f, e) PROVE Types'
  <2>1. At("none", 0) \in Local
    BY PlacesTyped DEF Fd, Place
  <2>2. pc' \in [Env -> Local] /\ map' \in [Env -> SUBSET Addr]
    BY <1>3, <2>1 DEF Exit, Types
  <2>3. running' \subseteq running /\ IsFiniteSet(running)
    BY <1>3, FS_Subset DEF Exit, Types
  <2>4. Cardinality(running') <= Cardinality(running)
    BY <2>3, FS_Subset
  <2>5. Cardinality(running') \in Nat /\ Cardinality(running) \in Nat
    BY <2>3, FS_Subset, FS_CardinalityType
  <2> QED
    BY <2>2, <2>3, <2>4, <2>5 DEF Types
<1>4. ASSUME NEW e \in Env, NEW s \in Fd,
             Close(e, s) \/ Dup(e, s) \/ PipeIsClosed(e, s) \/ Read(e, s) \/ Write(e, s)
      PROVE Types'
  <2>1. \A place \in {"close", "dup", "test", "read", "write"} : At(place, s) \in Local
    BY PlacesTyped DEF Place
  <2>2. s \in Addr /\ Data(s) \in Addr
    BY DEF Fd, Addr, Data
  <2>3. \E next \in Local : Step(e, "idle", next)
    BY <1>4, <2>1 DEF Close, Dup, PipeIsClosed, Read, Write
  <2>4. \E a \in Addr : Unmap(e, a) \/ Map(e, a) \/ UNCHANGED map
    BY <1>4, <2>2 DEF Close, Dup, PipeIsClosed, Read, Write
  <2> QED
    BY <2>3, <2>4, StepTypes, UnmapTypes DEF Types
<1>5. ASSUME NEW e \in Env, DupPage(e) PROVE Types'
  <2>1. PICK a \in pc[e].todo :
          /\ Step(e, "fork", [pc[e] EXCEPT !.todo = @ \ {a}])
          /\ Map(pc[e].child, a)
    BY <1>5 DEF DupPage
  <2>2. pc[e] \in Local
    BY DEF Types
  <2>3. [pc[e] EXCEPT !.todo = @ \ {a}] \in Local /\ a \in Addr /\ pc[e].child \in Env
    BY <2>2 DEF Local
  <2> QED
    BY <2>1, <2>3, StepTypes, UnmapTypes DEF Types
<1>6. ASSUME NEW e \in Env, Start(e) PROVE Types'
  <2>1. Idle \in Local
    BY PlacesTyped DEF Fd, Place
  <2> QED
    BY <1>6, <2>1 DEF Start, Types
<1>7. ASSUME NEW e \in Env,
             \/ CloseData(e) \/ DupFd(e) \/ Closed(e) \/ CheckEmpty(e) \/ Take(e)
             \/ IncRpos(e) \/ CheckFull(e) \/ Store(e) \/ IncWpos(e)
      PROVE Types'
  <2>1. pc[e].fd \in Fd
    BY DEF Types, Local
  <2>2. \A place \in Place : /\ At(place, pc[e].fd) \in Local
                             /\ AtFor(place, pc[e].fd, "read") \in Local
                             /\ AtFor(place, pc[e].fd, "write") \in Local
    BY <2>1, PlacesTyped
  <2>3. Idle \in Local
    BY <2>1, PlacesTyped DEF Place
  <2>4. {"test", "take", "took", "store", "stored"} \subseteq Place
    BY DEF Place
  <2>5. \E place \in Place, next \in Local : Step(e, place, next)
    BY <1>7, <2>2, <2>3 DEF CloseData, DupFd, Closed, CheckEmpty, Take, IncRpos,
         CheckFull, Store, IncWpos, Place
  <2>6. pc[e].fd \in Addr /\ Data(pc[e].fd) \in Addr
    BY <2>1 DEF Fd, Addr, Data
  <2>7. \E a \in Addr : Unmap(e, a) \/ Map(e, a) \/ UNCHANGED map
    BY <1>7, <2>6 DEF CloseData, DupFd, Closed, CheckEmpty, Take, IncRpos,
         CheckFull, Store, IncWpos
  <2> QED
    BY <2>5, <2>7, StepTypes, UnmapTypes DEF Types
<1>8. ASSUME NEW e \in Env, ReadFdRefs(e) \/ ReadPipeRefs(e) \/ Compare(e) PROVE Types'
  <2>1. pc[e] \in Local /\ pc[e].fd \in Fd /\ pc[e].by \in {"idle", "read", "write"}
    BY DEF Types, Local
  <2>2. \A place \in Place, n \in Nat : [pc[e] EXCEPT !.at = place, !.val = n] \in Local
    BY <2>1 DEF Local
  <2>3. \A place \in Place : /\ At(place, pc[e].fd) \in Local
                             /\ At(place, 0) \in Local
                             /\ AtFor(place, pc[e].fd, pc[e].by) \in Local
    BY <2>1, PlacesTyped DEF Fd
  <2>4. NotClosed(pc[e]) \in Local
    BY <2>1, <2>3 DEF NotClosed, Place
  <2>5. \E place, next : next \in Local /\ Step(e, place, next)
    <3>1. CASE ReadFdRefs(e)
      BY <3>1, <2>1, <2>2, CountsAreNumbers DEF ReadFdRefs, Place
    <3>2. CASE ReadPipeRefs(e)
      BY <3>2, <2>1, <2>2, CountsAreNumbers DEF ReadPipeRefs, Place
    <3>3. CASE Compare(e)
      BY <3>3, <2>3, <2>4 DEF Compare, Place
    <3> QED
      BY <1>8, <3>1, <3>2, <3>3
  <2>6. UNCHANGED map
    BY <1>8 DEF ReadFdRefs, ReadPipeRefs, Compare
  <2> QED
    BY <2>5, <2>6, StepTypes DEF Types
<1> QED
  BY <1>0, <1>1, <1>2, <1>3, <1>4, <1>5, <1>6, <1>7, <1>8 DEF Next

-----------------------------------------------------------------------------
(* The order of the bytes.  The buffer holds the bytes from p_rpos to      *)
(* p_wpos - 1; only the reader moves p_rpos and only the writer p_wpos, so *)
(* what either has found out about the positions stays true.               *)
Buffer ==
  /\ p_rpos \in Nat /\ p_wpos \in Nat /\ p_wpos <= MaxBytes
  /\ p_rpos <= p_wpos /\ p_wpos <= p_rpos + PIPEBUFSIZ
  /\ p_buf \in [0 .. PIPEBUFSIZ - 1 -> 0 .. MaxBytes]
  /\ \A k \in p_rpos .. p_wpos - 1 : p_buf[k % PIPEBUFSIZ] = k

Knows(e, l) ==
  /\ l.at \in {"read", "take", "took"} \/ l.by = "read" => e = Reader
  /\ l.at \in {"write", "store", "stored"} \/ l.by = "write"
     => e = Writer /\ p_wpos < MaxBytes
  /\ l.at \in {"take", "took"} => p_rpos < p_wpos
  /\ l.at \in {"store", "stored"} => p_wpos < p_rpos + PIPEBUFSIZ
  /\ l.at = "stored" => p_buf[p_wpos % PIPEBUFSIZ] = p_wpos

Order == Buffer /\ \A e \in Env : Knows(e, pc[e])

OrderInv == Types /\ Order

LEMMA InitOrder == Init => Order
<1> SUFFICES ASSUME Init PROVE Order
  OBVIOUS
<1>1. Buffer
  BY DEF Init, Buffer
<1>2. \A e \in Env : pc[e].at \in {"idle", "none"} /\ pc[e].by = "idle"
  BY DEF Init, Idle, At
<1> QED
  BY <1>1, <1>2 DEF Order, Knows

\* A step of one environment that does not touch the buffer.
LEMMA QuietStep ==
  ASSUME Order, Types, NEW e \in Env, NEW place, NEW next, Step(e, place, next),
         UNCHANGED buffer, Knows(e, next)
  PROVE  Order'
<1>1. Buffer'
  BY DEF Order, Buffer, buffer
<1>2. \A f \in Env : Knows(f, pc'[f])
  BY DEF Order, Step, Types
<1>3. \A f \in Env : Knows(f, pc[f])'
  BY <1>2 DEF Knows, buffer
<1> QED
  BY <1>1, <1>3 DEF Order

\* The places at which an environment knows nothing of the buffer.
LEMMA KnowsNothing ==
  ASSUME NEW e, NEW place \in Place \ {"read", "take", "took", "write", "store", "stored"},
         NEW s
  PROVE  Knows(e, At(place, s)) /\ Knows(e, Idle)
BY DEF Knows, At, Idle

\* What an environment keeps when its place and the caller stay in _pipeisclosed.
LEMMA KnowsCaller ==
  ASSUME NEW e, NEW l, NEW m, Knows(e, l), m.by = l.by, m.at \in Testing \cup {"closed"}
  PROVE  Knows(e, m)
BY DEF Knows, Testing

LEMMA NextOrder == OrderInv /\ [Next]_vars => Order'
<1> SUFFICES ASSUME Types, Order, [Next]_vars PROVE Order'
  BY DEF OrderInv
<1>0. CASE UNCHANGED vars
  BY <1>0 DEF Order, Buffer, Knows, vars, buffer
<1>a. \A e \in Env : pc[e] \in Local /\ Knows(e, pc[e])
  BY DEF Types, Order
<1>1. ASSUME NEW e \in Env, NEW f \in Env, EnvRun(e, f) PROVE Order'
  <2>1. \A g \in Env : pc'[g].at = pc[g].at /\ pc'[g].by = pc[g].by
    BY <1>1, <1>a DEF EnvRun, Local, Types
  <2>2. UNCHANGED buffer
    BY <1>1 DEF EnvRun
  <2> QED
    BY <2>1, <2>2 DEF Order, Buffer, Knows, buffer
<1>2. ASSUME NEW e \in Env, NEW f \in Env, Fork(e, f) PROVE Order'
  <2>1. \A g \in Env : /\ pc'[g].at \in {pc[g].at, "fork", "new"}
                       /\ pc'[g].by \in {pc[g].by, "idle"}
    <3>1. /\ [At("fork", 0) EXCEPT !.todo = map[e], !.child = f].at = "fork"
          /\ [At("fork", 0) EXCEPT !.todo = map[e], !.child = f].by = "idle"
          /\ At("new", 0).at = "new" /\ At("new", 0).by = "idle"
      BY DEF At
    <3> QED
      BY <1>2, <3>1 DEF Fork, Types
  <2>2. UNCHANGED buffer
    BY <1>2 DEF Fork
  <2> QED
    BY <2>1, <2>2 DEF Order, Buffer, Knows, buffer
<1>3. ASSUME NEW e \in Env, NEW f \in Env, Exit(f, e) PROVE Order'
  <2>1. \A g \in Env : pc'[g] \in {pc[g], At("none", 0)}
    BY <1>3 DEF Exit, Types
  <2>2. \A g \in Env : Knows(g, pc'[g])
    BY <2>1, <1>a, KnowsNothing DEF Place
  <2>3. UNCHANGED buffer
    BY <1>3 DEF Exit
  <2> QED
    BY <2>2, <2>3 DEF Order, Buffer, Knows, buffer
<1>4. ASSUME NEW e \in Env, NEW s \in Fd, Close(e, s) \/ Dup(e, s) \/ PipeIsClosed(e, s)
      PROVE Order'
  <2>1. UNCHANGED buffer
    BY <1>4 DEF Close, Dup, PipeIsClosed
  <2>2. \E next : Step(e, "idle", next) /\ Knows(e, next)
    BY <1>4, KnowsNothing DEF Close, Dup, PipeIsClosed, Place
  <2> QED
    BY <2>1, <2>2, QuietStep
<1>5. ASSUME NEW e \in Env, NEW s \in Fd, Read(e, s) \/ Write(e, s) PROVE Order'
  <2>1. UNCHANGED buffer
    BY <1>5 DEF Read, Write
  <2>2. CASE Read(e, s)
    BY <2>1, <2>2, QuietStep DEF Read, Knows, At
  <2>3. CASE Write(e, s)
    BY <2>1, <2>3, QuietStep DEF Write, Knows, At
  <2> QED
    BY <1>5, <2>2, <2>3
<1>6. ASSUME NEW e \in Env, DupPage(e) PROVE Order'
  <2>1. PICK a : Step(e, "fork", [pc[e] EXCEPT !.todo = @ \ {a}])
    BY <1>6 DEF DupPage
  <2>2. Knows(e, [pc[e] EXCEPT !.todo = @ \ {a}])
    BY <1>a DEF Knows, Local
  <2>3. UNCHANGED buffer
    BY <1>6 DEF DupPage
  <2> QED
    BY <2>1, <2>2, <2>3, QuietStep
<1>7. ASSUME NEW e \in Env, Start(e) PROVE Order'
  <2>1. \A g \in Env : pc'[g] \in {pc[g], Idle}
    BY <1>7 DEF Start, Types
  <2>2. \A g \in Env : Knows(g, pc'[g])
    BY <2>1, <1>a DEF Knows, Idle, At
  <2>3. UNCHANGED buffer
    BY <1>7 DEF Start
  <2> QED
    BY <2>2, <2>3 DEF Order, Buffer, Knows, buffer
<1>8. ASSUME NEW e \in Env, CloseData(e) \/ DupFd(e) \/ Closed(e) PROVE Order'
  <2>1. UNCHANGED buffer
    BY <1>8 DEF CloseData, DupFd, Closed
  <2>2. \E place : Step(e, place, Idle)
    BY <1>8 DEF CloseData, DupFd, Closed
  <2>3. Knows(e, Idle)
    BY DEF Knows, Idle, At
  <2> QED
    BY <2>1, <2>2, <2>3, QuietStep
<1>9. ASSUME NEW e \in Env, ReadFdRefs(e) \/ ReadPipeRefs(e) PROVE Order'
  <2>1. UNCHANGED buffer
    BY <1>9 DEF ReadFdRefs, ReadPipeRefs
  <2>3. \A place \in Testing : \A n :
          Knows(e, [pc[e] EXCEPT !.at = place, !.val = n])
    <3> SUFFICES ASSUME NEW place \in Testing, NEW n
                 PROVE  Knows(e, [pc[e] EXCEPT !.at = place, !.val = n])
      OBVIOUS
    <3> DEFINE m == [pc[e] EXCEPT !.at = place, !.val = n]
    <3>1. m.by = pc[e].by /\ m.at = place
      BY <1>a DEF Local
    <3> HIDE DEF m
    <3>2. Knows(e, m)
      BY <3>1, <1>a, KnowsCaller
    <3> QED
      BY <3>2 DEF m
  <2>4. \E place, n : \E at \in Testing :
          Step(e, place, [pc[e] EXCEPT !.at = at, !.val = n])
    <3>1. CASE ReadFdRefs(e)
      BY <3>1 DEF ReadFdRefs, Testing
    <3>2. CASE ReadPipeRefs(e)
      BY <3>2 DEF ReadPipeRefs, Testing
    <3> QED
      BY <1>9, <3>1, <3>2
  <2> QED
    BY <2>1, <2>3, <2>4, QuietStep
<1>10. ASSUME NEW e \in Env, Compare(e) PROVE Order'
  <2>1. UNCHANGED buffer /\ pc[e].by \in {"idle", "read", "write"}
    BY <1>10, <1>a DEF Compare, Local
  <2>2. \A place \in {"test", "closed"} : Knows(e, AtFor(place, pc[e].fd, pc[e].by))
    BY <1>a DEF AtFor, At, Knows
  <2>3. Knows(e, NotClosed(pc[e]))
    BY <1>a, <2>1 DEF NotClosed, At, Knows
  <2>4. \E next : Step(e, "compare", next) /\ Knows(e, next)
    BY <1>10, <2>2, <2>3 DEF Compare
  <2> QED
    BY <2>1, <2>4, QuietStep
<1>11. ASSUME NEW e \in Env, CheckEmpty(e) \/ CheckFull(e) \/ Take(e) PROVE Order'
  <2>1. UNCHANGED buffer /\ Buffer /\ Knows(e, pc[e])
    BY <1>11, <1>a DEF CheckEmpty, CheckFull, Take, Order
  <2>2. CASE CheckEmpty(e)
    <3>1. PICK next : Step(e, "read", next) /\ next = IF p_rpos = p_wpos
                     THEN AtFor("test", pc[e].fd, "read")
                     ELSE At("take", pc[e].fd)
      BY <2>2 DEF CheckEmpty
    <3>2. pc[e].at = "read"
      BY <3>1 DEF Step
    <3>3. Knows(e, next)
      BY <2>1, <3>1, <3>2 DEF Knows, Buffer, At, AtFor
    <3> QED
      BY <2>1, <3>1, <3>3, QuietStep
  <2>3. CASE CheckFull(e)
    <3>1. PICK next : Step(e, "write", next) /\ next = IF p_wpos >= p_rpos + PIPEBUFSIZ
                      THEN AtFor("test", pc[e].fd, "write")
                      ELSE At("store", pc[e].fd)
      BY <2>3 DEF CheckFull
    <3>2. pc[e].at = "write"
      BY <3>1 DEF Step
    <3>3. Knows(e, next)
      BY <2>1, <3>1, <3>2 DEF Knows, Buffer, At, AtFor
    <3> QED
      BY <2>1, <3>1, <3>3, QuietStep
  <2>4. CASE Take(e)
    <3>1. Step(e, "take", At("took", pc[e].fd)) /\ pc[e].at = "take"
      BY <2>4 DEF Take, Step
    <3>2. Knows(e, At("took", pc[e].fd))
      BY <2>1, <3>1 DEF Knows, At
    <3> QED
      BY <2>1, <3>1, <3>2, QuietStep
  <2> QED
    BY <1>11, <2>2, <2>3, <2>4
<1>12. ASSUME NEW e \in Env, IncRpos(e) PROVE Order'
  <2>1. /\ pc[e].at = "took" /\ p_rpos' = p_rpos + 1
        /\ p_wpos' = p_wpos /\ p_buf' = p_buf
        /\ pc' = [pc EXCEPT ![e] = Idle]
    BY <1>12 DEF IncRpos, Step
  <2>2. e = Reader /\ p_rpos < p_wpos /\ Buffer
    BY <2>1, <1>a DEF Knows, Order
  <2>3. Buffer'
    <3>1. ASSUME NEW k \in p_rpos' .. p_wpos' - 1
          PROVE  p_buf'[k % PIPEBUFSIZ] = k
      <4>1. k \in p_rpos .. p_wpos - 1
        BY <2>1, <2>2 DEF Buffer
      <4> QED
        BY <4>1, <2>1, <2>2 DEF Buffer
    <3>2. /\ p_rpos' \in Nat /\ p_wpos' \in Nat /\ p_wpos' <= MaxBytes
          /\ p_rpos' <= p_wpos' /\ p_wpos' <= p_rpos' + PIPEBUFSIZ
          /\ p_buf' \in [0 .. PIPEBUFSIZ - 1 -> 0 .. MaxBytes]
      BY <2>1, <2>2 DEF Buffer
    <3> QED
      BY <3>1, <3>2 DEF Buffer
  <2>4. pc'[e] = Idle /\ \A g \in Env \ {e} : pc'[g] = pc[g]
    BY <2>1 DEF Types
  <2>5. Knows(e, pc[e])'
    BY <2>4 DEF Knows, Idle, At
  <2>6. \A g \in Env \ {e} : Knows(g, pc[g])'
    BY <2>1, <2>2, <2>4, <1>a DEF Knows, Buffer
  <2> QED
    BY <2>3, <2>5, <2>6 DEF Order
<1>13. ASSUME NEW e \in Env, IncWpos(e) PROVE Order'
  <2>1. /\ pc[e].at = "stored" /\ p_wpos' = p_wpos + 1
        /\ p_rpos' = p_rpos /\ p_buf' = p_buf
        /\ pc' = [pc EXCEPT ![e] = Idle]
    BY <1>13 DEF IncWpos, Step
  <2>2. /\ e = Writer /\ p_wpos < MaxBytes /\ p_wpos < p_rpos + PIPEBUFSIZ
        /\ p_buf[p_wpos % PIPEBUFSIZ] = p_wpos /\ Buffer
    BY <2>1, <1>a DEF Knows, Order
  <2>3. Buffer'
    <3>1. ASSUME NEW k \in p_rpos' .. p_wpos' - 1
          PROVE  p_buf'[k % PIPEBUFSIZ] = k
      <4>1. k \in p_rpos .. p_wpos - 1 \/ k = p_wpos
        BY <2>1, <2>2 DEF Buffer
      <4> QED
        BY <4>1, <2>1, <2>2 DEF Buffer
    <3>2. /\ p_rpos' \in Nat /\ p_wpos' \in Nat /\ p_wpos' <= MaxBytes
          /\ p_rpos' <= p_wpos' /\ p_wpos' <= p_rpos' + PIPEBUFSIZ
          /\ p_buf' \in [0 .. PIPEBUFSIZ - 1 -> 0 .. MaxBytes]
      BY <2>1, <2>2 DEF Buffer
    <3> QED
      BY <3>1, <3>2 DEF Buffer
  <2>4. pc'[e] = Idle /\ \A g \in Env \ {e} : pc'[g] = pc[g]
    BY <2>1 DEF Types
  <2>5. Knows(e, pc[e])'
    BY <2>4 DEF Knows, Idle, At
  <2>6. \A g \in Env \ {e} : Knows(g, pc[g])'
    BY <2>1, <2>2, <2>4, <1>a DEF Knows, Buffer
  <2> QED
    BY <2>3, <2>5, <2>6 DEF Order
<1>14. ASSUME NEW e \in Env, Store(e) PROVE Order'
  <2>1. /\ pc[e].at = "store" /\ p_buf' = [p_buf EXCEPT ![p_wpos % PIPEBUFSIZ] = p_wpos]
        /\ p_rpos' = p_rpos /\ p_wpos' = p_wpos
        /\ pc' = [pc EXCEPT ![e] = At("stored", pc[e].fd)]
    BY <1>14 DEF Store, Step
  <2>2. e = Writer /\ p_wpos < MaxBytes /\ p_wpos < p_rpos + PIPEBUFSIZ /\ Buffer
    BY <2>1, <1>a DEF Knows, Order
  <2>3. p_wpos % PIPEBUFSIZ \in 0 .. PIPEBUFSIZ - 1
    BY <2>2 DEF Buffer
  <2>4. \A k \in p_rpos .. p_wpos - 1 : k % PIPEBUFSIZ # p_wpos % PIPEBUFSIZ
    <3> SUFFICES ASSUME NEW k \in p_rpos .. p_wpos - 1
                 PROVE  k % PIPEBUFSIZ # p_wpos % PIPEBUFSIZ
      OBVIOUS
    <3>1. k \in Nat /\ p_wpos \in Nat /\ k < p_wpos /\ p_wpos < k + PIPEBUFSIZ
      BY <2>2 DEF Buffer
    <3> QED
      BY <3>1, Mod
  <2>5. p_buf' \in [0 .. PIPEBUFSIZ - 1 -> 0 .. MaxBytes]
    BY <2>1, <2>2 DEF Buffer
  <2>6. \A k \in p_rpos .. p_wpos - 1 : p_buf'[k % PIPEBUFSIZ] = k
    <3> SUFFICES ASSUME NEW k \in p_rpos .. p_wpos - 1
                 PROVE  p_buf'[k % PIPEBUFSIZ] = k
      OBVIOUS
    <3>1. k \in Nat /\ k % PIPEBUFSIZ \in 0 .. PIPEBUFSIZ - 1
      BY <2>2 DEF Buffer
    <3> QED
      BY <3>1, <2>1, <2>2, <2>4 DEF Buffer
  <2>7. Buffer'
    BY <2>1, <2>2, <2>5, <2>6 DEF Buffer
  <2>8. /\ p_buf'[p_wpos % PIPEBUFSIZ] = p_wpos
        /\ pc'[e] = At("stored", pc[e].fd) /\ \A g \in Env \ {e} : pc'[g] = pc[g]
    BY <2>1, <2>2, <2>3 DEF Types, Buffer
  <2>9. Knows(e, pc[e])'
    BY <2>1, <2>2, <2>8 DEF Knows, At
  <2>10. \A g \in Env \ {e} : Knows(g, pc[g])'
    BY <2>1, <2>2, <2>8, <1>a DEF Knows
  <2> QED
    BY <2>7, <2>9, <2>10 DEF Order
<1> QED
  BY <1>0, <1>1, <1>2, <1>3, <1>4, <1>5, <1>6, <1>7, <1>8, <1>9, <1>10, <1>11,
     <1>12, <1>13, <1>14 DEF Next

\* Positions, buffer and what the two sides know of them, in every state.
LEMMA OrderInductive == Spec => []OrderInv
<1>1. Init => OrderInv
  BY InitTypes, InitOrder DEF OrderInv
<1>2. OrderInv /\ [Next]_vars => OrderInv'
  BY NextTypes, NextOrder DEF OrderInv
<1> QED
  BY <1>1, <1>2, PTL DEF Spec

\* Every variable of a pipe keeps its type, whatever the environments do with
\* it: in particular no position passes the bytes written.
THEOREM TypeCorrect == Spec => []TypeOK
<1>1. OrderInv => TypeOK
  BY DEF OrderInv, Types, Order, Buffer, TypeOK
<1> QED
  BY <1>1, OrderInductive, PTL

\* devpipe_read takes the bytes that devpipe_write stored, each once and in
\* order, for every size of the buffer and any interleaving of the two.
THEOREM BytesInOrder == Spec => []InOrder
<1>1. OrderInv => InOrder
  <2> SUFFICES ASSUME OrderInv, NEW e \in Env, pc[e].at = "take"
               PROVE  p_rpos < p_wpos /\ p_buf[p_rpos % PIPEBUFSIZ] = p_rpos
    BY DEF InOrder
  <2>1. p_rpos < p_wpos
    BY DEF OrderInv, Order, Knows
  <2>2. p_rpos \in p_rpos .. p_wpos - 1
    BY <2>1 DEF OrderInv, Order, Buffer
  <2> QED
    BY <2>1, <2>2 DEF OrderInv, Order, Buffer
<1> QED
  BY <1>1, OrderInductive, PTL

-----------------------------------------------------------------------------
(* The counts.  Who has a descriptor has the pipe page that belongs to it, *)
(* except a child that is still being made: there the missing pages are    *)
(* yet to be copied, because they come after the descriptor.               *)
Whole(M) == \A s \in Fd : s \in M => Data(s) \in M

\* Of an environment that is not in a fork.
Holds(l, M) ==
  /\ l.at # "new" => Whole(M)
  /\ l.at = "close" => l.fd \notin M
  /\ l.at = "dup" => Data(l.fd) \in M
  /\ l.at = "none" => M = {}

\* Of one that is: todo is to be added to C, the child's pages.
Copies(todo, M, C) ==
  /\ todo \subseteq M /\ Whole(todo)
  /\ \A s \in Fd : s \in C => Data(s) \in C \cup todo

Forks(e) == pc[e].at = "fork"

Held ==
  /\ \A e \in Env : Holds(pc[e], map[e])
  /\ \A e \in Env : Forks(e) => /\ pc[pc[e].child].at = "new"
                                /\ Copies(pc[e].todo, map[e], map[pc[e].child])
  /\ \A e, g \in Env : Forks(e) /\ Forks(g) /\ pc[e].child = pc[g].child => e = g

HeldInv == Types /\ Held

LEMMA DataFacts ==
  /\ \A s \in Fd : s \in Addr /\ Data(s) \in Addr /\ s < Data(s) /\ Data(s) \notin Fd
  /\ \A s, t \in Fd : Data(s) = Data(t) => s = t
BY DEF Fd, Addr, Data

LEMMA InitHeld == Init => Held
<1> SUFFICES ASSUME Init PROVE Held
  OBVIOUS
<1>1. \A e \in Env : pc[e].at \in {"idle", "none"} /\ (pc[e].at = "none" => map[e] = {})
  BY DEF Init, Idle, At
<1>2. \A e \in Env : Whole(map[e])
  BY DEF Init, Whole, Data, Fd
<1> QED
  BY <1>1, <1>2 DEF Held, Holds, Forks

\* A step of an environment that makes no child, which leaves it with M.
LEMMA PlainStep ==
  ASSUME Types, Held, NEW e \in Env, NEW next,
         pc' = [pc EXCEPT ![e] = next], pc[e].at # "new",
         next.at \notin {"new", "fork"},
         NEW M, map' = [map EXCEPT ![e] = M], Holds(next, M)
  PROVE  Held'
<1>1. pc'[e] = next /\ map'[e] = M
  BY DEF Types
<1>2. \A g \in Env \ {e} : pc'[g] = pc[g] /\ map'[g] = map[g]
  BY DEF Types
<1>3. \A g \in Env : Holds(pc'[g], map'[g])
  BY <1>1, <1>2 DEF Held
<1>4. ASSUME NEW g \in Env, pc'[g].at = "fork"
      PROVE  /\ pc'[g] = pc[g] /\ Forks(g) /\ map'[g] = map[g]
             /\ pc[g].child \in Env \ {e}
             /\ pc'[pc[g].child] = pc[pc[g].child]
             /\ map'[pc[g].child] = map[pc[g].child]
  <2>1. g # e /\ pc'[g] = pc[g] /\ map'[g] = map[g] /\ Forks(g)
    BY <1>1, <1>2, <1>4 DEF Forks
  <2>2. pc[g].child \in Env
    BY DEF Types, Local
  <2>3. pc[g].child # e
    BY <2>1 DEF Held
  <2> QED
    BY <1>2, <2>1, <2>2, <2>3
<1>5. \A g \in Env : pc'[g].at = "fork" =>
         /\ pc'[pc'[g].child].at = "new"
         /\ Copies(pc'[g].todo, map'[g], map'[pc'[g].child])
  BY <1>4 DEF Held
<1>6. \A g, h \in Env : pc'[g].at = "fork" /\ pc'[h].at = "fork"
                        /\ pc'[g].child = pc'[h].child => g = h
  BY <1>4 DEF Held
<1> QED
  BY <1>3, <1>5, <1>6 DEF Held, Forks

LEMMA NextHeld == HeldInv /\ [Next]_vars => Held'
<1> SUFFICES ASSUME Types, Held, [Next]_vars PROVE Held'
  BY DEF HeldInv
<1>0. CASE UNCHANGED vars
  BY <1>0 DEF Held, Forks, vars
<1>a. \A e \in Env : /\ pc[e] \in Local /\ Holds(pc[e], map[e])
                     /\ pc[e].child \in Env /\ pc[e].fd \in Fd
  BY DEF Types, Held, Local
<1>1. ASSUME NEW e \in Env, NEW f \in Env, EnvRun(e, f) PROVE Held'
  <2>1. \A g \in Env : /\ pc'[g].at = pc[g].at /\ pc'[g].fd = pc[g].fd
                       /\ pc'[g].todo = pc[g].todo /\ pc'[g].child = pc[g].child
    BY <1>1, <1>a DEF EnvRun, Local, Types
  <2>2. UNCHANGED map
    BY <1>1 DEF EnvRun
  <2> QED
    BY <2>1, <2>2, <1>a DEF Held, Holds, Forks
<1>2. ASSUME NEW e \in Env, NEW f \in Env, Fork(e, f) PROVE Held'
  <2> DEFINE l == [At("fork", 0) EXCEPT !.todo = map[e], !.child = f]
  <2>1. /\ l.at = "fork" /\ l.todo = map[e] /\ l.child = f
        /\ At("new", 0).at = "new"
    BY DEF At
  <2>2. /\ pc[f].at = "none" /\ pc[e].at = "idle" /\ UNCHANGED map
        /\ pc' = [pc EXCEPT ![e] = l, ![f] = At("new", 0)]
    BY <1>2 DEF Fork
  <2> HIDE DEF l
  <2>3. /\ pc'[e] = l /\ pc'[f] = At("new", 0) /\ e # f
        /\ \A g \in Env \ {e, f} : pc'[g] = pc[g]
    BY <2>2 DEF Types
  <2>4. map[f] = {} /\ Whole(map[e])
    BY <2>2, <1>a DEF Holds
  <2>5. \A g \in Env : Holds(pc'[g], map'[g])
    BY <2>1, <2>2, <2>3, <2>4, <1>a DEF Holds
  <2>6. \A g \in Env : Forks(g) => g \notin {e, f} /\ pc[g].child \notin {e, f}
    BY <2>2 DEF Held, Forks
  <2>7. \A g \in Env : pc'[g].at = "fork" => g = e \/ (Forks(g) /\ g \in Env \ {e, f})
    BY <2>1, <2>3 DEF Forks
  <2>8. Copies(l.todo, map[e], map[f])
    BY <2>1, <2>4 DEF Copies
  <2>9. \A g \in Env : pc'[g].at = "fork" =>
          /\ pc'[pc'[g].child].at = "new"
          /\ Copies(pc'[g].todo, map'[g], map'[pc'[g].child])
    <3> SUFFICES ASSUME NEW g \in Env, pc'[g].at = "fork"
                 PROVE  /\ pc'[pc'[g].child].at = "new"
                        /\ Copies(pc'[g].todo, map'[g], map'[pc'[g].child])
      OBVIOUS
    <3>1. CASE g = e
      BY <3>1, <2>1, <2>2, <2>3, <2>8
    <3>2. CASE g # e
      <4>1. Forks(g) /\ pc'[g] = pc[g] /\ pc[g].child \in Env \ {e, f}
        BY <3>2, <2>3, <2>6, <2>7, <1>a
      <4>2. pc'[pc[g].child] = pc[pc[g].child]
        BY <4>1, <2>3
      <4> QED
        BY <4>1, <4>2, <2>2 DEF Held
    <3> QED
      BY <3>1, <3>2
  <2>10. \A g, h \in Env : pc'[g].at = "fork" /\ pc'[h].at = "fork"
                           /\ pc'[g].child = pc'[h].child => g = h
    BY <2>1, <2>3, <2>6, <2>7 DEF Held
  <2> QED
    BY <2>5, <2>9, <2>10 DEF Held, Forks
<1>3. ASSUME NEW e \in Env, NEW f \in Env, Exit(f, e) PROVE Held'
  <2>1. Holds(At("none", 0), {}) /\ At("none", 0).at = "none"
    BY DEF Holds, At, Whole
  <2> QED
    BY <1>3, <2>1, PlainStep DEF Exit, Started
<1>4. ASSUME NEW e \in Env, NEW s \in Fd, Close(e, s) PROVE Held'
  <2>1. pc[e].at = "idle" /\ pc' = [pc EXCEPT ![e] = At("close", s)]
        /\ map' = [map EXCEPT ![e] = map[e] \ {s}]
    BY <1>4 DEF Close, Step, Unmap
  <2>2. Whole(map[e] \ {s})
    BY <2>1, <1>a, DataFacts DEF Holds, Whole
  <2>3. Holds(At("close", s), map[e] \ {s}) /\ At("close", s).at = "close"
    BY <2>2 DEF Holds, At
  <2> QED
    BY <2>1, <2>3, PlainStep
<1>5. ASSUME NEW e \in Env, NEW s \in Fd, Dup(e, s) PROVE Held'
  <2>1. pc[e].at = "idle" /\ pc' = [pc EXCEPT ![e] = At("dup", s)]
        /\ map' = [map EXCEPT ![e] = map[e] \cup {Data(s)}]
    BY <1>5 DEF Dup, Step, Map
  <2>2. Whole(map[e] \cup {Data(s)})
    BY <2>1, <1>a, DataFacts DEF Holds, Whole
  <2>3. Holds(At("dup", s), map[e] \cup {Data(s)}) /\ At("dup", s).at = "dup"
    BY <2>2 DEF Holds, At
  <2> QED
    BY <2>1, <2>3, PlainStep
<1>6. ASSUME NEW e \in Env, CloseData(e) PROVE Held'
  <2>1. pc[e].at = "close" /\ pc' = [pc EXCEPT ![e] = Idle]
        /\ map' = [map EXCEPT ![e] = map[e] \ {Data(pc[e].fd)}]
    BY <1>6 DEF CloseData, Step, Unmap
  <2>2. Whole(map[e] \ {Data(pc[e].fd)})
    BY <2>1, <1>a, DataFacts DEF Holds, Whole
  <2>3. Holds(Idle, map[e] \ {Data(pc[e].fd)}) /\ Idle.at = "idle"
    BY <2>2 DEF Holds, Idle, At
  <2> QED
    BY <2>1, <2>3, PlainStep
<1>7. ASSUME NEW e \in Env, DupFd(e) PROVE Held'
  <2>1. pc[e].at = "dup" /\ pc' = [pc EXCEPT ![e] = Idle]
        /\ map' = [map EXCEPT ![e] = map[e] \cup {pc[e].fd}]
    BY <1>7 DEF DupFd, Step, Map
  <2>2. Whole(map[e] \cup {pc[e].fd})
    BY <2>1, <1>a DEF Holds, Whole
  <2>3. Holds(Idle, map[e] \cup {pc[e].fd}) /\ Idle.at = "idle"
    BY <2>2 DEF Holds, Idle, At
  <2> QED
    BY <2>1, <2>3, PlainStep
<1>8. ASSUME NEW e \in Env, DupPage(e) PROVE Held'
  <2> DEFINE c == pc[e].child
  <2>1. PICK a \in pc[e].todo :
          /\ \A b \in pc[e].todo : a <= b
          /\ Step(e, "fork", [pc[e] EXCEPT !.todo = @ \ {a}])
          /\ Map(c, a)
    BY <1>8 DEF DupPage
  <2> DEFINE l == [pc[e] EXCEPT !.todo = @ \ {a}]
  <2>2. l.at = "fork" /\ l.todo = pc[e].todo \ {a} /\ l.child = c
    BY <2>1, <1>a DEF Step, Local
  <2>3. /\ Forks(e) /\ pc' = [pc EXCEPT ![e] = l]
        /\ map' = [map EXCEPT ![c] = map[c] \cup {a}]
    BY <2>1 DEF Step, Map, Forks
  <2>4. c \in Env /\ pc[c].at = "new" /\ Copies(pc[e].todo, map[e], map[c])
        /\ c # e
    BY <2>3, <1>a DEF Held, Forks
  <2> HIDE DEF l, c
  <2>5. /\ pc'[e] = l /\ \A g \in Env \ {e} : pc'[g] = pc[g]
        /\ map'[c] = map[c] \cup {a} /\ \A g \in Env \ {c} : map'[g] = map[g]
    BY <2>3, <2>4 DEF Types
  <2>6. Copies(pc[e].todo \ {a}, map[e], map[c] \cup {a})
    <3>1. pc[e].todo \subseteq Addr
      BY <1>a DEF Local
    <3>2. \A s \in Fd : s \in pc[e].todo => Data(s) \in pc[e].todo /\ a # Data(s)
      BY <2>1, <2>4, <3>1, DataFacts DEF Copies, Whole, Addr, Fd, Data
    <3>3. Whole(pc[e].todo \ {a})
      BY <3>2 DEF Whole
    <3>4. \A s \in Fd : s = a => Data(s) \in pc[e].todo \ {a}
      BY <3>2, <2>1
    <3> QED
      BY <2>4, <3>3, <3>4 DEF Copies
  <2>7. \A g \in Env : Holds(pc'[g], map'[g])
    <3>1. Holds(pc'[e], map'[e])
      BY <2>2, <2>3, <2>4, <2>5, <1>a DEF Holds, Forks
    <3>2. Holds(pc'[c], map'[c])
      BY <2>4, <2>5 DEF Holds
    <3> QED
      BY <3>1, <3>2, <2>5, <1>a
  <2>8. \A g \in Env : pc'[g].at = "fork" =>
          /\ Forks(g) /\ pc'[g].child = pc[g].child /\ (g # e => pc[g].child # c)
    BY <2>2, <2>3, <2>5 DEF Held, Forks, c
  <2>9. \A g \in Env : pc'[g].at = "fork" =>
          /\ pc'[pc'[g].child].at = "new"
          /\ Copies(pc'[g].todo, map'[g], map'[pc'[g].child])
    <3> SUFFICES ASSUME NEW g \in Env, pc'[g].at = "fork"
                 PROVE  /\ pc'[pc'[g].child].at = "new"
                        /\ Copies(pc'[g].todo, map'[g], map'[pc'[g].child])
      OBVIOUS
    <3>1. CASE g = e
      BY <3>1, <2>2, <2>4, <2>5, <2>6
    <3>2. CASE g # e
      <4>1. Forks(g) /\ pc[g].child \in Env \ {c} /\ pc[pc[g].child].at = "new"
        BY <3>2, <2>8, <1>a DEF Held
      <4>2. g # c /\ pc[g].child # e
        BY <4>1, <2>3, <2>4 DEF Forks
      <4> QED
        BY <3>2, <4>1, <4>2, <2>5 DEF Held
    <3> QED
      BY <3>1, <3>2
  <2>10. \A g, h \in Env : pc'[g].at = "fork" /\ pc'[h].at = "fork"
                           /\ pc'[g].child = pc'[h].child => g = h
    BY <2>8 DEF Held
  <2> QED
    BY <2>7, <2>9, <2>10 DEF Held, Forks
<1>9. ASSUME NEW e \in Env, Start(e) PROVE Held'
  <2> DEFINE c == pc[e].child
  <2>1. /\ Forks(e) /\ pc[e].todo = {} /\ UNCHANGED map
        /\ pc' = [pc EXCEPT ![e] = Idle, ![c] = Idle]
    BY <1>9 DEF Start, Forks
  <2>2. c \in Env /\ pc[c].at = "new" /\ Copies({}, map[e], map[c])
    BY <2>1, <1>a DEF Held
  <2> HIDE DEF c
  <2>3. pc'[e] = Idle /\ pc'[c] = Idle /\ \A g \in Env \ {e, c} : pc'[g] = pc[g]
    BY <2>1, <2>2 DEF Types
  <2>4. Whole(map[c]) /\ Whole(map[e])
    BY <2>1, <2>2, <1>a DEF Copies, Whole, Holds, Forks
  <2>5. \A g \in Env : Holds(pc'[g], map'[g])
    <3>1. Idle.at = "idle"
      BY DEF Idle, At
    <3>2. Holds(Idle, map[c]) /\ Holds(Idle, map[e])
      BY <3>1, <2>4 DEF Holds
    <3> QED
      BY <3>2, <2>1, <2>3, <1>a
  <2>6. \A g \in Env : pc'[g].at = "fork" =>
          /\ g \in Env \ {e, c} /\ Forks(g) /\ pc'[g] = pc[g]
          /\ pc[g].child \in Env \ {e, c}
    <3>1. \A g \in Env : pc'[g].at = "fork" => g \in Env \ {e, c} /\ Forks(g)
      BY <2>3 DEF Idle, At, Forks
    <3>2. \A g \in Env : Forks(g) => pc[g].child # e
      BY <2>1 DEF Held, Forks
    <3>3. \A g \in Env \ {e} : Forks(g) => pc[g].child # c
      BY <2>1 DEF Held, c
    <3> QED
      BY <3>1, <3>2, <3>3, <2>3, <1>a
  <2>7. \A g \in Env : pc'[g].at = "fork" =>
          /\ pc'[pc'[g].child].at = "new"
          /\ Copies(pc'[g].todo, map'[g], map'[pc'[g].child])
    <3> SUFFICES ASSUME NEW g \in Env, pc'[g].at = "fork"
                 PROVE  /\ pc'[pc'[g].child].at = "new"
                        /\ Copies(pc'[g].todo, map'[g], map'[pc'[g].child])
      OBVIOUS
    <3>1. /\ Forks(g) /\ pc'[g] = pc[g]
          /\ pc'[pc[g].child] = pc[pc[g].child]
      BY <2>3, <2>6
    <3> QED
      BY <3>1, <2>1 DEF Held
  <2>8. \A g, h \in Env : pc'[g].at = "fork" /\ pc'[h].at = "fork"
                          /\ pc'[g].child = pc'[h].child => g = h
    BY <2>6 DEF Held
  <2> QED
    BY <2>5, <2>7, <2>8 DEF Held, Forks
<1>10. ASSUME NEW e \in Env, NEW place \in Place \ {"new", "none", "fork", "close", "dup"},
              NEW next, next.at \in Place \ {"new", "none", "fork", "close", "dup"},
              Step(e, place, next), UNCHANGED map
       PROVE  Held'
  <2>1. Holds(next, map[e])
    BY <1>10, <1>a DEF Holds, Step
  <2>2. map' = [map EXCEPT ![e] = map[e]]
    BY <1>10 DEF Types
  <2> QED
    BY <1>10, <2>1, <2>2, PlainStep DEF Step
<1>11. ASSUME NEW e \in Env, NEW s \in Fd, PipeIsClosed(e, s) \/ Read(e, s) \/ Write(e, s)
       PROVE  Held'
  <2>1. \A place \in Place : At(place, s).at = place
    BY DEF At
  <2> QED
    BY <1>10, <1>11, <2>1 DEF PipeIsClosed, Read, Write, Place
<1>12. ASSUME NEW e \in Env, ReadFdRefs(e) \/ ReadPipeRefs(e) PROVE Held'
  <2>1. \A at \in Testing : \A n : [pc[e] EXCEPT !.at = at, !.val = n].at \in Testing
    BY <1>a DEF Local
  <2>2. UNCHANGED map
    BY <1>12 DEF ReadFdRefs, ReadPipeRefs
  <2>3. \E place \in Testing, at \in Testing : \E n :
          Step(e, place, [pc[e] EXCEPT !.at = at, !.val = n])
    <3>1. CASE ReadFdRefs(e)
      BY <3>1 DEF ReadFdRefs, Testing
    <3>2. CASE ReadPipeRefs(e)
      BY <3>2 DEF ReadPipeRefs, Testing
    <3> QED
      BY <1>12, <3>1, <3>2
  <2>4. Testing \subseteq Place \ {"new", "none", "fork", "close", "dup"}
    BY DEF Testing, Place
  <2> QED
    BY <1>10, <2>1, <2>2, <2>3, <2>4
<1>13. ASSUME NEW e \in Env, \/ Compare(e) \/ Closed(e) \/ CheckEmpty(e) \/ Take(e)
                             \/ IncRpos(e) \/ CheckFull(e) \/ Store(e) \/ IncWpos(e)
       PROVE  Held'
  <2> DEFINE Plain == {"idle", "test", "compare", "closed", "read", "take", "took",
                       "write", "store", "stored"}
  <2>1. \A place, s, by : /\ At(place, s).at = place
                          /\ AtFor(place, s, by).at = place
                          /\ Idle.at = "idle"
    BY DEF At, AtFor, Idle
  <2>2. NotClosed(pc[e]).at \in {"idle", "read", "write"}
    BY <2>1, <1>a DEF NotClosed, Local
  <2>3. UNCHANGED map
    BY <1>13 DEF Compare, Closed, CheckEmpty, Take, IncRpos, CheckFull, Store, IncWpos
  <2>4. \E place \in Plain : \E next : next.at \in Plain /\ Step(e, place, next)
    <3>1. CASE Compare(e)
      BY <3>1, <2>1, <2>2 DEF Compare
    <3>2. CASE ~Compare(e)
      BY <1>13, <3>2, <2>1 DEF Closed, CheckEmpty, Take, IncRpos, CheckFull, Store,
           IncWpos
    <3> QED
      BY <3>1, <3>2
  <2>5. Plain \subseteq Place \ {"new", "none", "fork", "close", "dup"}
    BY DEF Place
  <2> QED
    BY <1>10, <2>3, <2>4, <2>5
<1> QED
  BY <1>0, <1>1, <1>2, <1>3, <1>4, <1>5, <1>6, <1>7, <1>8, <1>9, <1>11, <1>12, <1>13
     DEF Next

\* What close, dup and fork keep between their steps, in every state.
LEMMA HeldInductive == Spec => []HeldInv
<1>1. Init => HeldInv
  BY InitTypes, InitHeld DEF HeldInv
<1>2. HeldInv /\ [Next]_vars => HeldInv'
  BY NextTypes, NextHeld DEF HeldInv
<1> QED
  BY <1>1, <1>2, PTL DEF Spec

\* Disjoint sets of descriptors have disjoint references.
LEMMA RefsSplit ==
  ASSUME Types, Held, NoFork, NEW A, NEW B, A \subseteq Fd, B \subseteq Fd, A \cap B = {}
  PROVE  /\ Refs(A) \in Nat /\ Refs(B) \in Nat
         /\ Refs(A) + Refs(B) <= PipeRefs
<1> DEFINE At1 == {m \in Env \X A : m[2] \in map[m[1]]}
           At2 == {m \in Env \X B : m[2] \in map[m[1]]}
           D == {Data(s) : s \in Fd}
           P == {m \in Env \X D : m[2] \in map[m[1]]}
<1>1. IsFiniteSet(A) /\ IsFiniteSet(B)
  BY FdFinite, FS_Subset
<1>2. /\ IsFiniteSet(At1) /\ Refs(A) \in Nat
      /\ IsFiniteSet(At2) /\ Refs(B) \in Nat
  BY <1>1, RefsSet
<1>3. IsFiniteSet(P)
  BY RefsSet, FdFinite
<1>4. At1 \cap At2 = {}
  OBVIOUS
<1>5. Cardinality(At1 \cup At2) = Refs(A) + Refs(B)
  <2>1. Cardinality(At1 \cap At2) = 0
    BY <1>4, FS_EmptySet
  <2>2. Cardinality(At1) = Refs(A) /\ Cardinality(At2) = Refs(B)
    BY DEF Refs
  <2>3. Cardinality(At1 \cup At2)
        = Cardinality(At1) + Cardinality(At2) - Cardinality(At1 \cap At2)
    BY <1>2, FS_Union
  <2> QED
    BY <2>1, <2>2, <2>3, <1>2
<1> DEFINE f == [m \in At1 \cup At2 |-> <<m[1], Data(m[2])>>]
<1>6. f \in Injection(At1 \cup At2, P)
  <2>1. \A m \in At1 \cup At2 :
          /\ m[1] \in Env /\ m[2] \in Fd /\ m[2] \in map[m[1]] /\ m = <<m[1], m[2]>>
    OBVIOUS
  <2>2. \A e \in Env : Whole(map[e])
    BY DEF NoFork, Held, Holds
  <2>3. \A m \in At1 \cup At2 : <<m[1], Data(m[2])>> \in P
    BY <2>1, <2>2 DEF Whole
  <2>4. \A m, n \in At1 \cup At2 :
          <<m[1], Data(m[2])>> = <<n[1], Data(n[2])>> => m = n
    BY <2>1, DataFacts
  <2> HIDE DEF At1, At2, P
  <2>5. f \in [At1 \cup At2 -> P]
    BY <2>3
  <2>6. \A m, n \in At1 \cup At2 : f[m] = f[n] => m = n
    BY <2>4
  <2> HIDE DEF f
  <2> QED
    BY <2>5, <2>6 DEF Injection, IsInjective
<1>7. Cardinality(At1 \cup At2) <= Cardinality(P)
  <2> HIDE DEF f, At1, At2, P
  <2> QED
    BY <1>3, <1>6, FS_Injection
<1>8. Cardinality(P) = PipeRefs
  BY DEF PipeRefs, Refs
<1> QED
  BY <1>2, <1>5, <1>7, <1>8

\* dup maps the pipe page before the descriptor, close unmaps it after and
\* fork copies it after: outside a fork the pipe has at least the references
\* of its two ends, for any number of environments and descriptors.
THEOREM CountedFirst == Spec => []PipeCountedFirst
<1>1. HeldInv => PipeCountedFirst
  <2> SUFFICES ASSUME Types, Held, NoFork
               PROVE  FdRefs(0) + FdRefs(1) <= PipeRefs
    BY DEF HeldInv, PipeCountedFirst
  <2>1. SameEnd(0) \subseteq Fd /\ SameEnd(1) \subseteq Fd /\ SameEnd(0) \cap SameEnd(1) = {}
    BY DEF SameEnd, Fd
  <2> QED
    BY <2>1, RefsSplit DEF FdRefs
<1> QED
  BY <1>1, HeldInductive, PTL

-----------------------------------------------------------------------------
(* On one CPU, what _pipeisclosed has read is still true as long as nobody *)
(* else has run.                                                           *)
Measured ==
  \A e \in running : ~pc[e].switched =>
    /\ pc[e].at = "fdRead" => pc[e].val = FdRefs(pc[e].fd)
    /\ pc[e].at = "pipeRead" => pc[e].val = PipeRefs
    /\ pc[e].at = "compare" /\ pc[e].val = 1 => FdRefs(pc[e].fd) = PipeRefs

LEMMA InitMeasured == Init => Measured
BY DEF Init, Measured, Idle, At

LEMMA AloneOnCpu ==
  ASSUME NCPU = 1, Types, NEW e \in running
  PROVE  running = {e}
<1>1. IsFiniteSet(running) /\ Cardinality(running) <= 1 /\ Cardinality(running) \in Nat
  BY FS_Subset, FS_CardinalityType DEF Types
<1>2. {e} \subseteq running /\ Cardinality({e}) = 1
  BY FS_Singleton
<1>3. Cardinality(running \ {e}) = Cardinality(running) - 1
  BY <1>1, FS_RemoveElement
<1>4. running \ {e} = {}
  BY <1>1, <1>3, FS_EmptySet, FS_Subset, FS_CardinalityType
<1> QED
  BY <1>4

\* A step of the environment that runs, out of its measurements.
LEMMA StepMeasured ==
  ASSUME NCPU = 1, Types, NEW e \in running, running' \subseteq running,
         pc'[e].at \notin {"fdRead", "pipeRead", "compare"}
  PROVE  Measured'
BY AloneOnCpu DEF Measured

LEMMA NextMeasured ==
  ASSUME NCPU = 1
  PROVE  Types /\ Measured /\ [Next]_vars => Measured'
<1> SUFFICES ASSUME Types, Measured, [Next]_vars PROVE Measured'
  OBVIOUS
<1>0. CASE UNCHANGED vars
  BY <1>0 DEF Measured, FdRefs, PipeRefs, Refs, vars
<1>a. \A e \in Env : pc[e] \in Local /\ pc[e].child \in Env
  BY DEF Types, Local
<1>b. running \subseteq Env /\ pc \in [Env -> Local]
  BY DEF Types
<1>1. ASSUME NEW e \in Env, NEW f \in Env, EnvRun(e, f) PROVE Measured'
  <2>1. UNCHANGED map /\ running' \subseteq running \cup {e}
    BY <1>1 DEF EnvRun
  <2>2. \A g \in Env \ {e} : pc'[g] = pc[g]
    BY <1>1, <1>b DEF EnvRun
  <2>3. /\ pc'[e].switched = (pc[e].at \in Testing)
        /\ pc'[e].at = pc[e].at
    BY <1>1, <1>a, <1>b DEF EnvRun, Local
  <2>4. pc'[e].switched \/ pc'[e].at \notin Testing
    BY <2>3
  <2>5. \A s : FdRefs(s)' = FdRefs(s) /\ PipeRefs' = PipeRefs
    BY <2>1 DEF FdRefs, PipeRefs, Refs
  <2> QED
    BY <2>1, <2>2, <2>4, <2>5, <1>b DEF Measured, Testing
<1>2. ASSUME NEW e \in Env, NEW f \in Env, Fork(e, f) PROVE Measured'
  <2>1. [At("fork", 0) EXCEPT !.todo = map[e], !.child = f].at = "fork"
    BY DEF At
  <2>2. At("new", 0).at = "new"
    BY DEF At
  <2>3. pc'[e].at \in {"fork", "new"} /\ e \in running /\ running' = running
    BY <1>2, <2>1, <2>2, <1>b DEF Fork
  <2> QED
    BY <2>3, StepMeasured
<1>3. ASSUME NEW e \in Env, NEW f \in Env, Exit(f, e) PROVE Measured'
  <2>1. f \in running /\ running' \subseteq running
    BY <1>3 DEF Exit
  <2>2. pc'[f].at \in {"idle", "none"}
    BY <1>3, <1>b DEF Exit, At
  <2> QED
    BY <2>1, <2>2, StepMeasured
<1>4. ASSUME NEW e \in Env, NEW place, NEW next, Step(e, place, next),
             next.at \notin {"fdRead", "pipeRead", "compare"}
      PROVE  Measured'
  BY <1>4, <1>b, StepMeasured DEF Step
<1>5. ASSUME NEW e \in Env, NEW s \in Fd,
             Close(e, s) \/ Dup(e, s) \/ PipeIsClosed(e, s) \/ Read(e, s) \/ Write(e, s)
      PROVE Measured'
  <2>1. \A place : At(place, s).at = place
    BY DEF At
  <2> QED
    BY <1>4, <1>5, <2>1 DEF Close, Dup, PipeIsClosed, Read, Write
<1>6. ASSUME NEW e \in Env, DupPage(e) PROVE Measured'
  <2>1. PICK a : Step(e, "fork", [pc[e] EXCEPT !.todo = @ \ {a}])
    BY <1>6 DEF DupPage
  <2>2. [pc[e] EXCEPT !.todo = @ \ {a}].at = "fork"
    BY <2>1, <1>a DEF Step, Local
  <2> QED
    BY <1>4, <2>1, <2>2
<1>7. ASSUME NEW e \in Env, Start(e) PROVE Measured'
  <2>1. pc'[e] = Idle /\ e \in running /\ running' = running
    BY <1>7, <1>a, <1>b DEF Start
  <2> QED
    BY <2>1, StepMeasured DEF Idle, At
<1>8. ASSUME NEW e \in Env,
             \/ CloseData(e) \/ DupFd(e) \/ Closed(e) \/ CheckEmpty(e) \/ Take(e)
             \/ IncRpos(e) \/ CheckFull(e) \/ Store(e) \/ IncWpos(e) \/ Compare(e)
      PROVE Measured'
  <2>1. \A place, s, by : /\ At(place, s).at = place
                          /\ AtFor(place, s, by).at = place
                          /\ Idle.at = "idle"
    BY DEF At, AtFor, Idle
  <2>2. pc[e].by \in {"idle", "read", "write"}
    BY <1>a DEF Local
  <2>3. NotClosed(pc[e]).at \in {"idle", "read", "write"}
    BY <2>1, <2>2 DEF NotClosed
  <2>4. CASE Compare(e)
    BY <1>4, <2>4, <2>1, <2>3 DEF Compare
  <2>5. CASE ~Compare(e)
    BY <1>4, <1>8, <2>5, <2>1 DEF CloseData, DupFd, Closed, CheckEmpty, Take, IncRpos,
         CheckFull, Store, IncWpos
  <2> QED
    BY <2>4, <2>5
<1>9. ASSUME NEW e \in Env, ReadFdRefs(e) \/ ReadPipeRefs(e) PROVE Measured'
  <2>1. UNCHANGED map /\ e \in running /\ running' = running
    BY <1>9 DEF ReadFdRefs, ReadPipeRefs, Step
  <2>2. \A s : FdRefs(s)' = FdRefs(s) /\ PipeRefs' = PipeRefs
    BY <2>1 DEF FdRefs, PipeRefs, Refs
  <2>3. \A at, n : LET m == [pc[e] EXCEPT !.at = at, !.val = n]
                   IN  /\ m.at = at /\ m.val = n
                       /\ m.fd = pc[e].fd /\ m.switched = pc[e].switched
    BY <1>a DEF Local
  <2>4. PICK at, n :
          /\ pc' = [pc EXCEPT ![e] = [pc[e] EXCEPT !.at = at, !.val = n]]
          /\ \/ at = "fdRead" /\ n = FdRefs(pc[e].fd)
             \/ at = "pipeRead" /\ n = PipeRefs
             \/ /\ at = "compare" /\ pc[e].at = "pipeRead"
                /\ n = IF pc[e].val = FdRefs(pc[e].fd) THEN 1 ELSE 0
             \/ /\ at = "compare" /\ pc[e].at = "fdRead"
                /\ n = IF pc[e].val = PipeRefs THEN 1 ELSE 0
    <3>1. CASE ReadFdRefs(e)
      BY <3>1 DEF ReadFdRefs, Step
    <3>2. CASE ReadPipeRefs(e)
      BY <3>2 DEF ReadPipeRefs, Step
    <3> QED
      BY <1>9, <3>1, <3>2
  <2>5. /\ pc'[e].at = at /\ pc'[e].val = n
        /\ pc'[e].fd = pc[e].fd /\ pc'[e].switched = pc[e].switched
    BY <2>3, <2>4, <1>b
  <2>6. running = {e}
    BY <2>1, AloneOnCpu
  <2>7. ~pc[e].switched =>
          /\ pc[e].at = "fdRead" => pc[e].val = FdRefs(pc[e].fd)
          /\ pc[e].at = "pipeRead" => pc[e].val = PipeRefs
    BY <2>1 DEF Measured
  <2>8. ~pc'[e].switched =>
          /\ at = "fdRead" => n = FdRefs(pc[e].fd)
          /\ at = "pipeRead" => n = PipeRefs
          /\ at = "compare" /\ n = 1 => FdRefs(pc[e].fd) = PipeRefs
    BY <2>4, <2>5, <2>7
  <2> QED
    BY <2>1, <2>2, <2>5, <2>6, <2>8 DEF Measured
<1> QED
  BY <1>0, <1>1, <1>2, <1>3, <1>5, <1>6, <1>7, <1>8, <1>9 DEF Next

\* On one CPU, with any number of environments, _pipeisclosed that was not
\* interrupted finds the counts equal only when the other end is closed, unless
\* someone is in a fork.
THEOREM ClosedNotEarly ==
  ASSUME NCPU = 1
  PROVE  Spec => []ClosedIsTrue
<1>1. Init => HeldInv /\ Measured
  BY InitTypes, InitHeld, InitMeasured DEF HeldInv
<1>2. HeldInv /\ Measured /\ [Next]_vars => HeldInv' /\ Measured'
  BY NextTypes, NextHeld, NextMeasured DEF HeldInv
<1>3. HeldInv /\ Measured => ClosedIsTrue
  <2> SUFFICES ASSUME Types, Held, Measured, NoFork, NEW e \in running,
                      pc[e].at = "compare", pc[e].val = 1, ~pc[e].switched
               PROVE  Refs(OtherEnd(pc[e].fd)) = 0
    BY DEF HeldInv, ClosedIsTrue
  <2>1. pc[e].fd \in Fd
    BY DEF Types, Local
  <2>2. FdRefs(pc[e].fd) = PipeRefs
    BY DEF Measured
  <2>3. /\ SameEnd(pc[e].fd) \subseteq Fd /\ OtherEnd(pc[e].fd) \subseteq Fd
        /\ SameEnd(pc[e].fd) \cap OtherEnd(pc[e].fd) = {}
    BY <2>1 DEF SameEnd, OtherEnd, Fd
  <2>4. /\ Refs(SameEnd(pc[e].fd)) \in Nat /\ Refs(OtherEnd(pc[e].fd)) \in Nat
        /\ Refs(SameEnd(pc[e].fd)) + Refs(OtherEnd(pc[e].fd)) <= PipeRefs
    BY <2>3, RefsSplit
  <2> QED
    BY <2>2, <2>4, CountsAreNumbers DEF FdRefs
<1> QED
  BY <1>1, <1>2, <1>3, PTL DEF Spec

=============================================================================
