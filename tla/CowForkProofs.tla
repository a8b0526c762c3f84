---------------------------- MODULE CowForkProofs ----------------------------
(***************************************************************************)
(* For any number of environments, addresses and pages: fork with          *)
(* copy-on-write kills nobody who writes its own memory, and it is a copy. *)
(***************************************************************************)
EXTENDS CowFork, FiniteSetTheorems, TLAPS

-----------------------------------------------------------------------------
\* Least and greatest elements.

LEMMA MinOf ==
  ASSUME NEW S \in SUBSET Nat, S # {}
  PROVE  Min(S) \in S /\ \A x \in S : Min(S) <= x
<1>1. PICK x \in S : \A y \in S : ~ (<<y, x>> \in OpToRel(<, Nat))
  BY NatLessThanWellFounded, WFMin
<1>2. \A y \in S : x <= y
  <2> SUFFICES ASSUME NEW y \in S, ~ (x <= y) PROVE FALSE
    OBVIOUS
  <2>1. <<y, x>> \in OpToRel(<, Nat)
    BY DEF OpToRel
  <2> QED
    BY <1>1, <2>1
<1>3. \E m \in S : \A y \in S : m <= y
  BY <1>2
<1> QED
  BY <1>3 DEF Min

LEMMA MaxOf ==
  ASSUME NEW S \in SUBSET Nat, S # {}, NEW n \in Nat, \A x \in S : x <= n
  PROVE  Max(S) \in S /\ \A x \in S : Max(S) >= x
<1> DEFINE T == {n - x : x \in S}
<1>1. T \in SUBSET Nat /\ T # {}
  <2>1. \A x \in S : n - x \in Nat
    OBVIOUS
  <2> QED
    BY <2>1
<1>2. Min(T) \in T /\ \A y \in T : Min(T) <= y
  BY <1>1, MinOf
<1>3. PICK m \in S : Min(T) = n - m
  BY <1>2
<1>4. \A x \in S : m >= x
  <2>1. \A x \in S : n - m <= n - x
    BY <1>2, <1>3
  <2> QED
    BY <2>1
<1> QED
  BY <1>4 DEF Max

\* A finite set of numbers has a bound: there is no first place at which an
\* enumeration of it exceeds all.
LEMMA FiniteBounded ==
  ASSUME NEW S \in SUBSET Nat, IsFiniteSet(S)
  PROVE  \E n \in Nat : \A x \in S : x <= n
<1>1. PICK c \in Nat : ExistsSurjection(1 .. c, S)
  BY FS_NatSurjection
<1>2. PICK f \in [1 .. c -> S] : \A x \in S : \E i \in 1 .. c : f[i] = x
  BY <1>1 DEF ExistsSurjection, Surjection
<1> DEFINE Bad == {k \in Nat : ~ \E n \in Nat : \A i \in 1 .. c : i <= k => f[i] <= n}
<1>3. CASE Bad = {}
  <2>1. PICK n \in Nat : \A i \in 1 .. c : i <= c => f[i] <= n
    BY <1>3
  <2>2. \A x \in S : x <= n
    BY <1>2, <2>1
  <2> QED
    BY <2>2
<1>4. CASE Bad # {}
  <2>1. Min(Bad) \in Bad /\ \A k \in Bad : Min(Bad) <= k
    BY <1>4, MinOf
  <2> DEFINE k == Min(Bad)
  <2>2. k # 0
    <3>1. \A i \in 1 .. c : i <= 0 => f[i] <= 0
      OBVIOUS
    <3> QED
      BY <2>1, <3>1
  <2>3. k - 1 \in Nat /\ k - 1 \notin Bad /\ k \in Nat
    <3>1. k \in Nat /\ \A l \in Bad : k <= l
      BY <2>1
    <3> HIDE DEF k, Bad
    <3> QED
      BY <3>1, <2>2
  <2>4. PICK n \in Nat : \A i \in 1 .. c : i <= k - 1 => f[i] <= n
    BY <2>3
  <2> HIDE DEF k
  <2>5. \E m \in Nat : \A i \in 1 .. c : i <= k => f[i] <= m
    <3>1. CASE k \in 1 .. c
      <4>1. f[k] \in Nat
        BY <3>1, <1>2
      <4>2. \A i \in 1 .. c : f[i] \in Nat
        BY <1>2
      <4>3. \A i \in 1 .. c : i <= k => f[i] <= n + f[k]
        <5> SUFFICES ASSUME NEW i \in 1 .. c, i <= k PROVE f[i] <= n + f[k]
          OBVIOUS
        <5>1. i <= k - 1 \/ i = k
          BY <2>3
        <5> QED
          BY <5>1, <2>4, <4>1, <4>2
      <4>4. n + f[k] \in Nat
        BY <4>1
      <4> QED
        BY <4>3, <4>4
    <3>2. CASE k \notin 1 .. c
      <4>1. \A i \in 1 .. c : i <= k => i <= k - 1
        BY <3>2, <2>3
      <4> QED
        BY <4>1, <2>4
    <3> QED
      BY <3>1, <3>2
  <2> QED
    BY <2>1, <2>5 DEF k
<1> QED
  BY <1>3, <1>4

USE ForkAssumption DEF ForkAssumption

\* Addresses: PFTEMP and the exception stack are not the program's.
LEMMA Addresses ==
  /\ VA \subseteq Nat /\ PFTEMP \in VA /\ XSTACK \in VA /\ Program \subseteq VA
  /\ PFTEMP \notin Program /\ XSTACK \notin Program /\ XSTACK # PFTEMP
  /\ VA = Program \cup {PFTEMP, XSTACK}
<1>1. Program \subseteq Nat \ {0} /\ Program # {} /\ IsFiniteSet(Program)
  BY DEF Program
<1>2. PICK n \in Nat : \A x \in Program : x <= n
  BY <1>1, FiniteBounded
<1>3. Max(Program) \in Program /\ \A x \in Program : Max(Program) >= x
  BY <1>1, <1>2, MaxOf
<1>4. XSTACK \in Nat /\ XSTACK \notin Program /\ XSTACK # 0
  <2> DEFINE m == Max(Program)
  <2>1. m \in Nat /\ \A x \in Program : x \in Nat /\ m >= x
    BY <1>1, <1>3
  <2>2. XSTACK = m + 1
    BY DEF XSTACK
  <2> HIDE DEF m
  <2> QED
    BY <2>1, <2>2
<1> QED
  BY <1>1, <1>4 DEF VA, PFTEMP

LEMMA Kinds ==
  /\ Private \subseteq Program /\ Shared \subseteq Program /\ ReadOnly \subseteq Program
  /\ Program = Private \cup Shared \cup ReadOnly
  /\ Private \cap Shared = {} /\ Private \cap ReadOnly = {} /\ Shared \cap ReadOnly = {}
BY DEF Program

\* The root's program fits.
LEMMA FirstPages ==
  /\ FirstPage \in [Program -> Page]
  /\ \A a, b \in Program : FirstPage[a] = FirstPage[b] => a = b
<1> DEFINE n == Cardinality(Program)
<1>1. n \in Nat /\ n <= NPage /\ ExistsBijection(1 .. n, Program)
  BY FS_CardinalityType DEF Program
<1> HIDE DEF n
<1>2. PICK f \in [1 .. n -> Program] : \A x \in Program : \E i \in 1 .. n : f[i] = x
  BY <1>1 DEF ExistsBijection, Bijection, Surjection
<1> DEFINE g == [x \in Program |-> CHOOSE i \in 1 .. n : f[i] = x]
<1>3. \A x \in Program : g[x] \in 1 .. n /\ f[g[x]] = x
  BY <1>2
<1>4. g \in [Program -> Page] /\ \A a, b \in Program : g[a] = g[b] => a = b
  BY <1>1, <1>3 DEF Page
<1> QED
  BY <1>4 DEF FirstPage

-----------------------------------------------------------------------------
(* The invariant.                                                          *)
Mapped(e, va) == map[e][va] # None
PageOf(e, va) == map[e][va].page
PermOf(e, va) == map[e][va].perm

Forking == {"dup", "self", "start"}
Live == Forking \cup {"run"}

\* The permission tells what an address is for.
PermsOf(va) ==
  IF va \in Private \cup {PFTEMP} THEN {"w", "cow"}
  ELSE IF va \in Shared THEN {"share"}
  ELSE IF va \in ReadOnly THEN {"ro"} ELSE {"w"}

Perms == \A e \in Env, va \in VA : Mapped(e, va) => PermOf(e, va) \in PermsOf(va)

\* What an environment has of its own.
Has(e) ==
  /\ pc[e].at # "bad"
  /\ pc[e].at \in Live \cup {"nomem"} => \A va \in Program : Mapped(e, va)
  /\ pc[e].at \in {"none", "gone"} => \A va \in VA : ~Mapped(e, va)
  /\ e \in handler => Mapped(e, XSTACK)
  /\ pc[e].at \in Forking => e \in handler
  /\ pc[e].at \in Live /\ e \notin handler => \A va \in Private : PermOf(e, va) = "w"
  /\ pc[e].at = "new" => \A va \in Private : Mapped(e, va) => PermOf(e, va) = "cow"
  /\ pc[e].at = "run" => pc[e].child = None

\* What pgfault has done.
Handles(e) ==
  /\ fault[e].at # "none" => pc[e].at \in Live /\ fault[e].va \in Private
  /\ fault[e].at \in {"copy", "map"} =>
       /\ Mapped(e, PFTEMP)
       /\ \A g \in Env, va \in VA :
            Mapped(g, va) /\ PageOf(g, va) = PageOf(e, PFTEMP) => g = e /\ va = PFTEMP
  /\ fault[e].at = "map" => mem[PageOf(e, PFTEMP)] = mem[PageOf(e, fault[e].va)]

\* e is making d, or has failed to.
Makes(e, d) == pc[e].at \in Forking \cup {"nomem"} /\ pc[e].child = d

\* What fork has done.
Copies(e) ==
  LET d == pc[e].child
      va == Min(pc[e].todo)
  IN  /\ pc[e].at \in Forking =>
           d # None /\ \A v \in Program \ pc[e].todo : Mapped(d, v)
      /\ pc[e].at = "self" =>
           /\ pc[e].todo # {} /\ va \in Private \cup {PFTEMP}
           /\ Mapped(e, va) /\ Mapped(d, va)
      /\ pc[e].at = "start" => pc[e].todo = {} /\ Mapped(d, XSTACK)

Children ==
  /\ \A e, d \in Env : Makes(e, d) => pc[d].at = "new"
  /\ \A e, g, d \in Env : Makes(e, d) /\ Makes(g, d) => e = g
  /\ \A d \in Env : pc[d].at = "new" => \E e \in Env : Makes(e, d)

\* A page belongs to one address, and may be left at PFTEMP if it is private.
Apart ==
  \A e, g \in Env, va, vb \in VA :
    Mapped(e, va) /\ Mapped(g, vb) /\ PageOf(e, va) = PageOf(g, vb) =>
      va = vb \/ (PFTEMP \in {va, vb} /\ {va, vb} \subseteq Private \cup {PFTEMP})

Together ==
  \A e, g \in Env, va \in Shared :
    Mapped(e, va) /\ Mapped(g, va) => PageOf(e, va) = PageOf(g, va)

\* Who can write a private page is alone with it, but for the child it is
\* just giving that page to.
Alone ==
  \A e, g \in Env, va \in Private :
    /\ pc[e].at \in Live /\ PermOf(e, va) = "w"
    /\ Mapped(g, va) /\ PageOf(g, va) = PageOf(e, va)
    => g = e \/ (pc[e].at = "self" /\ g = pc[e].child /\ va = Min(pc[e].todo))

Inv ==
  /\ TypeOK /\ Perms
  /\ \A e \in Env : Has(e) /\ Handles(e) /\ Copies(e)
  /\ Children /\ Apart /\ Together /\ Alone

-----------------------------------------------------------------------------
\* What the system calls do to the mappings.

\* Only the mapping of va in e changes, and the pages keep their contents.
Sets(e, va, pte) ==
  /\ map' \in [Env -> [VA -> Pte \cup {None}]] /\ mem' \in [Page -> Value]
  /\ map'[e][va] = pte
  /\ \A g \in Env, v \in VA : g # e \/ v # va => map'[g][v] = map[g][v]
  /\ \A g \in Env, v \in VA : map'[g][v] # None =>
        mem'[map'[g][v].page] = mem[map'[g][v].page]

USE NoneAssumption

LEMMA PteFacts ==
  ASSUME TypeOK, NEW e \in Env, NEW va \in VA
  PROVE  /\ map[e] \in [VA -> Pte \cup {None}] /\ map[e][va] \in Pte \cup {None}
         /\ Mapped(e, va) => /\ map[e][va] \in Pte
                             /\ PageOf(e, va) \in Page
                             /\ PermOf(e, va) \in {"w", "cow", "share", "ro"}
BY DEF TypeOK, Mapped, PageOf, PermOf, Pte

LEMMA RemapSets ==
  ASSUME TypeOK, NEW e \in Env, NEW va \in VA, NEW pte \in Pte,
         Remap([map EXCEPT ![e][va] = pte], mem)
  PROVE  Sets(e, va, pte)
<1>1. map' = [map EXCEPT ![e][va] = pte]
  BY DEF Remap
<1>2. map' \in [Env -> [VA -> Pte \cup {None}]]
  BY <1>1 DEF TypeOK
<1>3. map'[e][va] = pte
  BY <1>1 DEF TypeOK
<1>4. \A g \in Env, v \in VA : g # e \/ v # va => map'[g][v] = map[g][v]
  BY <1>1 DEF TypeOK
<1>5. mem' = [p \in Page |-> IF p \in Used(map') THEN mem[p] ELSE Zero]
  BY <1>1 DEF Remap
<1>6. mem' \in [Page -> Value]
  BY <1>5 DEF TypeOK
<1>7. ASSUME NEW g \in Env, NEW v \in VA, map'[g][v] # None
      PROVE  mem'[map'[g][v].page] = mem[map'[g][v].page]
  <2>1. map'[g][v].page \in Page
    BY <1>2, <1>7 DEF Pte
  <2>2. map'[g][v].page \in Used(map')
    BY <2>1, <1>7 DEF Used
  <2> QED
    BY <2>1, <2>2, <1>5
<1> QED
  BY <1>2, <1>3, <1>4, <1>6, <1>7 DEF Sets

LEMMA AllocSets ==
  ASSUME TypeOK, NEW e \in Env, NEW va \in VA, PageAlloc(e, va)
  PROVE  \E p \in Page : /\ Sets(e, va, [page |-> p, perm |-> "w"])
                         /\ \A g \in Env, v \in VA : Mapped(g, v) => PageOf(g, v) # p
<1> DEFINE p == IF va = XSTACK THEN Max(Free) ELSE Min(Free)
<1>1. Free # {} /\ Remap([map EXCEPT ![e][va] = [page |-> p, perm |-> "w"]], mem)
  BY DEF PageAlloc
<1>2. Free \in SUBSET Nat /\ \A x \in Free : x <= NPage
  BY DEF Free, Page
<1>3. Min(Free) \in Free /\ Max(Free) \in Free
  BY <1>1, <1>2, MinOf, MaxOf
<1>4. p \in Free
  BY <1>3
<1> HIDE DEF p
<1>5. p \in Page /\ [page |-> p, perm |-> "w"] \in Pte
  BY <1>4 DEF Free, Pte
<1>6. Sets(e, va, [page |-> p, perm |-> "w"])
  BY <1>1, <1>5, RemapSets
<1>7. \A g \in Env, v \in VA : Mapped(g, v) => PageOf(g, v) # p
  BY <1>4 DEF Free, Used, Mapped, PageOf
<1> QED
  BY <1>5, <1>6, <1>7

LEMMA MapSets ==
  ASSUME TypeOK, NEW e \in Env, NEW va \in VA, NEW d \in Env, NEW dva \in VA,
         NEW perm \in {"w", "cow", "share", "ro"}, Mapped(e, va),
         PageMap(e, va, d, dva, perm)
  PROVE  Sets(d, dva, [page |-> PageOf(e, va), perm |-> perm])
<1>1. [page |-> PageOf(e, va), perm |-> perm] \in Pte
  BY PteFacts DEF Pte
<1> QED
  BY <1>1, RemapSets DEF PageMap, PageOf

\* The parts of the invariant about pages alone.
PagesInv == Perms /\ Apart /\ Together

LEMMA AllocPages ==
  ASSUME TypeOK, PagesInv, NEW e \in Env, NEW va \in {PFTEMP, XSTACK}, NEW p \in Page,
         Sets(e, va, [page |-> p, perm |-> "w"]),
         \A g \in Env, v \in VA : Mapped(g, v) => PageOf(g, v) # p
  PROVE  PagesInv'
<1>1. va \in VA /\ va \notin Program /\ "w" \in PermsOf(va)
  BY Addresses, Kinds DEF PermsOf
<1>2. [page |-> p, perm |-> "w"].page = p /\ [page |-> p, perm |-> "w"].perm = "w"
  OBVIOUS
<1>3. Perms'
  BY <1>1, <1>2 DEF PagesInv, Perms, Sets, Mapped, PermOf, PermsOf
<1>4. Apart'
  <2>1. /\ map'[e][va] = [page |-> p, perm |-> "w"]
        /\ \A g \in Env, v \in VA : g # e \/ v # va => map'[g][v] = map[g][v]
    BY <1>1 DEF Sets
  <2>2. \A g \in Env, v \in VA :
          map'[g][v] # None /\ map'[g][v].page = p => g = e /\ v = va
    BY <2>1 DEF Mapped, PageOf
  <2> SUFFICES ASSUME NEW f \in Env, NEW g \in Env, NEW v \in VA, NEW vb \in VA,
                      map'[f][v] # None, map'[g][vb] # None,
                      map'[f][v].page = map'[g][vb].page
               PROVE  v = vb \/ (PFTEMP \in {v, vb} /\ {v, vb} \subseteq Private \cup {PFTEMP})
    BY DEF Apart, Mapped, PageOf
  <2>3. CASE map'[f][v].page = p
    <3>1. v = va /\ vb = va
      BY <2>2, <2>3
    <3> QED
      BY <3>1
  <2>4. CASE map'[f][v].page # p
    <3>1. ~(f = e /\ v = va) /\ ~(g = e /\ vb = va)
      BY <1>2, <2>1, <2>4
    <3>2. map'[f][v] = map[f][v] /\ map'[g][vb] = map[g][vb]
      BY <2>1, <3>1
    <3> QED
      BY <3>2 DEF PagesInv, Apart, Mapped, PageOf
  <2> QED
    BY <2>3, <2>4
<1>5. Together'
  BY <1>1, <1>2, Kinds, Addresses DEF PagesInv, Together, Sets, Mapped, PageOf
<1> QED
  BY <1>3, <1>4, <1>5 DEF PagesInv

\* A page is mapped in d where e has it.
LEMMA CopyPages ==
  ASSUME TypeOK, PagesInv, NEW e \in Env, NEW d \in Env, NEW va \in VA, Mapped(e, va),
         NEW perm \in PermsOf(va),
         Sets(d, va, [page |-> PageOf(e, va), perm |-> perm])
  PROVE  PagesInv'
<1> DEFINE pte == [page |-> PageOf(e, va), perm |-> perm]
<1>1. pte.page = PageOf(e, va) /\ pte.perm = perm
  OBVIOUS
<1> HIDE DEF pte
<1>2. map'[d][va] = pte
  BY DEF Sets, pte
<1>3. Perms'
  BY <1>1, <1>2 DEF PagesInv, Perms, Sets, Mapped, PermOf, PermsOf
<1>4. \A g \in Env, v \in VA : map'[g][v] # None =>
         \E h \in Env : Mapped(h, v) /\ map'[g][v].page = PageOf(h, v)
  BY <1>1, <1>2 DEF Sets, Mapped, PageOf
<1>5. Apart'
  <2> SUFFICES ASSUME NEW f \in Env, NEW g \in Env, NEW v \in VA, NEW vb \in VA,
                      map'[f][v] # None, map'[g][vb] # None,
                      map'[f][v].page = map'[g][vb].page
               PROVE  v = vb \/ (PFTEMP \in {v, vb} /\ {v, vb} \subseteq Private \cup {PFTEMP})
    BY DEF Apart, Mapped, PageOf
  <2>1. PICK h \in Env : Mapped(h, v) /\ map'[f][v].page = PageOf(h, v)
    BY <1>4
  <2>2. PICK k \in Env : Mapped(k, vb) /\ map'[g][vb].page = PageOf(k, vb)
    BY <1>4
  <2> QED
    BY <2>1, <2>2 DEF PagesInv, Apart
<1>6. Together'
  <2> SUFFICES ASSUME NEW f \in Env, NEW g \in Env, NEW v \in Shared,
                      map'[f][v] # None, map'[g][v] # None
               PROVE  map'[f][v].page = map'[g][v].page
    BY DEF Together, Mapped, PageOf
  <2>1. v \in VA
    BY Kinds, Addresses
  <2>2. PICK h \in Env : Mapped(h, v) /\ map'[f][v].page = PageOf(h, v)
    BY <1>4, <2>1
  <2>3. PICK k \in Env : Mapped(k, v) /\ map'[g][v].page = PageOf(k, v)
    BY <1>4, <2>1
  <2> QED
    BY <2>2, <2>3 DEF PagesInv, Together
<1> QED
  BY <1>3, <1>5, <1>6 DEF PagesInv

-----------------------------------------------------------------------------
\* The initial state and the steps that leave the mappings alone.

LEMMA InitInv == Init => Inv
<1> SUFFICES ASSUME Init PROVE Inv
  OBVIOUS
<1>1. \A e \in Env, va \in VA :
        map[e][va] = IF e = Root /\ va \in Program
                     THEN [page |-> FirstPage[va], perm |-> Perm(va)] ELSE None
  BY DEF Init
<1>2. \A va \in Program : [page |-> FirstPage[va], perm |-> Perm(va)] \in Pte
  BY FirstPages DEF Pte, Perm
<1>3. \A e \in Env, va \in VA : Mapped(e, va) =>
        /\ e = Root /\ va \in Program /\ PageOf(e, va) = FirstPage[va]
        /\ PermOf(e, va) = Perm(va)
  <2> SUFFICES ASSUME NEW e \in Env, NEW va \in VA, map[e][va] # None
               PROVE  /\ e = Root /\ va \in Program /\ map[e][va].page = FirstPage[va]
                      /\ map[e][va].perm = Perm(va)
    BY DEF Mapped, PageOf, PermOf
  <2>1. /\ e = Root /\ va \in Program
        /\ map[e][va] = [page |-> FirstPage[va], perm |-> Perm(va)]
    BY <1>1
  <2> QED
    BY <2>1
<1>4. \A va \in Program : Mapped(Root, va) /\ PermOf(Root, va) = Perm(va)
  <2> SUFFICES ASSUME NEW va \in Program
               PROVE  map[Root][va] # None /\ map[Root][va].perm = Perm(va)
    BY DEF Mapped, PermOf
  <2>1. map[Root][va] = [page |-> FirstPage[va], perm |-> Perm(va)]
    BY <1>1, Addresses
  <2>2. map[Root][va] \in Pte
    BY <2>1, <1>2
  <2>3. map[Root][va] # None
    BY <2>2
  <2> QED
    BY <2>1, <2>3
<1>5. \A e \in Env : /\ pc[e] = At(IF e = Root THEN "run" ELSE "none")
                     /\ fault[e].at = "none"
  BY DEF Init, NoFault
<1>6. \A e \in Env : /\ pc[e].at = IF e = Root THEN "run" ELSE "none"
                     /\ pc[e].child = None
  <2>1. \A place : At(place).at = place /\ At(place).child = None
    BY DEF At
  <2> QED
    BY <1>5, <2>1
<1>7. TypeOK
  <2>1. map \in [Env -> [VA -> Pte \cup {None}]]
    BY <1>2 DEF Init
  <2>2. \A place \in {"run", "none"} : At(place) \in Local
    BY DEF At, Local
  <2> QED
    BY <2>1, <2>2, Addresses DEF Init, TypeOK, NoFault
<1>8. Perms
  BY <1>3, Kinds, Addresses DEF Perms, Perm, PermsOf
<1>9. Apart
  BY <1>3, FirstPages DEF Apart
<1>10. Together
  BY <1>3, Kinds, Addresses DEF Together
<1>11. \A e \in Env : Has(e)
  <2>1. handler = {}
    BY DEF Init
  <2>2. \A va \in Private : PermOf(Root, va) = "w"
    BY <1>4, Kinds DEF Perm
  <2> QED
    BY <1>3, <1>4, <1>6, <2>1, <2>2 DEF Has, Live, Forking
<1>12. \A e \in Env : Handles(e) /\ Copies(e)
  BY <1>5, <1>6 DEF Handles, Copies, Forking
<1>13. Children
  BY <1>6 DEF Children, Makes, Forking
<1>14. Alone
  BY <1>3, <1>6, Kinds, Addresses DEF Alone, Live, Forking
<1> QED
  BY <1>7, <1>8, <1>9, <1>10, <1>11, <1>12, <1>13, <1>14 DEF Inv

\* What does not depend on the contents of pages and on pgfault.
LEMMA SameMappings ==
  ASSUME Inv, UNCHANGED <<map, handler, pc>>
  PROVE  /\ Perms' /\ Children' /\ Apart' /\ Together' /\ Alone'
         /\ \A e \in Env : Has(e)' /\ Copies(e)'
<1>1. Perms' /\ Apart' /\ Together'
  BY DEF Inv, Perms, Apart, Together, Mapped, PageOf, PermOf
<1>2. Alone'
  BY DEF Inv, Alone, Mapped, PageOf, PermOf
<1>3. Children'
  BY DEF Inv, Children, Makes
<1>4. \A e \in Env : Has(e)' /\ Copies(e)'
  BY DEF Inv, Has, Copies, Mapped, PermOf
<1> QED
  BY <1>1, <1>2, <1>3, <1>4

\* An environment that stays in fork, or stays out of it.
LEMMA SameChild ==
  ASSUME TypeOK, Children, NEW e \in Env, \A g \in Env \ {e} : pc'[g] = pc[g],
         pc'[e].child = pc[e].child, pc[e].at # "new", pc'[e].at # "new",
         \/ pc[e].child = None
         \/ pc[e].at \in Forking \cup {"nomem"} /\ pc'[e].at \in Forking \cup {"nomem"}
  PROVE  Children'
<1>1. \A g, d \in Env : Makes(g, d)' <=> Makes(g, d)
  BY DEF Makes
<1>2. \A d \in Env : pc'[d].at = "new" <=> pc[d].at = "new"
  OBVIOUS
<1> QED
  BY <1>1, <1>2 DEF Children

LEMMA WriteInv ==
  ASSUME Inv, NEW e \in Env, NEW va \in Private \cup Shared, NEW v \in Value,
         Write(e, va, v)
  PROVE  Inv'
<1>1. /\ va \in VA /\ va \in Program /\ Mapped(e, va) /\ PermOf(e, va) \in {"w", "share"}
      /\ mem' = [mem EXCEPT ![PageOf(e, va)] = v] /\ UNCHANGED <<map, handler, fault, pc>>
      /\ pc[e].at \in Live /\ fault[e].at = "none"
  <2>1. va \in VA /\ va \in Program
    BY Kinds, Addresses
  <2>2. pc[e].at \in Live
    BY DEF Write, Running, Live, Forking
  <2>3. Mapped(e, va)
    BY <2>1, <2>2 DEF Inv, Has
  <2> QED
    BY <2>1, <2>2, <2>3 DEF Write, Running, PermOf, PageOf
<1>2. TypeOK'
  BY <1>1, PteFacts DEF Inv, TypeOK
<1>3. ASSUME NEW g \in Env PROVE Handles(g)'
  <2>1. ASSUME fault[g].at \in {"copy", "map"} PROVE PageOf(e, va) # PageOf(g, PFTEMP)
    BY <1>1, <2>1, Addresses DEF Inv, Handles
  <2>2. ASSUME fault[g].at = "map" PROVE PageOf(e, va) # PageOf(g, fault[g].va)
    <3>1. pc[g].at \in Live /\ fault[g].va \in Private
      BY <2>2 DEF Inv, Handles
    <3>2. fault[g].va \in VA /\ fault[g].va \in Program /\ Mapped(g, fault[g].va)
      BY <3>1, Kinds, Addresses DEF Inv, Has
    <3>3. SUFFICES ASSUME PageOf(e, va) = PageOf(g, fault[g].va) PROVE FALSE
      OBVIOUS
    <3>4. va = fault[g].va
      BY <1>1, <3>2, <3>3, Addresses DEF Inv, Apart
    <3>5. PermOf(e, va) = "w"
      BY <1>1, <3>1, <3>4 DEF Inv, Perms, PermsOf
    <3>6. g = e \/ (pc[e].at = "self" /\ g = pc[e].child)
      BY <1>1, <3>1, <3>2, <3>3, <3>4, <3>5 DEF Inv, Alone
    <3>7. g # e
      BY <1>1, <2>2
    <3>8. pc[g].at = "new"
      BY <3>6, <3>7 DEF Inv, Children, Makes, Forking
    <3> QED
      BY <3>1, <3>8 DEF Live, Forking
  <2>3. ASSUME fault[g].at = "map"
        PROVE  mem'[PageOf(g, PFTEMP)] = mem'[PageOf(g, fault[g].va)]
    BY <1>1, <2>1, <2>2, <2>3 DEF Inv, Handles, TypeOK
  <2> QED
    BY <1>1, <2>3 DEF Inv, Handles, Mapped, PageOf
<1> QED
  BY <1>1, <1>2, <1>3, SameMappings DEF Inv

\* The branch of page_fault_handler in which e is destroyed is not taken.
LEMMA FaultInv ==
  ASSUME Inv, NEW e \in Env, NEW va \in Private \cup Shared, Fault(e, va)
  PROVE  Inv' /\ UNCHANGED <<map, mem, handler, pc>>
<1>1. /\ va \in VA /\ va \in Program /\ pc[e].at \in Live
      /\ Mapped(e, va) /\ PermOf(e, va) \notin {"w", "share"}
  <2>1. va \in VA /\ va \in Program
    BY Kinds, Addresses
  <2>2. pc[e].at \in Live
    BY DEF Fault, Running, Live, Forking
  <2> QED
    BY <2>1, <2>2 DEF Inv, Has, Fault, PermOf
<1>2. va \in Private /\ PermOf(e, va) = "cow"
  <2>1. PermOf(e, va) \in PermsOf(va)
    BY <1>1 DEF Inv, Perms
  <2> QED
    BY <1>1, <2>1, Kinds, Addresses DEF PermsOf
<1>3. e \in handler
  BY <1>1, <1>2 DEF Inv, Has
<1>4. Mapped(e, XSTACK) /\ PermOf(e, XSTACK) = "w"
  BY <1>3, Addresses, Kinds DEF Inv, Has, Perms, PermsOf
<1>5. fault' = [fault EXCEPT ![e] = [at |-> "alloc", va |-> va]]
      /\ UNCHANGED <<map, mem, handler, pc>>
  BY <1>2, <1>3, <1>4 DEF Fault, Mapped, PermOf
<1>6. TypeOK'
  BY <1>1, <1>5 DEF Inv, TypeOK
<1>7. ASSUME NEW g \in Env PROVE Handles(g)'
  <2>1. CASE g = e
    <3>1. fault'[g].at = "alloc" /\ fault'[g].va = va
      BY <1>5, <2>1 DEF Inv, TypeOK
    <3> QED
      BY <3>1, <1>1, <1>2, <1>5, <2>1 DEF Handles
  <2>2. CASE g # e
    BY <1>5, <2>2 DEF Inv, TypeOK, Handles, Mapped, PageOf
  <2> QED
    BY <2>1, <2>2
<1> QED
  BY <1>5, <1>6, <1>7, SameMappings DEF Inv

LEMMA PgfaultCopyInv ==
  ASSUME Inv, NEW e \in Env, PgfaultCopy(e)
  PROVE  Inv'
<1> DEFINE va == fault[e].va
<1>1. /\ fault[e].at = "copy" /\ UNCHANGED <<map, handler, pc>>
      /\ mem' = [mem EXCEPT ![PageOf(e, PFTEMP)] = mem[PageOf(e, va)]]
      /\ fault' = [fault EXCEPT ![e].at = "map"]
  BY DEF PgfaultCopy, PageOf
<1>2. /\ pc[e].at \in Live /\ va \in Private /\ va \in VA /\ va \in Program
      /\ Mapped(e, va) /\ Mapped(e, PFTEMP)
      /\ PageOf(e, va) \in Page /\ PageOf(e, PFTEMP) \in Page
  <2>1. pc[e].at \in Live /\ va \in Private /\ Mapped(e, PFTEMP)
    BY <1>1 DEF Inv, Handles
  <2>2. va \in VA /\ va \in Program
    BY <2>1, Kinds, Addresses
  <2>3. Mapped(e, va)
    BY <2>1, <2>2 DEF Inv, Has
  <2> QED
    BY <2>1, <2>2, <2>3, Addresses, PteFacts DEF Inv
<1> HIDE DEF va
<1>3. \A g \in Env, v \in VA : Mapped(g, v) /\ PageOf(g, v) = PageOf(e, PFTEMP)
                                => g = e /\ v = PFTEMP
  BY <1>1 DEF Inv, Handles
<1>4. /\ fault'[e].at = "map" /\ fault'[e].va = va
      /\ \A g \in Env \ {e} : fault'[g] = fault[g]
  BY <1>1 DEF Inv, TypeOK, va
<1>5. TypeOK'
  <2>1. mem' \in [Page -> Value]
    BY <1>1, <1>2 DEF Inv, TypeOK
  <2>2. fault' \in [Env -> [at : {"none", "alloc", "copy", "map"}, va : VA]]
    BY <1>1 DEF Inv, TypeOK
  <2> QED
    BY <1>1, <2>1, <2>2 DEF Inv, TypeOK
<1>6. ASSUME NEW g \in Env PROVE Handles(g)'
  <2>1. CASE g = e
    <3>1. PageOf(e, va) # PageOf(e, PFTEMP)
      BY <1>2, <1>3, Addresses
    <3>2. mem'[PageOf(e, PFTEMP)] = mem'[PageOf(e, va)]
      BY <1>1, <1>2, <3>1 DEF Inv, TypeOK
    <3> QED
      BY <1>1, <1>2, <1>3, <1>4, <2>1, <3>2 DEF Handles, Mapped, PageOf
  <2>2. CASE g # e
    <3>1. ASSUME fault[g].at = "map"
          PROVE  mem'[PageOf(g, PFTEMP)] = mem'[PageOf(g, fault[g].va)]
      <4>1. pc[g].at \in Live /\ fault[g].va \in Private /\ Mapped(g, PFTEMP)
        BY <3>1 DEF Inv, Handles
      <4>2. fault[g].va \in VA /\ Mapped(g, fault[g].va)
        BY <4>1, Kinds, Addresses DEF Inv, Has
      <4>3. PageOf(g, PFTEMP) # PageOf(e, PFTEMP) /\ PageOf(g, fault[g].va) # PageOf(e, PFTEMP)
        BY <4>1, <4>2, <1>3, <2>2, Addresses
      <4>4. mem[PageOf(g, PFTEMP)] = mem[PageOf(g, fault[g].va)]
        BY <3>1 DEF Inv, Handles
      <4>5. PageOf(g, PFTEMP) \in Page /\ PageOf(g, fault[g].va) \in Page
        BY <4>1, <4>2, PteFacts, Addresses DEF Inv
      <4> QED
        BY <1>1, <4>3, <4>4, <4>5 DEF Inv, TypeOK
    <3> QED
      BY <1>1, <1>4, <2>2, <3>1 DEF Inv, Handles, Mapped, PageOf
  <2> QED
    BY <2>1, <2>2
<1> QED
  BY <1>1, <1>5, <1>6, SameMappings DEF Inv

-----------------------------------------------------------------------------
\* What a step leaves true of the environments it does not concern.

LEMMA SetsGrows ==
  ASSUME NEW d \in Env, NEW va \in VA, NEW pte \in Pte, Sets(d, va, pte)
  PROVE  \A g \in Env, v \in VA :
           /\ Mapped(g, v) => Mapped(g, v)'
           /\ Mapped(g, v)' => Mapped(g, v) \/ (g = d /\ v = va)
BY DEF Sets, Mapped

LEMMA HasKept ==
  ASSUME NEW g \in Env, Has(g), pc'[g] = pc[g], g \in handler' <=> g \in handler,
         \A v \in VA : map'[g][v] = map[g][v]
  PROVE  Has(g)'
<1>1. XSTACK \in VA /\ Private \subseteq VA /\ Program \subseteq VA
  BY Kinds, Addresses
<1> QED
  BY <1>1 DEF Has, Mapped, PermOf

LEMMA CopiesKept ==
  ASSUME TypeOK, NEW g \in Env, Copies(g), pc'[g] = pc[g],
         \A v \in VA : Mapped(g, v) => Mapped(g, v)',
         \A d \in Env, v \in VA :
           pc[g].at \in Forking /\ d = pc[g].child /\ Mapped(d, v) => Mapped(d, v)'
  PROVE  Copies(g)'
<1>1. XSTACK \in VA /\ PFTEMP \in VA /\ Private \subseteq VA /\ Program \subseteq VA
  BY Kinds, Addresses
<1>2. pc[g].child \in Env \cup {None}
  BY DEF TypeOK, Local
<1>3. pc[g].at \in {"self", "start"} => pc[g].at \in Forking
  BY DEF Forking
<1> DEFINE m == Min(pc[g].todo)
<1>4. Min(pc'[g].todo) = m
  OBVIOUS
<1> HIDE DEF m
<1> QED
  BY <1>1, <1>2, <1>3, <1>4 DEF Copies, m

LEMMA HandlesKept ==
  ASSUME Inv, NEW d \in Env, NEW va \in VA, NEW pte \in Pte, Sets(d, va, pte),
         NEW g \in Env, fault'[g] = fault[g], pc[g].at \in Live => pc'[g].at \in Live,
         fault[g].at # "none" => d # g,
         fault[g].at \in {"copy", "map"} => pte.page # PageOf(g, PFTEMP)
  PROVE  Handles(g)'
<1>1. CASE fault[g].at = "none"
  BY <1>1 DEF Handles
<1>2. CASE fault[g].at # "none"
  <2>1. /\ pc'[g].at \in Live /\ fault[g].va \in Private /\ fault[g].va \in VA
        /\ PFTEMP \in VA /\ Mapped(g, fault[g].va)
    BY <1>2, Kinds, Addresses DEF Inv, Handles, Has
  <2>2. \A v \in VA : map'[g][v] = map[g][v]
    BY <1>2 DEF Sets
  <2>3. ASSUME fault[g].at \in {"copy", "map"}
        PROVE  /\ Mapped(g, PFTEMP)'
               /\ \A h \in Env, v \in VA : Mapped(h, v)' /\ PageOf(h, v)' = PageOf(g, PFTEMP)'
                     => h = g /\ v = PFTEMP
    <3>1. Mapped(g, PFTEMP)
      BY <2>3 DEF Inv, Handles
    <3>2. map'[g][PFTEMP] = map[g][PFTEMP]
      BY <2>1, <2>2
    <3>3. ASSUME NEW h \in Env, NEW v \in VA, map'[h][v] # None,
                 map'[h][v].page = map[g][PFTEMP].page
          PROVE  h = g /\ v = PFTEMP
      <4>1. ~(h = d /\ v = va)
        BY <2>3, <3>3 DEF Sets, PageOf
      <4>2. map'[h][v] = map[h][v]
        BY <4>1 DEF Sets
      <4> QED
        BY <2>3, <3>3, <4>2 DEF Inv, Handles, Mapped, PageOf
    <3> QED
      BY <3>1, <3>2, <3>3 DEF Mapped, PageOf
  <2>4. ASSUME fault[g].at = "map"
        PROVE  mem'[PageOf(g, PFTEMP)'] = mem'[PageOf(g, fault[g].va)']
    <3>1. /\ mem[PageOf(g, PFTEMP)] = mem[PageOf(g, fault[g].va)]
          /\ Mapped(g, PFTEMP)
      BY <2>4 DEF Inv, Handles
    <3>2. \A v \in VA : Mapped(g, v) => mem'[PageOf(g, v)] = mem[PageOf(g, v)]
      BY <2>2 DEF Sets, Mapped, PageOf
    <3>3. \A v \in VA : PageOf(g, v)' = PageOf(g, v)
      BY <2>2 DEF PageOf
    <3> QED
      BY <2>1, <3>1, <3>2, <3>3
  <2> QED
    BY <2>1, <2>3, <2>4 DEF Handles, PageOf
<1> QED
  BY <1>1, <1>2

LEMMA AloneKept ==
  ASSUME Inv, \A g \in Env, v \in Private : map'[g][v] = map[g][v],
         \A g \in Env : pc'[g].at \in Live =>
           \/ /\ pc[g].at \in Live
              /\ pc[g].at = "self" => pc'[g].at = "self" /\ pc'[g].child = pc[g].child
                                      /\ pc'[g].todo = pc[g].todo
           \/ \A v \in Private : PermOf(g, v) # "w"
  PROVE  Alone'
<1> SUFFICES ASSUME NEW e \in Env, NEW g \in Env, NEW va \in Private,
                    pc'[e].at \in Live, PermOf(e, va)' = "w",
                    Mapped(g, va)', PageOf(g, va)' = PageOf(e, va)'
             PROVE  g = e \/ (/\ pc'[e].at = "self" /\ g = pc'[e].child
                              /\ va = Min(pc'[e].todo))
  BY DEF Alone
<1>1. /\ PermOf(e, va) = "w" /\ Mapped(g, va) /\ PageOf(g, va) = PageOf(e, va)
  BY DEF PermOf, Mapped, PageOf
<1>2. pc[e].at \in Live /\ (pc[e].at = "self" =>
         pc'[e].at = "self" /\ pc'[e].child = pc[e].child /\ pc'[e].todo = pc[e].todo)
  BY <1>1
<1> QED
  BY <1>1, <1>2 DEF Inv, Alone

\* No mapping changes, but some environments do.
LEMMA SamePages ==
  ASSUME Inv, UNCHANGED map
  PROVE  Perms' /\ Apart' /\ Together'
BY DEF Inv, Perms, Apart, Together, Mapped, PageOf, PermOf

LEMMA SameHandles ==
  ASSUME Inv, UNCHANGED <<map, mem>>, NEW g \in Env,
         fault'[g] = fault[g], pc[g].at \in Live => pc'[g].at \in Live
  PROVE  Handles(g)'
BY DEF Inv, Handles, Mapped, PageOf

-----------------------------------------------------------------------------
\* pgfault.

LEMMA PgfaultAllocInv ==
  ASSUME Inv, NEW e \in Env, PgfaultAlloc(e)
  PROVE  Inv'
<1>1. /\ fault[e].at = "alloc" /\ PageAlloc(e, PFTEMP)
      /\ fault' = [fault EXCEPT ![e].at = "copy"] /\ UNCHANGED <<handler, pc>>
  BY DEF PgfaultAlloc
<1>2. PICK p \in Page : /\ Sets(e, PFTEMP, [page |-> p, perm |-> "w"])
                        /\ \A g \in Env, v \in VA : Mapped(g, v) => PageOf(g, v) # p
  BY <1>1, AllocSets, Addresses DEF Inv
<1> DEFINE pte == [page |-> p, perm |-> "w"]
<1>3. pte \in Pte /\ pte.page = p /\ pte.perm = "w"
  BY DEF Pte
<1> HIDE DEF pte
<1>4. Sets(e, PFTEMP, pte) /\ PFTEMP \in VA /\ PFTEMP \notin Program
  BY <1>2, Addresses DEF pte
<1>5. PagesInv'
  BY <1>2, AllocPages DEF Inv, PagesInv
<1>6. /\ fault'[e].at = "copy" /\ fault'[e].va = fault[e].va
      /\ \A g \in Env \ {e} : fault'[g] = fault[g]
  BY <1>1 DEF Inv, TypeOK
<1>7. TypeOK'
  <2>1. fault' \in [Env -> [at : {"none", "alloc", "copy", "map"}, va : VA]]
    BY <1>1 DEF Inv, TypeOK
  <2> QED
    BY <1>1, <1>4, <2>1 DEF Inv, TypeOK, Sets
<1>8. pc[e].at \in Live /\ fault[e].va \in Private
  BY <1>1 DEF Inv, Handles
<1>9. ASSUME NEW g \in Env PROVE Has(g)'
  <2>1. Has(g)
    BY DEF Inv
  <2>2. CASE g = e
    <3>1. \A v \in Program \cup {XSTACK} : map'[g][v] = map[g][v]
      BY <1>4, Addresses DEF Sets
    <3>2. Private \subseteq Program
      BY Kinds
    <3>3. pc[g].at \notin {"none", "gone", "new"}
      BY <1>8, <2>2 DEF Live, Forking
    <3> QED
      BY <1>1, <2>1, <3>1, <3>2, <3>3 DEF Has, Mapped, PermOf
  <2>3. CASE g # e
    BY <1>1, <1>4, <2>1, <2>3, HasKept DEF Sets
  <2> QED
    BY <2>2, <2>3
<1>10. ASSUME NEW g \in Env PROVE Copies(g)'
  BY <1>1, <1>3, <1>4, SetsGrows, CopiesKept DEF Inv
<1>11. ASSUME NEW g \in Env PROVE Handles(g)'
  <2>1. CASE g = e
    <3>1. map'[e][PFTEMP] = pte
      BY <1>4 DEF Sets
    <3>2. \A h \in Env, v \in VA : map'[h][v] # None /\ map'[h][v].page = p
             => h = e /\ v = PFTEMP
      BY <1>2, <1>4 DEF Sets, Mapped, PageOf
    <3>3. pte # None
      BY <1>3
    <3> QED
      BY <1>1, <1>3, <1>6, <1>8, <2>1, <3>1, <3>2, <3>3 DEF Handles, Mapped, PageOf
  <2>2. CASE g # e
    <3>1. fault[g].at \in {"copy", "map"} => pte.page # PageOf(g, PFTEMP)
      BY <1>2, <1>3, Addresses DEF Inv, Handles
    <3> QED
      BY <1>1, <1>3, <1>4, <1>6, <2>2, <3>1, HandlesKept
  <2> QED
    BY <2>1, <2>2
<1>12. Alone'
  <2>1. \A g \in Env, v \in Private : map'[g][v] = map[g][v]
    BY <1>4, Kinds, Addresses DEF Sets
  <2> QED
    BY <1>1, <2>1, AloneKept
<1>13. Children'
  BY <1>1 DEF Inv, Children, Makes
<1> QED
  BY <1>5, <1>7, <1>9, <1>10, <1>11, <1>12, <1>13 DEF Inv, PagesInv

LEMMA PgfaultMapInv ==
  ASSUME Inv, NEW e \in Env, PgfaultMap(e)
  PROVE  Inv'
<1> DEFINE va == fault[e].va
           pte == [page |-> PageOf(e, PFTEMP), perm |-> "w"]
<1>1. /\ fault[e].at = "map" /\ PageMap(e, PFTEMP, e, va, "w")
      /\ fault' = [fault EXCEPT ![e] = NoFault] /\ UNCHANGED <<handler, pc>>
  BY DEF PgfaultMap
<1>2. /\ pc[e].at \in Live /\ va \in Private /\ va \in VA /\ va \in Program
      /\ Mapped(e, va) /\ Mapped(e, PFTEMP) /\ PFTEMP \in VA /\ PFTEMP # va
  <2>1. pc[e].at \in Live /\ va \in Private /\ Mapped(e, PFTEMP)
    BY <1>1 DEF Inv, Handles
  <2>2. va \in VA /\ va \in Program
    BY <2>1, Kinds, Addresses
  <2>3. Mapped(e, va)
    BY <2>1, <2>2 DEF Inv, Has
  <2> QED
    BY <2>1, <2>2, <2>3, Addresses
<1>3. Sets(e, va, pte)
  BY <1>1, <1>2, MapSets DEF Inv
<1>4. pte \in Pte /\ pte.page = PageOf(e, PFTEMP) /\ pte.perm = "w" /\ pte # None
  <2>1. pte \in Pte
    BY <1>2, PteFacts DEF Inv, Pte
  <2> QED
    BY <2>1
<1> HIDE DEF va, pte
<1>5. \A g \in Env, v \in VA : Mapped(g, v) /\ PageOf(g, v) = pte.page
                                => g = e /\ v = PFTEMP
  BY <1>1, <1>4 DEF Inv, Handles
<1>6. fault'[e] = NoFault /\ \A g \in Env \ {e} : fault'[g] = fault[g]
  BY <1>1 DEF Inv, TypeOK
<1>a. /\ map'[e][va] = pte
      /\ \A g \in Env, v \in VA : g # e \/ v # va => map'[g][v] = map[g][v]
  BY <1>3 DEF Sets
<1>b. \A g \in Env, v \in VA : map'[g][v] # None /\ map'[g][v].page = pte.page
                                => g = e /\ v \in {PFTEMP, va}
  BY <1>5, <1>a DEF Mapped, PageOf
<1>7. TypeOK'
  <2>1. fault' \in [Env -> [at : {"none", "alloc", "copy", "map"}, va : VA]]
    BY <1>1, <1>2 DEF Inv, TypeOK, NoFault
  <2> QED
    BY <1>1, <1>3, <2>1 DEF Inv, TypeOK, Sets
<1>8. Perms'
  <2>1. "w" \in PermsOf(va)
    BY <1>2 DEF PermsOf
  <2> QED
    BY <2>1, <1>4, <1>a DEF Inv, Perms, Mapped, PermOf, PermsOf
<1>9. Apart'
  <2> SUFFICES ASSUME NEW f \in Env, NEW g \in Env, NEW v \in VA, NEW vb \in VA,
                      map'[f][v] # None, map'[g][vb] # None,
                      map'[f][v].page = map'[g][vb].page
               PROVE  v = vb \/ (PFTEMP \in {v, vb} /\ {v, vb} \subseteq Private \cup {PFTEMP})
    BY DEF Apart, Mapped, PageOf
  <2>1. CASE map'[f][v].page = pte.page
    <3>1. v \in {PFTEMP, va} /\ vb \in {PFTEMP, va}
      BY <1>b, <2>1
    <3> QED
      BY <3>1, <1>2
  <2>2. CASE map'[f][v].page # pte.page
    <3>1. map'[f][v] = map[f][v] /\ map'[g][vb] = map[g][vb]
      BY <2>2, <1>a
    <3> QED
      BY <3>1 DEF Inv, Apart, Mapped, PageOf
  <2> QED
    BY <2>1, <2>2
<1>10. Together'
  <2>1. \A g \in Env, v \in Shared : map'[g][v] = map[g][v]
    BY <1>2, <1>a, Kinds, Addresses
  <2> QED
    BY <2>1 DEF Inv, Together, Mapped, PageOf
<1>11. ASSUME NEW g \in Env PROVE Has(g)'
  <2>1. Has(g)
    BY DEF Inv
  <2>2. CASE g = e
    <3>1. \A v \in VA : Mapped(e, v) => Mapped(e, v)'
      BY <1>3, <1>4, SetsGrows, <1>2
    <3>2. \A v \in Private : PermOf(e, v) = "w" => PermOf(e, v)' = "w"
      BY <1>4, <1>a, Kinds, Addresses DEF PermOf
    <3>3. pc[g].at \notin {"none", "gone", "new", "bad"}
      BY <1>2, <2>2 DEF Live, Forking
    <3>4. Program \subseteq VA /\ XSTACK \in VA
      BY Addresses
    <3> QED
      BY <1>1, <2>1, <2>2, <3>1, <3>2, <3>3, <3>4 DEF Has
  <2>3. CASE g # e
    BY <1>1, <1>a, <2>1, <2>3, HasKept
  <2> QED
    BY <2>2, <2>3
<1>12. ASSUME NEW g \in Env PROVE Copies(g)'
  BY <1>1, <1>2, <1>3, <1>4, SetsGrows, CopiesKept DEF Inv
<1>13. ASSUME NEW g \in Env PROVE Handles(g)'
  <2>1. CASE g = e
    BY <1>6, <2>1 DEF Handles, NoFault
  <2>2. CASE g # e
    <3>1. fault[g].at \in {"copy", "map"} => pte.page # PageOf(g, PFTEMP)
      BY <1>2, <1>5, <2>2 DEF Inv, Handles
    <3> QED
      BY <1>1, <1>2, <1>3, <1>4, <1>6, <2>2, <3>1, HandlesKept
  <2> QED
    BY <2>1, <2>2
<1>14. Alone'
  <2> SUFFICES ASSUME NEW f \in Env, NEW g \in Env, NEW v \in Private,
                      pc'[f].at \in Live, map'[f][v].perm = "w",
                      map'[g][v] # None, map'[g][v].page = map'[f][v].page
               PROVE  g = f \/ (pc'[f].at = "self" /\ g = pc'[f].child
                                /\ v = Min(pc'[f].todo))
    BY DEF Alone, Mapped, PageOf, PermOf
  <2>1. v \in VA /\ v # PFTEMP /\ v \in Program
    BY Kinds, Addresses
  <2>2. map'[f][v] # None
    <3>1. Mapped(f, v)
      BY <1>1, <2>1 DEF Inv, Has
    <3> QED
      BY <3>1, <1>2, <1>3, <1>4, <2>1, SetsGrows DEF Mapped
  <2>3. CASE map'[f][v].page = pte.page
    BY <1>b, <2>1, <2>2, <2>3
  <2>4. CASE map'[f][v].page # pte.page
    <3>1. map'[f][v] = map[f][v] /\ map'[g][v] = map[g][v]
      BY <1>a, <2>1, <2>4
    <3> QED
      BY <1>1, <3>1 DEF Inv, Alone, Mapped, PageOf, PermOf
  <2> QED
    BY <2>3, <2>4
<1>15. Children'
  BY <1>1 DEF Inv, Children, Makes
<1> QED
  BY <1>7, <1>8, <1>9, <1>10, <1>11, <1>12, <1>13, <1>14, <1>15 DEF Inv

LEMMA PgfaultNoMemoryInv ==
  ASSUME Inv, NEW e \in Env, PgfaultNoMemory(e)
  PROVE  Inv'
<1>1. /\ fault[e].at = "alloc" /\ UNCHANGED <<map, mem, handler>>
      /\ fault' = [fault EXCEPT ![e] = NoFault] /\ pc' = [pc EXCEPT ![e].at = "nomem"]
  BY DEF PgfaultNoMemory, Panic
<1>2. pc[e].at \in Live /\ pc[e] \in Local
  BY <1>1 DEF Inv, Handles, TypeOK
<1>3. /\ pc'[e].at = "nomem" /\ pc'[e].child = pc[e].child
      /\ pc' \in [Env -> Local]
      /\ \A g \in Env \ {e} : pc'[g] = pc[g]
  BY <1>1, <1>2 DEF Inv, TypeOK, Local
<1>4. fault'[e] = NoFault /\ \A g \in Env \ {e} : fault'[g] = fault[g]
  BY <1>1 DEF Inv, TypeOK
<1>5. TypeOK'
  <2>1. fault' \in [Env -> [at : {"none", "alloc", "copy", "map"}, va : VA]]
    BY <1>1, Addresses DEF Inv, TypeOK, NoFault
  <2> QED
    BY <1>1, <1>3, <2>1 DEF Inv, TypeOK
<1>6. Perms' /\ Apart' /\ Together'
  BY <1>1, SamePages
<1>7. ASSUME NEW g \in Env PROVE Has(g)' /\ Copies(g)' /\ Handles(g)'
  <2>1. CASE g = e
    <3>1. Has(g)'
      BY <1>1, <1>2, <1>3, <2>1 DEF Inv, Has, Live, Forking, Mapped, PermOf
    <3>2. Copies(g)' /\ Handles(g)'
      BY <1>3, <1>4, <2>1 DEF Copies, Forking, Handles, NoFault
    <3> QED
      BY <3>1, <3>2
  <2>2. CASE g # e
    <3>1. pc'[g] = pc[g] /\ fault'[g] = fault[g] /\ Has(g) /\ Copies(g)
      BY <1>3, <1>4, <2>2 DEF Inv
    <3>2. Has(g)'
      BY <1>1, <3>1, HasKept
    <3>3. Copies(g)'
      BY <1>1, <3>1, CopiesKept DEF Inv, Mapped
    <3>4. Handles(g)'
      BY <1>1, <3>1, SameHandles
    <3> QED
      BY <3>2, <3>3, <3>4
  <2> QED
    BY <2>1, <2>2
<1>8. Alone'
  BY <1>1, <1>3, AloneKept DEF Live, Forking
<1>9. Children'
  <2>1. pc[e].child = None \/ pc[e].at \in Forking
    BY <1>2 DEF Inv, Has, Live
  <2>2. pc[e].at # "new"
    BY <1>2 DEF Live, Forking
  <2> QED
    BY <1>3, <2>1, <2>2, SameChild DEF Inv
<1> QED
  BY <1>5, <1>6, <1>7, <1>8, <1>9 DEF Inv

-----------------------------------------------------------------------------
\* fork.

LEMMA SetHandlerInv ==
  ASSUME Inv, NEW e \in Env, SetHandler(e)
  PROVE  Inv'
<1>1. /\ pc[e].at = "run" /\ pc[e].at \in Live /\ pc[e].child = None
      /\ fault[e].at = "none" /\ e \notin handler /\ UNCHANGED fault
  BY DEF SetHandler, Running, Live, Inv, Has
<1>2. CASE Free = {}
  <2>1. UNCHANGED <<map, mem, handler>> /\ pc' = [pc EXCEPT ![e].at = "nomem"]
    BY <1>2 DEF SetHandler, Panic
  <2>2. /\ pc'[e].at = "nomem" /\ pc'[e].child = pc[e].child /\ pc' \in [Env -> Local]
        /\ \A g \in Env \ {e} : pc'[g] = pc[g]
    <3>1. pc[e] \in Local
      BY DEF Inv, TypeOK
    <3> QED
      BY <2>1, <3>1 DEF Inv, TypeOK, Local
  <2>3. ASSUME NEW g \in Env PROVE Has(g)' /\ Copies(g)' /\ Handles(g)'
    <3>1. CASE g = e
      BY <1>1, <2>1, <2>2, <3>1 DEF Inv, Has, Live, Forking, Mapped, PermOf, Copies, Handles
    <3>2. CASE g # e
      <4>1. pc'[g] = pc[g] /\ fault'[g] = fault[g] /\ Has(g) /\ Copies(g)
        BY <1>1, <2>2, <3>2 DEF Inv
      <4> QED
        BY <2>1, <4>1, HasKept, CopiesKept, SameHandles DEF Inv, Mapped
    <3> QED
      BY <3>1, <3>2
  <2>4. Perms' /\ Apart' /\ Together' /\ Alone'
    BY <2>1, <2>2, SamePages, AloneKept DEF Live, Forking
  <2>5. Children'
    BY <1>1, <2>2, SameChild DEF Inv
  <2>6. TypeOK'
    BY <1>1, <2>1, <2>2 DEF Inv, TypeOK
  <2> QED
    BY <2>3, <2>4, <2>5, <2>6 DEF Inv
<1>3. CASE Free # {}
  <2>1. PageAlloc(e, XSTACK) /\ handler' = handler \cup {e} /\ UNCHANGED pc
    BY <1>3 DEF SetHandler
  <2>2. PICK p \in Page : /\ Sets(e, XSTACK, [page |-> p, perm |-> "w"])
                          /\ \A g \in Env, v \in VA : Mapped(g, v) => PageOf(g, v) # p
    BY <2>1, AllocSets, Addresses DEF Inv
  <2> DEFINE pte == [page |-> p, perm |-> "w"]
  <2>3. pte \in Pte /\ pte.page = p /\ pte # None
    <3>1. pte \in Pte
      BY DEF Pte
    <3> QED
      BY <3>1
  <2>4. PagesInv'
    BY <2>2, AllocPages DEF Inv, PagesInv
  <2> HIDE DEF pte
  <2>5. Sets(e, XSTACK, pte) /\ XSTACK \in VA /\ XSTACK \notin Program
    BY <2>2, Addresses DEF pte
  <2>6. /\ map'[e][XSTACK] = pte
        /\ \A g \in Env, v \in VA : g # e \/ v # XSTACK => map'[g][v] = map[g][v]
    BY <2>5 DEF Sets
  <2>7. ASSUME NEW g \in Env PROVE Has(g)'
    <3>1. CASE g = e
      <4>1. \A v \in Program : map'[e][v] = map[e][v]
        BY <2>5, <2>6, Addresses
      <4>2. Private \subseteq Program
        BY Kinds
      <4> QED
        BY <1>1, <2>1, <2>3, <2>6, <3>1, <4>1, <4>2 DEF Inv, Has, Live, Forking, Mapped, PermOf
    <3>2. CASE g # e
      BY <2>1, <2>6, <3>2, HasKept DEF Inv
    <3> QED
      BY <3>1, <3>2
  <2>8. ASSUME NEW g \in Env PROVE Copies(g)'
    BY <2>1, <2>3, <2>5, SetsGrows, CopiesKept DEF Inv
  <2>9. ASSUME NEW g \in Env PROVE Handles(g)'
    <3>1. fault[g].at \in {"copy", "map"} => pte.page # PageOf(g, PFTEMP)
      BY <2>2, <2>3, Addresses DEF Inv, Handles
    <3>2. fault[g].at # "none" => e # g
      BY <1>1
    <3> QED
      BY <1>1, <2>1, <2>3, <2>5, <3>1, <3>2, HandlesKept
  <2>10. Alone'
    <3>1. \A g \in Env, v \in Private : map'[g][v] = map[g][v]
      BY <2>5, <2>6, Kinds, Addresses
    <3> QED
      BY <2>1, <3>1, AloneKept
  <2>11. Children'
    BY <2>1 DEF Inv, Children, Makes
  <2>12. TypeOK'
    BY <1>1, <2>1, <2>5 DEF Inv, TypeOK, Sets
  <2> QED
    BY <2>4, <2>7, <2>8, <2>9, <2>10, <2>11, <2>12 DEF Inv, PagesInv
<1> QED
  BY <1>2, <1>3

LEMMA ExoforkInv ==
  ASSUME Inv, NEW e \in Env, NEW d \in Env, Exofork(e, d)
  PROVE  Inv'
<1> DEFINE l == [at |-> "dup", todo |-> VA, child |-> d]
<1>1. /\ pc[e].at = "run" /\ fault[e].at = "none" /\ e \in handler /\ pc[d].at = "none"
      /\ pc' = [pc EXCEPT ![d] = At("new"), ![e] = l]
      /\ UNCHANGED <<map, mem, handler, fault>>
  BY DEF Exofork, Running
<1>2. /\ l.at = "dup" /\ l.todo = VA /\ l.child = d /\ l \in Local
      /\ At("new").at = "new" /\ At("new") \in Local
  BY DEF At, Local
<1> HIDE DEF l
<1>3. /\ e # d /\ pc'[e] = l /\ pc'[d] = At("new") /\ pc' \in [Env -> Local]
      /\ \A g \in Env \ {e, d} : pc'[g] = pc[g]
  BY <1>1, <1>2 DEF Inv, TypeOK
<1>4. TypeOK'
  BY <1>1, <1>3 DEF Inv, TypeOK
<1>5. fault[d].at = "none" /\ d # None
  BY <1>1 DEF Inv, Handles, Live, Forking
<1>6. Perms' /\ Apart' /\ Together'
  BY <1>1, SamePages
<1>7. ASSUME NEW g \in Env PROVE Has(g)' /\ Copies(g)' /\ Handles(g)'
  <2>1. CASE g = e
    <3>1. Has(g)'
      BY <1>1, <1>2, <1>3, <2>1 DEF Inv, Has, Live, Forking, Mapped, PermOf
    <3>2. Program \ VA = {}
      BY Addresses
    <3>3. Copies(g)' /\ Handles(g)'
      BY <1>1, <1>2, <1>3, <1>5, <2>1, <3>2 DEF Copies, Handles, Forking
    <3> QED
      BY <3>1, <3>3
  <2>2. CASE g = d
    <3>1. \A v \in Private : ~Mapped(d, v)
      BY <1>1, Kinds, Addresses DEF Inv, Has
    <3>2. Has(g)'
      BY <1>1, <1>2, <1>3, <2>2, <3>1 DEF Inv, Has, Live, Forking, Mapped
    <3>3. Copies(g)' /\ Handles(g)'
      BY <1>1, <1>2, <1>3, <1>5, <2>2 DEF Copies, Handles, Forking
    <3> QED
      BY <3>2, <3>3
  <2>3. CASE g \notin {e, d}
    <3>1. pc'[g] = pc[g] /\ fault'[g] = fault[g] /\ Has(g) /\ Copies(g)
      BY <1>1, <1>3, <2>3 DEF Inv
    <3> QED
      BY <1>1, <3>1, HasKept, CopiesKept, SameHandles DEF Inv, Mapped
  <2> QED
    BY <2>1, <2>2, <2>3
<1>8. Alone'
  <2>1. \A g \in Env : pc'[g].at \in Live =>
          /\ pc[g].at \in Live
          /\ pc[g].at = "self" => pc'[g] = pc[g]
    BY <1>1, <1>2, <1>3 DEF Live, Forking
  <2> QED
    BY <1>1, <2>1, AloneKept
<1>9. Children'
  <2>1. \A g, x \in Env : Makes(g, x)' <=> (g = e /\ x = d) \/ Makes(g, x)
    BY <1>1, <1>2, <1>3 DEF Makes, Forking
  <2>2. \A g, x \in Env : Makes(g, x) => x \notin {e, d}
    BY <1>1 DEF Inv, Children
  <2>3. \A x \in Env : pc'[x].at = "new" <=> x = d \/ pc[x].at = "new"
    BY <1>1, <1>2, <1>3
  <2> QED
    BY <2>1, <2>2, <2>3 DEF Inv, Children
<1> QED
  BY <1>4, <1>6, <1>7, <1>8, <1>9 DEF Inv

\* The local variables of an environment that is in fork.
LEMMA InFork ==
  ASSUME Inv, NEW e \in Env, Running(e), pc[e].at # "run"
  PROVE  /\ pc[e].at \in Forking /\ pc[e].at \in Live /\ fault[e].at = "none"
         /\ e \in handler /\ pc[e].child \in Env /\ pc[pc[e].child].at = "new"
         /\ pc[e].child # e /\ fault[pc[e].child].at = "none"
         /\ pc[e].todo \subseteq VA
         /\ pc[e].todo # {} => Min(pc[e].todo) \in pc[e].todo
         /\ \A v \in Program : Mapped(e, v)
<1>1. pc[e].at \in Forking /\ pc[e].at \in Live /\ fault[e].at = "none"
  BY DEF Running, Live, Forking
<1>2. e \in handler /\ pc[e].child \in Env /\ pc[e].todo \subseteq VA
  BY <1>1 DEF Inv, Has, Copies, TypeOK, Local
<1>3. pc[pc[e].child].at = "new"
  BY <1>1, <1>2 DEF Inv, Children, Makes
<1>4. pc[e].child # e /\ fault[pc[e].child].at = "none"
  BY <1>1, <1>2, <1>3 DEF Inv, Handles, Live, Forking
<1>5. pc[e].todo # {} => Min(pc[e].todo) \in pc[e].todo
  BY <1>2, MinOf, Addresses
<1>6. \A v \in Program : Mapped(e, v)
  BY <1>1 DEF Inv, Has
<1> QED
  BY <1>1, <1>2, <1>3, <1>4, <1>5, <1>6

LEMMA DoneFacts ==
  ASSUME TypeOK, NEW e \in Env, NEW place \in Forking, NEW S, Done(e, place, S)
  PROVE  /\ pc' \in [Env -> Local]
         /\ pc'[e].at = place /\ pc'[e].child = pc[e].child /\ pc'[e].todo = pc[e].todo \ S
         /\ \A g \in Env \ {e} : pc'[g] = pc[g]
<1>1. pc[e] \in Local
  BY DEF TypeOK
<1> DEFINE l == [[pc[e] EXCEPT !.at = place] EXCEPT !.todo = pc[e].todo \ S]
<1>2. /\ l \in Local /\ l.at = place /\ l.child = pc[e].child /\ l.todo = pc[e].todo \ S
  BY <1>1 DEF Local, Forking
<1>3. pc' = [pc EXCEPT ![e] = l]
  BY DEF Done, TypeOK
<1> HIDE DEF l
<1> QED
  BY <1>2, <1>3 DEF TypeOK

\* An address of which the child gets nothing: the exception stack, or nothing
\* is there.
LEMMA DupPageSkip ==
  ASSUME Inv, NEW e \in Env, Running(e), pc[e].at = "dup", pc[e].todo # {},
         NextVa(e) = XSTACK \/ map[e][NextVa(e)] = None,
         Done(e, "dup", {NextVa(e)}), UNCHANGED <<map, mem, handler, fault>>
  PROVE  Inv'
<1> DEFINE va == NextVa(e)
<1>1. va \in VA /\ va \notin Program
  <2>1. va \in VA /\ \A v \in Program : Mapped(e, v)
    BY InFork DEF NextVa
  <2> QED
    BY <2>1, Addresses DEF Mapped
<1>2. /\ pc' \in [Env -> Local]
      /\ pc'[e].at = "dup" /\ pc'[e].child = pc[e].child /\ pc'[e].todo = pc[e].todo \ {va}
      /\ \A g \in Env \ {e} : pc'[g] = pc[g]
  BY DoneFacts DEF Inv, Forking
<1> HIDE DEF va
<1>3. TypeOK' /\ Perms' /\ Apart' /\ Together'
  BY <1>2, SamePages DEF Inv, TypeOK
<1>4. ASSUME NEW g \in Env PROVE Has(g)' /\ Copies(g)' /\ Handles(g)'
  <2>1. CASE g = e
    <3>1. Has(g)'
      BY <1>2, <2>1, InFork DEF Inv, Has, Live, Forking, Mapped, PermOf
    <3>2. Copies(g)'
      <4>1. /\ pc[e].child # None
            /\ \A v \in Program \ pc[e].todo : Mapped(pc[e].child, v)
        BY InFork DEF Inv, Copies
      <4>2. \A v \in Program \ pc'[e].todo : v \in Program \ pc[e].todo
        BY <1>1, <1>2
      <4> QED
        BY <1>2, <2>1, <4>1, <4>2 DEF Copies, Mapped
    <3>3. Handles(g)'
      BY <2>1, InFork DEF Handles
    <3> QED
      BY <3>1, <3>2, <3>3
  <2>2. CASE g # e
    BY <1>2, <2>2, HasKept, CopiesKept, SameHandles DEF Inv, Mapped
  <2> QED
    BY <2>1, <2>2
<1>5. Alone'
  <2>1. pc[e].at \in Live /\ pc[e].at # "self"
    BY InFork
  <2> QED
    BY <1>2, <2>1, AloneKept
<1>6. Children'
  BY <1>2, InFork, SameChild DEF Inv, Forking
<1> QED
  BY <1>3, <1>4, <1>5, <1>6 DEF Inv

\* A page is mapped in the child, copy-on-write or as it is.
LEMMA DupPageMap ==
  ASSUME Inv, NEW e \in Env, Running(e), pc[e].at = "dup", pc[e].todo # {},
         NEW va, va = NextVa(e), NEW d, d = pc[e].child,
         va # XSTACK, Mapped(e, va),
         NEW perm, UNCHANGED <<handler, fault>>,
         PageMap(e, va, d, va, perm),
         \/ /\ PermOf(e, va) \in {"share", "ro"} /\ perm = PermOf(e, va)
            /\ Done(e, "dup", {va})
         \/ /\ PermOf(e, va) \notin {"share", "ro"} /\ perm = "cow"
            /\ Done(e, "self", {})
  PROVE  Inv'
<1>1. /\ va \in VA /\ va \in pc[e].todo /\ va = Min(pc[e].todo)
      /\ d \in Env /\ d # e /\ pc[d].at = "new" /\ fault[e].at = "none" /\ fault[d].at = "none"
      /\ pc[e].at \in Live /\ e \in handler
  BY InFork DEF NextVa
<1>2. PermOf(e, va) \in PermsOf(va) /\ va # XSTACK
  BY <1>1 DEF Inv, Perms
<1>3. va \in Program \cup {PFTEMP}
  BY <1>1, <1>2, Addresses
<1>4. \/ va \in Private \cup {PFTEMP} /\ perm = "cow" /\ PermOf(e, va) \in {"w", "cow"}
      \/ va \in Shared \cup ReadOnly /\ perm = PermOf(e, va) /\ perm \in {"share", "ro"}
  BY <1>2, <1>3, Kinds, Addresses DEF PermsOf
<1>5. perm \in PermsOf(va) /\ perm \in {"w", "cow", "share", "ro"}
  BY <1>2, <1>4 DEF PermsOf
<1>6. PICK pte \in Pte : /\ pte = [page |-> PageOf(e, va), perm |-> perm]
                         /\ Sets(d, va, pte)
  <2>1. [page |-> PageOf(e, va), perm |-> perm] \in Pte
    BY <1>1, <1>5, PteFacts DEF Inv, Pte
  <2>2. Sets(d, va, [page |-> PageOf(e, va), perm |-> perm])
    BY <1>1, <1>5, MapSets DEF Inv
  <2> QED
    BY <2>1, <2>2
<1>7. pte.page = PageOf(e, va) /\ pte.perm = perm /\ pte # None
  BY <1>6
<1>8. PagesInv'
  BY <1>1, <1>5, <1>6, CopyPages DEF Inv, PagesInv
<1>9. \/ /\ pc'[e].at = "dup" /\ pc'[e].todo = pc[e].todo \ {va}
         /\ va \in Shared \cup ReadOnly
      \/ /\ pc'[e].at = "self" /\ pc'[e].todo = pc[e].todo
         /\ va \in Private \cup {PFTEMP}
  <2>1. CASE Done(e, "dup", {va}) /\ PermOf(e, va) \in {"share", "ro"}
    BY <1>4, <2>1, DoneFacts DEF Inv, Forking
  <2>2. CASE Done(e, "self", {}) /\ PermOf(e, va) \notin {"share", "ro"}
    <3>1. pc'[e].at = "self" /\ pc'[e].todo = pc[e].todo \ {}
      BY <2>2, DoneFacts DEF Inv, Forking
    <3> QED
      BY <1>4, <2>2, <3>1
  <2> QED
    BY <2>1, <2>2
<1>10. /\ pc' \in [Env -> Local] /\ pc'[e].child = d
       /\ \A g \in Env \ {e} : pc'[g] = pc[g]
  <2>1. \E place \in Forking : \E S : Done(e, place, S)
    BY DEF Forking
  <2> QED
    BY <2>1, DoneFacts DEF Inv
<1>11. /\ map'[d][va] = pte
       /\ \A g \in Env, v \in VA : g # d \/ v # va => map'[g][v] = map[g][v]
  BY <1>6 DEF Sets
<1>12. TypeOK'
  BY <1>6, <1>10 DEF Inv, TypeOK, Sets
<1>13. ASSUME NEW g \in Env PROVE Has(g)'
  <2>1. CASE g = e
    <3>1. \A v \in VA : map'[e][v] = map[e][v]
      BY <1>1, <1>11
    <3>2. \A v \in Program : Mapped(e, v)'
      BY <3>1, <1>1, Addresses DEF Inv, Has, Mapped
    <3>3. Mapped(e, XSTACK)'
      BY <3>1, <1>1, Addresses DEF Inv, Has, Mapped
    <3> QED
      BY <1>1, <1>9, <2>1, <3>2, <3>3 DEF Has, Live, Forking
  <2>2. CASE g = d
    <3>1. pc'[d].at = "new"
      BY <1>1, <1>10
    <3>2. d \in handler => Mapped(d, XSTACK)'
      BY <1>1, <1>2, <1>11, Addresses DEF Inv, Has, Mapped
    <3>3. \A v \in Private : Mapped(d, v)' => PermOf(d, v)' = "cow"
      <4>1. ASSUME NEW v \in Private, Mapped(d, v)' PROVE PermOf(d, v)' = "cow"
        <5>1. CASE v = va
          BY <1>4, <1>7, <1>11, <5>1, Kinds, Addresses DEF PermOf
        <5>2. CASE v # va
          <6>1. Has(d)
            BY <1>1 DEF Inv
          <6>2. map'[d][v] = map[d][v]
            BY <1>1, <1>11, <5>2, Kinds, Addresses
          <6> QED
            BY <1>1, <4>1, <6>1, <6>2 DEF Has, Mapped, PermOf
        <5> QED
          BY <5>1, <5>2
      <4> QED
        BY <4>1
    <3> QED
      BY <2>2, <3>1, <3>2, <3>3 DEF Has, Live, Forking
  <2>3. CASE g \notin {e, d}
    BY <1>10, <1>11, <2>3, HasKept DEF Inv
  <2> QED
    BY <2>1, <2>2, <2>3
<1>14. ASSUME NEW g \in Env PROVE Copies(g)'
  <2>1. \A h \in Env, v \in VA : Mapped(h, v) => Mapped(h, v)'
    BY <1>1, <1>6, <1>7, SetsGrows
  <2>2. CASE g = e
    <3>1. /\ d # None
          /\ \A v \in Program \ pc[e].todo : Mapped(d, v)'
      BY <1>1, <2>1, Addresses DEF Inv, Copies, Forking
    <3>2. Mapped(d, va)'
      BY <1>7, <1>11 DEF Mapped
    <3>3. Mapped(e, va)'
      BY <1>1, <2>1
    <3>4. CASE pc'[e].at = "dup" /\ pc'[e].todo = pc[e].todo \ {va}
      BY <1>10, <2>2, <3>1, <3>2, <3>4 DEF Copies, Mapped
    <3>5. CASE pc'[e].at = "self" /\ pc'[e].todo = pc[e].todo
                /\ va \in Private \cup {PFTEMP}
      BY <1>1, <1>10, <2>2, <3>1, <3>2, <3>3, <3>5 DEF Copies, Mapped
    <3> QED
      BY <1>9, <3>4, <3>5
  <2>3. CASE g # e
    BY <1>10, <2>1, <2>3, CopiesKept DEF Inv
  <2> QED
    BY <2>2, <2>3
<1>15. ASSUME NEW g \in Env PROVE Handles(g)'
  <2>1. fault[g].at \in {"copy", "map"} => pte.page # PageOf(g, PFTEMP)
    BY <1>1, <1>7 DEF Inv, Handles
  <2>2. fault[g].at # "none" => d # g
    BY <1>1
  <2>3. pc[g].at \in Live => pc'[g].at \in Live
    BY <1>9, <1>10 DEF Live, Forking
  <2> QED
    BY <1>1, <1>6, <1>7, <2>1, <2>2, <2>3, HandlesKept
<1>16. Alone'
  <2>1. \A g \in Env : pc'[g].at \in Live => pc[g].at \in Live
    BY <1>1, <1>10
  <2> SUFFICES ASSUME NEW f \in Env, NEW g \in Env, NEW v \in Private,
                      pc'[f].at \in Live, map'[f][v].perm = "w",
                      map'[g][v] # None, map'[g][v].page = map'[f][v].page
               PROVE  g = f \/ (pc'[f].at = "self" /\ g = pc'[f].child
                                /\ v = Min(pc'[f].todo))
    BY DEF Alone, Mapped, PageOf, PermOf
  <2>2. v \in VA /\ v \in Program /\ v # PFTEMP
    BY Kinds, Addresses
  <2>3. f # d
    <3>1. pc'[d].at = "new"
      BY <1>1, <1>10
    <3> QED
      BY <3>1 DEF Live, Forking
  <2>4. map'[f][v] = map[f][v] /\ pc[f].at \in Live
    BY <1>11, <2>1, <2>2, <2>3
  <2>5. CASE ~(g = d /\ v = va)
    <3>1. map'[g][v] = map[g][v]
      BY <1>11, <2>2, <2>5
    <3>2. g = f \/ (pc[f].at = "self" /\ g = pc[f].child /\ v = Min(pc[f].todo))
      BY <2>4, <3>1 DEF Inv, Alone, Mapped, PageOf, PermOf
    <3>3. pc[f].at = "self" => pc'[f] = pc[f]
      BY <1>10
    <3> QED
      BY <3>2, <3>3
  <2>6. CASE g = d /\ v = va
    <3>1. map[e][va].page = map[f][va].page /\ Mapped(e, va)
      BY <1>7, <1>11, <2>4, <2>6 DEF PageOf
    <3>2. e = f \/ (pc[f].at = "self" /\ e = pc[f].child)
      BY <2>4, <2>6, <3>1 DEF Inv, Alone, Mapped, PageOf, PermOf
    <3>3. e = f
      <4>1. pc[f].at = "self" /\ e = pc[f].child => pc[e].at = "new"
        BY DEF Inv, Children, Makes, Forking
      <4> QED
        BY <1>1, <3>2, <4>1 DEF Live, Forking
    <3>4. va \in Private
      BY <2>6
    <3>5. pc'[e].at = "self" /\ pc'[e].todo = pc[e].todo
      BY <1>9, <3>4, Kinds
    <3> QED
      BY <1>1, <1>10, <2>6, <3>3, <3>5
  <2> QED
    BY <2>5, <2>6
<1>17. Children'
  <2>1. pc'[e].at \in Forking /\ pc[e].at \in Forking
    BY <1>9, InFork DEF Forking
  <2>2. pc'[e].at # "new" /\ pc[e].at # "new"
    BY <2>1 DEF Forking
  <2> QED
    BY <1>10, <2>1, <2>2, SameChild DEF Inv
<1> QED
  BY <1>8, <1>12, <1>13, <1>14, <1>15, <1>16, <1>17 DEF Inv, PagesInv

LEMMA DupPageInv ==
  ASSUME Inv, NEW e \in Env, DupPage(e)
  PROVE  Inv'
<1> DEFINE va == NextVa(e)
<1>1. Running(e) /\ pc[e].at = "dup" /\ pc[e].todo # {} /\ UNCHANGED <<handler, fault>>
  BY DEF DupPage
<1>2. CASE va = XSTACK \/ map[e][va] = None
  <2>1. Done(e, "dup", {va}) /\ UNCHANGED <<map, mem>>
    BY <1>2 DEF DupPage
  <2> QED
    BY <1>1, <1>2, <2>1, DupPageSkip
<1>3. CASE ~(va = XSTACK \/ map[e][va] = None)
  <2>1. CASE PermOf(e, va) \in {"share", "ro"}
    <3>1. PageMap(e, va, pc[e].child, va, PermOf(e, va)) /\ Done(e, "dup", {va})
      BY <1>3, <2>1 DEF DupPage, PermOf
    <3> QED
      BY <1>1, <1>3, <2>1, <3>1, DupPageMap DEF Mapped
  <2>2. CASE PermOf(e, va) \notin {"share", "ro"}
    <3>1. PageMap(e, va, pc[e].child, va, "cow") /\ Done(e, "self", {})
      BY <1>3, <2>2 DEF DupPage, PermOf
    <3> QED
      BY <1>1, <1>3, <2>2, <3>1, DupPageMap DEF Mapped
  <2> QED
    BY <2>1, <2>2
<1> QED
  BY <1>2, <1>3

LEMMA DupSelfInv ==
  ASSUME Inv, NEW e \in Env, DupSelf(e)
  PROVE  Inv'
<1>1. /\ Running(e) /\ pc[e].at = "self" /\ UNCHANGED <<handler, fault>>
      /\ PageMap(e, NextVa(e), e, NextVa(e), "cow") /\ Done(e, "dup", {NextVa(e)})
  BY DEF DupSelf
<1>2. PICK va : va = NextVa(e) /\ va = Min(pc[e].todo)
  BY DEF NextVa
<1>3. PICK d : d = pc[e].child
  OBVIOUS
<1>4. /\ va \in Private \cup {PFTEMP} /\ va \in VA /\ Mapped(e, va) /\ Mapped(d, va)
      /\ d \in Env /\ d # e /\ fault[e].at = "none" /\ e \in handler
      /\ \A v \in Program \ pc[e].todo : Mapped(d, v)
  <2>1. /\ va \in Private \cup {PFTEMP} /\ Mapped(e, va) /\ Mapped(d, va)
        /\ \A v \in Program \ pc[e].todo : Mapped(d, v)
    BY <1>1, <1>2, <1>3 DEF Inv, Copies, Forking
  <2> QED
    BY <1>1, <1>3, <2>1, InFork, Kinds, Addresses
<1>5. PICK pte \in Pte : /\ pte = [page |-> PageOf(e, va), perm |-> "cow"]
                         /\ Sets(e, va, pte)
  <2>1. [page |-> PageOf(e, va), perm |-> "cow"] \in Pte
    BY <1>4, PteFacts DEF Inv, Pte
  <2>2. Sets(e, va, [page |-> PageOf(e, va), perm |-> "cow"])
    BY <1>1, <1>2, <1>4, MapSets DEF Inv
  <2> QED
    BY <2>1, <2>2
<1>6. /\ pte.page = PageOf(e, va) /\ pte.perm = "cow" /\ pte # None
      /\ map'[e][va] = pte
      /\ \A g \in Env, v \in VA : g # e \/ v # va => map'[g][v] = map[g][v]
  BY <1>5 DEF Sets
<1>7. /\ pc' \in [Env -> Local] /\ \A g \in Env \ {e} : pc'[g] = pc[g]
      /\ pc'[e].at = "dup" /\ pc'[e].child = d /\ pc'[e].todo = pc[e].todo \ {va}
  BY <1>1, <1>2, <1>3, DoneFacts DEF Inv, Forking
<1>8. TypeOK'
  BY <1>1, <1>5, <1>7 DEF Inv, TypeOK, Sets
<1>9. PagesInv'
  BY <1>4, <1>5, CopyPages DEF Inv, PagesInv, PermsOf
<1>10. \A g \in Env, v \in VA : Mapped(g, v) => Mapped(g, v)'
  BY <1>4, <1>5, <1>6, SetsGrows
<1>11. ASSUME NEW g \in Env PROVE Has(g)' /\ Copies(g)'
  <2>1. CASE g = e
    <3>1. /\ \A v \in Program : Mapped(e, v)'
          /\ Mapped(e, XSTACK)'
      BY <1>1, <1>4, <1>10, InFork, Addresses DEF Inv, Has
    <3>2. Has(g)'
      BY <1>1, <1>4, <1>7, <2>1, <3>1 DEF Has, Live, Forking
    <3>3. \A v \in Program \ pc'[e].todo : Mapped(d, v)'
      BY <1>4, <1>7, <1>10, Addresses
    <3>4. d # None
      BY <1>4
    <3> QED
      BY <1>7, <2>1, <3>2, <3>3, <3>4 DEF Copies, Mapped
  <2>2. CASE g # e
    BY <1>1, <1>6, <1>7, <1>10, <2>2, HasKept, CopiesKept DEF Inv
  <2> QED
    BY <2>1, <2>2
<1>12. ASSUME NEW g \in Env PROVE Handles(g)'
  <2>1. fault[g].at \in {"copy", "map"} => pte.page # PageOf(g, PFTEMP)
    BY <1>4, <1>6 DEF Inv, Handles
  <2>2. fault[g].at # "none" => e # g
    BY <1>4
  <2>3. pc[g].at \in Live => pc'[g].at \in Live
    BY <1>7 DEF Live, Forking
  <2> QED
    BY <1>1, <1>4, <1>5, <2>1, <2>2, <2>3, HandlesKept
<1>13. Alone'
  <2> SUFFICES ASSUME NEW f \in Env, NEW g \in Env, NEW v \in Private,
                      pc'[f].at \in Live, map'[f][v].perm = "w",
                      map'[g][v] # None, map'[g][v].page = map'[f][v].page
               PROVE  g = f \/ (pc'[f].at = "self" /\ g = pc'[f].child
                                /\ v = Min(pc'[f].todo))
    BY DEF Alone, Mapped, PageOf, PermOf
  <2>1. v \in VA
    BY Kinds, Addresses
  <2>2. ~(f = e /\ v = va)
    BY <1>6
  <2>3. map'[f][v] = map[f][v]
    BY <1>6, <2>1, <2>2
  <2>4. Mapped(g, v) /\ PageOf(g, v) = map'[g][v].page
    BY <1>4, <1>6, <2>1 DEF Mapped, PageOf
  <2>5. pc[f].at \in Live
    BY <1>1, <1>7 DEF Live, Forking
  <2>6. g = f \/ (pc[f].at = "self" /\ g = pc[f].child /\ v = Min(pc[f].todo))
    BY <2>3, <2>4, <2>5 DEF Inv, Alone, PageOf, PermOf
  <2> QED
    BY <1>2, <1>7, <2>2, <2>6
<1>14. Children'
  BY <1>1, <1>3, <1>7, SameChild DEF Inv, Forking
<1> QED
  BY <1>8, <1>9, <1>11, <1>12, <1>13, <1>14 DEF Inv, PagesInv

LEMMA ChildStackInv ==
  ASSUME Inv, NEW e \in Env, ChildStack(e)
  PROVE  Inv'
<1>1. /\ Running(e) /\ pc[e].at = "dup" /\ pc[e].todo = {} /\ UNCHANGED <<handler, fault>>
  BY DEF ChildStack
<1>2. PICK d : d = pc[e].child
  OBVIOUS
<1>3. /\ d \in Env /\ d # e /\ pc[d].at = "new" /\ fault[d].at = "none"
      /\ e \in handler /\ fault[e].at = "none" /\ pc[e].at \in Live /\ d # None
      /\ \A v \in Program : Mapped(e, v) /\ Mapped(d, v)
  <2>1. \A v \in Program \ {} : Mapped(d, v)
    BY <1>1, <1>2 DEF Inv, Copies, Forking
  <2> QED
    BY <1>1, <1>2, <2>1, InFork
<1>4. CASE Free = {}
  <2>1. UNCHANGED <<map, mem>> /\ pc' = [pc EXCEPT ![e].at = "nomem"]
    BY <1>4 DEF ChildStack, Panic
  <2>2. /\ pc'[e].at = "nomem" /\ pc'[e].child = pc[e].child /\ pc' \in [Env -> Local]
        /\ \A g \in Env \ {e} : pc'[g] = pc[g]
    <3>1. pc[e] \in Local
      BY DEF Inv, TypeOK
    <3> QED
      BY <2>1, <3>1 DEF Inv, TypeOK, Local
  <2>3. ASSUME NEW g \in Env PROVE Has(g)' /\ Copies(g)' /\ Handles(g)'
    <3>1. CASE g = e
      <4>1. Has(g)
        BY DEF Inv
      <4>2. Has(g)'
        BY <1>1, <1>3, <2>1, <2>2, <3>1, <4>1 DEF Has, Live, Forking, Mapped
      <4>3. Copies(g)' /\ Handles(g)'
        BY <1>1, <1>3, <2>1, <2>2, <3>1 DEF Copies, Handles, Forking
      <4> QED
        BY <4>2, <4>3
    <3>2. CASE g # e
      <4>1. pc'[g] = pc[g] /\ fault'[g] = fault[g] /\ Has(g) /\ Copies(g)
        BY <1>1, <2>2, <3>2 DEF Inv
      <4> QED
        BY <1>1, <2>1, <4>1, HasKept, CopiesKept, SameHandles DEF Inv, Mapped
    <3> QED
      BY <3>1, <3>2
  <2>4. Perms' /\ Apart' /\ Together' /\ Alone'
    BY <2>1, <2>2, SamePages, AloneKept DEF Live, Forking
  <2>5. Children'
    BY <1>1, <2>2, SameChild DEF Inv, Forking
  <2>6. TypeOK'
    BY <1>1, <2>1, <2>2 DEF Inv, TypeOK
  <2> QED
    BY <2>3, <2>4, <2>5, <2>6 DEF Inv
<1>5. CASE Free # {}
  <2>1. PageAlloc(d, XSTACK) /\ Done(e, "start", {})
    BY <1>2, <1>5 DEF ChildStack
  <2>2. PICK p \in Page : /\ Sets(d, XSTACK, [page |-> p, perm |-> "w"])
                          /\ \A g \in Env, v \in VA : Mapped(g, v) => PageOf(g, v) # p
    BY <1>3, <2>1, AllocSets, Addresses DEF Inv
  <2>3. PICK pte \in Pte : /\ pte = [page |-> p, perm |-> "w"] /\ Sets(d, XSTACK, pte)
    <3>1. [page |-> p, perm |-> "w"] \in Pte
      BY DEF Pte
    <3> QED
      BY <2>2, <3>1
  <2>4. PagesInv'
    BY <1>3, <2>2, AllocPages DEF Inv, PagesInv
  <2>5. /\ pte.page = p /\ pte # None /\ XSTACK \in VA /\ XSTACK \notin Program
        /\ map'[d][XSTACK] = pte
        /\ \A g \in Env, v \in VA : g # d \/ v # XSTACK => map'[g][v] = map[g][v]
    BY <2>3, Addresses DEF Sets
  <2>6. /\ pc' \in [Env -> Local] /\ \A g \in Env \ {e} : pc'[g] = pc[g]
        /\ pc'[e].at = "start" /\ pc'[e].child = d /\ pc'[e].todo = {}
    BY <1>1, <1>2, <2>1, DoneFacts DEF Inv, Forking
  <2>7. \A g \in Env, v \in VA : Mapped(g, v) => Mapped(g, v)'
    BY <1>3, <2>3, <2>5, SetsGrows
  <2>8. ASSUME NEW g \in Env PROVE Has(g)' /\ Copies(g)'
    <3>1. CASE g = e
      <4>1. \A v \in Program : Mapped(e, v)' /\ Mapped(d, v)'
        BY <1>3, <2>7, Addresses
      <4>2. Mapped(e, XSTACK)' /\ Mapped(d, XSTACK)'
        BY <1>3, <2>5, <2>7 DEF Inv, Has, Mapped
      <4>3. Has(g)'
        BY <1>1, <1>3, <2>6, <3>1, <4>1, <4>2 DEF Has, Live, Forking
      <4>4. Copies(g)'
        BY <1>3, <2>6, <3>1, <4>1, <4>2 DEF Copies, Mapped
      <4> QED
        BY <4>3, <4>4
    <3>2. CASE g = d
      <4>1. pc'[d] = pc[d] /\ pc[d].at = "new"
        BY <1>3, <2>6
      <4>2. \A v \in Private : map'[d][v] = map[d][v]
        BY <1>3, <2>5, Kinds, Addresses
      <4>3. \A v \in Private : Mapped(d, v)' => PermOf(d, v)' = "cow"
        BY <1>3, <4>1, <4>2 DEF Inv, Has, Mapped, PermOf
      <4>4. Has(g)'
        BY <2>5, <3>2, <4>1, <4>3 DEF Has, Live, Forking, Mapped
      <4>5. Copies(g)'
        BY <3>2, <4>1 DEF Copies, Forking
      <4> QED
        BY <4>4, <4>5
    <3>3. CASE g \notin {e, d}
      BY <1>1, <2>5, <2>6, <2>7, <3>3, HasKept, CopiesKept DEF Inv
    <3> QED
      BY <3>1, <3>2, <3>3
  <2>9. ASSUME NEW g \in Env PROVE Handles(g)'
    <3>1. fault[g].at \in {"copy", "map"} => pte.page # PageOf(g, PFTEMP)
      BY <2>2, <2>5, Addresses DEF Inv, Handles
    <3>2. fault[g].at # "none" => d # g
      BY <1>3
    <3>3. pc[g].at \in Live => pc'[g].at \in Live
      BY <2>6 DEF Live, Forking
    <3> QED
      BY <1>1, <1>3, <2>3, <2>5, <3>1, <3>2, <3>3, HandlesKept
  <2>10. Alone'
    <3>1. \A g \in Env, v \in Private : map'[g][v] = map[g][v]
      BY <2>5, Kinds, Addresses
    <3>2. \A g \in Env : pc'[g].at \in Live =>
            /\ pc[g].at \in Live
            /\ pc[g].at = "self" => pc'[g] = pc[g]
      BY <1>1, <1>3, <2>6
    <3> QED
      BY <3>1, <3>2, AloneKept
  <2>11. Children'
    BY <1>1, <1>2, <2>6, SameChild DEF Inv, Forking
  <2>12. TypeOK'
    BY <1>1, <2>3, <2>6 DEF Inv, TypeOK, Sets
  <2> QED
    BY <2>4, <2>8, <2>9, <2>10, <2>11, <2>12 DEF Inv, PagesInv
<1> QED
  BY <1>4, <1>5

LEMMA StartInv ==
  ASSUME Inv, NEW e \in Env, Start(e)
  PROVE  Inv'
<1>1. /\ Running(e) /\ pc[e].at = "start" /\ UNCHANGED <<map, mem, fault>>
  BY DEF Start
<1>2. PICK d : d = pc[e].child
  OBVIOUS
<1>3. /\ d \in Env /\ d # e /\ pc[d].at = "new" /\ e \in handler /\ pc[e].at \in Live
      /\ \A v \in Program : Mapped(e, v) /\ Mapped(d, v)
      /\ Mapped(e, XSTACK) /\ Mapped(d, XSTACK)
  <2>1. pc[e].todo = {} /\ Mapped(d, XSTACK) /\ \A v \in Program \ pc[e].todo : Mapped(d, v)
    BY <1>1, <1>2 DEF Inv, Copies, Forking
  <2> QED
    BY <1>1, <1>2, <2>1, InFork DEF Inv, Has
<1>4. /\ handler' = handler \cup {d}
      /\ pc' = [pc EXCEPT ![e] = At("run"), ![d] = At("run")]
  BY <1>2 DEF Start
<1>5. At("run").at = "run" /\ At("run").child = None /\ At("run") \in Local
  BY DEF At, Local
<1>6. /\ pc' \in [Env -> Local] /\ pc'[e] = At("run") /\ pc'[d] = At("run")
      /\ \A g \in Env \ {e, d} : pc'[g] = pc[g]
  BY <1>3, <1>4, <1>5 DEF Inv, TypeOK
<1>7. Perms' /\ Apart' /\ Together' /\ TypeOK'
  BY <1>1, <1>3, <1>4, <1>6, SamePages DEF Inv, TypeOK
<1>8. ASSUME NEW g \in Env PROVE Has(g)' /\ Copies(g)' /\ Handles(g)'
  <2>1. CASE g \in {e, d}
    <3>1. Has(g)'
      BY <1>1, <1>3, <1>4, <1>5, <1>6, <2>1 DEF Has, Live, Forking, Mapped
    <3>2. Copies(g)'
      BY <1>5, <1>6, <2>1 DEF Copies, Forking
    <3>3. Handles(g)'
      BY <1>1, <1>5, <1>6, <2>1, SameHandles DEF Live
    <3> QED
      BY <3>1, <3>2, <3>3
  <2>2. CASE g \notin {e, d}
    <3>1. pc'[g] = pc[g] /\ fault'[g] = fault[g] /\ Has(g) /\ Copies(g)
      BY <1>1, <1>6, <2>2 DEF Inv
    <3> QED
      BY <1>1, <1>4, <2>2, <3>1, HasKept, CopiesKept, SameHandles DEF Inv, Mapped
  <2> QED
    BY <2>1, <2>2
<1>9. Alone'
  <2>1. \A v \in Private : PermOf(d, v) # "w"
    BY <1>3, Kinds DEF Inv, Has
  <2>2. pc[e].at # "self"
    BY <1>1
  <2> QED
    BY <1>1, <1>3, <1>6, <2>1, <2>2, AloneKept
<1>10. Children'
  <2>1. \A g, x \in Env : Makes(g, x)' <=> Makes(g, x) /\ g # e
    BY <1>3, <1>5, <1>6 DEF Makes, Forking
  <2>2. Makes(e, d) /\ pc[e].at # "new"
    BY <1>1, <1>2 DEF Makes, Forking
  <2>3. \A x \in Env : pc'[x].at = "new" <=> pc[x].at = "new" /\ x # d
    BY <1>1, <1>5, <1>6
  <2>4. \A x \in Env : Makes(e, x) => x = d
    BY <1>2 DEF Makes
  <2>5. Children
    BY DEF Inv
  <2> QED
    BY <2>1, <2>2, <2>3, <2>4, <2>5 DEF Children
<1> QED
  BY <1>7, <1>8, <1>9, <1>10 DEF Inv

LEMMA ExitInv ==
  ASSUME Inv, NEW e \in Env, Exit(e)
  PROVE  Inv'
<1> DEFINE m == [map EXCEPT ![e] = [va \in VA |-> None]]
<1>1. /\ pc[e].at = "run" /\ pc[e].child = None /\ fault[e].at = "none"
      /\ Remap(m, mem) /\ handler' = handler \ {e}
      /\ pc' = [pc EXCEPT ![e] = At("gone")] /\ UNCHANGED fault
  BY DEF Exit, Running, Inv, Has
<1>2. /\ map' \in [Env -> [VA -> Pte \cup {None}]]
      /\ \A v \in VA : map'[e][v] = None
      /\ \A g \in Env \ {e}, v \in VA : map'[g][v] = map[g][v]
  BY <1>1 DEF Remap, Inv, TypeOK
<1>3. /\ mem' \in [Page -> Value]
      /\ \A g \in Env, v \in VA : map'[g][v] # None =>
            mem'[map'[g][v].page] = mem[map'[g][v].page]
  <2>1. mem' = [p \in Page |-> IF p \in Used(map') THEN mem[p] ELSE Zero]
    BY <1>1 DEF Remap
  <2>2. \A g \in Env, v \in VA : map'[g][v] # None =>
          map'[g][v].page \in Page /\ map'[g][v].page \in Used(map')
    BY <1>2 DEF Used, Pte
  <2> QED
    BY <2>1, <2>2 DEF Inv, TypeOK
<1> HIDE DEF m
<1>4. At("gone").at = "gone" /\ At("gone").child = None /\ At("gone") \in Local
  BY DEF At, Local
<1>5. /\ pc' \in [Env -> Local] /\ pc'[e] = At("gone")
      /\ \A g \in Env \ {e} : pc'[g] = pc[g]
  BY <1>1, <1>4 DEF Inv, TypeOK
<1>6. TypeOK'
  BY <1>1, <1>2, <1>3, <1>5 DEF Inv, TypeOK
<1>7. \A g \in Env, v \in VA : map'[g][v] # None => g # e /\ map'[g][v] = map[g][v]
  BY <1>2
<1>8. Perms' /\ Apart' /\ Together'
  <2>1. Perms'
    BY <1>7 DEF Inv, Perms, Mapped, PermOf, PermsOf
  <2>2. Apart'
    BY <1>7 DEF Inv, Apart, Mapped, PageOf
  <2>3. Shared \subseteq VA
    BY Kinds, Addresses
  <2>4. Together'
    BY <1>7, <2>3 DEF Inv, Together, Mapped, PageOf
  <2> QED
    BY <2>1, <2>2, <2>4
<1>9. ASSUME NEW g \in Env PROVE Has(g)' /\ Copies(g)' /\ Handles(g)'
  <2>1. CASE g = e
    BY <1>1, <1>2, <1>4, <1>5, <2>1 DEF Has, Copies, Handles, Live, Forking, Mapped
  <2>2. CASE g # e
    <3>1. pc'[g] = pc[g] /\ fault'[g] = fault[g] /\ Has(g) /\ Copies(g) /\ Handles(g)
      BY <1>1, <1>5, <2>2 DEF Inv
    <3>2. Has(g)'
      BY <1>1, <1>2, <2>2, <3>1, HasKept
    <3>3. Copies(g)'
      <4>1. pc[g].at \in Forking => pc[g].child # e
        <5>1. pc[g].at \in Forking => pc[g].child \in Env
          BY <3>1 DEF Copies, Inv, TypeOK, Local
        <5> QED
          BY <1>1, <5>1 DEF Inv, Children, Makes
      <4> QED
        BY <1>2, <2>2, <3>1, <4>1, CopiesKept DEF Inv, Mapped
    <3>4. Handles(g)'
      <4>1. PFTEMP \in VA /\ Private \subseteq VA /\ Private \subseteq Program
        BY Kinds, Addresses
      <4>2. map'[g][PFTEMP] = map[g][PFTEMP]
        BY <1>2, <2>2, <4>1
      <4>3. fault[g].at \in {"copy", "map"} =>
              \A h \in Env, v \in VA :
                map'[h][v] # None /\ map'[h][v].page = map'[g][PFTEMP].page
                => h = g /\ v = PFTEMP
        BY <1>7, <3>1, <4>2 DEF Handles, Mapped, PageOf
      <4>4. ASSUME fault[g].at = "map"
            PROVE  mem'[map'[g][PFTEMP].page] = mem'[map'[g][fault[g].va].page]
        <5>1. pc[g].at \in Live /\ fault[g].va \in Private /\ Mapped(g, PFTEMP)
          BY <3>1, <4>4 DEF Handles
        <5>2. Mapped(g, fault[g].va)
          BY <3>1, <4>1, <5>1 DEF Has
        <5>3. /\ map'[g][fault[g].va] = map[g][fault[g].va] /\ fault[g].va \in VA
              /\ map'[g][fault[g].va] # None /\ map'[g][PFTEMP] # None
          BY <1>2, <2>2, <4>1, <4>2, <5>1, <5>2 DEF Mapped
        <5>4. /\ mem'[map'[g][PFTEMP].page] = mem[map[g][PFTEMP].page]
              /\ mem'[map'[g][fault[g].va].page] = mem[map[g][fault[g].va].page]
          <6> DEFINE va == fault[g].va
          <6>1. mem'[map'[g][PFTEMP].page] = mem[map'[g][PFTEMP].page]
            BY <1>3, <4>1, <5>3
          <6>2. va \in VA /\ map'[g][va] # None /\ map'[g][va] = map[g][va]
            BY <5>3
          <6> HIDE DEF va
          <6>3. mem'[map'[g][va].page] = mem[map'[g][va].page]
            BY <1>3, <6>2
          <6> QED
            BY <4>2, <6>1, <6>2, <6>3 DEF va
        <5> QED
          BY <3>1, <4>4, <5>4 DEF Handles, PageOf
      <4>5. fault[g].at \in {"copy", "map"} => Mapped(g, PFTEMP)'
        BY <3>1, <4>2 DEF Handles, Mapped
      <4> QED
        BY <3>1, <4>3, <4>4, <4>5 DEF Handles, Mapped, PageOf
    <3> QED
      BY <3>2, <3>3, <3>4
  <2> QED
    BY <2>1, <2>2
<1>10. Alone'
  <2> SUFFICES ASSUME NEW f \in Env, NEW g \in Env, NEW v \in Private,
                      pc'[f].at \in Live, map'[f][v].perm = "w",
                      map'[g][v] # None, map'[g][v].page = map'[f][v].page
               PROVE  g = f \/ (pc'[f].at = "self" /\ g = pc'[f].child
                                /\ v = Min(pc'[f].todo))
    BY DEF Alone, Mapped, PageOf, PermOf
  <2>1. v \in VA /\ f # e /\ g # e
    BY <1>4, <1>5, <1>7, Kinds, Addresses DEF Live, Forking
  <2> QED
    BY <1>2, <1>5, <2>1 DEF Inv, Alone, Mapped, PageOf, PermOf
<1>11. Children'
  <2>1. \A g, x \in Env : Makes(g, x)' <=> Makes(g, x)
    BY <1>1, <1>4, <1>5 DEF Makes, Forking
  <2>2. \A x \in Env : pc'[x].at = "new" <=> pc[x].at = "new"
    BY <1>1, <1>4, <1>5
  <2> QED
    BY <2>1, <2>2 DEF Inv, Children
<1> QED
  BY <1>6, <1>8, <1>9, <1>10, <1>11 DEF Inv

LEMMA NextInv == Inv /\ [Next]_vars => Inv'
<1> SUFFICES ASSUME Inv, [Next]_vars PROVE Inv'
  OBVIOUS
<1>1. ASSUME NEW e \in Env, NEW va \in Private \cup Shared, NEW v \in Value, Write(e, va, v)
      PROVE  Inv'
  BY <1>1, WriteInv
<1>2. ASSUME NEW e \in Env, NEW va \in Private \cup Shared, Fault(e, va)
      PROVE  Inv'
  BY <1>2, FaultInv
<1>3. ASSUME NEW e \in Env,
             PgfaultAlloc(e) \/ PgfaultCopy(e) \/ PgfaultMap(e) \/ PgfaultNoMemory(e)
      PROVE  Inv'
  BY <1>3, PgfaultAllocInv, PgfaultCopyInv, PgfaultMapInv, PgfaultNoMemoryInv
<1>4. ASSUME NEW e \in Env,
             SetHandler(e) \/ DupPage(e) \/ DupSelf(e) \/ ChildStack(e) \/ Start(e) \/ Exit(e)
      PROVE  Inv'
  BY <1>4, SetHandlerInv, DupPageInv, DupSelfInv, ChildStackInv, StartInv, ExitInv
<1>5. ASSUME NEW e \in Env, NEW d \in Env, Exofork(e, d)
      PROVE  Inv'
  BY <1>5, ExoforkInv
<1>6. CASE UNCHANGED vars
  <2>1. UNCHANGED <<map, mem, handler, fault, pc>>
    BY <1>6 DEF vars
  <2>2. \A g \in Env : Handles(g)'
    BY <2>1, SameHandles
  <2> QED
    BY <2>1, <2>2, SameMappings DEF Inv, TypeOK
<1> QED
  BY <1>1, <1>2, <1>3, <1>4, <1>5, <1>6 DEF Next

LEMMA Inductive == Spec => []Inv
BY InitInv, NextInv, PTL DEF Spec

-----------------------------------------------------------------------------
\* The variables keep their types (what fork, duppage, pgfault and exit write).
THEOREM TypeCorrect == Spec => []TypeOK
<1>1. Inv => TypeOK
  BY DEF Inv
<1> QED
  BY <1>1, Inductive, PTL

\* No environment that writes its own writable memory is destroyed for it by
\* page_fault_handler, and pgfault never panics for the kind of the fault:
\* whoever can fault on a copy-on-write page has an upcall and a stack for it.
THEOREM NeverIllegal == Spec => []LegalFaults
<1>1. Inv => LegalFaults
  BY DEF Inv, Has, LegalFaults
<1> QED
  BY <1>1, Inductive, PTL

-----------------------------------------------------------------------------
(* fork is a copy.  The memory of AbstractFork is what the pages hold.     *)

Parent == [d \in Env |-> Forker(d)]

\* e has all of its program: its pages are those that Common looks at.
Whole(e) == \A va \in Program : Mapped(e, va)

LEMMA WholeFacts ==
  ASSUME Inv, NEW e \in Env, pc[e].at \in Live \cup {"nomem"}
  PROVE  Whole(e)
BY DEF Inv, Has, Whole

LEMMA MemoryAt ==
  ASSUME Inv, NEW e \in Env, NEW va \in Private
  PROVE  /\ Mapped(e, va) => /\ Memory[e][va] = mem[PageOf(e, va)]
                             /\ Memory[e][va] \in Value /\ Memory[e][va] # None
         /\ ~Mapped(e, va) => Memory[e][va] = None
<1>1. va \in VA
  BY Kinds, Addresses
<1>2. Mapped(e, va) => mem[PageOf(e, va)] \in Value
  BY <1>1, PteFacts DEF Inv, TypeOK
<1> QED
  BY <1>2 DEF Memory, Mapped, PageOf

LEMMA CommonAt ==
  ASSUME Inv, NEW e \in Env, NEW va \in Shared, Mapped(e, va)
  PROVE  Common[va] = mem[PageOf(e, va)]
<1> DEFINE E == {g \in Env : map[g][va] # None}
           g == CHOOSE x \in E : TRUE
<1>1. e \in E
  BY DEF Mapped
<1>2. g \in E
  BY <1>1
<1>3. Common[va] = mem[map[g][va].page]
  BY <1>1 DEF Common
<1> HIDE DEF g
<1>4. PageOf(g, va) = PageOf(e, va)
  BY <1>2 DEF Inv, Together, Mapped
<1> QED
  BY <1>3, <1>4 DEF PageOf

LEMMA CommonNext ==
  Inv' => (\A e \in Env, va \in Shared : Mapped(e, va) => Common[va] = mem[PageOf(e, va)])'
<1>1. Inv => \A e \in Env, va \in Shared : Mapped(e, va) => Common[va] = mem[PageOf(e, va)]
  BY CommonAt
<1> QED
  BY <1>1, PTL

LEMMA CommonType == Inv => Common \in [Shared -> Value]
<1> SUFFICES ASSUME Inv, NEW va \in Shared PROVE Common[va] \in Value
  BY DEF Common
<1>1. CASE \E e \in Env : Mapped(e, va)
  <2>1. PICK e \in Env : Mapped(e, va)
    BY <1>1
  <2>2. mem[PageOf(e, va)] \in Value
    BY <2>1, PteFacts, Kinds, Addresses DEF Inv, TypeOK
  <2> QED
    BY <2>1, <2>2, CommonAt
<1>2. CASE ~ \E e \in Env : Mapped(e, va)
  BY <1>2 DEF Common, Mapped
<1> QED
  BY <1>1, <1>2

\* What is shared stays as it is as long as somebody keeps it.
LEMMA SameCommon ==
  ASSUME Inv, Inv', NEW e \in Env, Whole(e),
         \A va \in Shared : /\ map'[e][va] = map[e][va]
                            /\ mem'[map[e][va].page] = mem[map[e][va].page]
  PROVE  Common' = Common
<1>1. ASSUME NEW va \in Shared PROVE Common'[va] = Common[va]
  <2>1. Mapped(e, va) /\ Mapped(e, va)'
    BY Kinds DEF Whole, Mapped
  <2>2. Common[va] = mem[PageOf(e, va)]
    BY <2>1, CommonAt
  <2>3. Common'[va] = mem'[map'[e][va].page]
    BY <2>1, CommonNext DEF Mapped, PageOf
  <2> QED
    BY <2>2, <2>3 DEF PageOf
<1> QED
  BY <1>1 DEF Common

LEMMA SetsMemory ==
  ASSUME Inv, NEW d \in Env, NEW va \in VA, NEW pte \in Pte, Sets(d, va, pte)
  PROVE  Memory' = IF va \in Private
                     THEN [Memory EXCEPT ![d] = [@ EXCEPT ![va] = mem[pte.page]]]
                     ELSE Memory
<1>1. Private \subseteq VA /\ pte # None
  BY Kinds, Addresses
<1>2. ASSUME NEW g \in Env, NEW v \in Private, g # d \/ v # va
      PROVE  Memory'[g][v] = Memory[g][v]
  <2>1. map'[g][v] = map[g][v]
    BY <1>1, <1>2 DEF Sets
  <2>2. map[g][v] # None => mem'[map[g][v].page] = mem[map[g][v].page]
    BY <1>1, <2>1 DEF Sets
  <2> QED
    BY <2>1, <2>2 DEF Memory
<1>3. va \in Private => Memory'[d][va] = mem[pte.page]
  BY <1>1 DEF Sets, Memory
<1>4. \A g \in Env : /\ Memory[g] = [v \in Private |-> Memory[g][v]]
                     /\ Memory'[g] = [v \in Private |-> Memory'[g][v]]
  BY DEF Memory
<1>5. Memory = [g \in Env |-> Memory[g]] /\ Memory' = [g \in Env |-> Memory'[g]]
  BY DEF Memory
<1> QED
  BY <1>2, <1>3, <1>4, <1>5

LEMMA SetsCommon ==
  ASSUME Inv, Inv', NEW d \in Env, NEW va \in VA, NEW pte \in Pte, Sets(d, va, pte),
         NEW e \in Env, Whole(e), d # e \/ va \notin Shared
  PROVE  Common' = Common
<1>1. ASSUME NEW v \in Shared
      PROVE  /\ map'[e][v] = map[e][v]
             /\ mem'[map[e][v].page] = mem[map[e][v].page]
  <2>1. v \in VA /\ map[e][v] # None
    BY Kinds, Addresses DEF Whole, Mapped
  <2>2. map'[e][v] = map[e][v]
    BY <2>1 DEF Sets
  <2> QED
    BY <2>1, <2>2 DEF Sets
<1> QED
  BY <1>1, SameCommon

LEMMA ForkerIs ==
  ASSUME Inv, NEW d \in Env
  PROVE  /\ pc[d].at # "new" => Forker(d) = None
         /\ \A e \in Env : Makes(e, d) => Forker(d) = e
         /\ Forker(d) # None => Makes(Forker(d), d) /\ Forker(d) \in Env
<1>1. pc[d].at # "new" => Forker(d) = None
  BY DEF Forker
<1>2. ASSUME NEW e \in Env, Makes(e, d) PROVE Forker(d) = e
  <2>1. pc[d].at = "new"
    BY <1>2 DEF Inv, Children
  <2>2. \A g \in Env : Makes(g, d) <=>
          pc[g].at \in {"dup", "self", "start", "nomem"} /\ pc[g].child = d
    BY DEF Makes, Forking
  <2>3. \A g \in Env : Makes(g, d) => g = e
    BY <1>2 DEF Inv, Children
  <2> QED
    BY <1>2, <2>1, <2>2, <2>3 DEF Forker
<1>3. Forker(d) # None => \E e \in Env : Makes(e, d)
  BY <1>1 DEF Inv, Children
<1> QED
  BY <1>1, <1>2, <1>3

LEMMA ForkerNext ==
  Inv' => (\A e, d \in Env : Makes(e, d) => Forker(d) = e)'
<1>1. Inv => \A e, d \in Env : Makes(e, d) => Forker(d) = e
  BY ForkerIs
<1> QED
  BY <1>1, PTL

LEMMA SameParent ==
  ASSUME Inv, Inv', NEW S \in SUBSET Env,
         \A g \in Env, x \in Env \ S : Makes(g, x)' <=> Makes(g, x)
  PROVE  \A x \in Env \ S : Forker(x)' = Forker(x)
<1> SUFFICES ASSUME NEW x \in Env \ S PROVE Forker(x)' = Forker(x)
  OBVIOUS
<1>1. CASE \E g \in Env : Makes(g, x)
  <2>1. PICK g \in Env : Makes(g, x) /\ Makes(g, x)'
    BY <1>1
  <2>2. Forker(x) = g
    BY <2>1, ForkerIs
  <2>3. (\A h, d \in Env : Makes(h, d) => Forker(d) = h)'
    BY ForkerNext
  <2> QED
    BY <2>1, <2>2, <2>3
<1>2. CASE ~ \E g \in Env : Makes(g, x)
  <2>1. pc[x].at # "new" /\ pc'[x].at # "new"
    <3>1. ~ \E g \in Env : Makes(g, x)'
      BY <1>2
    <3> QED
      BY <1>2, <3>1 DEF Inv, Children
  <2> QED
    BY <2>1 DEF Forker
<1> QED
  BY <1>1, <1>2

\* A step that nobody sees.
Hidden == UNCHANGED <<Memory, Common, Parent>>

LEMMA HiddenStutters == Hidden => UNCHANGED Forks!vars
BY DEF Hidden, Parent, Forks!vars

LEMMA UnchangedParent ==
  ASSUME Inv, Inv', \A g, x \in Env : Makes(g, x)' <=> Makes(g, x)
  PROVE  Parent' = Parent
<1>1. \A x \in Env \ {} : Forker(x)' = Forker(x)
  BY SameParent
<1> QED
  BY <1>1 DEF Parent

LEMMA RunsThere ==
  ASSUME Inv, NEW e \in Env, pc[e].at \in Live
  PROVE  Forks!Runs(e)
<1>1. Forker(e) = None
  BY ForkerIs DEF Live, Forking
<1>2. PICK va \in Private : TRUE
  OBVIOUS
<1>3. Mapped(e, va)
  BY WholeFacts, Kinds DEF Whole
<1>4. Memory[e][va] # None
  BY <1>3, MemoryAt
<1> QED
  BY <1>1, <1>4 DEF Forks!Runs, Forks!Empty

LEMMA WriteRefines ==
  ASSUME Inv, Inv', NEW e \in Env, NEW va \in Private \cup Shared, NEW v \in Value,
         Write(e, va, v)
  PROVE  Forks!Next
<1>1. /\ pc[e].at \in Live /\ UNCHANGED <<map, handler, fault, pc>>
      /\ mem' = [mem EXCEPT ![PageOf(e, va)] = v]
  BY DEF Write, Running, Live, Forking, PageOf
<1>2. Whole(e) /\ Forks!Runs(e)
  BY <1>1, WholeFacts, RunsThere
<1>3. /\ va \in Program /\ va \in VA /\ Mapped(e, va) /\ PageOf(e, va) \in Page
      /\ Private \subseteq VA /\ Shared \subseteq VA /\ PFTEMP \notin Private \cup Shared
      /\ Private \subseteq Program /\ Shared \subseteq Program
  BY <1>2, PteFacts, Kinds, Addresses DEF Inv, Whole
<1>4. \A p \in Page : mem'[p] = IF p = PageOf(e, va) THEN v ELSE mem[p]
  BY <1>1 DEF Inv, TypeOK
<1>5. \A g \in Env, vb \in Private \cup Shared :
        Mapped(g, vb) /\ PageOf(g, vb) = PageOf(e, va) => vb = va
  BY <1>3 DEF Inv, Apart
<1>6. \A g \in Env, vb \in Private \cup Shared : Mapped(g, vb) =>
        mem'[PageOf(g, vb)] = IF vb = va /\ PageOf(g, va) = PageOf(e, va)
                                THEN v ELSE mem[PageOf(g, vb)]
  <2> SUFFICES ASSUME NEW g \in Env, NEW vb \in Private \cup Shared, Mapped(g, vb)
               PROVE  mem'[PageOf(g, vb)] = IF vb = va /\ PageOf(g, va) = PageOf(e, va)
                                              THEN v ELSE mem[PageOf(g, vb)]
    OBVIOUS
  <2>1. PageOf(g, vb) \in Page
    BY <1>3, PteFacts DEF Inv
  <2> QED
    BY <1>4, <1>5, <2>1
<1>7. Parent' = Parent
  BY <1>1, UnchangedParent DEF Makes
<1>8. CASE va \in Private
  <2>1. va \notin Shared
    BY <1>8, Kinds
  <2>2. Common' = Common
    <3>1. \A vb \in Shared : mem'[map[e][vb].page] = mem[map[e][vb].page]
      BY <1>2, <1>3, <1>6, <2>1 DEF Whole, PageOf
    <3> QED
      BY <1>1, <1>2, <3>1, SameCommon
  <2> DEFINE D == {d \in Env : d # e /\ Mapped(d, va) /\ PageOf(d, va) = PageOf(e, va)}
  <2>3. D \in SUBSET {d \in Env : Forker(d) = e /\ Memory[d][va] # None}
    <3> SUFFICES ASSUME NEW d \in D PROVE Forker(d) = e /\ Memory[d][va] # None
      OBVIOUS
    <3>1. PermOf(e, va) = "w"
      BY <1>3, <1>8 DEF Write, Inv, Perms, PermsOf, PermOf
    <3>2. pc[e].at = "self" /\ d = pc[e].child
      BY <1>1, <1>8, <3>1 DEF Inv, Alone
    <3>3. Makes(e, d)
      BY <3>2 DEF Makes, Forking
    <3> QED
      BY <1>8, <3>3, ForkerIs, MemoryAt
  <2>4. Memory' = [f \in Env |-> IF f \in D \cup {e}
                     THEN [Memory[f] EXCEPT ![va] = v] ELSE Memory[f]]
    <3>1. ASSUME NEW f \in Env, NEW vb \in Private
          PROVE  Memory'[f][vb] = IF f \in D \cup {e} /\ vb = va THEN v ELSE Memory[f][vb]
      <4>1. CASE Mapped(f, vb)
        <5>1. Memory'[f][vb] = mem'[PageOf(f, vb)] /\ Memory[f][vb] = mem[PageOf(f, vb)]
          BY <1>1, <4>1 DEF Memory, Mapped, PageOf
        <5> QED
          BY <1>6, <4>1, <5>1
      <4>2. CASE ~Mapped(f, vb)
        <5>1. Memory'[f][vb] = None /\ Memory[f][vb] = None
          BY <1>1, <4>2 DEF Memory, Mapped
        <5> QED
          BY <1>3, <4>2, <5>1
      <4> QED
        BY <4>1, <4>2
    <3>2. \A f \in Env : /\ Memory[f] = [vb \in Private |-> Memory[f][vb]]
                         /\ Memory'[f] = [vb \in Private |-> Memory'[f][vb]]
      BY DEF Memory
    <3>3. Memory' = [f \in Env |-> Memory'[f]]
      BY DEF Memory
    <3> HIDE DEF D
    <3>4. \A f \in Env : Memory'[f] = IF f \in D \cup {e}
                                         THEN [Memory[f] EXCEPT ![va] = v] ELSE Memory[f]
      <4> SUFFICES ASSUME NEW f \in Env
                   PROVE  Memory'[f] = IF f \in D \cup {e}
                                         THEN [Memory[f] EXCEPT ![va] = v] ELSE Memory[f]
        OBVIOUS
      <4>1. CASE f \in D \cup {e}
        <5>1. \A vb \in Private : Memory'[f][vb] = IF vb = va THEN v ELSE Memory[f][vb]
          BY <3>1, <4>1
        <5> DEFINE now == Memory[f]
                   next == Memory'[f]
        <5>2. DOMAIN now = Private /\ next = [vb \in Private |-> next[vb]]
          BY DEF Memory
        <5>3. \A vb \in Private : next[vb] = IF vb = va THEN v ELSE now[vb]
          BY <5>1
        <5> HIDE DEF now, next
        <5>4. next = [now EXCEPT ![va] = v]
          BY <1>8, <5>2, <5>3
        <5> QED
          BY <4>1, <5>4 DEF now, next
      <4>2. CASE f \notin D \cup {e}
        <5>1. \A vb \in Private : Memory'[f][vb] = Memory[f][vb]
          BY <3>1, <4>2
        <5> DEFINE now == Memory[f]
                   next == Memory'[f]
        <5>3. now = [vb \in Private |-> now[vb]] /\ next = [vb \in Private |-> next[vb]]
          BY DEF Memory
        <5>4. \A vb \in Private : next[vb] = now[vb]
          BY <5>1
        <5> HIDE DEF now, next
        <5>2. next = now
          BY <5>3, <5>4
        <5> QED
          BY <4>2, <5>2 DEF now, next
      <4> QED
        BY <4>1, <4>2
    <3> QED
      BY <3>3, <3>4
  <2>5. Forks!Write(e, va, v)
    <3> HIDE DEF D
    <3> QED
      BY <1>2, <1>7, <2>2, <2>3, <2>4 DEF Forks!Write, Parent
  <2> QED
    BY <1>8, <2>5 DEF Forks!Next
<1>9. CASE va \in Shared
  <2>1. Memory' = Memory
    <3>1. va \notin Private
      BY <1>9, Kinds
    <3>2. \A f \in Env, vb \in Private : map[f][vb] # None =>
            mem'[map[f][vb].page] = mem[map[f][vb].page]
      BY <1>6, <3>1 DEF Mapped, PageOf
    <3> QED
      BY <1>1, <3>2 DEF Memory
  <2>2. ASSUME NEW vb \in Shared
        PROVE  Common'[vb] = IF vb = va THEN v ELSE Common[vb]
    <3>1. Mapped(e, vb) /\ Mapped(e, vb)'
      BY <1>1, <1>2, <1>3 DEF Whole, Mapped
    <3>2. Common'[vb] = mem'[PageOf(e, vb)] /\ Common[vb] = mem[PageOf(e, vb)]
      BY <1>1, <3>1, CommonNext, CommonAt DEF Mapped, PageOf
    <3> QED
      BY <1>6, <3>1, <3>2
  <2>3. Common' = [Common EXCEPT ![va] = v]
    <3>1. Common = [vb \in Shared |-> Common[vb]] /\ Common' = [vb \in Shared |-> Common'[vb]]
      BY DEF Common
    <3> QED
      BY <1>9, <2>2, <3>1
  <2>4. Forks!WriteShared(e, va, v)
    BY <1>2, <1>7, <2>1, <2>3 DEF Forks!WriteShared, Parent
  <2> QED
    BY <1>9, <2>4 DEF Forks!Next
<1> QED
  BY <1>8, <1>9

LEMMA SameContents ==
  ASSUME UNCHANGED <<map, mem>>
  PROVE  Memory' = Memory /\ Common' = Common
BY DEF Memory, Common

LEMMA SetsHidden ==
  ASSUME Inv, Inv', NEW d \in Env, NEW va \in VA, NEW pte \in Pte, Sets(d, va, pte),
         NEW e \in Env, Whole(e), d # e \/ va \notin Shared,
         va \in Private => Mapped(d, va) /\ mem[pte.page] = mem[PageOf(d, va)],
         Parent' = Parent
  PROVE  Hidden
<1>1. Memory' = Memory
  <2>1. CASE va \in Private
    <3> DEFINE old == Memory[d]
    <3>1. old[va] = mem[pte.page]
      BY <2>1, MemoryAt
    <3>2. old = [v \in Private |-> old[v]] /\ Memory = [g \in Env |-> Memory[g]]
      BY DEF Memory
    <3>3. Memory' = [Memory EXCEPT ![d] = [old EXCEPT ![va] = mem[pte.page]]]
      BY <2>1, SetsMemory
    <3> HIDE DEF old
    <3>4. [old EXCEPT ![va] = mem[pte.page]] = old
      BY <3>1, <3>2
    <3> QED
      BY <3>2, <3>3, <3>4 DEF old
  <2>2. CASE va \notin Private
    BY <2>2, SetsMemory
  <2> QED
    BY <2>1, <2>2
<1> QED
  BY <1>1, SetsCommon DEF Hidden

LEMMA SameMakes ==
  ASSUME UNCHANGED pc
  PROVE  \A g, x \in Env : Makes(g, x)' <=> Makes(g, x)
BY DEF Makes

\* The panic for want of memory.
LEMMA NoMemoryHidden ==
  ASSUME Inv, Inv', NEW e \in Env, pc[e].at \in Live,
         UNCHANGED <<map, mem>>, Panic(e, "nomem")
  PROVE  Hidden
<1>1. /\ pc'[e].at = "nomem" /\ pc'[e].child = pc[e].child
      /\ \A g \in Env \ {e} : pc'[g] = pc[g]
  BY DEF Panic, Inv, TypeOK, Local
<1>2. pc[e].at = "run" => pc[e].child = None
  BY DEF Inv, Has
<1>3. \A g, x \in Env : Makes(g, x)' <=> Makes(g, x)
  BY <1>1, <1>2 DEF Makes, Live, Forking
<1> QED
  BY <1>3, UnchangedParent, SameContents DEF Hidden

LEMMA FaultHidden ==
  ASSUME Inv, Inv', NEW e \in Env, NEW va \in Private \cup Shared, Fault(e, va)
  PROVE  Hidden
<1>1. UNCHANGED <<map, mem, pc>>
  BY FaultInv
<1>2. Parent' = Parent
  BY <1>1, SameMakes, UnchangedParent
<1> QED
  BY <1>1, <1>2, SameContents DEF Hidden

LEMMA PgfaultHidden ==
  ASSUME Inv, Inv', NEW e \in Env,
         PgfaultAlloc(e) \/ PgfaultCopy(e) \/ PgfaultMap(e) \/ PgfaultNoMemory(e)
  PROVE  Hidden
<1>1. fault[e].at # "none" /\ pc[e].at \in Live /\ Whole(e) /\ fault[e].va \in Private
  <2>1. fault[e].at # "none"
    BY DEF PgfaultAlloc, PgfaultCopy, PgfaultMap, PgfaultNoMemory
  <2> QED
    BY <2>1, WholeFacts DEF Inv, Handles
<1>2. PFTEMP \in VA /\ PFTEMP \notin Private \cup Shared
  BY Addresses, Kinds
<1>3. CASE PgfaultAlloc(e)
  <2>1. PageAlloc(e, PFTEMP) /\ UNCHANGED pc
    BY <1>3 DEF PgfaultAlloc
  <2>2. PICK p \in Page : Sets(e, PFTEMP, [page |-> p, perm |-> "w"])
    BY <1>2, <2>1, AllocSets DEF Inv
  <2>3. [page |-> p, perm |-> "w"] \in Pte
    BY DEF Pte
  <2>4. Parent' = Parent
    BY <2>1, SameMakes, UnchangedParent
  <2> QED
    BY <1>1, <1>2, <2>2, <2>3, <2>4, SetsHidden
<1>4. CASE PgfaultCopy(e)
  <2>1. /\ UNCHANGED <<map, pc>> /\ fault[e].at = "copy"
        /\ mem' = [mem EXCEPT ![PageOf(e, PFTEMP)] = mem[map[e][fault[e].va].page]]
    BY <1>4 DEF PgfaultCopy, PageOf
  <2>2. \A g \in Env, v \in VA : Mapped(g, v) /\ PageOf(g, v) = PageOf(e, PFTEMP)
                                   => v = PFTEMP
    BY <2>1 DEF Inv, Handles
  <2>3. ASSUME NEW g \in Env, NEW v \in Private \cup Shared, map[g][v] # None
        PROVE  mem'[map[g][v].page] = mem[map[g][v].page]
    <3>1. v \in VA
      BY Kinds, Addresses
    <3>2. PageOf(g, v) # PageOf(e, PFTEMP)
      BY <1>2, <2>2, <2>3, <3>1 DEF Mapped
    <3> QED
      BY <2>1, <3>2 DEF PageOf, Inv, TypeOK
  <2>4. Memory' = Memory
    BY <2>1, <2>3 DEF Memory
  <2>5. Common' = Common
    <3>1. \A v \in Shared : map[e][v] # None
      BY <1>1, Kinds DEF Whole, Mapped
    <3> QED
      BY <1>1, <2>1, <2>3, <3>1, SameCommon
  <2>6. Parent' = Parent
    BY <2>1, SameMakes, UnchangedParent
  <2> QED
    BY <2>4, <2>5, <2>6 DEF Hidden
<1>5. CASE PgfaultMap(e)
  <2>1. PICK va \in Private : va = fault[e].va
    BY <1>1
  <2>2. /\ PageMap(e, PFTEMP, e, va, "w") /\ UNCHANGED pc
        /\ Mapped(e, PFTEMP) /\ mem[PageOf(e, PFTEMP)] = mem[PageOf(e, va)]
    BY <1>5, <2>1 DEF PgfaultMap, Inv, Handles
  <2>3. va \in VA /\ va \notin Shared /\ Mapped(e, va)
    BY <1>1, Kinds, Addresses DEF Whole
  <2>4. PICK pte \in Pte : pte.page = PageOf(e, PFTEMP) /\ Sets(e, va, pte)
    <3>1. [page |-> PageOf(e, PFTEMP), perm |-> "w"] \in Pte
      BY <1>2, <2>2, PteFacts DEF Inv, Pte
    <3>2. Sets(e, va, [page |-> PageOf(e, PFTEMP), perm |-> "w"])
      BY <1>2, <2>2, <2>3, MapSets DEF Inv
    <3> QED
      BY <3>1, <3>2
  <2>5. Parent' = Parent
    BY <2>2, SameMakes, UnchangedParent
  <2> QED
    BY <1>1, <2>2, <2>3, <2>4, <2>5, SetsHidden
<1>6. CASE PgfaultNoMemory(e)
  BY <1>1, <1>6, NoMemoryHidden DEF PgfaultNoMemory
<1> QED
  BY <1>3, <1>4, <1>5, <1>6

LEMMA SetHandlerHidden ==
  ASSUME Inv, Inv', NEW e \in Env, SetHandler(e)
  PROVE  Hidden
<1>1. pc[e].at \in Live /\ Whole(e)
  BY WholeFacts DEF SetHandler, Live
<1>2. CASE Free = {}
  BY <1>1, <1>2, NoMemoryHidden DEF SetHandler
<1>3. CASE Free # {}
  <2>1. PageAlloc(e, XSTACK) /\ UNCHANGED pc
    BY <1>3 DEF SetHandler
  <2>2. XSTACK \in VA /\ XSTACK \notin Private \cup Shared
    BY Addresses, Kinds
  <2>3. PICK p \in Page : Sets(e, XSTACK, [page |-> p, perm |-> "w"])
    BY <2>1, <2>2, AllocSets DEF Inv
  <2>4. [page |-> p, perm |-> "w"] \in Pte
    BY DEF Pte
  <2>5. Parent' = Parent
    BY <2>1, SameMakes, UnchangedParent
  <2> QED
    BY <1>1, <2>2, <2>3, <2>4, <2>5, SetsHidden
<1> QED
  BY <1>2, <1>3

\* The steps of fork leave it to its parent to make the child.
LEMMA DoneParent ==
  ASSUME Inv, Inv', NEW e \in Env, pc[e].at \in Forking,
         NEW place \in Forking, NEW S, Done(e, place, S)
  PROVE  Parent' = Parent
<1>1. /\ pc'[e].at = place /\ pc'[e].child = pc[e].child
      /\ \A g \in Env \ {e} : pc'[g] = pc[g]
  BY DoneFacts DEF Inv
<1>2. \A g, x \in Env : Makes(g, x)' <=> Makes(g, x)
  BY <1>1 DEF Makes
<1> QED
  BY <1>2, UnchangedParent

LEMMA DupPageRefines ==
  ASSUME Inv, Inv', NEW e \in Env, DupPage(e)
  PROVE  Hidden \/ Forks!Next
<1>1. /\ Running(e) /\ pc[e].at = "dup" /\ pc[e].todo # {}
      /\ pc[e].at \in Forking /\ Whole(e)
  BY WholeFacts DEF DupPage, Forking, Live
<1>2. PICK va : va = NextVa(e)
  OBVIOUS
<1>3. PICK d : d = pc[e].child
  OBVIOUS
<1>4. va \in VA /\ d \in Env /\ d # e /\ Makes(e, d)
  BY <1>1, <1>2, <1>3, InFork DEF NextVa, Makes
<1>5. Parent' = Parent
  <2>1. \E place \in Forking : \E S : Done(e, place, S)
    BY DEF DupPage, Forking
  <2> QED
    BY <1>1, <2>1, DoneParent
<1>6. CASE va = XSTACK \/ map[e][va] = None
  <2>1. UNCHANGED <<map, mem>>
    BY <1>2, <1>6 DEF DupPage
  <2> QED
    BY <1>5, <2>1, SameContents DEF Hidden
<1>7. CASE ~(va = XSTACK \/ map[e][va] = None)
  <2>1. PICK perm \in {"w", "cow", "share", "ro"} : PageMap(e, va, d, va, perm)
    <3>1. map[e][va].perm \in {"share", "ro"} =>
            PageMap(e, va, d, va, map[e][va].perm)
      BY <1>2, <1>3, <1>7 DEF DupPage
    <3>2. map[e][va].perm \notin {"share", "ro"} => PageMap(e, va, d, va, "cow")
      BY <1>2, <1>3, <1>7 DEF DupPage
    <3> QED
      BY <3>1, <3>2
  <2>2. Mapped(e, va)
    BY <1>7 DEF Mapped
  <2>3. PICK pte \in Pte : pte.page = PageOf(e, va) /\ Sets(d, va, pte)
    <3>1. [page |-> PageOf(e, va), perm |-> perm] \in Pte
      BY <1>4, <2>2, PteFacts DEF Inv, Pte
    <3>2. Sets(d, va, [page |-> PageOf(e, va), perm |-> perm])
      BY <1>4, <2>1, <2>2, MapSets DEF Inv
    <3> QED
      BY <3>1, <3>2
  <2>4. CASE va \in Private
    <3>1. Memory' = [Memory EXCEPT ![d] = [@ EXCEPT ![va] = mem[pte.page]]]
      BY <1>4, <2>3, <2>4, SetsMemory
    <3>2. Memory[e][va] = mem[pte.page]
      BY <2>2, <2>3, <2>4, MemoryAt
    <3>3. Common' = Common
      BY <1>1, <1>4, <2>3, SetsCommon
    <3>4. Forker(d) = e
      BY <1>4, ForkerIs
    <3>5. Forks!Copy(e, d, va)
      BY <1>4, <1>5, <3>1, <3>2, <3>3, <3>4 DEF Forks!Copy, Parent
    <3> QED
      BY <1>4, <2>4, <3>5 DEF Forks!Next
  <2>5. CASE va \notin Private
    BY <1>1, <1>4, <1>5, <2>3, <2>5, SetsHidden
  <2> QED
    BY <2>4, <2>5
<1> QED
  BY <1>6, <1>7

LEMMA DupSelfHidden ==
  ASSUME Inv, Inv', NEW e \in Env, DupSelf(e)
  PROVE  Hidden
<1>1. /\ pc[e].at = "self" /\ pc[e].at \in Forking /\ Whole(e)
  BY WholeFacts DEF DupSelf, Forking, Live
<1>2. PICK va : va = NextVa(e)
  OBVIOUS
<1>3. va \in Private \cup {PFTEMP} /\ va \in VA /\ Mapped(e, va) /\ va \notin Shared
  <2>1. va \in Private \cup {PFTEMP} /\ Mapped(e, va)
    BY <1>1, <1>2 DEF Inv, Copies, NextVa
  <2> QED
    BY <2>1, Kinds, Addresses
<1>4. PageMap(e, va, e, va, "cow") /\ Done(e, "dup", {va})
  BY <1>2 DEF DupSelf
<1>5. PICK pte \in Pte : pte.page = PageOf(e, va) /\ Sets(e, va, pte)
  <2>1. [page |-> PageOf(e, va), perm |-> "cow"] \in Pte
    BY <1>3, PteFacts DEF Inv, Pte
  <2>2. Sets(e, va, [page |-> PageOf(e, va), perm |-> "cow"])
    BY <1>3, <1>4, MapSets DEF Inv
  <2> QED
    BY <2>1, <2>2
<1>6. Parent' = Parent
  BY <1>1, <1>4, DoneParent DEF Forking
<1> QED
  BY <1>1, <1>3, <1>5, <1>6, SetsHidden

LEMMA ChildStackHidden ==
  ASSUME Inv, Inv', NEW e \in Env, ChildStack(e)
  PROVE  Hidden
<1>1. /\ Running(e) /\ pc[e].at = "dup" /\ pc[e].at \in Forking /\ pc[e].at \in Live
      /\ Whole(e)
  BY WholeFacts DEF ChildStack, Forking, Live
<1>2. CASE Free = {}
  BY <1>1, <1>2, NoMemoryHidden DEF ChildStack
<1>3. CASE Free # {}
  <2>1. PICK d \in Env : d = pc[e].child
    BY <1>1, InFork
  <2>2. PageAlloc(d, XSTACK) /\ Done(e, "start", {})
    BY <1>3, <2>1 DEF ChildStack
  <2>3. XSTACK \in VA /\ XSTACK \notin Private \cup Shared
    BY Addresses, Kinds
  <2>4. PICK p \in Page : Sets(d, XSTACK, [page |-> p, perm |-> "w"])
    BY <2>2, <2>3, AllocSets DEF Inv
  <2>5. [page |-> p, perm |-> "w"] \in Pte
    BY DEF Pte
  <2>6. Parent' = Parent
    BY <1>1, <2>2, DoneParent DEF Forking
  <2> QED
    BY <1>1, <2>3, <2>4, <2>5, <2>6, SetsHidden
<1> QED
  BY <1>2, <1>3

LEMMA StartRefines ==
  ASSUME Inv, Inv', NEW e \in Env, Start(e)
  PROVE  Forks!Next
<1>1. /\ Running(e) /\ pc[e].at = "start" /\ UNCHANGED <<map, mem>>
  BY DEF Start
<1>2. PICK d \in Env : d = pc[e].child
  BY <1>1, InFork
<1>3. Makes(e, d) /\ Forker(d) = e /\ d # e
  BY <1>1, <1>2, InFork, ForkerIs DEF Makes, Forking
<1>4. /\ At("run").at = "run"
      /\ pc'[e] = At("run") /\ pc'[d] = At("run")
      /\ \A g \in Env \ {e, d} : pc'[g] = pc[g]
  BY <1>2 DEF Start, Inv, TypeOK, At
<1>5. \A va \in Private : Memory[d][va] # None
  <2>1. \A va \in Program \ pc[e].todo : Mapped(d, va)
    BY <1>1, <1>2 DEF Inv, Copies, Forking
  <2>2. pc[e].todo = {}
    BY <1>1 DEF Inv, Copies
  <2> QED
    BY <2>1, <2>2, Kinds, MemoryAt
<1>6. Forker(d)' = None
  BY <1>4 DEF Forker
<1>7. \A x \in Env \ {d} : Forker(x)' = Forker(x)
  <2>1. ASSUME NEW g \in Env, NEW x \in Env \ {d} PROVE Makes(g, x)' <=> Makes(g, x)
    <3>1. pc[d].at = "new"
      BY <1>3 DEF Inv, Children
    <3>2. ~Makes(e, x) /\ ~Makes(d, x)
      BY <1>2, <3>1 DEF Makes, Forking
    <3>3. ~Makes(e, x)' /\ ~Makes(d, x)'
      BY <1>4 DEF Makes, Forking
    <3>4. CASE g \in {e, d}
      BY <3>2, <3>3, <3>4
    <3>5. CASE g \notin {e, d}
      BY <1>4, <3>5 DEF Makes
    <3> QED
      BY <3>4, <3>5
  <2> QED
    BY <2>1, SameParent
<1>8. Parent' = [Parent EXCEPT ![d] = None]
  BY <1>6, <1>7 DEF Parent
<1>9. Forks!Start(e, d)
  BY <1>1, <1>3, <1>5, <1>8, SameContents DEF Forks!Start, Parent
<1> QED
  BY <1>9 DEF Forks!Next

LEMMA ExoforkRefines ==
  ASSUME Inv, Inv', NEW e \in Env, NEW d \in Env, Exofork(e, d)
  PROVE  Forks!Next
<1>1. /\ pc[e].at = "run" /\ pc[d].at = "none" /\ d # e /\ UNCHANGED <<map, mem>>
      /\ pc[e].at \in Live /\ pc[e].child = None
  BY DEF Exofork, Live, Inv, Has
<1>2. PICK l \in Local : l = [at |-> "dup", todo |-> VA, child |-> d]
  BY DEF Local
<1>3. /\ pc'[e] = l /\ l.at = "dup" /\ l.child = d
      /\ pc'[d].at = "new" /\ \A g \in Env \ {e, d} : pc'[g] = pc[g]
  BY <1>1, <1>2 DEF Exofork, Inv, TypeOK, At
<1>4. Makes(e, d)'
  BY <1>3 DEF Makes, Forking
<1>5. Forker(d)' = e
  BY <1>4, ForkerNext
<1>6. \A x \in Env \ {d} : Forker(x)' = Forker(x)
  <2>1. \A g \in Env, x \in Env \ {d} : Makes(g, x)' <=> Makes(g, x)
    BY <1>1, <1>3 DEF Makes, Forking
  <2> QED
    BY <2>1, SameParent
<1>7. Parent' = [Parent EXCEPT ![d] = e]
  BY <1>5, <1>6 DEF Parent
<1>8. Forker(d) = None
  BY <1>1, ForkerIs
<1>9. Memory[d] = [va \in Private |-> None]
  <2>1. \A va \in Private : ~Mapped(d, va)
    BY <1>1, Kinds, Addresses DEF Inv, Has
  <2> QED
    BY <2>1 DEF Memory, Mapped
<1>10. Forks!Fork(e, d)
  BY <1>1, <1>7, <1>8, <1>9, RunsThere, SameContents
  DEF Forks!Fork, Forks!Exists, Forks!Empty, Parent
<1> QED
  BY <1>10 DEF Forks!Next

\* Of the others somebody has the shared memory, if there is anybody at all.
LEMMA OthersWhole ==
  ASSUME Inv, NEW e \in Env, pc[e].at = "run",
         NEW f \in Env \ {e}, Forks!Exists(f)
  PROVE  \E g \in Env \ {e} : Whole(g)
<1>1. CASE pc[f].at \in Live \cup {"nomem"}
  BY <1>1, WholeFacts
<1>2. CASE pc[f].at = "new"
  <2>1. PICK g \in Env : Makes(g, f)
    BY <1>2 DEF Inv, Children
  <2>2. g # e /\ pc[g].at \in Live \cup {"nomem"}
    BY <2>1 DEF Makes, Forking, Live
  <2> QED
    BY <2>2, WholeFacts
<1>3. CASE pc[f].at \notin Live \cup {"nomem", "new"}
  <2>1. pc[f].at \in {"none", "gone"}
    BY <1>3 DEF Inv, TypeOK, Has, Local, Live, Forking
  <2>2. \A va \in Private : ~Mapped(f, va)
    BY <2>1, Kinds, Addresses DEF Inv, Has
  <2>3. Memory[f] = Forks!Empty
    BY <2>2 DEF Memory, Mapped, Forks!Empty
  <2>4. Forker(f) = None
    BY <1>3, ForkerIs
  <2> QED
    BY <2>3, <2>4 DEF Forks!Exists
<1> QED
  BY <1>1, <1>2, <1>3

LEMMA ExitRefines ==
  ASSUME Inv, Inv', NEW e \in Env, Exit(e)
  PROVE  Forks!Next
<1> DEFINE m == [map EXCEPT ![e] = [va \in VA |-> None]]
<1>1. /\ pc[e].at = "run" /\ pc[e].at \in Live /\ pc[e].child = None
      /\ Remap(m, mem) /\ pc' = [pc EXCEPT ![e] = At("gone")]
  BY DEF Exit, Live, Inv, Has
<1>2. /\ \A v \in VA : map'[e][v] = None
      /\ \A g \in Env \ {e}, v \in VA : map'[g][v] = map[g][v]
  BY <1>1 DEF Remap, Inv, TypeOK
<1>3. ASSUME NEW g \in Env \ {e}, NEW v \in VA, map[g][v] # None
      PROVE  mem'[map[g][v].page] = mem[map[g][v].page]
  <2>1. mem' = [p \in Page |-> IF p \in Used(map') THEN mem[p] ELSE Zero]
    BY <1>1 DEF Remap
  <2>2. map[g][v].page \in Page
    BY <1>3, PteFacts DEF Inv, Mapped, PageOf
  <2>3. map[g][v].page \in Used(map')
    BY <1>2, <1>3, <2>2 DEF Used
  <2> QED
    BY <2>1, <2>2, <2>3
<1> HIDE DEF m
<1>4. /\ pc'[e].at = "gone" /\ pc'[e].child = None
      /\ \A g \in Env \ {e} : pc'[g] = pc[g]
  BY <1>1 DEF Inv, TypeOK, At
<1>5. Parent' = Parent
  <2>1. \A g, x \in Env : Makes(g, x)' <=> Makes(g, x)
    BY <1>1, <1>4 DEF Makes, Forking
  <2> QED
    BY <2>1, UnchangedParent
<1>6. Private \subseteq VA /\ Shared \subseteq VA
  BY Kinds, Addresses
<1>7. Memory' = [Memory EXCEPT ![e] = Forks!Empty]
  <2>1. Memory'[e] = Forks!Empty
    BY <1>2, <1>6 DEF Memory, Forks!Empty
  <2>2. \A g \in Env \ {e} : Memory'[g] = Memory[g]
    BY <1>2, <1>3, <1>6 DEF Memory
  <2>3. Memory = [g \in Env |-> Memory[g]] /\ Memory' = [g \in Env |-> Memory'[g]]
    BY DEF Memory
  <2> QED
    BY <2>1, <2>2, <2>3
<1>8. (Common \in [Shared -> Value])'
  BY CommonType, PTL
<1>9. ASSUME NEW f \in Env \ {e}, Forks!Exists(f) PROVE Common' = Common
  <2>1. PICK g \in Env \ {e} : Whole(g)
    BY <1>1, <1>9, OthersWhole
  <2>2. \A v \in Shared : map[g][v] # None
    BY <2>1, Kinds DEF Whole, Mapped
  <2> QED
    BY <1>2, <1>3, <1>6, <2>1, <2>2, SameCommon
<1>10. Forks!Exit(e)
  BY <1>1, <1>5, <1>7, <1>8, <1>9, RunsThere DEF Forks!Exit, Parent
<1> QED
  BY <1>10 DEF Forks!Next

LEMMA InitRefines == Init => Forks!Init
<1> SUFFICES ASSUME Init PROVE Forks!Init
  OBVIOUS
<1>1. Inv
  BY InitInv
<1>2. Memory = [e \in Env |-> IF e = Root THEN [va \in Private |-> Zero] ELSE Forks!Empty]
  <2>1. Private \subseteq Program /\ Private \subseteq VA
    BY Kinds, Addresses
  <2>2. \A e \in Env, va \in Private :
          map[e][va] = IF e = Root THEN [page |-> FirstPage[va], perm |-> Perm(va)] ELSE None
    BY <2>1 DEF Init
  <2>3. ASSUME NEW va \in Private
        PROVE  map[Root][va] # None /\ mem[map[Root][va].page] = Zero
    <3>1. FirstPage[va] \in Page
      BY <2>1, FirstPages
    <3>2. map[Root][va] = [page |-> FirstPage[va], perm |-> Perm(va)]
      BY <2>2
    <3>3. [page |-> FirstPage[va], perm |-> Perm(va)] \in Pte
      BY <3>1 DEF Pte, Perm
    <3> QED
      BY <3>1, <3>2, <3>3 DEF Init
  <2>4. \A e \in Env, va \in Private : e # Root => map[e][va] = None
    BY <2>2
  <2> QED
    BY <2>3, <2>4 DEF Memory, Forks!Empty
<1>3. Common \in [Shared -> Value]
  BY <1>1, CommonType
<1>4. Parent = [d \in Env |-> None]
  <2>1. \A d \in Env : pc[d].at # "new"
    BY DEF Init, At
  <2> QED
    BY <2>1 DEF Parent, Forker
<1> QED
  BY <1>2, <1>3, <1>4 DEF Forks!Init, Parent

LEMMA NextRefines ==
  Inv /\ Inv' /\ [Next]_vars => [UNCHANGED Forks!vars \/ Forks!Next]_(Forks!vars)
<1> SUFFICES ASSUME Inv, Inv', [Next]_vars PROVE Hidden \/ Forks!Next
  BY HiddenStutters
<1>1. ASSUME NEW e \in Env, NEW va \in Private \cup Shared, NEW v \in Value, Write(e, va, v)
      PROVE  Forks!Next
  BY <1>1, WriteRefines
<1>2. ASSUME NEW e \in Env, NEW va \in Private \cup Shared, Fault(e, va)
      PROVE  Hidden
  BY <1>2, FaultHidden
<1>3. ASSUME NEW e \in Env,
             PgfaultAlloc(e) \/ PgfaultCopy(e) \/ PgfaultMap(e) \/ PgfaultNoMemory(e)
      PROVE  Hidden
  BY <1>3, PgfaultHidden
<1>4. ASSUME NEW e \in Env, SetHandler(e) \/ DupSelf(e) \/ ChildStack(e)
      PROVE  Hidden
  BY <1>4, SetHandlerHidden, DupSelfHidden, ChildStackHidden
<1>5. ASSUME NEW e \in Env, DupPage(e)
      PROVE  Hidden \/ Forks!Next
  BY <1>5, DupPageRefines
<1>6. ASSUME NEW e \in Env, Start(e) \/ Exit(e)
      PROVE  Forks!Next
  BY <1>6, StartRefines, ExitRefines
<1>7. ASSUME NEW e \in Env, NEW d \in Env, Exofork(e, d)
      PROVE  Forks!Next
  BY <1>7, ExoforkRefines
<1>8. CASE UNCHANGED vars
  <2>1. UNCHANGED <<map, mem, pc>>
    BY <1>8 DEF vars
  <2>2. \A g, x \in Env : Makes(g, x)' <=> Makes(g, x)
    BY <2>1, SameMakes
  <2>3. Parent' = Parent
    BY <2>2, UnchangedParent
  <2>4. Memory' = Memory /\ Common' = Common
    BY <2>1, SameContents
  <2> QED
    BY <2>3, <2>4 DEF Hidden
<1> QED
  BY <1>1, <1>2, <1>3, <1>4, <1>5, <1>6, <1>7, <1>8 DEF Next

\* fork with copy-on-write (fork, duppage and pgfault of lib/fork.c) is a copy:
\* whatever the order of the system calls of fork, of the faults and of the
\* writes on several CPUs, what programs see is AbstractFork.
THEOREM Refinement == Spec => ImplementsFork
BY Inductive, NextInv, InitRefines, NextRefines, PTL DEF Spec, ImplementsFork, Forks!Spec

=============================================================================
