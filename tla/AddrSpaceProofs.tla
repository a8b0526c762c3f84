--------------------------- MODULE AddrSpaceProofs ---------------------------
(***************************************************************************)
(* For any number of processors, environments, pages and addresses: pages  *)
(* are counted exactly, freed when they should be, and page tables belong  *)
(* to one address space, as long as no counter is at its maximum.          *)
(***************************************************************************)
EXTENDS AddrSpace, FiniteSetTheorems, WellFoundedInduction, TLAPS

-----------------------------------------------------------------------------
(* The invariant, for a memory m and directories g of the environments.    *)

Present(m, q, i) == m.pt[q][i].p
Target(m, q, i) == m.pt[q][i].page

IsDir(g, q) == \E e \in Env : g[e] = q

\* The directory of e has a table for the index i.
HasPt(m, g, e, i) == g[e] # None /\ Present(m, g[e], i)
PtOf(m, g, e, i) == Target(m, g[e], i)

IsTable(m, g, q) == \E e \in Env, i \in Idx : HasPt(m, g, e, i) /\ PtOf(m, g, e, i) = q

DirsApart(g) ==
  /\ g \in [Env -> Page \cup {None}]
  /\ \A e, f \in Env : g[e] # None /\ g[e] = g[f] => e = f

TablesApart(m, g) ==
  /\ \A e \in Env, i \in Idx : HasPt(m, g, e, i) =>
       PtOf(m, g, e, i) \in Page /\ ~IsDir(g, PtOf(m, g, e, i))
  /\ \A e, f \in Env, i, j \in Idx :
       HasPt(m, g, e, i) /\ HasPt(m, g, f, j) /\ PtOf(m, g, e, i) = PtOf(m, g, f, j)
         => e = f /\ i = j

\* Programs have neither directories nor tables mapped, and only at addresses
\* they use.
LeavesApart(m, g) ==
  \A e \in Env, i, j \in Idx :
    LET t == PtOf(m, g, e, i)
    IN  HasPt(m, g, e, i) /\ Present(m, t, j) =>
          /\ <<i, j>> \in VA /\ Target(m, t, j) \in Page
          /\ ~IsDir(g, Target(m, t, j)) /\ ~IsTable(m, g, Target(m, t, j))

\* No other page has entries.
OthersEmpty(m, g) ==
  \A q \in Page, j \in Idx : Present(m, q, j) => IsDir(g, q) \/ IsTable(m, g, q)

\* What e has at the address va.
At(m, g, e, va) ==
  IF HasPt(m, g, e, va[1]) THEN m.pt[PtOf(m, g, e, va[1])][va[2]] ELSE Zero

RefsOf(m, p) == {r \in Page \X Idx : Present(m, r[1], r[2]) /\ Target(m, r[1], r[2]) = p}
Holders(g, p) == {e \in Env : g[e] = p}

Count(m, g, p) ==
  Cardinality(RefsOf(m, p)) + Cardinality(Holders(g, p)) + (IF p = Page0 THEN 1 ELSE 0)

Counted(m, g) == \A p \in Phys : m.pp_ref[p] = Count(m, g, p)

\* The pages of A are allocated and have no reference yet.
FreeBut(m, A) == /\ A \subseteq Page /\ \A p \in A : m.pp_ref[p] = 0
                 /\ m.free = {p \in Page : m.pp_ref[p] = 0} \ A

Shape(m, g) ==
  DirsApart(g) /\ TablesApart(m, g) /\ LeavesApart(m, g) /\ OthersEmpty(m, g)

Good(m, g, A) == m \in Mem /\ Shape(m, g) /\ Counted(m, g) /\ FreeBut(m, A)

\* Who runs has an address space, and nobody runs on two processors.
Slots ==
  /\ \A e \in Env : pgdir[e] = None <=> status[e] = "free"
  /\ \A c \in CPU : curenv[c] # None => status[curenv[c]] \in {"ready", "dying"}
  /\ \A c, d \in CPU : curenv[c] # None /\ curenv[c] = curenv[d] => c = d

Inv == TypeOK /\ Good(mem, pgdir, {}) /\ Slots /\ NoStaleTlb

\* No counter is at its maximum.
NoWrap == \A p \in Phys : mem.pp_ref[p] + 1 < REFMOD

-----------------------------------------------------------------------------
(* How one memory n may differ from another, m.                            *)

\* Entry i of the page q is x, nothing else changed.
Written(m, n, q, i, x) ==
  \A r \in Page, j \in Idx :
    n.pt[r][j] = IF r = q /\ j = i THEN x ELSE m.pt[r][j]

\* The present entries are the same and name the same pages.
SameEntries(m, n) ==
  \A q \in Page, i \in Idx :
    /\ Present(n, q, i) <=> Present(m, q, i)
    /\ Present(m, q, i) => Target(n, q, i) = Target(m, q, i)

\* Nothing names the page t, and the page t holds zeros.
Unnamed(m, t) == \A q \in Page, i \in Idx : Present(m, q, i) => Target(m, q, i) # t
Blank(m, t) == \A i \in Idx : m.pt[t][i] = Zero

SameTables(m, n, g) ==
  \A f \in Env, i \in Idx :
    /\ HasPt(n, g, f, i) <=> HasPt(m, g, f, i)
    /\ HasPt(m, g, f, i) => PtOf(n, g, f, i) = PtOf(m, g, f, i)

\* The page t has become a table of e, for the index i.
AddedTable(m, n, g, e, i, t) ==
  /\ HasPt(n, g, e, i) /\ PtOf(n, g, e, i) = t
  /\ \A q : IsTable(n, g, q) <=> IsTable(m, g, q) \/ q = t

\* The pages of Q are used as before.
Kept(m, n, g, Q) ==
  \A q \in Q : /\ n.pp_ref[q] = m.pp_ref[q]
               /\ q \in n.free <=> q \in m.free
               /\ IsTable(n, g, q) <=> IsTable(m, g, q)

\* The address spaces are the same, and the same but for what e has at va.
SameSpaces(m, n, g) == \A f \in Env, wa \in VA : At(n, g, f, wa) = At(m, g, f, wa)

SpacesBut(m, n, g, e, va, x) ==
  \A f \in Env, wa \in VA :
    At(n, g, f, wa) = IF f = e /\ wa = va THEN x ELSE At(m, g, f, wa)

-----------------------------------------------------------------------------
(* The operators of pmap.c, component by component.                        *)

LEMMA ModSmall ==
  ASSUME NEW a \in Nat, NEW k \in Nat, a < k
  PROVE  a % k = a
OBVIOUS

LEMMA MemParts ==
  ASSUME NEW m \in Mem
  PROVE  /\ m.pp_ref \in [Phys -> 0 .. REFMOD - 1]
         /\ m.free \in SUBSET Page
         /\ m.pt \in [Page -> [Idx -> Entry]]
         /\ \A p \in Phys : m.pp_ref[p] \in Nat /\ m.pp_ref[p] < REFMOD
<1>1. /\ m.pp_ref \in [Phys -> 0 .. REFMOD - 1] /\ m.free \in SUBSET Page
      /\ m.pt \in [Page -> [Idx -> Entry]]
  BY DEF Mem
<1>2. REFMOD \in Nat
  BY AddrSpaceAssumption
<1> QED
  BY <1>1, <1>2

LEMMA MemIs ==
  ASSUME NEW m, NEW ref \in [Phys -> 0 .. REFMOD - 1], NEW fr \in SUBSET Page,
         NEW tab \in [Page -> [Idx -> Entry]],
         m = [pp_ref |-> ref, free |-> fr, pt |-> tab]
  PROVE  m \in Mem /\ m.pp_ref = ref /\ m.free = fr /\ m.pt = tab
BY DEF Mem

LEMMA MemRecord ==
  ASSUME NEW m \in Mem
  PROVE  m = [pp_ref |-> m.pp_ref, free |-> m.free, pt |-> m.pt]
BY DEF Mem

LEMMA EntryTypes ==
  /\ Zero \in Entry /\ ~Zero.p /\ ~Zero.w
  /\ ZeroPage \in [Idx -> Entry] /\ \A i \in Idx : ZeroPage[i] = Zero
  /\ \A p \in Phys, w \in BOOLEAN :
       /\ Pte(p, w) \in Entry
       /\ Pte(p, w).p /\ Pte(p, w).page = p /\ Pte(p, w).w = w
<1>1. Zero \in Entry /\ \A p \in Phys, w \in BOOLEAN : Pte(p, w) \in Entry
  BY DEF Entry
<1>2. ZeroPage \in [Idx -> Entry] /\ \A i \in Idx : ZeroPage[i] = Zero
  BY <1>1 DEF ZeroPage
<1> QED
  BY <1>1, <1>2 DEF Zero, Pte

\* The only entry that is not present is 0.
LEMMA EntryFields ==
  ASSUME NEW x \in Entry
  PROVE  /\ x.page \in Phys /\ x.w \in BOOLEAN
         /\ ~x.p => x = Zero
<1>1. CASE x = Zero
  BY <1>1 DEF Zero, Phys
<1>2. CASE x # Zero
  <2>1. PICK p \in Phys, w \in BOOLEAN : x = Pte(p, w)
    BY <1>2 DEF Entry
  <2> QED
    BY <2>1 DEF Pte
<1> QED
  BY <1>1, <1>2

LEMMA PageAllocParts ==
  ASSUME NEW m \in Mem, NEW p \in Page
  PROVE  LET n == PageAlloc(m, p)
         IN  /\ n \in Mem /\ n.pp_ref = m.pp_ref /\ n.free = m.free \ {p}
             /\ \A q \in Page, i \in Idx :
                  n.pt[q][i] = IF q = p THEN Zero ELSE m.pt[q][i]
<1>1. PageAlloc(m, p) = [pp_ref |-> m.pp_ref, free |-> m.free \ {p},
                         pt |-> [m.pt EXCEPT ![p] = ZeroPage]]
  <2>1. PageAlloc(m, p) = [[m EXCEPT !.free = m.free \ {p}] EXCEPT !.pt[p] = ZeroPage]
    BY DEF PageAlloc, Mem
  <2>2. [m EXCEPT !.free = m.free \ {p}]
          = [pp_ref |-> m.pp_ref, free |-> m.free \ {p}, pt |-> m.pt]
    BY MemRecord
  <2> QED
    BY <2>1, <2>2
<1>2. [m.pt EXCEPT ![p] = ZeroPage] \in [Page -> [Idx -> Entry]]
  BY MemParts, EntryTypes
<1>3. \A q \in Page, i \in Idx :
        [m.pt EXCEPT ![p] = ZeroPage][q][i] = IF q = p THEN Zero ELSE m.pt[q][i]
  BY MemParts, EntryTypes
<1>4. m.free \ {p} \in SUBSET Page
  BY MemParts
<1>5. /\ PageAlloc(m, p).pp_ref = m.pp_ref /\ PageAlloc(m, p).free = m.free \ {p}
      /\ PageAlloc(m, p).pt = [m.pt EXCEPT ![p] = ZeroPage]
  BY <1>1
<1>6. PageAlloc(m, p) \in Mem
  BY <1>1, <1>2, <1>4, MemParts DEF Mem
<1> QED
  BY <1>3, <1>5, <1>6

LEMMA PageFreeParts ==
  ASSUME NEW m \in Mem, NEW p \in Page
  PROVE  LET n == PageFree(m, p)
         IN  /\ n \in Mem /\ n.pp_ref = m.pp_ref /\ n.free = m.free \cup {p}
             /\ n.pt = m.pt
<1>1. PageFree(m, p) = [pp_ref |-> m.pp_ref, free |-> m.free \cup {p}, pt |-> m.pt]
  BY MemRecord DEF PageFree
<1>2. m.free \cup {p} \in SUBSET Page
  BY MemParts
<1> QED
  BY <1>1, <1>2, MemIs, MemParts

LEMMA IncRefParts ==
  ASSUME NEW m \in Mem, NEW p \in Phys, m.pp_ref[p] + 1 < REFMOD
  PROVE  LET n == IncRef(m, p)
         IN  /\ n \in Mem /\ n.free = m.free /\ n.pt = m.pt
             /\ n.pp_ref = [m.pp_ref EXCEPT ![p] = @ + 1]
<1>1. (m.pp_ref[p] + 1) % REFMOD = m.pp_ref[p] + 1
  <2>1. m.pp_ref[p] + 1 \in Nat /\ REFMOD \in Nat
    BY MemParts, AddrSpaceAssumption
  <2> QED
    BY <2>1, ModSmall
<1>2. IncRef(m, p) = [pp_ref |-> [m.pp_ref EXCEPT ![p] = @ + 1], free |-> m.free,
                      pt |-> m.pt]
  BY <1>1, MemRecord DEF IncRef
<1>3. [m.pp_ref EXCEPT ![p] = @ + 1] \in [Phys -> 0 .. REFMOD - 1]
  BY MemParts, AddrSpaceAssumption
<1> QED
  BY <1>2, <1>3, MemIs, MemParts

LEMMA PageDecrefParts ==
  ASSUME NEW m \in Mem, NEW p \in Page, m.pp_ref[p] > 0
  PROVE  LET n == PageDecref(m, p)
         IN  /\ n \in Mem /\ n.pt = m.pt
             /\ n.pp_ref = [m.pp_ref EXCEPT ![p] = @ - 1]
             /\ n.free = IF m.pp_ref[p] = 1 THEN m.free \cup {p} ELSE m.free
<1> DEFINE r == [m.pp_ref EXCEPT ![p] = @ - 1]
           d == [pp_ref |-> r, free |-> m.free, pt |-> m.pt]
<1>0. p \in Phys
  BY DEF Phys
<1>1. (m.pp_ref[p] - 1) % REFMOD = m.pp_ref[p] - 1
  <2>1. m.pp_ref[p] - 1 \in Nat /\ REFMOD \in Nat /\ m.pp_ref[p] - 1 < REFMOD
    BY <1>0, MemParts, AddrSpaceAssumption
  <2> QED
    BY <2>1, ModSmall
<1>2. [m EXCEPT !.pp_ref[p] = m.pp_ref[p] - 1] = d
  BY <1>0, MemRecord
<1>3. r \in [Phys -> 0 .. REFMOD - 1]
  BY <1>0, MemParts, AddrSpaceAssumption
<1>4. d \in Mem /\ d.pp_ref = r /\ d.free = m.free /\ d.pt = m.pt
  BY <1>3, MemIs, MemParts
<1>5. PageDecref(m, p) = IF m.pp_ref[p] = 1 THEN PageFree(d, p) ELSE d
  BY <1>0, <1>1, <1>2, MemParts DEF PageDecref
<1> HIDE DEF d
<1>6. CASE m.pp_ref[p] = 1
  BY <1>4, <1>5, <1>6, PageFreeParts
<1>7. CASE m.pp_ref[p] # 1
  BY <1>4, <1>5, <1>7
<1> QED
  BY <1>6, <1>7

\* One entry x of the page q is written.
LEMMA SetParts ==
  ASSUME NEW m \in Mem, NEW q \in Page, NEW i \in Idx, NEW x \in Entry
  PROVE  LET n == [m EXCEPT !.pt[q][i] = x]
         IN  /\ n \in Mem /\ n.pp_ref = m.pp_ref /\ n.free = m.free
             /\ Written(m, n, q, i, x)
<1> DEFINE tab == [m.pt EXCEPT ![q] = [m.pt[q] EXCEPT ![i] = x]]
<1>1. [m EXCEPT !.pt[q][i] = x] = [pp_ref |-> m.pp_ref, free |-> m.free, pt |-> tab]
  BY MemRecord
<1>2. tab \in [Page -> [Idx -> Entry]]
  BY MemParts
<1>3. \A r \in Page, j \in Idx :
        tab[r][j] = IF r = q /\ j = i THEN x ELSE m.pt[r][j]
  BY MemParts
<1> HIDE DEF tab
<1>4. [m EXCEPT !.pt[q][i] = x] \in Mem
  BY <1>1, <1>2, MemParts DEF Mem
<1>5. /\ [m EXCEPT !.pt[q][i] = x].pp_ref = m.pp_ref
      /\ [m EXCEPT !.pt[q][i] = x].free = m.free /\ [m EXCEPT !.pt[q][i] = x].pt = tab
  BY <1>1
<1>6. Written(m, [m EXCEPT !.pt[q][i] = x], q, i, x)
  BY <1>3, <1>5 DEF Written
<1> QED
  BY <1>4, <1>5, <1>6

-----------------------------------------------------------------------------
(* Counting references.                                                    *)

LEMMA RefsFinite ==
  ASSUME NEW m, NEW g, NEW p
  PROVE  /\ IsFiniteSet(RefsOf(m, p)) /\ Cardinality(RefsOf(m, p)) \in Nat
         /\ IsFiniteSet(Holders(g, p)) /\ Cardinality(Holders(g, p)) \in Nat
<1>1. IsFiniteSet(Page \X Idx)
  BY AddrSpaceAssumption, FS_Product
<1>2. RefsOf(m, p) \in SUBSET (Page \X Idx) /\ Holders(g, p) \in SUBSET Env
  BY DEF RefsOf, Holders
<1>3. IsFiniteSet(RefsOf(m, p)) /\ IsFiniteSet(Holders(g, p))
  BY <1>1, <1>2, AddrSpaceAssumption, FS_Subset
<1> QED
  BY <1>3, FS_CardinalityType

\* How many references to p the entry x is.
Names(x, p) == IF x.p /\ x.page = p THEN 1 ELSE 0

\* Writing one entry takes a reference from what it named, and gives one to
\* what it names.
LEMMA RefsOfSet ==
  ASSUME NEW m, NEW n, NEW q \in Page, NEW i \in Idx, NEW x, NEW p,
         Written(m, n, q, i, x)
  PROVE  Cardinality(RefsOf(n, p)) =
           Cardinality(RefsOf(m, p)) + Names(x, p) - Names(m.pt[q][i], p)
<1>1. RefsOf(n, p) \ {<<q, i>>} = RefsOf(m, p) \ {<<q, i>>}
  BY DEF Written, RefsOf, Present, Target
<1>2. /\ <<q, i>> \in RefsOf(n, p) <=> Names(x, p) = 1
      /\ Names(x, p) \in {0, 1}
  BY DEF Written, RefsOf, Present, Target, Names
<1>3. /\ <<q, i>> \in RefsOf(m, p) <=> Names(m.pt[q][i], p) = 1
      /\ Names(m.pt[q][i], p) \in {0, 1}
  BY DEF RefsOf, Present, Target, Names
<1>4. /\ IsFiniteSet(RefsOf(n, p)) /\ Cardinality(RefsOf(n, p)) \in Nat
      /\ IsFiniteSet(RefsOf(m, p)) /\ Cardinality(RefsOf(m, p)) \in Nat
  BY RefsFinite
<1>5. Cardinality(RefsOf(n, p) \ {<<q, i>>}) =
        Cardinality(RefsOf(n, p)) - Names(x, p)
  <2>1. Cardinality(RefsOf(n, p) \ {<<q, i>>}) =
          IF <<q, i>> \in RefsOf(n, p) THEN Cardinality(RefsOf(n, p)) - 1
                                       ELSE Cardinality(RefsOf(n, p))
    BY <1>4, FS_RemoveElement
  <2> QED
    BY <2>1, <1>2, <1>4
<1>6. Cardinality(RefsOf(m, p) \ {<<q, i>>}) =
        Cardinality(RefsOf(m, p)) - Names(m.pt[q][i], p)
  <2>1. Cardinality(RefsOf(m, p) \ {<<q, i>>}) =
          IF <<q, i>> \in RefsOf(m, p) THEN Cardinality(RefsOf(m, p)) - 1
                                       ELSE Cardinality(RefsOf(m, p))
    BY <1>4, FS_RemoveElement
  <2> QED
    BY <2>1, <1>3, <1>4
<1>7. Cardinality(RefsOf(n, p)) - Names(x, p) =
        Cardinality(RefsOf(m, p)) - Names(m.pt[q][i], p)
  BY <1>1, <1>5, <1>6, Zenon
<1> QED
  BY <1>2, <1>3, <1>4, <1>7

WithDir(g, e, x) == [g EXCEPT ![e] = x]

LEMMA HoldersSet ==
  ASSUME NEW g \in [Env -> Page \cup {None}], NEW e \in Env, NEW x, NEW p
  PROVE  Cardinality(Holders(WithDir(g, e, x), p)) = Cardinality(Holders(g, p))
           + (IF x = p THEN 1 ELSE 0) - (IF g[e] = p THEN 1 ELSE 0)
<1> DEFINE h == WithDir(g, e, x)
<1>1. Holders(h, p) \ {e} = Holders(g, p) \ {e}
  BY DEF Holders, WithDir
<1>2. (e \in Holders(h, p) <=> x = p) /\ (e \in Holders(g, p) <=> g[e] = p)
  BY DEF Holders, WithDir
<1> HIDE DEF h
<1>3. /\ Cardinality(Holders(h, p) \ {e}) =
           Cardinality(Holders(h, p)) - (IF x = p THEN 1 ELSE 0)
      /\ Cardinality(Holders(g, p) \ {e}) =
           Cardinality(Holders(g, p)) - (IF g[e] = p THEN 1 ELSE 0)
  <2>1. /\ IsFiniteSet(Holders(h, p)) /\ Cardinality(Holders(h, p)) \in Nat
        /\ IsFiniteSet(Holders(g, p)) /\ Cardinality(Holders(g, p)) \in Nat
    BY RefsFinite
  <2>2. Cardinality(Holders(h, p) \ {e}) =
          IF e \in Holders(h, p) THEN Cardinality(Holders(h, p)) - 1
                                 ELSE Cardinality(Holders(h, p))
    BY <2>1, FS_RemoveElement
  <2>3. Cardinality(Holders(g, p) \ {e}) =
          IF e \in Holders(g, p) THEN Cardinality(Holders(g, p)) - 1
                                 ELSE Cardinality(Holders(g, p))
    BY <2>1, FS_RemoveElement
  <2> QED
    BY <2>1, <2>2, <2>3, <1>2
<1>4. Cardinality(Holders(h, p)) = Cardinality(Holders(g, p))
           + (IF x = p THEN 1 ELSE 0) - (IF g[e] = p THEN 1 ELSE 0)
  BY <1>1, <1>3, RefsFinite
<1> QED
  BY <1>4 DEF h

\* A page without references is neither a directory nor a table, is mapped
\* nowhere, and has no entries.
LEMMA Unreferenced ==
  ASSUME NEW m \in Mem, NEW g, Shape(m, g), Counted(m, g),
         NEW p \in Page, m.pp_ref[p] = 0
  PROVE  /\ ~IsDir(g, p) /\ ~IsTable(m, g, p)
         /\ Unnamed(m, p)
         /\ \A i \in Idx : ~Present(m, p, i)
<1>1. Count(m, g, p) = 0 /\ p # Page0
  BY AddrSpaceAssumption DEF Counted, Phys
<1>2. Cardinality(RefsOf(m, p)) = 0 /\ Cardinality(Holders(g, p)) = 0
  BY <1>1, RefsFinite DEF Count
<1>3. RefsOf(m, p) = {} /\ Holders(g, p) = {}
  BY <1>2, RefsFinite, FS_EmptySet
<1>4. ~IsDir(g, p)
  BY <1>3 DEF IsDir, Holders
<1>5. \A q \in Page, i \in Idx : Present(m, q, i) => Target(m, q, i) # p
  <2> SUFFICES ASSUME NEW q \in Page, NEW i \in Idx, Present(m, q, i),
                      Target(m, q, i) = p
               PROVE  FALSE
    OBVIOUS
  <2>1. <<q, i>> \in RefsOf(m, p)
    BY DEF RefsOf
  <2> QED
    BY <2>1, <1>3
<1>6. ~IsTable(m, g, p)
  <2> SUFFICES ASSUME NEW e \in Env, NEW i \in Idx, HasPt(m, g, e, i),
                      PtOf(m, g, e, i) = p
               PROVE  FALSE
    BY DEF IsTable
  <2>1. g[e] \in Page
    BY DEF HasPt, Shape, DirsApart
  <2> QED
    BY <2>1, <1>5 DEF HasPt, PtOf
<1> QED
  BY <1>4, <1>5, <1>6 DEF Unnamed, Shape, OthersEmpty

-----------------------------------------------------------------------------
(* What keeps the shape of the page tables.                                *)

LEMMA Addresses ==
  \A va \in VA : va[1] \in Idx /\ va[2] \in Idx /\ va = <<va[1], va[2]>>
BY AddrSpaceAssumption

LEMMA ShapeParts ==
  ASSUME NEW m, NEW g, Shape(m, g), NEW e \in Env
  PROVE  /\ g \in [Env -> Page \cup {None}] /\ None \notin Page
         /\ g[e] # None => g[e] \in Page /\ IsDir(g, g[e])
         /\ \A i \in Idx : HasPt(m, g, e, i) =>
              /\ g[e] \in Page /\ PtOf(m, g, e, i) \in Page
              /\ ~IsDir(g, PtOf(m, g, e, i)) /\ IsTable(m, g, PtOf(m, g, e, i))
BY AddrSpaceAssumption DEF Shape, DirsApart, TablesApart, HasPt, IsDir, IsTable

\* pgdir_walk finds what e has at va.
LEMMA WalkIsAt ==
  ASSUME NEW m, NEW g, NEW e \in Env, g[e] # None, NEW va
  PROVE  /\ Walk(m, g[e], va) = At(m, g, e, va)
         /\ HasTable(m, g[e], va) <=> HasPt(m, g, e, va[1])
         /\ Table(m, g[e], va) = PtOf(m, g, e, va[1])
BY DEF Walk, At, HasTable, HasPt, Table, PtOf, Present, Target

\* Two memories whose present entries name the same pages.
LEMMA SameShape ==
  ASSUME NEW m, NEW n, NEW g, Shape(m, g), SameEntries(m, n)
  PROVE  /\ Shape(n, g) /\ SameTables(m, n, g)
         /\ \A p : RefsOf(n, p) = RefsOf(m, p)
<1>1. \A p : RefsOf(n, p) = RefsOf(m, p)
  BY DEF RefsOf, SameEntries
<1>2. ASSUME NEW e \in Env, NEW i \in Idx
      PROVE  /\ HasPt(n, g, e, i) <=> HasPt(m, g, e, i)
             /\ HasPt(m, g, e, i) => PtOf(n, g, e, i) = PtOf(m, g, e, i)
  BY ShapeParts DEF SameEntries, HasPt, PtOf
<1>3. \A p : IsTable(n, g, p) <=> IsTable(m, g, p)
  BY <1>2 DEF IsTable
<1>4. DirsApart(g) /\ TablesApart(n, g)
  BY <1>2 DEF Shape, TablesApart
<1>5. LeavesApart(n, g)
  <2> SUFFICES ASSUME NEW e \in Env, NEW i \in Idx, NEW j \in Idx,
                      HasPt(n, g, e, i), Present(n, PtOf(n, g, e, i), j)
               PROVE  LET t == PtOf(n, g, e, i)
                      IN  /\ <<i, j>> \in VA /\ Target(n, t, j) \in Page
                          /\ ~IsDir(g, Target(n, t, j))
                          /\ ~IsTable(n, g, Target(n, t, j))
    BY DEF LeavesApart
  <2>1. HasPt(m, g, e, i) /\ PtOf(m, g, e, i) = PtOf(n, g, e, i)
    BY <1>2
  <2>2. PtOf(m, g, e, i) \in Page
    BY <2>1, ShapeParts
  <2>3. /\ Present(m, PtOf(m, g, e, i), j)
        /\ Target(n, PtOf(n, g, e, i), j) = Target(m, PtOf(m, g, e, i), j)
    BY <2>1, <2>2 DEF SameEntries
  <2> QED
    BY <1>3, <2>1, <2>3 DEF Shape, LeavesApart
<1>6. OthersEmpty(n, g)
  BY <1>3 DEF SameEntries, Shape, OthersEmpty
<1> QED
  BY <1>1, <1>2, <1>4, <1>5, <1>6 DEF Shape, SameTables

\* An entry of a table of e is written.
LEMMA LeafShape ==
  ASSUME NEW m, NEW n, NEW g, Shape(m, g),
         NEW e \in Env, NEW i \in Idx, NEW j \in Idx, HasPt(m, g, e, i),
         NEW x, Written(m, n, PtOf(m, g, e, i), j, x),
         x.p => /\ <<i, j>> \in VA /\ x.page \in Page
                /\ ~IsDir(g, x.page) /\ ~IsTable(m, g, x.page)
  PROVE  Shape(n, g) /\ SameTables(m, n, g) /\ SpacesBut(m, n, g, e, <<i, j>>, x)
<1>1. ASSUME NEW f \in Env, NEW k \in Idx
      PROVE  /\ HasPt(n, g, f, k) <=> HasPt(m, g, f, k)
             /\ HasPt(m, g, f, k) => PtOf(n, g, f, k) = PtOf(m, g, f, k)
  <2>1. CASE g[f] = None
    BY <2>1 DEF HasPt
  <2>2. CASE g[f] # None
    <3>1. g[f] \in Page /\ g[f] # PtOf(m, g, e, i)
      BY <2>2, ShapeParts
    <3> QED
      BY <3>1 DEF Written, HasPt, PtOf, Present, Target
  <2> QED
    BY <2>1, <2>2
<1>2. \A p : IsTable(n, g, p) <=> IsTable(m, g, p)
  BY <1>1 DEF IsTable
<1>3. DirsApart(g) /\ TablesApart(n, g)
  BY <1>1 DEF Shape, TablesApart
<1>4. ASSUME NEW f \in Env, NEW k \in Idx, NEW l \in Idx, HasPt(m, g, f, k)
      PROVE  LET t == PtOf(m, g, f, k)
             IN  n.pt[t][l] = IF f = e /\ k = i /\ l = j THEN x ELSE m.pt[t][l]
  <2>1. PtOf(m, g, f, k) \in Page
    BY <1>4, ShapeParts
  <2>2. PtOf(m, g, f, k) = PtOf(m, g, e, i) <=> f = e /\ k = i
    BY <1>4 DEF Shape, TablesApart
  <2> QED
    BY <2>1, <2>2 DEF Written
<1>5. LeavesApart(n, g)
  <2> SUFFICES ASSUME NEW f \in Env, NEW k \in Idx, NEW l \in Idx,
                      HasPt(m, g, f, k), Present(n, PtOf(m, g, f, k), l)
               PROVE  LET t == PtOf(m, g, f, k)
                      IN  /\ <<k, l>> \in VA /\ Target(n, t, l) \in Page
                          /\ ~IsDir(g, Target(n, t, l))
                          /\ ~IsTable(m, g, Target(n, t, l))
    BY <1>1, <1>2 DEF LeavesApart
  <2>1. CASE f = e /\ k = i /\ l = j
    BY <1>4, <2>1 DEF Present, Target
  <2>2. CASE ~(f = e /\ k = i /\ l = j)
    BY <1>4, <2>2 DEF Present, Target, Shape, LeavesApart
  <2> QED
    BY <2>1, <2>2
<1>6. OthersEmpty(n, g)
  <2> SUFFICES ASSUME NEW q \in Page, NEW k \in Idx, Present(n, q, k)
               PROVE  IsDir(g, q) \/ IsTable(m, g, q)
    BY <1>2 DEF OthersEmpty
  <2>1. CASE q = PtOf(m, g, e, i)
    BY <2>1, ShapeParts
  <2>2. CASE q # PtOf(m, g, e, i)
    BY <2>2 DEF Written, Present, Shape, OthersEmpty
  <2> QED
    BY <2>1, <2>2
<1>7. ASSUME NEW f \in Env, NEW va \in VA
      PROVE  At(n, g, f, va) = IF f = e /\ va = <<i, j>> THEN x ELSE At(m, g, f, va)
  <2>1. va[1] \in Idx /\ va[2] \in Idx /\ (va = <<i, j>> <=> va[1] = i /\ va[2] = j)
    BY Addresses
  <2> QED
    BY <1>1, <1>4, <2>1 DEF At
<1> QED
  BY <1>1, <1>3, <1>5, <1>6, <1>7 DEF Shape, SameTables, SpacesBut

-----------------------------------------------------------------------------
(* What keeps the counters and the free list right.                        *)

LEMMA CountInt ==
  ASSUME NEW m, NEW g, NEW p
  PROVE  Count(m, g, p) \in Nat
BY RefsFinite DEF Count

\* From one memory to the other, p has a reference more, or less.
CountUp(m, g, n, h, p) ==
  \A q \in Phys : Count(n, h, q) = Count(m, g, q) + (IF q = p THEN 1 ELSE 0)

CountDown(m, g, n, h, p) ==
  \A q \in Phys : Count(n, h, q) = Count(m, g, q) - (IF q = p THEN 1 ELSE 0)

LEMMA RefUp ==
  ASSUME NEW m \in Mem, NEW g, NEW n \in Mem, NEW h, NEW A,
         Counted(m, g), FreeBut(m, A),
         NEW p \in Page, p \notin m.free, n.free = m.free,
         n.pp_ref = [m.pp_ref EXCEPT ![p] = @ + 1],
         CountUp(m, g, n, h, p)
  PROVE  Counted(n, h) /\ FreeBut(n, A \ {p})
<1>1. \A q \in Phys : /\ m.pp_ref[q] \in Nat
                      /\ n.pp_ref[q] = m.pp_ref[q] + (IF q = p THEN 1 ELSE 0)
  BY MemParts DEF Phys
<1>2. Counted(n, h)
  BY <1>1 DEF Counted, CountUp
<1>3. \A q \in Page : n.pp_ref[q] = 0 <=> m.pp_ref[q] = 0 /\ q # p
  BY <1>1 DEF Phys
<1> QED
  BY <1>2, <1>3 DEF FreeBut

LEMMA RefDown ==
  ASSUME NEW m \in Mem, NEW g, NEW n \in Mem, NEW h, NEW A,
         Counted(m, g), FreeBut(m, A),
         NEW p \in Page, m.pp_ref[p] > 0,
         n.free = IF m.pp_ref[p] = 1 THEN m.free \cup {p} ELSE m.free,
         n.pp_ref = [m.pp_ref EXCEPT ![p] = @ - 1],
         CountDown(m, g, n, h, p)
  PROVE  Counted(n, h) /\ FreeBut(n, A)
<1>1. \A q \in Phys : /\ m.pp_ref[q] \in Nat
                      /\ n.pp_ref[q] = m.pp_ref[q] - (IF q = p THEN 1 ELSE 0)
  BY MemParts DEF Phys
<1>2. Counted(n, h)
  BY <1>1 DEF Counted, CountDown
<1>3. \A q \in Page :
        n.pp_ref[q] = 0 <=> m.pp_ref[q] = 0 \/ (q = p /\ m.pp_ref[p] = 1)
  BY <1>1 DEF Phys
<1>4. p \notin A
  BY DEF FreeBut
<1>5. CASE m.pp_ref[p] = 1
  BY <1>2, <1>3, <1>4, <1>5 DEF FreeBut
<1>6. CASE m.pp_ref[p] # 1
  BY <1>2, <1>3, <1>4, <1>6 DEF FreeBut
<1> QED
  BY <1>5, <1>6

\* page_alloc takes a page nobody refers to, and no address space changes.
LEMMA AllocGood ==
  ASSUME NEW m, NEW g, NEW A, Good(m, g, A), NEW p \in m.free
  PROVE  LET n == PageAlloc(m, p)
         IN  /\ Good(n, g, A \cup {p})
             /\ p \in Page /\ p \notin n.free /\ p \notin A
             /\ n.free = m.free \ {p} /\ n.pp_ref = m.pp_ref
             /\ Blank(n, p)
             /\ SameTables(m, n, g) /\ SameSpaces(m, n, g)
<1> DEFINE n == PageAlloc(m, p)
<1>1. m \in Mem /\ Shape(m, g) /\ Counted(m, g) /\ FreeBut(m, A)
  BY DEF Good
<1>2. p \in Page /\ m.pp_ref[p] = 0 /\ p \notin A
  BY <1>1 DEF FreeBut
<1>3. /\ n \in Mem /\ n.pp_ref = m.pp_ref /\ n.free = m.free \ {p}
      /\ \A q \in Page, i \in Idx : n.pt[q][i] = IF q = p THEN Zero ELSE m.pt[q][i]
  BY <1>1, <1>2, PageAllocParts
<1> HIDE DEF n
<1>4. /\ ~IsDir(g, p) /\ ~IsTable(m, g, p)
      /\ \A i \in Idx : ~Present(m, p, i)
  BY <1>1, <1>2, Unreferenced
<1>5. SameEntries(m, n)
  BY <1>3, <1>4, EntryTypes DEF SameEntries, Present, Target
<1>6. Shape(n, g) /\ SameTables(m, n, g) /\ \A q : RefsOf(n, q) = RefsOf(m, q)
  BY <1>1, <1>5, SameShape
<1>7. Counted(n, g)
  BY <1>1, <1>3, <1>6 DEF Counted, Count
<1>8. FreeBut(n, A \cup {p})
  BY <1>1, <1>2, <1>3 DEF FreeBut
<1>9. ASSUME NEW e \in Env, NEW va \in VA
      PROVE  At(n, g, e, va) = At(m, g, e, va)
  <2>1. CASE HasPt(m, g, e, va[1])
    <3>1. PtOf(m, g, e, va[1]) \in Page /\ PtOf(m, g, e, va[1]) # p
      BY <1>1, <1>4, <2>1, Addresses, ShapeParts
    <3> QED
      BY <1>3, <1>6, <2>1, <3>1, Addresses DEF At, SameTables
  <2>2. CASE ~HasPt(m, g, e, va[1])
    BY <1>6, <2>2, Addresses DEF At, SameTables
  <2> QED
    BY <2>1, <2>2
<1>10. Good(n, g, A \cup {p}) /\ p \notin n.free /\ Blank(n, p)
  BY <1>2, <1>3, <1>6, <1>7, <1>8 DEF Good, Blank
<1> QED
  BY <1>2, <1>3, <1>6, <1>9, <1>10 DEF n, SameSpaces

\* page_free of a page that was not used.
LEMMA FreeGood ==
  ASSUME NEW m, NEW g, NEW p, Good(m, g, {p})
  PROVE  LET n == PageFree(m, p)
         IN  /\ Good(n, g, {})
             /\ SameSpaces(m, n, g)
<1> DEFINE n == PageFree(m, p)
<1>1. m \in Mem /\ Shape(m, g) /\ Counted(m, g) /\ FreeBut(m, {p})
  BY DEF Good
<1>2. p \in Page /\ m.pp_ref[p] = 0
  BY <1>1 DEF FreeBut
<1>3. n \in Mem /\ n.pp_ref = m.pp_ref /\ n.free = m.free \cup {p} /\ n.pt = m.pt
  BY <1>1, <1>2, PageFreeParts
<1> HIDE DEF n
<1>4. SameEntries(m, n)
  BY <1>3 DEF SameEntries, Present, Target
<1>5. Shape(n, g) /\ \A q : RefsOf(n, q) = RefsOf(m, q)
  BY <1>1, <1>4, SameShape
<1>6. Counted(n, g)
  BY <1>1, <1>3, <1>5 DEF Counted, Count
<1>7. FreeBut(n, {})
  BY <1>1, <1>2, <1>3 DEF FreeBut
<1>8. SameSpaces(m, n, g)
  BY <1>3 DEF SameSpaces, At, HasPt, PtOf, Present, Target
<1> QED
  BY <1>3, <1>5, <1>6, <1>7, <1>8 DEF Good, n

-----------------------------------------------------------------------------
(* page_remove, page_insert and pgdir_walk keep the invariant.             *)

\* *pte = x, for the entry of a table of e.
LEMMA SetPteParts ==
  ASSUME NEW m \in Mem, NEW g, Shape(m, g), NEW e \in Env, NEW va \in VA,
         HasPt(m, g, e, va[1]), NEW x \in Entry,
         x.p => x.page \in Page /\ ~IsDir(g, x.page) /\ ~IsTable(m, g, x.page)
  PROVE  LET n == SetPte(m, g[e], va, x)
         IN  /\ n \in Mem /\ n.pp_ref = m.pp_ref /\ n.free = m.free
             /\ Shape(n, g)
             /\ SameTables(m, n, g)
             /\ SpacesBut(m, n, g, e, va, x)
             /\ \A q \in Phys : Count(n, g, q) = Count(m, g, q)
                  + Names(x, q) - Names(At(m, g, e, va), q)
<1>1. PICK i \in Idx, j \in Idx : va = <<i, j>> /\ va[1] = i /\ va[2] = j
  BY Addresses
<1> DEFINE t == PtOf(m, g, e, i)
           n == SetPte(m, g[e], va, x)
<1>2. HasPt(m, g, e, i) /\ t \in Page /\ g[e] # None
  BY <1>1, ShapeParts DEF HasPt
<1>3. n = [m EXCEPT !.pt[t][j] = x]
  BY <1>1, <1>2, WalkIsAt DEF SetPte
<1>4. /\ n \in Mem /\ n.pp_ref = m.pp_ref /\ n.free = m.free
      /\ Written(m, n, t, j, x)
  BY <1>2, <1>3, SetParts
<1> HIDE DEF n
<1>5. /\ Shape(n, g)
      /\ SameTables(m, n, g)
      /\ SpacesBut(m, n, g, e, <<i, j>>, x)
  <2>1. Written(m, n, PtOf(m, g, e, i), j, x)
    BY <1>4
  <2>2. x.p => /\ <<i, j>> \in VA /\ x.page \in Page
               /\ ~IsDir(g, x.page) /\ ~IsTable(m, g, x.page)
    BY <1>1
  <2> QED
    BY <1>2, <2>1, <2>2, LeafShape
<1>6. At(m, g, e, va) = m.pt[t][j]
  BY <1>1 DEF At
<1> HIDE DEF t
<1>7. ASSUME NEW q \in Phys
      PROVE  Count(n, g, q) =
               Count(m, g, q) + Names(x, q) - Names(At(m, g, e, va), q)
  <2>1. Cardinality(RefsOf(n, q)) =
          Cardinality(RefsOf(m, q)) + Names(x, q) - Names(m.pt[t][j], q)
    BY <1>2, <1>4, RefsOfSet
  <2>2. Names(x, q) \in {0, 1} /\ Names(m.pt[t][j], q) \in {0, 1}
    BY DEF Names
  <2> QED
    BY <1>6, <2>1, <2>2, RefsFinite DEF Count
<1> QED
  BY <1>1, <1>4, <1>5, <1>7 DEF n

LEMMA PutLeafGood ==
  ASSUME NEW m, NEW g, NEW A, Good(m, g, A), NEW e \in Env, NEW va \in VA,
         HasPt(m, g, e, va[1]), ~At(m, g, e, va).p, NEW w \in BOOLEAN,
         NEW p \in Page, p \notin m.free, m.pp_ref[p] + 1 < REFMOD,
         ~IsDir(g, p), ~IsTable(m, g, p)
  PROVE  LET n == IncRef(SetPte(m, g[e], va, Pte(p, w)), p)
         IN  /\ Good(n, g, A \ {p})
             /\ SpacesBut(m, n, g, e, va, Pte(p, w))
<1> DEFINE k == SetPte(m, g[e], va, Pte(p, w))
           n == IncRef(k, p)
<1>1. m \in Mem /\ Shape(m, g) /\ Counted(m, g) /\ FreeBut(m, A) /\ p \in Phys
  BY DEF Good, Phys
<1>2. Pte(p, w) \in Entry /\ Pte(p, w).p /\ Pte(p, w).page = p
  BY <1>1, EntryTypes
<1>3. /\ k \in Mem /\ k.pp_ref = m.pp_ref /\ k.free = m.free /\ Shape(k, g)
      /\ SpacesBut(m, k, g, e, va, Pte(p, w))
      /\ \A q \in Phys :
           Count(k, g, q) = Count(m, g, q) + (IF p = q THEN 1 ELSE 0)
  <2>1. /\ k \in Mem /\ k.pp_ref = m.pp_ref /\ k.free = m.free /\ Shape(k, g)
        /\ SpacesBut(m, k, g, e, va, Pte(p, w))
        /\ \A q \in Phys : Count(k, g, q) = Count(m, g, q)
             + Names(Pte(p, w), q) - Names(At(m, g, e, va), q)
    BY <1>1, <1>2, SetPteParts
  <2>2. \A q \in Phys : Count(m, g, q) \in Nat
    BY CountInt
  <2>3. \A q : Names(Pte(p, w), q) = IF p = q THEN 1 ELSE 0
    BY <1>2 DEF Names
  <2>4. \A q : Names(At(m, g, e, va), q) = 0
    BY DEF Names
  <2> QED
    BY <2>1, <2>2, <2>3, <2>4
<1> HIDE DEF k
<1>4. /\ n \in Mem /\ n.free = k.free /\ n.pt = k.pt
      /\ n.pp_ref = [k.pp_ref EXCEPT ![p] = @ + 1]
  BY <1>1, <1>3, IncRefParts
<1> HIDE DEF n
<1>5. SameEntries(k, n)
  BY <1>4 DEF SameEntries, Present, Target
<1>6. Shape(n, g) /\ \A q : RefsOf(n, q) = RefsOf(k, q)
  BY <1>3, <1>5, SameShape
<1>7. CountUp(m, g, n, g, p)
  BY <1>3, <1>6 DEF Count, CountUp
<1>8. Counted(n, g) /\ FreeBut(n, A \ {p})
  BY <1>1, <1>3, <1>4, <1>7, RefUp
<1>9. SameSpaces(k, n, g)
  BY <1>4 DEF SameSpaces, At, HasPt, PtOf, Present, Target
<1> QED
  BY <1>3, <1>4, <1>6, <1>8, <1>9 DEF SameSpaces, SpacesBut, Good, k, n

\* The same page, with other rights.
LEMMA SameLeafGood ==
  ASSUME NEW m, NEW g, NEW A, Good(m, g, A), NEW e \in Env, NEW va \in VA,
         HasPt(m, g, e, va[1]), At(m, g, e, va).p, NEW w \in BOOLEAN,
         NEW p \in Page, At(m, g, e, va).page = p,
         ~IsDir(g, p), ~IsTable(m, g, p)
  PROVE  LET n == SetPte(m, g[e], va, Pte(p, w))
         IN  /\ Good(n, g, A)
             /\ SpacesBut(m, n, g, e, va, Pte(p, w))
<1> DEFINE n == SetPte(m, g[e], va, Pte(p, w))
<1>1. m \in Mem /\ Shape(m, g) /\ Counted(m, g) /\ FreeBut(m, A) /\ p \in Phys
  BY DEF Good, Phys
<1>2. Pte(p, w) \in Entry /\ Pte(p, w).p /\ Pte(p, w).page = p
  BY <1>1, EntryTypes
<1>3. /\ n \in Mem /\ n.pp_ref = m.pp_ref /\ n.free = m.free /\ Shape(n, g)
      /\ SpacesBut(m, n, g, e, va, Pte(p, w))
      /\ \A q \in Phys : Count(n, g, q) = Count(m, g, q)
           + Names(Pte(p, w), q) - Names(At(m, g, e, va), q)
  BY <1>1, <1>2, SetPteParts
<1> HIDE DEF n
<1>4. \A q \in Phys : Count(n, g, q) = Count(m, g, q)
  <2>1. \A q \in Phys : Count(m, g, q) \in Nat
    BY CountInt
  <2>2. \A q : /\ Names(Pte(p, w), q) = Names(At(m, g, e, va), q)
               /\ Names(Pte(p, w), q) \in {0, 1}
    BY <1>2 DEF Names
  <2> QED
    BY <1>3, <2>1, <2>2
<1>5. Counted(n, g) /\ FreeBut(n, A)
  BY <1>1, <1>3, <1>4 DEF Counted, FreeBut
<1> QED
  BY <1>3, <1>5 DEF Good, n

LEMMA SamePt ==
  ASSUME NEW m, NEW n, n.pt = m.pt, NEW g
  PROVE  /\ Shape(m, g) => Shape(n, g)
         /\ \A p : Count(n, g, p) = Count(m, g, p)
         /\ SameTables(m, n, g)
         /\ SameSpaces(m, n, g)
<1>1. SameEntries(m, n)
  BY DEF SameEntries, Present, Target
<1>2. Shape(m, g) => Shape(n, g)
  BY <1>1, SameShape
<1>3. \A p : Count(n, g, p) = Count(m, g, p)
  <2>1. \A p : RefsOf(n, p) = RefsOf(m, p)
    BY <1>1 DEF SameEntries, RefsOf
  <2> QED
    BY <2>1 DEF Count
<1> QED
  BY <1>2, <1>3 DEF SameTables, SameSpaces, HasPt, PtOf, At, Present, Target

\* What a program has mapped is a page that is in use, and no page table.
LEMMA MappedPage ==
  ASSUME NEW m, NEW g, NEW A, Good(m, g, A), NEW e \in Env, NEW va \in VA,
         At(m, g, e, va).p
  PROVE  LET p == At(m, g, e, va).page
         IN  /\ HasPt(m, g, e, va[1]) /\ g[e] # None /\ p \in Page /\ p \in Phys
             /\ ~IsDir(g, p) /\ ~IsTable(m, g, p)
             /\ m.pp_ref[p] > 0 /\ p \notin m.free /\ p \notin A
<1> DEFINE p == At(m, g, e, va).page
           t == PtOf(m, g, e, va[1])
<1>1. m \in Mem /\ Shape(m, g) /\ Counted(m, g) /\ FreeBut(m, A)
  BY DEF Good
<1>2. va[1] \in Idx /\ va[2] \in Idx /\ va = <<va[1], va[2]>>
  BY Addresses
<1>3. HasPt(m, g, e, va[1]) /\ g[e] # None
  BY EntryTypes DEF At, HasPt
<1>4. t \in Page /\ Present(m, t, va[2]) /\ p = Target(m, t, va[2])
  BY <1>1, <1>2, <1>3, ShapeParts DEF At, Present, Target
<1>5. p \in Page /\ ~IsDir(g, p) /\ ~IsTable(m, g, p)
  BY <1>1, <1>2, <1>3, <1>4 DEF Shape, LeavesApart
<1>6. m.pp_ref[p] # 0 /\ m.pp_ref[p] \in Nat /\ p \in Phys
  BY <1>1, <1>2, <1>4, <1>5, Unreferenced, MemParts DEF Phys, Unnamed
<1> QED
  BY <1>1, <1>3, <1>5, <1>6 DEF FreeBut

\* page_remove: nothing is left at va, and what was there is freed with its
\* last reference.
LEMMA RemoveGood ==
  ASSUME NEW m, NEW g, NEW A, Good(m, g, A), NEW e \in Env, NEW va \in VA,
         g[e] # None
  PROVE  LET n == PageRemove(m, g[e], va)
         IN  /\ Good(n, g, A)
             /\ SpacesBut(m, n, g, e, va, Zero)
             /\ SameTables(m, n, g)
             /\ Kept(m, n, g, {q \in Page : Names(At(m, g, e, va), q) = 0})
<1> DEFINE n == PageRemove(m, g[e], va)
           old == At(m, g, e, va)
<1>1. m \in Mem /\ Shape(m, g) /\ Counted(m, g) /\ FreeBut(m, A)
  BY DEF Good
<1>2. /\ Walk(m, g[e], va) = old
      /\ HasTable(m, g[e], va) <=> HasPt(m, g, e, va[1])
  BY WalkIsAt
<1>3. CASE ~HasPt(m, g, e, va[1])
  <2>1. n = m /\ old = Zero
    BY <1>2, <1>3 DEF PageRemove, At
  <2> QED
    BY <2>1 DEF SameTables, SpacesBut, Kept
<1>4. CASE HasPt(m, g, e, va[1]) /\ ~old.p
  <2>1. n = SetPte(m, g[e], va, Zero)
    BY <1>2, <1>4 DEF PageRemove
  <2>2. /\ n \in Mem /\ n.pp_ref = m.pp_ref /\ n.free = m.free /\ Shape(n, g)
        /\ SameTables(m, n, g)
        /\ SpacesBut(m, n, g, e, va, Zero)
        /\ \A q \in Phys :
             Count(n, g, q) = Count(m, g, q) + Names(Zero, q) - Names(old, q)
    BY <1>1, <1>4, <2>1, EntryTypes, SetPteParts
  <2>3. \A q \in Phys : Count(n, g, q) = Count(m, g, q)
    <3>1. \A q : Names(Zero, q) = 0 /\ Names(old, q) = 0
      BY <1>4, EntryTypes DEF Names
    <3> QED
      BY <2>2, <3>1, CountInt
  <2>4. Counted(n, g) /\ FreeBut(n, A)
    BY <1>1, <2>2, <2>3 DEF Counted, FreeBut
  <2>5. \A q : IsTable(n, g, q) <=> IsTable(m, g, q)
    BY <2>2 DEF SameTables, IsTable
  <2> QED
    BY <2>2, <2>4, <2>5 DEF Good, Kept
<1>5. CASE HasPt(m, g, e, va[1]) /\ old.p
  <2> DEFINE a == old.page
             d == PageDecref(m, a)
  <2>1. n = SetPte(d, g[e], va, Zero)
    BY <1>2, <1>5 DEF PageRemove
  <2>2. a \in Page /\ m.pp_ref[a] > 0 /\ a \in Phys
    BY <1>5, MappedPage
  <2>3. /\ d \in Mem /\ d.pt = m.pt
        /\ d.pp_ref = [m.pp_ref EXCEPT ![a] = @ - 1]
        /\ d.free = IF m.pp_ref[a] = 1 THEN m.free \cup {a} ELSE m.free
    BY <1>1, <2>2, PageDecrefParts
  <2> HIDE DEF d
  <2>4. /\ Shape(d, g) /\ \A p : Count(d, g, p) = Count(m, g, p)
        /\ SameTables(m, d, g)
        /\ SameSpaces(m, d, g)
    BY <1>1, <2>3, SamePt
  <2>5. HasPt(d, g, e, va[1])
    BY <1>5, <2>4, Addresses DEF SameTables
  <2>6. /\ n \in Mem /\ n.pp_ref = d.pp_ref /\ n.free = d.free /\ Shape(n, g)
        /\ SameTables(d, n, g)
        /\ SpacesBut(d, n, g, e, va, Zero)
        /\ \A q \in Phys : Count(n, g, q) =
             Count(d, g, q) + Names(Zero, q) - Names(At(d, g, e, va), q)
    BY <2>1, <2>3, <2>4, <2>5, EntryTypes, SetPteParts
  <2> HIDE DEF n
  <2>7. CountDown(m, g, n, g, a)
    <3>1. \A q : /\ Names(Zero, q) = 0
                 /\ Names(At(d, g, e, va), q) = IF q = a THEN 1 ELSE 0
      BY <1>5, <2>4, EntryTypes DEF SameSpaces, Names
    <3> QED
      BY <2>4, <2>6, <3>1, CountInt DEF CountDown
  <2>8. Counted(n, g) /\ FreeBut(n, A)
    BY <1>1, <2>2, <2>3, <2>6, <2>7, RefDown
  <2>9. ASSUME NEW q \in Page, Names(old, q) = 0
        PROVE  n.pp_ref[q] = m.pp_ref[q] /\ (q \in n.free <=> q \in m.free)
    <3>1. q # a /\ q \in Phys
      BY <1>5, <2>9 DEF Names, Phys
    <3> QED
      BY <1>1, <2>3, <2>6, <3>1, MemParts
  <2>10. SpacesBut(m, n, g, e, va, Zero)
    BY <2>4, <2>6 DEF SameSpaces, SpacesBut
  <2>11. SameTables(m, n, g)
    BY <2>4, <2>6 DEF SameTables
  <2>12. \A q : IsTable(n, g, q) <=> IsTable(m, g, q)
    BY <2>11 DEF SameTables, IsTable
  <2>13. Kept(m, n, g, {q \in Page : Names(old, q) = 0})
    BY <2>9, <2>12 DEF Kept
  <2> QED
    BY <2>6, <2>8, <2>10, <2>11, <2>13 DEF Good, n
<1> QED
  BY <1>3, <1>4, <1>5

\* An empty page without references becomes a table of e.
LEMMA DirShape ==
  ASSUME NEW m, NEW n, NEW g, Shape(m, g),
         NEW e \in Env, NEW i \in Idx, g[e] # None, ~HasPt(m, g, e, i),
         NEW t \in Page, ~IsDir(g, t), ~IsTable(m, g, t),
         Unnamed(m, t), Blank(m, t),
         NEW x, x.p, x.page = t,
         Written(m, n, g[e], i, x)
  PROVE  /\ Shape(n, g) /\ AddedTable(m, n, g, e, i, t) /\ SameSpaces(m, n, g)
<1>1. g[e] \in Page /\ IsDir(g, g[e]) /\ t # g[e]
  BY ShapeParts
<1>2. /\ HasPt(n, g, e, i) /\ PtOf(n, g, e, i) = t
      /\ \A f \in Env, k \in Idx : ~(f = e /\ k = i) =>
           /\ HasPt(n, g, f, k) <=> HasPt(m, g, f, k)
           /\ HasPt(m, g, f, k) => PtOf(n, g, f, k) = PtOf(m, g, f, k)
  <2>1. HasPt(n, g, e, i) /\ PtOf(n, g, e, i) = t
    BY <1>1 DEF Written, HasPt, PtOf, Present, Target
  <2>2. ASSUME NEW f \in Env, NEW k \in Idx, ~(f = e /\ k = i)
        PROVE  /\ HasPt(n, g, f, k) <=> HasPt(m, g, f, k)
               /\ HasPt(m, g, f, k) => PtOf(n, g, f, k) = PtOf(m, g, f, k)
    <3>1. CASE g[f] = None
      BY <3>1 DEF HasPt
    <3>2. CASE g[f] # None
      <4>1. g[f] \in Page /\ ~(g[f] = g[e] /\ k = i)
        BY <2>2, <3>2, ShapeParts DEF Shape, DirsApart
      <4> QED
        BY <4>1 DEF Written, HasPt, PtOf, Present, Target
    <3> QED
      BY <3>1, <3>2
  <2> QED
    BY <2>1, <2>2
<1>3. \A q : IsTable(n, g, q) <=> IsTable(m, g, q) \/ q = t
  BY <1>2 DEF IsTable
<1>4. DirsApart(g) /\ TablesApart(n, g)
  <2>1. \A f \in Env, k \in Idx : HasPt(m, g, f, k) => PtOf(m, g, f, k) # t
    BY DEF IsTable
  <2> QED
    BY <1>2, <2>1 DEF Shape, TablesApart
<1>5. ASSUME NEW q \in Page, NEW k \in Idx, q # g[e]
      PROVE  n.pt[q][k] = m.pt[q][k]
  BY <1>5 DEF Written
<1>6. LeavesApart(n, g)
  <2> SUFFICES ASSUME NEW f \in Env, NEW k \in Idx, NEW l \in Idx,
                      HasPt(n, g, f, k), Present(n, PtOf(n, g, f, k), l)
               PROVE  LET u == PtOf(n, g, f, k)
                      IN  /\ <<k, l>> \in VA /\ Target(n, u, l) \in Page
                          /\ ~IsDir(g, Target(n, u, l))
                          /\ ~IsTable(n, g, Target(n, u, l))
    BY DEF LeavesApart
  <2>1. ~(f = e /\ k = i)
    BY <1>1, <1>2, <1>5, EntryTypes DEF Present, Blank
  <2>2. HasPt(m, g, f, k) /\ PtOf(n, g, f, k) = PtOf(m, g, f, k)
    BY <1>2, <2>1
  <2>3. PtOf(m, g, f, k) \in Page /\ PtOf(m, g, f, k) # g[e]
    BY <1>1, <2>2, ShapeParts
  <2>4. /\ Present(m, PtOf(m, g, f, k), l)
        /\ Target(n, PtOf(n, g, f, k), l) = Target(m, PtOf(m, g, f, k), l)
    BY <1>5, <2>2, <2>3 DEF Present, Target
  <2> QED
    BY <1>3, <2>2, <2>3, <2>4 DEF Unnamed, Shape, LeavesApart
<1>7. OthersEmpty(n, g)
  BY <1>1, <1>3, <1>5 DEF Present, Shape, OthersEmpty
<1>8. ASSUME NEW f \in Env, NEW va \in VA
      PROVE  At(n, g, f, va) = At(m, g, f, va)
  <2>1. va[1] \in Idx /\ va[2] \in Idx
    BY Addresses
  <2>2. CASE f = e /\ va[1] = i
    <3>1. At(n, g, f, va) = n.pt[t][va[2]]
      BY <1>2, <2>2 DEF At
    <3>2. At(m, g, f, va) = Zero
      BY <2>2 DEF At
    <3> QED
      BY <1>1, <1>5, <2>1, <3>1, <3>2 DEF Blank
  <2>3. CASE ~(f = e /\ va[1] = i)
    <3>1. HasPt(m, g, f, va[1]) =>
            PtOf(m, g, f, va[1]) \in Page /\ PtOf(m, g, f, va[1]) # g[e]
      BY <1>1, <2>1, ShapeParts
    <3> QED
      BY <1>2, <1>5, <2>1, <2>3, <3>1 DEF At
  <2> QED
    BY <2>2, <2>3
<1> QED
  BY <1>2, <1>3, <1>4, <1>6, <1>7, <1>8 DEF AddedTable, SameSpaces, Shape

\* pgdir_walk with create: a page of A becomes a table of e.
PutTable(m, dir, i, t) == [IncRef(m, t) EXCEPT !.pt[dir][i] = Pte(t, TRUE)]

LEMMA PutTableGood ==
  ASSUME NEW m, NEW g, NEW A, Good(m, g, A), NEW e \in Env, NEW i \in Idx,
         g[e] # None, ~HasPt(m, g, e, i),
         NEW t \in A, Blank(m, t)
  PROVE  LET n == PutTable(m, g[e], i, t)
         IN  /\ Good(n, g, A \ {t})
             /\ n.free = m.free /\ HasPt(n, g, e, i)
             /\ Kept(m, n, g, Page \ {t}) /\ SameSpaces(m, n, g)
<1> DEFINE k == IncRef(m, t)
           n == PutTable(m, g[e], i, t)
<1>1. m \in Mem /\ Shape(m, g) /\ Counted(m, g) /\ FreeBut(m, A)
  BY DEF Good
<1>2. t \in Page /\ t \in Phys /\ m.pp_ref[t] = 0 /\ t \notin m.free
  BY <1>1 DEF FreeBut, Phys
<1>3. /\ ~IsDir(g, t) /\ ~IsTable(m, g, t)
      /\ Unnamed(m, t)
  BY <1>1, <1>2, Unreferenced
<1>4. PICK d \in Page : d = g[e]
  BY <1>1, ShapeParts
<1>5. /\ k \in Mem /\ k.free = m.free /\ k.pt = m.pt
      /\ k.pp_ref = [m.pp_ref EXCEPT ![t] = @ + 1]
  <2>1. m.pp_ref[t] + 1 < REFMOD
    BY <1>2, AddrSpaceAssumption
  <2> QED
    BY <1>1, <1>2, <2>1, IncRefParts
<1>6. PICK y \in Entry : y = Pte(t, TRUE) /\ y.p /\ y.page = t
  BY <1>2, EntryTypes
<1>7. n = [k EXCEPT !.pt[d][i] = y]
  BY <1>4, <1>6 DEF PutTable
<1> HIDE DEF k, n
<1>8. /\ n \in Mem /\ n.pp_ref = k.pp_ref /\ n.free = k.free
      /\ Written(m, n, d, i, y)
  <2>1. /\ n \in Mem /\ n.pp_ref = k.pp_ref /\ n.free = k.free
        /\ Written(k, n, d, i, y)
    BY <1>5, <1>7, SetParts
  <2> QED
    BY <1>5, <2>1 DEF Written
<1>9. Shape(n, g) /\ AddedTable(m, n, g, e, i, t) /\ SameSpaces(m, n, g)
  <2>1. Written(m, n, g[e], i, y)
    BY <1>4, <1>8
  <2> QED
    BY <1>1, <1>2, <1>3, <1>6, <2>1, DirShape
<1>10. ASSUME NEW q \in Phys
       PROVE  Count(n, g, q) = Count(m, g, q) + (IF q = t THEN 1 ELSE 0)
  <2>1. Cardinality(RefsOf(n, q)) = Cardinality(RefsOf(m, q))
          + Names(y, q) - Names(m.pt[d][i], q)
    BY <1>8, RefsOfSet
  <2>2. /\ Names(y, q) = IF q = t THEN 1 ELSE 0
        /\ Names(m.pt[d][i], q) = 0
    BY <1>4, <1>6 DEF Names, HasPt, Present
  <2>3. Cardinality(RefsOf(n, q)) =
          Cardinality(RefsOf(m, q)) + (IF q = t THEN 1 ELSE 0)
    BY <2>1, <2>2, RefsFinite
  <2> QED
    BY <2>3, RefsFinite DEF Count
<1>11. Counted(n, g) /\ FreeBut(n, A \ {t})
  <2>2. CountUp(m, g, n, g, t)
    BY <1>10 DEF CountUp
  <2>1. n.free = m.free /\ n.pp_ref = [m.pp_ref EXCEPT ![t] = @ + 1]
    BY <1>5, <1>8
  <2> QED
    BY <1>1, <1>2, <1>8, <2>1, <2>2, RefUp
<1>12. Kept(m, n, g, Page \ {t})
  <2>1. \A q \in Page : q # t => n.pp_ref[q] = m.pp_ref[q]
    BY <1>1, <1>5, <1>8, MemParts DEF Phys
  <2> QED
    BY <1>5, <1>8, <1>9, <2>1 DEF Kept, AddedTable
<1>13. HasPt(n, g, e, i)
  BY <1>9 DEF AddedTable
<1> QED
  BY <1>5, <1>8, <1>9, <1>11, <1>12, <1>13 DEF Good, k, n

LEMMA WalkGood ==
  ASSUME NEW m, NEW g, NEW A, Good(m, g, A), NEW e \in Env, NEW va \in VA,
         g[e] # None, NEW t \in NewTables(m, g[e], va)
  PROVE  LET n == PgdirWalk(m, g[e], va, t)
         IN  /\ Good(n, g, A) /\ HasPt(n, g, e, va[1])
             /\ Kept(m, n, g, Page \ m.free) /\ SameSpaces(m, n, g)
<1> DEFINE n == PgdirWalk(m, g[e], va, t)
           k == PageAlloc(m, t)
<1>1. HasTable(m, g[e], va) <=> HasPt(m, g, e, va[1])
  BY WalkIsAt
<1>2. CASE HasPt(m, g, e, va[1])
  <2>1. n = m
    BY <1>1, <1>2 DEF PgdirWalk
  <2> QED
    BY <1>2, <2>1 DEF SameSpaces, Kept
<1>3. CASE ~HasPt(m, g, e, va[1])
  <2>1. t \in m.free
    BY <1>1, <1>3 DEF NewTables
  <2>2. va[1] \in Idx
    BY Addresses
  <2>3. n = PutTable(k, g[e], va[1], t)
    BY <1>1, <1>3 DEF PgdirWalk, PutTable
  <2>4. /\ Good(k, g, A \cup {t}) /\ t \notin A
        /\ k.free = m.free \ {t} /\ k.pp_ref = m.pp_ref
        /\ Blank(k, t)
        /\ SameTables(m, k, g)
        /\ SameSpaces(m, k, g)
    BY <2>1, AllocGood
  <2> HIDE DEF k
  <2>5. /\ Good(n, g, (A \cup {t}) \ {t}) /\ n.free = k.free /\ HasPt(n, g, e, va[1])
        /\ Kept(k, n, g, Page \ {t}) /\ SameSpaces(k, n, g)
    <3>1. ~HasPt(k, g, e, va[1]) /\ t \in A \cup {t}
      BY <1>3, <2>2, <2>4 DEF SameTables
    <3>2. Good(k, g, A \cup {t}) /\ Blank(k, t)
      BY <2>4
    <3> DEFINE B == A \cup {t}
               z == PutTable(k, g[e], va[1], t)
    <3>3. t \in B /\ Good(k, g, B) /\ Blank(k, t)
      BY <3>1, <3>2
    <3> HIDE DEF B
    <3>4. /\ Good(z, g, B \ {t}) /\ z.free = k.free /\ HasPt(z, g, e, va[1])
          /\ Kept(k, z, g, Page \ {t}) /\ SameSpaces(k, z, g)
      BY <2>2, <3>1, <3>3, PutTableGood
    <3> QED
      BY <2>3, <3>4 DEF B
  <2> HIDE DEF n
  <2>6. (A \cup {t}) \ {t} = A
    BY <2>4
  <2>7. \A q : IsTable(k, g, q) <=> IsTable(m, g, q)
    BY <2>4 DEF SameTables, IsTable
  <2>8. Kept(m, n, g, Page \ m.free)
    BY <2>1, <2>4, <2>5, <2>7 DEF Kept
  <2> QED
    BY <2>4, <2>5, <2>6, <2>8 DEF SameSpaces, n
<1> QED
  BY <1>2, <1>3

\* page_insert: p is at va, with the rights asked for.
LEMMA InsertGood ==
  ASSUME NEW m, NEW g, NEW A, Good(m, g, A), NEW e \in Env, NEW va \in VA,
         g[e] # None, NEW t \in NewTables(m, g[e], va), NEW w \in BOOLEAN,
         NEW p \in Page, p \notin m.free, m.pp_ref[p] + 1 < REFMOD,
         ~IsDir(g, p), ~IsTable(m, g, p)
  PROVE  LET n == PageInsert(m, g[e], p, va, w, t)
         IN  /\ Good(n, g, A \ {p})
             /\ SpacesBut(m, n, g, e, va, Pte(p, w))
<1> DEFINE k == PgdirWalk(m, g[e], va, t)
           old == At(k, g, e, va)
           n == PageInsert(m, g[e], p, va, w, t)
           r == PageRemove(k, g[e], va)
<1>1. /\ Good(k, g, A) /\ HasPt(k, g, e, va[1])
      /\ k.pp_ref[p] = m.pp_ref[p] /\ p \notin k.free /\ ~IsTable(k, g, p)
      /\ SameSpaces(m, k, g)
  BY WalkGood DEF Kept
<1>2. n = IF old.p /\ old.page = p THEN SetPte(k, g[e], va, Pte(p, w))
          ELSE IncRef(SetPte(r, g[e], va, Pte(p, w)), p)
  BY WalkIsAt DEF PageInsert
<1> HIDE DEF k, n
<1>3. CASE old.p /\ old.page = p
  <2>1. n = SetPte(k, g[e], va, Pte(p, w))
    BY <1>2, <1>3
  <2>2. /\ Good(n, g, A)
        /\ SpacesBut(k, n, g, e, va, Pte(p, w))
    BY <1>1, <1>3, <2>1, SameLeafGood
  <2>3. A \ {p} = A
    BY <1>1, <1>3, MappedPage
  <2> QED
    BY <1>1, <2>2, <2>3 DEF SpacesBut, SameSpaces, n
<1>4. CASE ~(old.p /\ old.page = p)
  <2>1. n = IncRef(SetPte(r, g[e], va, Pte(p, w)), p)
    BY <1>2, <1>4
  <2>2. Names(old, p) = 0
    BY <1>4 DEF Names
  <2>3. /\ Good(r, g, A)
        /\ SpacesBut(k, r, g, e, va, Zero)
        /\ SameTables(k, r, g)
        /\ r.pp_ref[p] = k.pp_ref[p] /\ (p \in r.free <=> p \in k.free)
    BY <1>1, <2>2, RemoveGood DEF Kept
  <2> HIDE DEF r
  <2>4. /\ HasPt(r, g, e, va[1]) /\ ~At(r, g, e, va).p
        /\ p \notin r.free /\ r.pp_ref[p] + 1 < REFMOD /\ ~IsTable(r, g, p)
    BY <1>1, <2>3, Addresses, EntryTypes DEF SameTables, SpacesBut, IsTable
  <2>5. /\ Good(n, g, A \ {p})
        /\ SpacesBut(r, n, g, e, va, Pte(p, w))
    <3>1. Good(r, g, A)
      BY <2>3
    <3> QED
      BY <2>1, <2>4, <3>1, PutLeafGood
  <2> QED
    BY <1>1, <2>3, <2>5 DEF SpacesBut, SameSpaces, n
<1> QED
  BY <1>3, <1>4

-----------------------------------------------------------------------------
(* env_setup_vm and env_free keep the invariant.                           *)

\* An empty page without references becomes the directory of e.
LEMMA NewDirShape ==
  ASSUME NEW m, NEW g, Shape(m, g), NEW e \in Env, g[e] = None,
         NEW d \in Page, ~IsDir(g, d), ~IsTable(m, g, d),
         Unnamed(m, d), Blank(m, d),
         NEW h, h = WithDir(g, e, d)
  PROVE  /\ Shape(m, h)
         /\ \A f \in Env, va \in VA : At(m, h, f, va) = At(m, g, f, va)
<1>1. /\ g \in [Env -> Page \cup {None}] /\ d # None
      /\ h \in [Env -> Page \cup {None}] /\ h[e] = d
      /\ \A f \in Env : f # e => h[f] = g[f]
  BY ShapeParts DEF WithDir
<1>3. \A q \in Page : IsDir(h, q) <=> IsDir(g, q) \/ q = d
  BY <1>1, ShapeParts DEF IsDir
<1>4. ASSUME NEW f \in Env, NEW i \in Idx
      PROVE  /\ HasPt(m, h, f, i) <=> HasPt(m, g, f, i)
             /\ HasPt(m, g, f, i) => PtOf(m, h, f, i) = PtOf(m, g, f, i)
  <2>1. CASE f = e
    BY <1>1, <2>1, EntryTypes DEF HasPt, Blank, Present
  <2>2. CASE f # e
    BY <1>1, <2>2 DEF HasPt, PtOf
  <2> QED
    BY <2>1, <2>2
<1>5. \A q : IsTable(m, h, q) <=> IsTable(m, g, q)
  BY <1>4 DEF IsTable
<1>6. DirsApart(h)
  <2> SUFFICES ASSUME NEW f1 \in Env, NEW f2 \in Env, h[f1] # None, h[f1] = h[f2]
               PROVE  f1 = f2
    BY <1>1 DEF DirsApart
  <2>1. \A f \in Env : g[f] # d
    BY DEF IsDir
  <2> QED
    BY <1>1, <2>1 DEF Shape, DirsApart
<1>7. TablesApart(m, h)
  <2>1. \A f \in Env, i \in Idx : HasPt(m, g, f, i) => PtOf(m, g, f, i) # d
    BY DEF IsTable
  <2>2. \A f \in Env, i \in Idx : HasPt(m, h, f, i) =>
          PtOf(m, h, f, i) \in Page /\ ~IsDir(h, PtOf(m, h, f, i))
    BY <1>3, <1>4, <2>1, ShapeParts
  <2> QED
    BY <1>4, <2>2 DEF Shape, TablesApart
<1>8. LeavesApart(m, h)
  <2> SUFFICES ASSUME NEW f \in Env, NEW k \in Idx, NEW l \in Idx,
                      HasPt(m, h, f, k), Present(m, PtOf(m, h, f, k), l)
               PROVE  LET u == PtOf(m, h, f, k)
                      IN  /\ <<k, l>> \in VA /\ Target(m, u, l) \in Page
                          /\ ~IsDir(h, Target(m, u, l))
                          /\ ~IsTable(m, h, Target(m, u, l))
    BY DEF LeavesApart
  <2>1. HasPt(m, g, f, k) /\ PtOf(m, h, f, k) = PtOf(m, g, f, k)
    BY <1>4
  <2>2. PtOf(m, g, f, k) \in Page
    BY <2>1, ShapeParts
  <2>3. Target(m, PtOf(m, g, f, k), l) # d
    BY <2>1, <2>2 DEF Unnamed
  <2> QED
    BY <1>3, <1>5, <2>1, <2>3 DEF Shape, LeavesApart
<1>9. OthersEmpty(m, h)
  BY <1>3, <1>5 DEF Shape, OthersEmpty
<1>10. ASSUME NEW f \in Env, NEW va \in VA
       PROVE  At(m, h, f, va) = At(m, g, f, va)
  BY <1>4, Addresses DEF At
<1> QED
  BY <1>6, <1>7, <1>8, <1>9, <1>10 DEF Shape

LEMMA SetupGood ==
  ASSUME NEW m, NEW g, Good(m, g, {}), NEW e \in Env, g[e] = None,
         NEW d \in m.free, NEW h, h = WithDir(g, e, d)
  PROVE  LET n == EnvSetupVm(m, d)
         IN  /\ Good(n, h, {}) /\ h[e] # None
             /\ \A f \in Env, va \in VA : At(n, h, f, va) = At(m, g, f, va)
<1> DEFINE k == PageAlloc(m, d)
           n == EnvSetupVm(m, d)
           A == {} \cup {d}
<1>1. /\ Good(k, g, A) /\ d \in Page /\ d \notin k.free /\ k.pp_ref = m.pp_ref
      /\ Blank(k, d) /\ SameSpaces(m, k, g)
  BY AllocGood
<1> HIDE DEF k, A
<1>2. /\ k \in Mem /\ Shape(k, g) /\ Counted(k, g) /\ FreeBut(k, A)
      /\ k.pp_ref[d] = 0 /\ d \in Phys /\ g \in [Env -> Page \cup {None}]
  BY <1>1, ShapeParts DEF Good, FreeBut, A, Phys, Shape, DirsApart
<1>3. ~IsDir(g, d) /\ ~IsTable(k, g, d) /\ Unnamed(k, d)
  BY <1>1, <1>2, Unreferenced
<1>4. /\ Shape(k, h)
      /\ \A f \in Env, va \in VA : At(k, h, f, va) = At(k, g, f, va)
  BY <1>1, <1>2, <1>3, NewDirShape
<1>5. n = IncRef(k, d)
  BY DEF EnvSetupVm, k
<1> HIDE DEF n
<1>6. /\ n \in Mem /\ n.free = k.free /\ n.pt = k.pt
      /\ n.pp_ref = [k.pp_ref EXCEPT ![d] = @ + 1]
  <2>1. k.pp_ref[d] + 1 < REFMOD
    BY <1>2, AddrSpaceAssumption
  <2> QED
    BY <1>2, <1>5, <2>1, IncRefParts
<1>7. /\ Shape(n, h) /\ \A p : Count(n, h, p) = Count(k, h, p)
      /\ SameSpaces(k, n, h)
  BY <1>4, <1>6, SamePt
<1>8. ASSUME NEW q \in Phys
      PROVE  Count(n, h, q) = Count(k, g, q) + (IF q = d THEN 1 ELSE 0)
  <2>1. Cardinality(Holders(h, q)) = Cardinality(Holders(g, q))
          + (IF d = q THEN 1 ELSE 0) - (IF g[e] = q THEN 1 ELSE 0)
    BY <1>2, HoldersSet
  <2>2. g[e] # q
    BY AddrSpaceAssumption DEF Phys
  <2>3. Cardinality(Holders(h, q)) =
          Cardinality(Holders(g, q)) + (IF q = d THEN 1 ELSE 0)
    BY <2>1, <2>2, RefsFinite
  <2> QED
    BY <1>7, <2>3, RefsFinite DEF Count
<1>9. Counted(n, h) /\ FreeBut(n, A \ {d})
  <2>1. CountUp(k, g, n, h, d)
    BY <1>8 DEF CountUp
  <2> QED
    BY <1>1, <1>2, <1>6, <2>1, RefUp
<1>10. A \ {d} = {}
  BY DEF A
<1>11. \A f \in Env, va \in VA : At(n, h, f, va) = At(m, g, f, va)
  BY <1>1, <1>4, <1>7 DEF SameSpaces
<1>12. h[e] # None
  BY <1>1, <1>2, AddrSpaceAssumption DEF WithDir
<1> QED
  BY <1>6, <1>7, <1>9, <1>10, <1>11, <1>12 DEF Good, n

\* The pages that hold the address space of e.
PartOf(m, g, e, q) == q = g[e] \/ \E i \in Idx : HasPt(m, g, e, i) /\ PtOf(m, g, e, i) = q

\* What env_free leaves of the page tables.
Wiped(m, n, g, e) ==
  \A q \in Page, j \in Idx :
    n.pt[q][j] = IF PartOf(m, g, e, q) THEN Zero ELSE m.pt[q][j]

LEMMA FreeShape ==
  ASSUME NEW m, NEW g, Shape(m, g), NEW e \in Env, g[e] # None,
         NEW h, h = WithDir(g, e, None), NEW n, Wiped(m, n, g, e)
  PROVE  /\ Shape(n, h)
         /\ \A f \in Env, va \in VA :
              At(n, h, f, va) = IF f = e THEN Zero ELSE At(m, g, f, va)
<1>1. /\ g \in [Env -> Page \cup {None}] /\ g[e] \in Page
      /\ h \in [Env -> Page \cup {None}] /\ h[e] = None
      /\ \A f \in Env : f # e => h[f] = g[f]
  BY ShapeParts DEF WithDir
<1>2. \A q \in Page : IsDir(h, q) <=> IsDir(g, q) /\ q # g[e]
  <2>1. \A f \in Env : g[f] = g[e] => f = e
    BY <1>1, ShapeParts DEF Shape, DirsApart
  <2> QED
    BY <1>1, <2>1, ShapeParts DEF IsDir
<1>3. ASSUME NEW f \in Env, f # e, NEW i \in Idx
      PROVE  /\ HasPt(n, h, f, i) <=> HasPt(m, g, f, i)
             /\ HasPt(m, g, f, i) => /\ PtOf(n, h, f, i) = PtOf(m, g, f, i)
                                     /\ ~PartOf(m, g, e, PtOf(m, g, f, i))
  <2>1. g[f] # None => g[f] \in Page /\ ~PartOf(m, g, e, g[f])
    BY <1>3, ShapeParts DEF PartOf, Shape, DirsApart
  <2>2. HasPt(m, g, f, i) => ~PartOf(m, g, e, PtOf(m, g, f, i))
    BY <1>1, <1>3, ShapeParts DEF PartOf, Shape, TablesApart
  <2> QED
    BY <1>1, <1>3, <2>1, <2>2 DEF Wiped, HasPt, PtOf, Present, Target
<1>4. \A i \in Idx : ~HasPt(n, h, e, i)
  BY <1>1 DEF HasPt
<1>5. \A q : IsTable(n, h, q) => IsTable(m, g, q)
  BY <1>3, <1>4 DEF IsTable
<1>6. DirsApart(h)
  BY <1>1 DEF Shape, DirsApart
<1>7. TablesApart(n, h)
  <2>1. ASSUME NEW f \in Env, NEW i \in Idx, HasPt(n, h, f, i)
        PROVE  /\ f # e /\ HasPt(m, g, f, i) /\ PtOf(n, h, f, i) = PtOf(m, g, f, i)
               /\ PtOf(n, h, f, i) \in Page /\ ~IsDir(h, PtOf(n, h, f, i))
    BY <1>2, <1>3, <1>4, <2>1, ShapeParts
  <2> QED
    BY <2>1 DEF Shape, TablesApart
<1>8. LeavesApart(n, h)
  <2> SUFFICES ASSUME NEW f \in Env, NEW k \in Idx, NEW l \in Idx,
                      HasPt(n, h, f, k), Present(n, PtOf(n, h, f, k), l)
               PROVE  LET u == PtOf(n, h, f, k)
                      IN  /\ <<k, l>> \in VA /\ Target(n, u, l) \in Page
                          /\ ~IsDir(h, Target(n, u, l))
                          /\ ~IsTable(n, h, Target(n, u, l))
    BY DEF LeavesApart
  <2>1. /\ f # e /\ HasPt(m, g, f, k) /\ PtOf(n, h, f, k) = PtOf(m, g, f, k)
        /\ ~PartOf(m, g, e, PtOf(m, g, f, k))
    BY <1>3, <1>4
  <2>2. PtOf(m, g, f, k) \in Page
    BY <2>1, ShapeParts
  <2>3. n.pt[PtOf(m, g, f, k)][l] = m.pt[PtOf(m, g, f, k)][l]
    BY <2>1, <2>2 DEF Wiped
  <2> QED
    BY <1>2, <1>5, <2>1, <2>3 DEF Present, Target, Shape, LeavesApart
<1>9. OthersEmpty(n, h)
  <2> SUFFICES ASSUME NEW q \in Page, NEW k \in Idx, Present(n, q, k)
               PROVE  IsDir(h, q) \/ IsTable(n, h, q)
    BY DEF OthersEmpty
  <2>1. ~PartOf(m, g, e, q) /\ Present(m, q, k)
    BY EntryTypes DEF Present, Wiped
  <2>2. CASE IsDir(g, q)
    BY <1>2, <2>1, <2>2 DEF PartOf
  <2>3. CASE IsTable(m, g, q)
    <3>1. PICK f \in Env, i \in Idx : HasPt(m, g, f, i) /\ PtOf(m, g, f, i) = q
      BY <2>3 DEF IsTable
    <3>2. f # e
      BY <2>1, <3>1 DEF PartOf
    <3> QED
      BY <1>3, <3>1, <3>2 DEF IsTable
  <2> QED
    BY <2>1, <2>2, <2>3 DEF Shape, OthersEmpty
<1>10. ASSUME NEW f \in Env, NEW va \in VA
       PROVE  At(n, h, f, va) = IF f = e THEN Zero ELSE At(m, g, f, va)
  <2>1. va[1] \in Idx /\ va[2] \in Idx
    BY Addresses
  <2>2. CASE f = e
    BY <1>4, <2>1, <2>2 DEF At
  <2>3. CASE f # e
    <3>1. CASE HasPt(m, g, f, va[1])
      <4>1. /\ PtOf(m, g, f, va[1]) \in Page
            /\ ~PartOf(m, g, e, PtOf(m, g, f, va[1]))
        BY <1>3, <2>1, <2>3, <3>1, ShapeParts
      <4> QED
        BY <1>3, <2>1, <2>3, <3>1, <4>1 DEF At, Wiped
    <3>2. CASE ~HasPt(m, g, f, va[1])
      BY <1>3, <2>1, <2>3, <3>2 DEF At
    <3> QED
      BY <3>1, <3>2
  <2> QED
    BY <2>2, <2>3
<1> QED
  BY <1>6, <1>7, <1>8, <1>9, <1>10 DEF Shape

\* The addresses and the indices at which the address space of e names p.
LeafHits(m, g, e, p) == {va \in VA : At(m, g, e, va).p /\ At(m, g, e, va).page = p}
TableHits(m, g, e, p) == {i \in Idx : HasPt(m, g, e, i) /\ PtOf(m, g, e, i) = p}

\* Entries of tables of e, and of its directory, that name p.
LeafRefs(m, g, e, p) ==
  {r \in RefsOf(m, p) : \E i \in Idx : HasPt(m, g, e, i) /\ PtOf(m, g, e, i) = r[1]}
DirRefs(m, g, e, p) == {r \in RefsOf(m, p) : r[1] = g[e]}

LEMMA LeafHitsCount ==
  ASSUME NEW m, NEW g, Shape(m, g), NEW e \in Env, NEW p
  PROVE  /\ IsFiniteSet(LeafHits(m, g, e, p))
         /\ Cardinality(LeafHits(m, g, e, p)) = Cardinality(LeafRefs(m, g, e, p))
         /\ Cardinality(LeafHits(m, g, e, p)) \in Nat
<1> DEFINE S == LeafHits(m, g, e, p)
           T == LeafRefs(m, g, e, p)
           f == [va \in S |-> <<PtOf(m, g, e, va[1]), va[2]>>]
<1>1. IsFiniteSet(S)
  <2>1. IsFiniteSet(Idx \X Idx)
    BY AddrSpaceAssumption, FS_Product
  <2>2. S \in SUBSET (Idx \X Idx)
    BY AddrSpaceAssumption DEF LeafHits
  <2> QED
    BY <2>1, <2>2, FS_Subset
<1>2. ASSUME NEW va \in S
      PROVE  /\ va[1] \in Idx /\ va[2] \in Idx /\ va = <<va[1], va[2]>>
             /\ HasPt(m, g, e, va[1]) /\ PtOf(m, g, e, va[1]) \in Page
             /\ f[va] = <<PtOf(m, g, e, va[1]), va[2]>> /\ f[va] \in T
  <2>1. va \in VA /\ At(m, g, e, va).p /\ At(m, g, e, va).page = p
    BY DEF LeafHits
  <2>2. va[1] \in Idx /\ va[2] \in Idx /\ va = <<va[1], va[2]>>
    BY <2>1, Addresses
  <2>3. HasPt(m, g, e, va[1])
    BY <2>1, EntryTypes DEF At
  <2>4. PtOf(m, g, e, va[1]) \in Page
    BY <2>2, <2>3, ShapeParts
  <2>5. <<PtOf(m, g, e, va[1]), va[2]>> \in RefsOf(m, p)
    BY <2>1, <2>2, <2>3, <2>4 DEF RefsOf, At, Present, Target
  <2> QED
    BY <2>2, <2>3, <2>4, <2>5 DEF LeafRefs
<1>3. f \in Injection(S, T)
  <2>1. f \in [S -> T]
    BY <1>2
  <2>2. ASSUME NEW a \in S, NEW b \in S, f[a] = f[b]
        PROVE  a = b
    <3>1. PtOf(m, g, e, a[1]) = PtOf(m, g, e, b[1]) /\ a[2] = b[2]
      BY <1>2, <2>2
    <3>2. /\ a[1] \in Idx /\ b[1] \in Idx
          /\ HasPt(m, g, e, a[1]) /\ HasPt(m, g, e, b[1])
      BY <1>2
    <3>3. a[1] = b[1]
      BY <3>1, <3>2 DEF Shape, TablesApart
    <3> QED
      BY <1>2, <3>1, <3>3
  <2> QED
    BY <2>1, <2>2 DEF Injection, IsInjective
<1>4. f \in Surjection(S, T)
  <2>1. f \in [S -> T]
    BY <1>2
  <2>2. ASSUME NEW r \in T
        PROVE  \E va \in S : f[va] = r
    <3>1. PICK i \in Idx : HasPt(m, g, e, i) /\ PtOf(m, g, e, i) = r[1]
      BY DEF LeafRefs
    <3>2. PICK q \in Page, j \in Idx :
            r = <<q, j>> /\ Present(m, q, j) /\ Target(m, q, j) = p
      BY DEF LeafRefs, RefsOf
    <3>3. q = PtOf(m, g, e, i) /\ <<i, j>> \in VA
      BY <3>1, <3>2 DEF Shape, LeavesApart
    <3>4. <<i, j>> \in S
      BY <3>1, <3>2, <3>3 DEF LeafHits, At, Present, Target
    <3> QED
      BY <1>2, <3>2, <3>3, <3>4
  <2> QED
    BY <2>1, <2>2 DEF Surjection
<1>5. ExistsBijection(S, T)
  BY <1>3, <1>4 DEF ExistsBijection, Bijection
<1> HIDE DEF S, T
<1>6. Cardinality(T) = Cardinality(S)
  BY <1>1, <1>5, FS_Bijection
<1> QED
  BY <1>1, <1>6, FS_CardinalityType DEF S, T

LEMMA TableHitsCount ==
  ASSUME NEW m, NEW g, Shape(m, g), NEW e \in Env, g[e] # None, NEW p
  PROVE  /\ IsFiniteSet(TableHits(m, g, e, p))
         /\ Cardinality(TableHits(m, g, e, p)) = Cardinality(DirRefs(m, g, e, p))
         /\ Cardinality(TableHits(m, g, e, p)) \in Nat
<1> DEFINE S == TableHits(m, g, e, p)
           T == DirRefs(m, g, e, p)
           f == [i \in S |-> <<g[e], i>>]
<1>1. g[e] \in Page
  BY ShapeParts
<1>2. IsFiniteSet(S)
  <2>1. S \in SUBSET Idx
    BY DEF TableHits
  <2> QED
    BY <2>1, AddrSpaceAssumption, FS_Subset
<1>3. \A i \in Idx : i \in S <=> <<g[e], i>> \in T
  BY <1>1 DEF TableHits, DirRefs, RefsOf, HasPt, PtOf
<1>4. f \in Injection(S, T)
  <2>1. f \in [S -> T]
    BY <1>3 DEF TableHits
  <2> QED
    BY <2>1 DEF Injection, IsInjective
<1>5. f \in Surjection(S, T)
  <2>1. f \in [S -> T]
    BY <1>3 DEF TableHits
  <2>2. ASSUME NEW r \in T
        PROVE  \E i \in S : f[i] = r
    <3>1. PICK i \in Idx : r = <<g[e], i>>
      BY DEF DirRefs, RefsOf
    <3> QED
      BY <1>3, <3>1
  <2> QED
    BY <2>1, <2>2 DEF Surjection
<1>6. ExistsBijection(S, T)
  BY <1>4, <1>5 DEF ExistsBijection, Bijection
<1> HIDE DEF S, T
<1>7. Cardinality(T) = Cardinality(S)
  BY <1>2, <1>6, FS_Bijection
<1> QED
  BY <1>2, <1>7, FS_CardinalityType DEF S, T

\* A page loses as many references as the address space of e names it.
LEMMA WipedCount ==
  ASSUME NEW m, NEW g, Shape(m, g), NEW e \in Env, g[e] # None,
         NEW n, Wiped(m, n, g, e), NEW p
  PROVE  Cardinality(RefsOf(n, p)) = Cardinality(RefsOf(m, p))
           - Cardinality(LeafHits(m, g, e, p)) - Cardinality(TableHits(m, g, e, p))
<1> DEFINE R == RefsOf(m, p)
           T == LeafRefs(m, g, e, p)
           D == DirRefs(m, g, e, p)
<1>1. RefsOf(n, p) = R \ (T \cup D)
  <2>1. ASSUME NEW q \in Page, NEW j \in Idx
        PROVE  <<q, j>> \in RefsOf(n, p) <=> <<q, j>> \in R /\ <<q, j>> \notin T \cup D
    <3>1. <<q, j>> \in R => (<<q, j>> \in T \cup D <=> PartOf(m, g, e, q))
      BY DEF LeafRefs, DirRefs, PartOf
    <3>2. <<q, j>> \in RefsOf(n, p) <=> <<q, j>> \in R /\ ~PartOf(m, g, e, q)
      BY EntryTypes DEF RefsOf, Wiped, Present, Target
    <3> QED
      BY <3>1, <3>2
  <2>2. RefsOf(n, p) \subseteq Page \X Idx /\ R \subseteq Page \X Idx
    BY DEF RefsOf
  <2> QED
    BY <2>1, <2>2
<1>2. T \subseteq R /\ D \subseteq R /\ T \cap D = {}
  <2>1. \A i \in Idx : HasPt(m, g, e, i) => PtOf(m, g, e, i) # g[e]
    BY ShapeParts
  <2> QED
    BY <2>1 DEF LeafRefs, DirRefs
<1>3. IsFiniteSet(R) /\ Cardinality(R) \in Nat
  BY RefsFinite
<1> HIDE DEF R, T, D
<1>4. IsFiniteSet(T) /\ IsFiniteSet(D)
  BY <1>2, <1>3, FS_Subset
<1>5. Cardinality(T) \in Nat /\ Cardinality(D) \in Nat
  BY <1>4, FS_CardinalityType
<1>6. Cardinality(T \cup D) = Cardinality(T) + Cardinality(D)
  <2>1. Cardinality(T \cap D) = 0
    BY <1>2, FS_EmptySet
  <2>2. Cardinality(T \cup D) = Cardinality(T) + Cardinality(D) - Cardinality(T \cap D)
    BY <1>4, FS_Union
  <2> QED
    BY <1>5, <2>1, <2>2
<1>7. Cardinality(R \ (T \cup D)) = Cardinality(R) - Cardinality(T \cup D)
  <2>1. R \cap (T \cup D) = T \cup D
    BY <1>2
  <2>2. Cardinality(R \ (T \cup D)) = Cardinality(R) - Cardinality(R \cap (T \cup D))
    BY <1>3, FS_Difference
  <2> QED
    BY <2>1, <2>2
<1>8. /\ Cardinality(LeafHits(m, g, e, p)) = Cardinality(T)
      /\ Cardinality(TableHits(m, g, e, p)) = Cardinality(D)
  BY LeafHitsCount, TableHitsCount DEF T, D
<1>9. Cardinality(RefsOf(n, p)) = Cardinality(R) - (Cardinality(T) + Cardinality(D))
  BY <1>1, <1>6, <1>7
<1> QED
  BY <1>3, <1>5, <1>8, <1>9 DEF R

\* env_free: the address space of e is gone, with every reference it held, and
\* what it was alone to use is free.
LEMMA EnvFreeGood ==
  ASSUME NEW m, NEW g, Good(m, g, {}), NEW e \in Env, g[e] # None,
         NEW h, h = WithDir(g, e, None)
  PROVE  LET n == EnvFree(m, g[e])
         IN  /\ Good(n, h, {}) /\ Wiped(m, n, g, e)
             /\ \A f \in Env, va \in VA :
                  At(n, h, f, va) = IF f = e THEN Zero ELSE At(m, g, f, va)
<1> DEFINE n == EnvFree(m, g[e])
           H(p) == Hits(m, g[e], p)
<1>1. /\ m \in Mem /\ Shape(m, g) /\ Counted(m, g) /\ FreeBut(m, {})
      /\ g[e] \in Page /\ g \in [Env -> Page \cup {None}]
  BY ShapeParts DEF Good
<1>2. ASSUME NEW p
      PROVE  /\ H(p) = Cardinality(LeafHits(m, g, e, p))
                  + Cardinality(TableHits(m, g, e, p)) + (IF p = g[e] THEN 1 ELSE 0)
             /\ Cardinality(LeafHits(m, g, e, p)) \in Nat
             /\ Cardinality(TableHits(m, g, e, p)) \in Nat /\ H(p) \in Nat
  <2>1. {va \in VA : Walk(m, g[e], va).p /\ Walk(m, g[e], va).page = p}
          = LeafHits(m, g, e, p)
    BY WalkIsAt DEF LeafHits
  <2>2. {i \in Idx : m.pt[g[e]][i].p /\ m.pt[g[e]][i].page = p}
          = TableHits(m, g, e, p)
    BY DEF TableHits, HasPt, PtOf, Present, Target
  <2>3. H(p) = Cardinality(LeafHits(m, g, e, p))
          + Cardinality(TableHits(m, g, e, p)) + (IF p = g[e] THEN 1 ELSE 0)
    BY <2>1, <2>2, Zenon DEF Hits
  <2>4. /\ Cardinality(LeafHits(m, g, e, p)) \in Nat
        /\ Cardinality(TableHits(m, g, e, p)) \in Nat
    BY <1>1, LeafHitsCount, TableHitsCount
  <2> QED
    BY <2>3, <2>4
<1>3. \A q : q \in Tables(m, g[e]) \cup {g[e]} <=> PartOf(m, g, e, q)
  BY DEF Tables, PartOf, HasPt, PtOf, Present, Target
<1>4. /\ n.pp_ref = [p \in Phys |-> (m.pp_ref[p] - H(p)) % REFMOD]
      /\ n.free = m.free \cup {p \in Page : m.pp_ref[p] > 0 /\ m.pp_ref[p] <= H(p)}
      /\ n.pt = [p \in Page |-> IF p \in Tables(m, g[e]) \cup {g[e]}
                                THEN ZeroPage ELSE m.pt[p]]
      /\ n = [pp_ref |-> n.pp_ref, free |-> n.free, pt |-> n.pt]
  BY DEF EnvFree
<1> HIDE DEF n, H
<1>5. n.pt \in [Page -> [Idx -> Entry]] /\ Wiped(m, n, g, e)
  BY <1>1, <1>3, <1>4, MemParts, EntryTypes DEF Wiped
<1>6. /\ Shape(n, h)
      /\ \A f \in Env, va \in VA :
           At(n, h, f, va) = IF f = e THEN Zero ELSE At(m, g, f, va)
  BY <1>1, <1>5, FreeShape
<1>7. ASSUME NEW p \in Phys
      PROVE  Count(n, h, p) = m.pp_ref[p] - H(p)
  <2>1. Cardinality(RefsOf(n, p)) = Cardinality(RefsOf(m, p))
          - Cardinality(LeafHits(m, g, e, p)) - Cardinality(TableHits(m, g, e, p))
    BY <1>1, <1>5, WipedCount
  <2>2. Cardinality(Holders(h, p)) = Cardinality(Holders(g, p))
          + (IF None = p THEN 1 ELSE 0) - (IF g[e] = p THEN 1 ELSE 0)
    BY <1>1, HoldersSet
  <2>3. Cardinality(Holders(h, p)) =
          Cardinality(Holders(g, p)) - (IF p = g[e] THEN 1 ELSE 0)
    BY <2>2, RefsFinite, AddrSpaceAssumption DEF Phys
  <2>4. Count(n, h, p) = Count(m, g, p) - H(p)
    BY <1>2, <2>1, <2>3, RefsFinite DEF Count
  <2> QED
    BY <1>1, <2>4 DEF Counted
<1>8. ASSUME NEW p \in Phys
      PROVE  /\ n.pp_ref[p] = m.pp_ref[p] - H(p) /\ n.pp_ref[p] = Count(n, h, p)
             /\ m.pp_ref[p] \in Nat /\ n.pp_ref[p] \in Nat /\ n.pp_ref[p] < REFMOD
  <2>1. m.pp_ref[p] - H(p) \in Nat
    BY <1>7, CountInt
  <2>2. m.pp_ref[p] \in Nat /\ m.pp_ref[p] < REFMOD /\ REFMOD \in Nat
    BY <1>1, MemParts, AddrSpaceAssumption
  <2>3. m.pp_ref[p] - H(p) < REFMOD
    BY <1>2, <2>1, <2>2
  <2>4. (m.pp_ref[p] - H(p)) % REFMOD = m.pp_ref[p] - H(p)
    BY <2>1, <2>2, <2>3, ModSmall
  <2> QED
    BY <1>4, <1>7, <2>1, <2>2, <2>3, <2>4
<1>9. n \in Mem
  <2>1. \A p \in Phys : n.pp_ref[p] \in 0 .. REFMOD - 1
    BY <1>8, AddrSpaceAssumption
  <2>2. n.pp_ref \in [Phys -> 0 .. REFMOD - 1]
    BY <1>4, <2>1
  <2>3. n.free \in SUBSET Page
    BY <1>1, <1>4, MemParts
  <2> QED
    BY <1>4, <1>5, <2>2, <2>3, MemIs
<1>10. Counted(n, h)
  BY <1>8 DEF Counted
<1>11. FreeBut(n, {})
  <2>1. ASSUME NEW p \in Page
        PROVE  p \in n.free <=> n.pp_ref[p] = 0
    <3>1. p \in Phys /\ (p \in m.free <=> m.pp_ref[p] = 0)
      BY <1>1 DEF FreeBut, Phys
    <3>2. p \in n.free <=> m.pp_ref[p] = 0 \/ (m.pp_ref[p] > 0 /\ m.pp_ref[p] <= H(p))
      BY <1>4, <3>1
    <3> QED
      BY <1>2, <1>8, <3>1, <3>2
  <2>2. n.free \subseteq Page
    BY <1>1, <1>4, MemParts
  <2> QED
    BY <2>1, <2>2 DEF FreeBut
<1> QED
  BY <1>5, <1>6, <1>9, <1>10, <1>11 DEF Good, n

-----------------------------------------------------------------------------
(* The loops of env_free.                                                  *)

\* A set of numbers that is not empty has a least element.
LEMMA Least ==
  ASSUME NEW T, T \subseteq Nat, T # {}
  PROVE  \E x \in T : \A y \in T : x <= y
<1>1. IsWellFoundedOn(OpToRel(<, Nat), Nat)
  BY NatLessThanWellFounded
<1>2. PICK x \in T : \A y \in T : ~ (<<y, x>> \in OpToRel(<, Nat))
  BY <1>1, WFMin
<1>3. \A y \in T : ~ (y < x)
  BY <1>2 DEF OpToRel
<1> QED
  BY <1>3

\* The loops visit every index, and nothing else.
LEMMA VisitsAll ==
  /\ Cardinality(Idx) \in Nat
  /\ \A n \in 1 .. Cardinality(Idx) : Visit[n] \in Idx
  /\ \A i \in Idx : \E n \in 1 .. Cardinality(Idx) : Visit[n] = i
<1> DEFINE N == Cardinality(Idx)
<1>1. N \in Nat
  BY AddrSpaceAssumption, FS_CardinalityType
<1>2. ExistsBijection(1 .. N, Idx)
  BY AddrSpaceAssumption, FS_CardinalityType
<1>3. \E f \in [1 .. N -> Idx] : \A i \in Idx : \E n \in 1 .. N : f[n] = i
  BY <1>2 DEF ExistsBijection, Bijection, Surjection
<1>4. Visit \in [1 .. N -> Idx] /\ \A i \in Idx : \E n \in 1 .. N : Visit[n] = i
  BY <1>3 DEF Visit
<1> QED
  BY <1>1, <1>4

\* The indices visited in the first n rounds.
Visited(n) == {Visit[l] : l \in 1 .. n}

LEMMA VisitedParts ==
  /\ Visited(0) = {} /\ Visited(Cardinality(Idx)) = Idx
  /\ \A n \in Nat : Visited(n + 1) = Visited(n) \cup {Visit[n + 1]}
<1>1. Visited(0) = {}
  BY DEF Visited
<1>2. Visited(Cardinality(Idx)) = Idx
  BY VisitsAll DEF Visited
<1>3. ASSUME NEW n \in Nat PROVE Visited(n + 1) = Visited(n) \cup {Visit[n + 1]}
  <2>1. 1 .. n + 1 = (1 .. n) \cup {n + 1}
    OBVIOUS
  <2> QED
    BY <2>1 DEF Visited
<1> QED
  BY <1>1, <1>2, <1>3

\* A round of the loop over the entries of the table of index i.
Round(k, dir, i, n) ==
  IF Walk(k, dir, <<i, Visit[n]>>).p THEN PageRemove(k, dir, <<i, Visit[n]>>) ELSE k

\* The loop over entries is the rounds one after the other.
LEMMA UnmappedIs ==
  ASSUME NEW m, NEW dir, NEW i, NEW N, N = Cardinality(Idx)
  PROVE  \E f : /\ Unmapped(m, dir, i) = f[N] /\ f[0] = m
                /\ \A n \in 1 .. N : f[n] = Round(f[n - 1], dir, i, n)
<1> DEFINE Step(g, n) == IF n = 0 THEN m ELSE Round(g[n - 1], dir, i, n)
           Runs(k) == \E g : g = [n \in 0 .. k |-> Step(g, n)]
           F == CHOOSE g : g = [n \in 0 .. N |-> Step(g, n)]
<1>0. N \in Nat
  BY VisitsAll
<1>1. Runs(0)
  <2>1. [n \in 0 .. 0 |-> m] = [n \in 0 .. 0 |-> Step([l \in 0 .. 0 |-> m], n)]
    OBVIOUS
  <2> QED
    BY <2>1
<1>2. ASSUME NEW k \in Nat, Runs(k) PROVE Runs(k + 1)
  <2>1. PICK g : g = [n \in 0 .. k |-> Step(g, n)]
    BY <1>2
  <2> DEFINE h == [n \in 0 .. k + 1 |->
                     IF n = k + 1 THEN Round(g[k], dir, i, k + 1) ELSE g[n]]
  <2>2. ASSUME NEW n \in 0 .. k + 1 PROVE h[n] = Step(h, n)
    BY <2>1
  <2>3. h = [n \in 0 .. k + 1 |-> Step(h, n)]
    BY <2>2
  <2> HIDE DEF h
  <2> QED
    BY <2>3
<1>3. Runs(N)
  <2> HIDE DEF Runs
  <2> DEFINE T == {k \in Nat : ~Runs(k)}
  <2>1. CASE T = {}
    BY <1>0, <2>1
  <2>2. CASE T # {}
    <3>1. PICK x \in T : \A y \in T : x <= y
      BY <2>2, Least
    <3>2. x # 0
      BY <1>1
    <3>3. x - 1 \in Nat /\ x - 1 \notin T
      BY <3>1, <3>2
    <3>4. Runs(x - 1 + 1) /\ x - 1 + 1 = x
      BY <3>3, <1>2
    <3> QED
      BY <3>4
  <2> QED
    BY <2>1, <2>2
<1>4. F = [n \in 0 .. N |-> Step(F, n)]
  BY <1>3
<1>5. Unmapped(m, dir, i) = F[N]
  BY DEF Unmapped, Round
<1> HIDE DEF F
<1>6. F[0] = m
  BY <1>0, <1>4
<1>7. ASSUME NEW n \in 1 .. N PROVE F[n] = Round(F[n - 1], dir, i, n)
  BY <1>0, <1>4
<1> QED
  BY <1>5, <1>6, <1>7

\* So is the loop over tables.
LEMMA FreeLoopIs ==
  ASSUME NEW m, NEW dir, NEW N, N = Cardinality(Idx)
  PROVE  \E f : /\ FreeLoop(m, dir) = PageDecref(f[N], dir) /\ f[0] = m
                /\ \A n \in 1 .. N : f[n] = FreeTable(f[n - 1], dir, Visit[n])
<1> DEFINE Step(g, n) == IF n = 0 THEN m ELSE FreeTable(g[n - 1], dir, Visit[n])
           Runs(k) == \E g : g = [n \in 0 .. k |-> Step(g, n)]
           F == CHOOSE g : g = [n \in 0 .. N |-> Step(g, n)]
<1>0. N \in Nat
  BY VisitsAll
<1>1. Runs(0)
  <2>1. [n \in 0 .. 0 |-> m] = [n \in 0 .. 0 |-> Step([l \in 0 .. 0 |-> m], n)]
    OBVIOUS
  <2> QED
    BY <2>1
<1>2. ASSUME NEW k \in Nat, Runs(k) PROVE Runs(k + 1)
  <2>1. PICK g : g = [n \in 0 .. k |-> Step(g, n)]
    BY <1>2
  <2> DEFINE h == [n \in 0 .. k + 1 |->
                     IF n = k + 1 THEN FreeTable(g[k], dir, Visit[k + 1]) ELSE g[n]]
  <2>2. ASSUME NEW n \in 0 .. k + 1 PROVE h[n] = Step(h, n)
    BY <2>1
  <2>3. h = [n \in 0 .. k + 1 |-> Step(h, n)]
    BY <2>2
  <2> HIDE DEF h
  <2> QED
    BY <2>3
<1>3. Runs(N)
  <2> HIDE DEF Runs
  <2> DEFINE T == {k \in Nat : ~Runs(k)}
  <2>1. CASE T = {}
    BY <1>0, <2>1
  <2>2. CASE T # {}
    <3>1. PICK x \in T : \A y \in T : x <= y
      BY <2>2, Least
    <3>2. x # 0
      BY <1>1
    <3>3. x - 1 \in Nat /\ x - 1 \notin T
      BY <3>1, <3>2
    <3>4. Runs(x - 1 + 1) /\ x - 1 + 1 = x
      BY <3>3, <1>2
    <3> QED
      BY <3>4
  <2> QED
    BY <2>1, <2>2
<1>4. F = [n \in 0 .. N |-> Step(F, n)]
  BY <1>3
<1>5. FreeLoop(m, dir) = PageDecref(F[N], dir)
  BY DEF FreeLoop
<1> HIDE DEF F
<1>6. F[0] = m
  BY <1>0, <1>4
<1>7. ASSUME NEW n \in 1 .. N PROVE F[n] = FreeTable(F[n - 1], dir, Visit[n])
  BY <1>0, <1>4
<1> QED
  BY <1>5, <1>6, <1>7

\* The entries of the page t with an index in S are 0, nothing else changed.
Cleared(m, n, t, S) ==
  \A q \in Page, j \in Idx :
    n.pt[q][j] = IF q = t /\ j \in S THEN Zero ELSE m.pt[q][j]

\* Memory after some rounds on the table t of index i: the entries of S are gone.
Unmapping(m, k, g, e, i, t, S) ==
  /\ Good(k, g, {}) /\ HasPt(k, g, e, i) /\ PtOf(k, g, e, i) = t
  /\ Cleared(m, k, t, S)

LEMMA RoundClears ==
  ASSUME NEW m, NEW k, NEW g, NEW e \in Env, NEW i \in Idx, NEW t, NEW S,
         Unmapping(m, k, g, e, i, t, S), NEW n, Visit[n] \in Idx
  PROVE  Unmapping(m, Round(k, g[e], i, n), g, e, i, t, S \cup {Visit[n]})
<1>0. PICK j, r, va : j = Visit[n] /\ r = Round(k, g[e], i, n) /\ va = <<i, j>>
  OBVIOUS
<1>1. /\ j = Visit[n] /\ j \in Idx /\ r = Round(k, g[e], i, n)
      /\ va = <<i, j>> /\ va[1] = i /\ va[2] = j
  BY <1>0
<1>2. /\ k \in Mem /\ Shape(k, g) /\ g[e] # None /\ g[e] \in Page /\ t \in Page
      /\ Good(k, g, {}) /\ HasPt(k, g, e, i) /\ PtOf(k, g, e, i) = t
      /\ Cleared(m, k, t, S)
  BY ShapeParts DEF Unmapping, Good, HasPt
<1>3. Walk(k, g[e], va) = k.pt[t][j]
  BY <1>1, <1>2, WalkIsAt DEF At
<1>4. CASE ~k.pt[t][j].p
  <2>1. r = k
    BY <1>1, <1>3, <1>4 DEF Round
  <2>2. k.pt[t][j] = Zero
    <3>1. k.pt[t][j] \in Entry
      BY <1>1, <1>2, MemParts
    <3> QED
      BY <1>4, <3>1, EntryFields
  <2>3. Cleared(m, k, t, S \cup {j})
    BY <1>2, <2>2 DEF Cleared
  <2> QED
    BY <1>1, <1>2, <2>1, <2>3 DEF Unmapping
<1>5. CASE k.pt[t][j].p
  <2>1. r = PageRemove(k, g[e], va)
    BY <1>1, <1>3, <1>5 DEF Round
  <2>2. va \in VA
    BY <1>1, <1>2, <1>5 DEF Shape, LeavesApart, Present
  <2>3. Good(r, g, {}) /\ SameTables(k, r, g)
    BY <1>2, <2>1, <2>2, RemoveGood
  <2>4. Written(k, r, t, j, Zero)
    <3>1. PICK a, d : a = k.pt[t][j].page /\ d = PageDecref(k, a)
      OBVIOUS
    <3>2. At(k, g, e, va) = k.pt[t][j]
      BY <1>1, <1>2 DEF At
    <3>3. a \in Page /\ k.pp_ref[a] > 0
      BY <1>2, <1>5, <2>2, <3>1, <3>2, MappedPage
    <3>4. d \in Mem /\ d.pt = k.pt
      BY <1>2, <3>1, <3>3, PageDecrefParts
    <3>5. r = SetPte(d, g[e], va, Zero)
      BY <1>1, <1>2, <1>3, <1>5, <2>1, <3>1, WalkIsAt DEF PageRemove
    <3>6. r = [d EXCEPT !.pt[t][j] = Zero]
      BY <1>1, <1>2, <3>4, <3>5 DEF SetPte, Table, PtOf, Target
    <3>7. Written(d, r, t, j, Zero)
      BY <1>1, <1>2, <3>4, <3>6, EntryTypes, SetParts
    <3> QED
      BY <3>4, <3>7 DEF Written
  <2>5. Cleared(m, r, t, S \cup {j})
    BY <1>2, <2>4 DEF Cleared, Written
  <2> QED
    BY <1>1, <1>2, <2>3, <2>5 DEF Unmapping, SameTables
<1> QED
  BY <1>4, <1>5

\* The loop over its entries empties a table, and does nothing else to the
\* page tables.
LEMMA UnmappedGood ==
  ASSUME NEW m, NEW g, Good(m, g, {}), NEW e \in Env, NEW i \in Idx,
         HasPt(m, g, e, i), NEW t, t = PtOf(m, g, e, i)
  PROVE  Unmapping(m, Unmapped(m, g[e], i), g, e, i, t, Idx)
<1>1. PICK N : N = Cardinality(Idx)
  OBVIOUS
<1>2. PICK f : /\ Unmapped(m, g[e], i) = f[N] /\ f[0] = m
               /\ \A n \in 1 .. N : f[n] = Round(f[n - 1], g[e], i, n)
  BY <1>1, UnmappedIs
<1>3. N \in Nat /\ \A n \in 1 .. N : Visit[n] \in Idx
  BY <1>1, VisitsAll
<1> DEFINE Holds(n) == Unmapping(m, f[n], g, e, i, t, Visited(n))
<1>4. Holds(0)
  <2>1. Cleared(m, m, t, Visited(0))
    BY VisitedParts DEF Cleared
  <2> QED
    BY <1>2, <2>1 DEF Unmapping
<1>5. ASSUME NEW n \in 0 .. N - 1, Holds(n) PROVE Holds(n + 1)
  <2>1. n + 1 \in 1 .. N /\ (n + 1) - 1 = n /\ n \in Nat
    BY <1>3
  <2>2. f[n + 1] = Round(f[n], g[e], i, n + 1) /\ Visit[n + 1] \in Idx
    BY <1>2, <1>3, <2>1
  <2>3. Unmapping(m, Round(f[n], g[e], i, n + 1), g, e, i, t, Visited(n) \cup {Visit[n + 1]})
    BY <1>5, <2>2, RoundClears
  <2>4. Visited(n + 1) = Visited(n) \cup {Visit[n + 1]}
    BY <2>1, VisitedParts
  <2> QED
    BY <2>2, <2>3, <2>4
<1>6. Holds(N)
  <2> HIDE DEF Holds
  <2> DEFINE T == {n \in 0 .. N : ~Holds(n)}
  <2>1. CASE T = {}
    BY <1>3, <2>1
  <2>2. CASE T # {}
    <3>0. T \subseteq Nat
      BY <1>3
    <3>1. PICK x \in T : \A y \in T : x <= y
      BY <2>2, <3>0, Least
    <3>2. x # 0 /\ x \in 0 .. N /\ ~Holds(x)
      BY <1>4
    <3>3. x - 1 \in 0 .. N - 1 /\ x - 1 \notin T
      BY <1>3, <3>1, <3>2
    <3>4. Holds(x - 1 + 1) /\ x - 1 + 1 = x
      BY <1>3, <1>5, <3>2, <3>3
    <3> QED
      BY <3>2, <3>4
  <2> QED
    BY <2>1, <2>2
<1> QED
  BY <1>1, <1>2, <1>6, VisitedParts

\* Entry i of the directory of e is cleared, and its table t is empty.
LEMMA DropShape ==
  ASSUME NEW m, NEW n, NEW g, Shape(m, g), NEW e \in Env, NEW i \in Idx,
         HasPt(m, g, e, i), NEW t, t = PtOf(m, g, e, i), Blank(m, t),
         Written(m, n, g[e], i, Zero)
  PROVE  Shape(n, g)
<1>1. /\ g[e] \in Page /\ IsDir(g, g[e]) /\ t \in Page /\ t # g[e]
      /\ ~IsDir(g, t) /\ IsTable(m, g, t)
  BY ShapeParts
<1>2. ASSUME NEW q \in Page, NEW k \in Idx, ~(q = g[e] /\ k = i)
      PROVE  n.pt[q][k] = m.pt[q][k]
  BY <1>2 DEF Written
<1>3. ~HasPt(n, g, e, i)
  BY <1>1, EntryTypes DEF Written, HasPt, Present
<1>4. ASSUME NEW f \in Env, NEW k \in Idx, ~(f = e /\ k = i)
      PROVE  /\ HasPt(n, g, f, k) <=> HasPt(m, g, f, k)
             /\ HasPt(m, g, f, k) => /\ PtOf(n, g, f, k) = PtOf(m, g, f, k)
                                     /\ PtOf(m, g, f, k) # t
  <2>1. CASE g[f] = None
    BY <2>1 DEF HasPt
  <2>2. CASE g[f] # None
    <3>1. g[f] \in Page /\ ~(g[f] = g[e] /\ k = i)
      BY <1>4, <2>2, ShapeParts DEF Shape, DirsApart
    <3>2. n.pt[g[f]][k] = m.pt[g[f]][k]
      BY <1>2, <3>1
    <3>3. HasPt(m, g, f, k) => PtOf(m, g, f, k) # t
      BY <1>4 DEF Shape, TablesApart
    <3> QED
      BY <3>2, <3>3 DEF HasPt, PtOf, Present, Target
  <2> QED
    BY <2>1, <2>2
<1>5. \A q : IsTable(n, g, q) <=> IsTable(m, g, q) /\ q # t
  BY <1>3, <1>4 DEF IsTable
<1>6. DirsApart(g) /\ TablesApart(n, g)
  BY <1>3, <1>4 DEF Shape, TablesApart
<1>7. LeavesApart(n, g)
  <2> SUFFICES ASSUME NEW f \in Env, NEW k \in Idx, NEW l \in Idx,
                      HasPt(n, g, f, k), Present(n, PtOf(n, g, f, k), l)
               PROVE  LET u == PtOf(n, g, f, k)
                      IN  /\ <<k, l>> \in VA /\ Target(n, u, l) \in Page
                          /\ ~IsDir(g, Target(n, u, l))
                          /\ ~IsTable(n, g, Target(n, u, l))
    BY DEF LeavesApart
  <2>1. HasPt(m, g, f, k) /\ PtOf(n, g, f, k) = PtOf(m, g, f, k)
    BY <1>3, <1>4
  <2>2. PtOf(m, g, f, k) \in Page /\ PtOf(m, g, f, k) # g[e]
    BY <1>1, <2>1, ShapeParts
  <2>3. n.pt[PtOf(m, g, f, k)][l] = m.pt[PtOf(m, g, f, k)][l]
    BY <1>2, <2>2
  <2> QED
    BY <1>5, <2>1, <2>3 DEF Present, Target, Shape, LeavesApart
<1>8. OthersEmpty(n, g)
  <2> SUFFICES ASSUME NEW q \in Page, NEW k \in Idx, Present(n, q, k)
               PROVE  IsDir(g, q) \/ IsTable(n, g, q)
    BY DEF OthersEmpty
  <2>1. CASE q = g[e]
    BY <1>1, <2>1
  <2>2. CASE q # g[e]
    <3>1. Present(m, q, k)
      BY <1>2, <2>2 DEF Present
    <3>2. q # t
      BY <3>1, EntryTypes DEF Blank, Present
    <3> QED
      BY <1>5, <3>1, <3>2 DEF Shape, OthersEmpty
  <2> QED
    BY <2>1, <2>2
<1> QED
  BY <1>6, <1>7, <1>8 DEF Shape

\* Where e has the index i in use, and its table: what is 0 once the indices of
\* S are done.
PartAt(m, g, e, S, q, j) ==
  \/ q = g[e] /\ j \in S
  \/ \E i \in S : HasPt(m, g, e, i) /\ PtOf(m, g, e, i) = q

Gone(m, n, g, e, S) ==
  \A q \in Page, j \in Idx :
    n.pt[q][j] = IF PartAt(m, g, e, S, q, j) THEN Zero ELSE m.pt[q][j]

\* A round of the loop over tables releases one table.
LEMMA FreeTableGood ==
  ASSUME NEW m, NEW g, Good(m, g, {}), NEW e \in Env, g[e] # None, NEW i \in Idx
  PROVE  LET n == FreeTable(m, g[e], i)
         IN  Good(n, g, {}) /\ Gone(m, n, g, e, {i})
<1> DEFINE n == FreeTable(m, g[e], i)
<1>1. m \in Mem /\ Shape(m, g) /\ g[e] \in Page
  BY ShapeParts DEF Good
<1>2. m.pt[g[e]][i].p <=> HasPt(m, g, e, i)
  BY DEF HasPt, Present
<1>3. CASE ~HasPt(m, g, e, i)
  <2>1. n = m
    BY <1>2, <1>3 DEF FreeTable
  <2>2. m.pt[g[e]][i] = Zero
    BY <1>1, <1>2, <1>3, MemParts, EntryFields
  <2>3. Gone(m, m, g, e, {i})
    BY <1>3, <2>2 DEF Gone, PartAt
  <2> QED
    BY <2>1, <2>3
<1>4. CASE HasPt(m, g, e, i)
  <2>1. PICK t, k, d : /\ t = PtOf(m, g, e, i) /\ k = Unmapped(m, g[e], i)
                       /\ d = [k EXCEPT !.pt[g[e]][i] = Zero]
    OBVIOUS
  <2>2. n = PageDecref(d, t)
    BY <1>2, <1>4, <2>1 DEF FreeTable, PtOf, Target
  <2>3. Unmapping(m, k, g, e, i, t, Idx)
    BY <1>4, <2>1, UnmappedGood
  <2>4. /\ k \in Mem /\ Shape(k, g) /\ Counted(k, g) /\ FreeBut(k, {})
        /\ HasPt(k, g, e, i) /\ PtOf(k, g, e, i) = t /\ Cleared(m, k, t, Idx)
    BY <2>3 DEF Unmapping, Good
  <2>5. t \in Page /\ t # g[e] /\ IsTable(k, g, t)
    BY <2>4, ShapeParts
  <2>6. /\ d \in Mem /\ d.pp_ref = k.pp_ref /\ d.free = k.free
        /\ Written(k, d, g[e], i, Zero)
    BY <1>1, <2>1, <2>4, EntryTypes, SetParts
  <2>7. Blank(k, t)
    BY <2>4, <2>5 DEF Cleared, Blank
  <2>8. Shape(d, g)
    BY <2>4, <2>6, <2>7, DropShape
  <2>9. k.pp_ref[t] > 0 /\ d.pp_ref[t] > 0
    <3>1. k.pp_ref[t] # 0 /\ k.pp_ref[t] \in Nat
      BY <2>4, <2>5, Unreferenced, MemParts DEF Phys
    <3> QED
      BY <2>6, <3>1
  <2>10. /\ n \in Mem /\ n.pt = d.pt
         /\ n.pp_ref = [k.pp_ref EXCEPT ![t] = @ - 1]
         /\ n.free = IF k.pp_ref[t] = 1 THEN k.free \cup {t} ELSE k.free
    BY <2>2, <2>5, <2>6, <2>9, PageDecrefParts
  <2> HIDE DEF n
  <2>11. Shape(n, g) /\ \A p : Count(n, g, p) = Count(d, g, p)
    BY <2>8, <2>10, SamePt
  <2>12. CountDown(k, g, n, g, t)
    <3>1. ASSUME NEW q \in Phys
          PROVE  Count(n, g, q) = Count(k, g, q) - (IF q = t THEN 1 ELSE 0)
      <4>1. Cardinality(RefsOf(d, q)) =
              Cardinality(RefsOf(k, q)) + Names(Zero, q) - Names(k.pt[g[e]][i], q)
        BY <1>1, <2>6, RefsOfSet
      <4>2. Names(Zero, q) = 0 /\ Names(k.pt[g[e]][i], q) = IF q = t THEN 1 ELSE 0
        BY <2>4, EntryTypes DEF Names, HasPt, PtOf, Present, Target
      <4> QED
        BY <2>11, <4>1, <4>2, RefsFinite DEF Count
    <3> QED
      BY <3>1 DEF CountDown
  <2>13. Counted(n, g) /\ FreeBut(n, {})
    BY <2>4, <2>5, <2>9, <2>10, <2>12, RefDown
  <2>14. Gone(m, n, g, e, {i})
    <3> SUFFICES ASSUME NEW q \in Page, NEW j \in Idx
                 PROVE  n.pt[q][j] = IF PartAt(m, g, e, {i}, q, j) THEN Zero
                                     ELSE m.pt[q][j]
      BY DEF Gone
    <3>1. PartAt(m, g, e, {i}, q, j) <=> (q = g[e] /\ j = i) \/ q = t
      BY <1>4, <2>1 DEF PartAt
    <3>2. n.pt[q][j] = IF q = g[e] /\ j = i THEN Zero ELSE k.pt[q][j]
      BY <2>6, <2>10 DEF Written
    <3>3. k.pt[q][j] = IF q = t THEN Zero ELSE m.pt[q][j]
      BY <2>4 DEF Cleared
    <3> QED
      BY <3>1, <3>2, <3>3
  <2> QED
    BY <2>10, <2>11, <2>13, <2>14 DEF Good, n
<1> QED
  BY <1>3, <1>4

\* Rounds add up.
LEMMA GoneMore ==
  ASSUME NEW m, NEW g, Shape(m, g), NEW e \in Env, g[e] # None,
         NEW k, NEW n, NEW S, S \subseteq Idx, NEW i \in Idx,
         Gone(m, k, g, e, S), Gone(k, n, g, e, {i})
  PROVE  Gone(m, n, g, e, S \cup {i})
<1>1. g[e] \in Page
  BY ShapeParts
<1>2. /\ i \in S => ~HasPt(k, g, e, i)
      /\ i \notin S => /\ HasPt(k, g, e, i) <=> HasPt(m, g, e, i)
                       /\ PtOf(k, g, e, i) = PtOf(m, g, e, i)
  <2>1. \A j \in Idx : HasPt(m, g, e, j) => PtOf(m, g, e, j) # g[e]
    BY ShapeParts
  <2>2. PartAt(m, g, e, S, g[e], i) <=> i \in S
    BY <2>1 DEF PartAt
  <2>3. k.pt[g[e]][i] = IF i \in S THEN Zero ELSE m.pt[g[e]][i]
    BY <1>1, <2>2 DEF Gone
  <2> QED
    BY <2>3, EntryTypes DEF HasPt, PtOf, Present, Target
<1> SUFFICES ASSUME NEW q \in Page, NEW j \in Idx
             PROVE  n.pt[q][j] = IF PartAt(m, g, e, S \cup {i}, q, j) THEN Zero
                                 ELSE m.pt[q][j]
  BY DEF Gone
<1>3. n.pt[q][j] = IF PartAt(k, g, e, {i}, q, j) THEN Zero ELSE k.pt[q][j]
  BY DEF Gone
<1>4. k.pt[q][j] = IF PartAt(m, g, e, S, q, j) THEN Zero ELSE m.pt[q][j]
  BY DEF Gone
<1>5. PartAt(m, g, e, S \cup {i}, q, j)
        <=> PartAt(m, g, e, S, q, j) \/ PartAt(k, g, e, {i}, q, j)
  BY <1>2 DEF PartAt
<1> QED
  BY <1>3, <1>4, <1>5

\* The tables gone, only the directory is left.
LEMMA TablesGone ==
  ASSUME NEW m, NEW g, Good(m, g, {}), NEW e \in Env, g[e] # None,
         NEW N, N = Cardinality(Idx), NEW f, f[0] = m,
         \A n \in 1 .. N : f[n] = FreeTable(f[n - 1], g[e], Visit[n])
  PROVE  Good(f[N], g, {}) /\ Gone(m, f[N], g, e, Idx)
<1>1. N \in Nat /\ \A n \in 1 .. N : Visit[n] \in Idx
  BY VisitsAll
<1> DEFINE Holds(n) == Good(f[n], g, {}) /\ Gone(m, f[n], g, e, Visited(n))
<1>2. Holds(0)
  BY VisitedParts DEF Gone, PartAt
<1>3. ASSUME NEW n \in 0 .. N - 1, Holds(n) PROVE Holds(n + 1)
  <2>1. n + 1 \in 1 .. N /\ (n + 1) - 1 = n /\ n \in Nat
    BY <1>1
  <2>2. PICK i, k, r : i = Visit[n + 1] /\ k = f[n] /\ r = f[n + 1]
    OBVIOUS
  <2>20. i \in Idx
    BY <1>1, <2>1, <2>2
  <2>3. r = FreeTable(k, g[e], i)
    BY <2>1, <2>2
  <2>4. Good(r, g, {}) /\ Gone(k, r, g, e, {i})
    BY <1>3, <2>2, <2>20, <2>3, FreeTableGood
  <2>5. Visited(n) \subseteq Idx /\ Visited(n + 1) = Visited(n) \cup {i}
    <3>1. Visited(n) \subseteq Idx
      BY <1>1 DEF Visited
    <3> QED
      BY <2>1, <2>2, <2>20, <3>1, VisitedParts
  <2>6. Gone(m, r, g, e, Visited(n) \cup {i})
    BY <1>3, <2>2, <2>20, <2>4, <2>5, GoneMore DEF Good
  <2> QED
    BY <2>2, <2>4, <2>5, <2>6
<1>4. Holds(N)
  <2> HIDE DEF Holds
  <2> DEFINE T == {n \in 0 .. N : ~Holds(n)}
  <2>1. CASE T = {}
    BY <1>1, <2>1
  <2>2. CASE T # {}
    <3>0. T \subseteq Nat
      BY <1>1
    <3>1. PICK x \in T : \A y \in T : x <= y
      BY <2>2, <3>0, Least
    <3>2. x # 0 /\ x \in 0 .. N /\ ~Holds(x)
      BY <1>2
    <3>3. x - 1 \in 0 .. N - 1 /\ x - 1 \notin T
      BY <1>1, <3>1, <3>2
    <3>4. Holds(x - 1 + 1) /\ x - 1 + 1 = x
      BY <1>1, <1>3, <3>2, <3>3
    <3> QED
      BY <3>2, <3>4
  <2> QED
    BY <2>1, <2>2
<1> QED
  BY <1>4, VisitedParts

\* The loops leave a good memory, without the address space of e.
LEMMA FreeLoopGood ==
  ASSUME NEW m, NEW g, Good(m, g, {}), NEW e \in Env, g[e] # None,
         NEW h, h = WithDir(g, e, None)
  PROVE  LET n == FreeLoop(m, g[e])
         IN  Good(n, h, {}) /\ Wiped(m, n, g, e)
<1> DEFINE n == FreeLoop(m, g[e])
<1>1. PICK N : N = Cardinality(Idx)
  OBVIOUS
<1>2. PICK f : /\ n = PageDecref(f[N], g[e]) /\ f[0] = m
               /\ \A l \in 1 .. N : f[l] = FreeTable(f[l - 1], g[e], Visit[l])
  BY <1>1, FreeLoopIs
<1>3. PICK k, dir : k = f[N] /\ dir = g[e]
  OBVIOUS
<1>4. Good(k, g, {}) /\ Gone(m, k, g, e, Idx)
  BY <1>1, <1>2, <1>3, TablesGone
<1>5. /\ k \in Mem /\ Shape(k, g) /\ Counted(k, g) /\ FreeBut(k, {})
      /\ Shape(m, g) /\ g \in [Env -> Page \cup {None}]
      /\ dir \in Page /\ dir \in Phys /\ IsDir(g, dir)
  BY <1>3, <1>4, ShapeParts DEF Good, Phys
<1>6. k.pp_ref[dir] > 0
  <2>1. k.pp_ref[dir] # 0 /\ k.pp_ref[dir] \in Nat
    BY <1>5, Unreferenced, MemParts
  <2> QED
    BY <2>1
<1>7. /\ n \in Mem /\ n.pt = k.pt /\ n.pp_ref = [k.pp_ref EXCEPT ![dir] = @ - 1]
      /\ n.free = IF k.pp_ref[dir] = 1 THEN k.free \cup {dir} ELSE k.free
  BY <1>2, <1>3, <1>5, <1>6, PageDecrefParts
<1> HIDE DEF n
<1>8. Wiped(m, n, g, e)
  <2>1. \A q \in Page, j \in Idx : PartAt(m, g, e, Idx, q, j) <=> PartOf(m, g, e, q)
    BY DEF PartAt, PartOf
  <2> QED
    BY <1>4, <1>7, <2>1 DEF Gone, Wiped
<1>9. Shape(n, h)
  BY <1>5, <1>8, FreeShape
<1>10. CountDown(k, g, n, h, dir)
  <2>1. ASSUME NEW q \in Phys
        PROVE  Count(n, h, q) = Count(k, g, q) - (IF q = dir THEN 1 ELSE 0)
    <3>1. RefsOf(n, q) = RefsOf(k, q)
      BY <1>7 DEF RefsOf, Present, Target
    <3>2. Cardinality(Holders(h, q)) = Cardinality(Holders(g, q))
            + (IF None = q THEN 1 ELSE 0) - (IF g[e] = q THEN 1 ELSE 0)
      BY <1>5, HoldersSet
    <3>3. None # q
      BY AddrSpaceAssumption DEF Phys
    <3> QED
      BY <1>3, <3>1, <3>2, <3>3, RefsFinite DEF Count
  <2> QED
    BY <2>1 DEF CountDown
<1>11. Counted(n, h) /\ FreeBut(n, {})
  BY <1>5, <1>6, <1>7, <1>10, RefDown
<1> QED
  BY <1>7, <1>8, <1>9, <1>11 DEF Good, n

\* The counters and the free pages follow from the page tables.
LEMMA SameWiped ==
  ASSUME NEW m, NEW g, NEW e, NEW n, NEW k, NEW h, Good(n, h, {}), Good(k, h, {}),
         Wiped(m, n, g, e), Wiped(m, k, g, e)
  PROVE  n = k
<1>1. /\ n \in Mem /\ Counted(n, h) /\ FreeBut(n, {})
      /\ k \in Mem /\ Counted(k, h) /\ FreeBut(k, {})
  BY DEF Good
<1>2. n.pt = k.pt
  <2>1. \A q \in Page, j \in Idx : n.pt[q][j] = k.pt[q][j]
    BY DEF Wiped
  <2>2. n.pt \in [Page -> [Idx -> Entry]] /\ k.pt \in [Page -> [Idx -> Entry]]
    BY <1>1, MemParts
  <2>3. ASSUME NEW q \in Page PROVE n.pt[q] = k.pt[q]
    BY <2>1, <2>2
  <2> QED
    BY <2>2, <2>3
<1>3. n.pp_ref = k.pp_ref
  <2>1. \A p \in Phys : Count(n, h, p) = Count(k, h, p)
    BY <1>2 DEF Count, RefsOf, Present, Target
  <2>2. \A p \in Phys : n.pp_ref[p] = k.pp_ref[p]
    BY <1>1, <2>1 DEF Counted
  <2> QED
    BY <1>1, <2>2, MemParts
<1>4. n.free = k.free
  BY <1>1, <1>3 DEF FreeBut
<1> QED
  BY <1>1, <1>2, <1>3, <1>4, MemRecord

\* The loops of env_free come to EnvFree.
LEMMA LoopIsEnvFree ==
  ASSUME NEW m, NEW g, Good(m, g, {}), NEW e \in Env, g[e] # None
  PROVE  EnvFree(m, g[e]) = FreeLoop(m, g[e])
<1>1. PICK n, k, h : /\ n = EnvFree(m, g[e]) /\ k = FreeLoop(m, g[e])
                     /\ h = WithDir(g, e, None)
  OBVIOUS
<1>2. Good(n, h, {}) /\ Wiped(m, n, g, e)
  BY <1>1, EnvFreeGood
<1>3. Good(k, h, {}) /\ Wiped(m, k, g, e)
  BY <1>1, FreeLoopGood
<1> QED
  BY <1>1, <1>2, <1>3, SameWiped

-----------------------------------------------------------------------------
(* What the system calls make of the memory.                               *)

\* A new page at va.
LEMMA FreshGood ==
  ASSUME NEW m, NEW g, Good(m, g, {}), NEW e \in Env, g[e] # None,
         NEW va \in VA, NEW w \in BOOLEAN, NEW p \in m.free,
         NEW t \in NewTables(PageAlloc(m, p), g[e], va)
  PROVE  LET n == PageInsert(PageAlloc(m, p), g[e], p, va, w, t)
         IN  Good(n, g, {}) /\ SpacesBut(m, n, g, e, va, Pte(p, w)) /\ p \in Page
<1> DEFINE k == PageAlloc(m, p)
           A == {} \cup {p}
           n == PageInsert(k, g[e], p, va, w, t)
<1>1. Good(k, g, A) /\ p \in Page /\ p \notin k.free /\ SameSpaces(m, k, g)
  BY AllocGood
<1>2. k \in Mem /\ Shape(k, g) /\ Counted(k, g) /\ k.pp_ref[p] = 0
  BY <1>1 DEF Good, FreeBut
<1> HIDE DEF k, A
<1>3. /\ ~IsDir(g, p) /\ ~IsTable(k, g, p) /\ k.pp_ref[p] + 1 < REFMOD
  BY <1>1, <1>2, Unreferenced, AddrSpaceAssumption
<1>4. t \in NewTables(k, g[e], va)
  BY DEF k
<1>5. Good(n, g, A \ {p}) /\ SpacesBut(k, n, g, e, va, Pte(p, w))
  BY <1>1, <1>3, <1>4, InsertGood
<1>6. A \ {p} = {}
  BY DEF A
<1> HIDE DEF n
<1>7. SpacesBut(m, n, g, e, va, Pte(p, w))
  BY <1>1, <1>5 DEF SpacesBut, SameSpaces
<1> QED
  BY <1>1, <1>5, <1>6, <1>7 DEF n, k

\* The page mapped at srcva in src, mapped in e too.
LEMMA CopyGood ==
  ASSUME NEW m, NEW g, Good(m, g, {}), NEW e \in Env, g[e] # None,
         NEW va \in VA, NEW w \in BOOLEAN, NEW t \in NewTables(m, g[e], va),
         NEW src \in Env, NEW srcva \in VA, At(m, g, src, srcva).p,
         NEW p, p = At(m, g, src, srcva).page, m.pp_ref[p] + 1 < REFMOD
  PROVE  LET n == PageInsert(m, g[e], p, va, w, t)
         IN  Good(n, g, {}) /\ SpacesBut(m, n, g, e, va, Pte(p, w)) /\ p \in Page
<1>1. p \in Page /\ ~IsDir(g, p) /\ ~IsTable(m, g, p) /\ p \notin m.free
  BY MappedPage
<1>2. {} \ {p} = {}
  OBVIOUS
<1>3. /\ Good(PageInsert(m, g[e], p, va, w, t), g, {} \ {p})
      /\ SpacesBut(m, PageInsert(m, g[e], p, va, w, t), g, e, va, Pte(p, w))
  BY <1>1, InsertGood
<1> QED
  BY <1>1, <1>2, <1>3

\* Between m with g and n with h only what e has at va changed, which is x.
SpaceBut(m, g, n, h, e, va, x) ==
  \A f \in Env, wa \in VA :
    At(n, h, f, wa) = IF f = e /\ wa = va THEN x ELSE At(m, g, f, wa)

\* ENV_CREATE.
LEMMA CreateGood ==
  ASSUME NEW m, NEW g, Good(m, g, {}), NEW e \in Env, g[e] = None,
         NEW d \in m.free, NEW p \in EnvSetupVm(m, d).free,
         NEW t \in NewTables(PageAlloc(EnvSetupVm(m, d), p), d, Stack),
         NEW h, h = WithDir(g, e, d)
  PROVE  LET n == PageInsert(PageAlloc(EnvSetupVm(m, d), p), d, p, Stack, TRUE, t)
         IN  /\ Good(n, h, {}) /\ p \in m.free /\ h[e] # None
             /\ SpaceBut(m, g, n, h, e, Stack, Pte(p, TRUE))
<1> DEFINE k == EnvSetupVm(m, d)
           n == PageInsert(PageAlloc(k, p), d, p, Stack, TRUE, t)
<1>1. /\ Good(k, h, {}) /\ h[e] # None
      /\ \A f \in Env, va \in VA : At(k, h, f, va) = At(m, g, f, va)
  BY SetupGood
<1>2. h[e] = d
  BY DEF WithDir, Good, Shape, DirsApart
<1>3. p \in m.free
  <2>1. d \in Page /\ m \in Mem
    BY DEF Good, FreeBut
  <2>2. k.free = m.free \ {d}
    <3>1. PageAlloc(m, d) \in Mem /\ PageAlloc(m, d).free = m.free \ {d}
      BY <2>1, PageAllocParts
    <3>2. IncRef(PageAlloc(m, d), d).free = PageAlloc(m, d).free
      BY <3>1, MemRecord DEF IncRef
    <3> QED
      BY <3>1, <3>2 DEF EnvSetupVm
  <2> QED
    BY <2>2
<1> HIDE DEF k
<1>4. p \in k.free /\ t \in NewTables(PageAlloc(k, p), h[e], Stack) /\ Stack \in VA
  BY <1>2, AddrSpaceAssumption DEF k
<1>5. /\ n = PageInsert(PageAlloc(k, p), h[e], p, Stack, TRUE, t)
  BY <1>2
<1> HIDE DEF n
<1>6. Good(n, h, {}) /\ SpacesBut(k, n, h, e, Stack, Pte(p, TRUE))
  BY <1>1, <1>4, <1>5, FreshGood
<1> QED
  BY <1>1, <1>3, <1>6 DEF SpacesBut, SpaceBut, n, k

\* e has x at va and nothing at DTemp, and nothing else changed.
MovedTo(m, n, g, e, va, x) ==
  \A f \in Env, wa \in VA : At(n, g, f, wa) =
    IF f = e /\ wa = DTemp THEN Zero
    ELSE IF f = e /\ wa = va THEN x ELSE At(m, g, f, wa)

\* A round of the loops of sys_exec.
LEMMA ExecGood ==
  ASSUME NEW m, NEW g, Good(m, g, {}), NEW e \in Env, g[e] # None,
         NEW va \in VA, va # DTemp, NEW w \in BOOLEAN,
         NEW t \in NewTables(m, g[e], va), At(m, g, e, DTemp).p,
         NEW p, p = At(m, g, e, DTemp).page, m.pp_ref[p] + 1 < REFMOD
  PROVE  LET n == PageRemove(PageInsert(m, g[e], p, va, w, t), g[e], DTemp)
         IN  Good(n, g, {}) /\ p \in Page /\ MovedTo(m, n, g, e, va, Pte(p, w))
<1> DEFINE k == PageInsert(m, g[e], p, va, w, t)
           n == PageRemove(k, g[e], DTemp)
<1>1. DTemp \in VA
  BY AddrSpaceAssumption
<1>2. Good(k, g, {}) /\ SpacesBut(m, k, g, e, va, Pte(p, w)) /\ p \in Page
  BY <1>1, CopyGood
<1> HIDE DEF k
<1>3. Good(n, g, {}) /\ SpacesBut(k, n, g, e, DTemp, Zero)
  BY <1>1, <1>2, RemoveGood
<1> HIDE DEF n
<1>4. MovedTo(m, n, g, e, va, Pte(p, w))
  BY <1>2, <1>3 DEF SpacesBut, MovedTo
<1> QED
  BY <1>2, <1>3, <1>4 DEF n, k

-----------------------------------------------------------------------------
(* The steps: what each does to memory and to the address spaces.          *)

LEMMA Types ==
  ASSUME Inv
  PROVE  /\ Good(mem, pgdir, {}) /\ mem \in Mem /\ mem.free \subseteq Page
         /\ pgdir \in [Env -> Page \cup {None}] /\ curenv \in [CPU -> Env \cup {None}]
         /\ status \in [Env -> Status] /\ dstva \in [Env -> VA \cup {None}]
         /\ None \notin Env /\ None \notin Page /\ None \notin VA
         /\ \A c \in CPU : curenv[c] # None => curenv[c] \in Env
BY AddrSpaceAssumption, MemParts DEF Inv, TypeOK, Good

\* Who may change an address space has it to itself.
LEMMA OwnHasDir ==
  ASSUME Inv, NEW c \in CPU, curenv[c] # None, NEW e \in Env, Own(c, e)
  PROVE  pgdir[e] # None /\ \A d \in CPU \ {c} : curenv[d] # e
<1>1. CASE e = curenv[c]
  BY <1>1 DEF Inv, Slots
<1>2. CASE status[e] = "new"
  <2>1. \A d \in CPU : curenv[d] # e
    BY <1>2, Types DEF Inv, Slots
  <2> QED
    BY <1>2, <2>1 DEF Inv, Slots
<1> QED
  BY <1>1, <1>2 DEF Own

LEMMA FreeIsUnmapped ==
  ASSUME NEW m, NEW g, Good(m, g, {}), NEW p \in m.free
  PROVE  \A f \in Env, va \in VA : At(m, g, f, va).p => At(m, g, f, va).page # p
BY MappedPage

LEMMA PageAllocEffect ==
  ASSUME Inv, NEW c \in CPU, NEW e \in Env, Own(c, e), NEW va \in VA,
         NEW w \in BOOLEAN, SysPageAlloc(c, e, va, w)
  PROVE  /\ Good(mem', pgdir, {})
         /\ \/ SameSpaces(mem, mem', pgdir)
            \/ \E p \in mem.free : p \in Page
                                   /\ SpacesBut(mem, mem', pgdir, e, va, Pte(p, w))
         /\ Return(c, mem')
<1>1. pgdir[e] # None
  BY OwnHasDir DEF SysPageAlloc, Trap
<1>2. PICK p \in mem.free : LET m == PageAlloc(mem, p)
        IN  IF NewTables(m, pgdir[e], va) = {} THEN Return(c, PageFree(m, p))
            ELSE \E t \in NewTables(m, pgdir[e], va) :
                   Return(c, PageInsert(m, pgdir[e], p, va, w, t))
  BY DEF SysPageAlloc
<1>3. PICK m : m = PageAlloc(mem, p)
  OBVIOUS
<1>4. CASE NewTables(m, pgdir[e], va) = {}
  <2>1. mem' = PageFree(m, p) /\ Return(c, mem')
    BY <1>2, <1>3, <1>4 DEF Return
  <2>2. {} \cup {p} = {p}
    OBVIOUS
  <2>3. Good(m, pgdir, {p}) /\ SameSpaces(mem, m, pgdir)
    BY <1>3, <2>2, Types, AllocGood
  <2>4. Good(mem', pgdir, {}) /\ SameSpaces(m, mem', pgdir)
    BY <2>1, <2>3, FreeGood
  <2> QED
    BY <2>1, <2>3, <2>4 DEF SameSpaces
<1>5. CASE NewTables(m, pgdir[e], va) # {}
  <2>1. PICK t \in NewTables(m, pgdir[e], va) :
          Return(c, PageInsert(m, pgdir[e], p, va, w, t))
    BY <1>2, <1>3, <1>5
  <2>2. mem' = PageInsert(m, pgdir[e], p, va, w, t) /\ Return(c, mem')
    BY <2>1 DEF Return
  <2>3. /\ Good(mem', pgdir, {}) /\ p \in Page
        /\ SpacesBut(mem, mem', pgdir, e, va, Pte(p, w))
    BY <1>1, <1>3, <2>2, Types, FreshGood
  <2> QED
    BY <2>2, <2>3
<1> QED
  BY <1>4, <1>5

LEMMA PageUnmapEffect ==
  ASSUME Inv, NEW c \in CPU, NEW e \in Env, Own(c, e), NEW va \in VA,
         SysPageUnmap(c, e, va)
  PROVE  /\ Good(mem', pgdir, {}) /\ SpacesBut(mem, mem', pgdir, e, va, Zero)
         /\ Return(c, mem')
<1>1. pgdir[e] # None
  BY OwnHasDir DEF SysPageUnmap, Trap
<1>2. mem' = PageRemove(mem, pgdir[e], va) /\ Return(c, mem')
  BY DEF SysPageUnmap, Return
<1> QED
  BY <1>1, <1>2, Types, RemoveGood

LEMMA PageMapEffect ==
  ASSUME Inv, NoWrap, NEW c \in CPU, NEW src \in Env, NEW dst \in Env,
         NEW srcva \in VA, NEW va \in VA, NEW w \in BOOLEAN,
         LibPageMap(c, src, srcva, dst, va, w)
  PROVE  LET x == At(mem, pgdir, src, srcva)
         IN  /\ x.p /\ (w => x.w) /\ x.page \in Page /\ Own(c, dst)
             /\ Good(mem', pgdir, {})
             /\ SpacesBut(mem, mem', pgdir, dst, va, Pte(x.page, w))
             /\ Return(c, mem')
<1> DEFINE x == At(mem, pgdir, src, srcva)
<1>1. /\ pgdir[dst] # None /\ pgdir[src] # None
      /\ Own(c, dst) /\ Mapped(src, srcva) /\ SysPageMap(c, src, srcva, dst, va, w)
  BY OwnHasDir DEF LibPageMap
<1>2. Walk(mem, pgdir[src], srcva) = x /\ x.p
  BY <1>1, WalkIsAt DEF Mapped
<1>3. PICK t \in NewTables(mem, pgdir[dst], va) :
        (w => x.w) /\ Return(c, PageInsert(mem, pgdir[dst], x.page, va, w, t))
  BY <1>1, <1>2 DEF SysPageMap
<1>4. mem' = PageInsert(mem, pgdir[dst], x.page, va, w, t) /\ Return(c, mem')
  BY <1>3 DEF Return
<1>5. mem.pp_ref[x.page] + 1 < REFMOD
  BY <1>2, Types, MappedPage DEF NoWrap
<1>6. /\ Good(mem', pgdir, {}) /\ x.page \in Page
      /\ SpacesBut(mem, mem', pgdir, dst, va, Pte(x.page, w))
  BY <1>1, <1>2, <1>4, <1>5, Types, CopyGood
<1> QED
  BY <1>1, <1>2, <1>3, <1>4, <1>6

LEMMA ExecEffect ==
  ASSUME Inv, NoWrap, NEW c \in CPU, NEW va \in VA \ {DTemp}, NEW w \in BOOLEAN,
         LibExec(c, va, w)
  PROVE  LET e == curenv[c]
             x == At(mem, pgdir, e, DTemp)
         IN  /\ e \in Env /\ x.p /\ x.page \in Page /\ Good(mem', pgdir, {})
             /\ MovedTo(mem, mem', pgdir, e, va, Pte(x.page, w))
             /\ Return(c, mem')
<1>1. PICK e \in Env : e = curenv[c]
  BY Types DEF LibExec
<1>2. PICK x : x = At(mem, pgdir, e, DTemp)
  OBVIOUS
<1>3. DTemp \in VA /\ va \in VA /\ va # DTemp
  BY AddrSpaceAssumption
<1>4. pgdir[e] # None /\ x.p /\ Walk(mem, pgdir[e], DTemp) = x
  BY <1>1, <1>2, WalkIsAt DEF LibExec, Mapped
<1>5. PICK t \in NewTables(mem, pgdir[e], va) :
        Return(c, PageRemove(PageInsert(mem, pgdir[e], x.page, va, w, t),
                             pgdir[e], DTemp))
  BY <1>1, <1>4 DEF LibExec, SysExec
<1>6. /\ mem' = PageRemove(PageInsert(mem, pgdir[e], x.page, va, w, t), pgdir[e], DTemp)
      /\ Return(c, mem')
  BY <1>5 DEF Return
<1>7. mem.pp_ref[x.page] + 1 < REFMOD
  BY <1>2, <1>3, <1>4, Types, MappedPage DEF NoWrap
<1>8. /\ Good(mem', pgdir, {}) /\ x.page \in Page
      /\ MovedTo(mem, mem', pgdir, e, va, Pte(x.page, w))
  BY <1>2, <1>3, <1>4, <1>6, <1>7, Types, ExecGood
<1> QED
  BY <1>1, <1>2, <1>4, <1>6, <1>8

LEMMA IpcEffect ==
  ASSUME Inv, NoWrap, NEW c \in CPU, NEW e \in Env, NEW va \in VA \cup {None},
         NEW w \in BOOLEAN, SysIpcTrySend(c, e, va, w)
  PROVE  LET x == At(mem, pgdir, curenv[c], va)
         IN  /\ Good(mem', pgdir, {})
             /\ \/ mem' = mem
                \/ /\ va \in VA /\ dstva[e] \in VA
                   /\ x.p /\ (w => x.w) /\ x.page \in Page
                   /\ SpacesBut(mem, mem', pgdir, e, dstva[e], Pte(x.page, w))
             /\ Return(c, mem')
<1>1. PICK s \in Env : s = curenv[c]
  BY Types DEF SysIpcTrySend, Trap
<1>2. PICK x : x = At(mem, pgdir, s, va)
  OBVIOUS
<1>3. pgdir[s] # None /\ pgdir[e] # None
  BY <1>1, Types DEF Inv, Slots, SysIpcTrySend, Trap
<1>4. CASE Return(c, mem)
  <2>1. mem' = mem
    BY <1>4 DEF Return
  <2> QED
    BY <1>4, <2>1, Types
<1>5. CASE ~Return(c, mem)
  <2>1. va # None /\ va \in VA /\ Walk(mem, pgdir[s], va) = x
    BY <1>2, <1>3, <1>5, WalkIsAt DEF SysIpcTrySend
  <2>2. dstva[e] # None
    BY <1>1, <1>5, <2>1 DEF SysIpcTrySend
  <2>3. PICK va2 \in VA : va2 = dstva[e]
    BY <2>2, Types
  <2>4. /\ x.p /\ (w => x.w)
        /\ \E t \in NewTables(mem, pgdir[e], va2) :
             Return(c, PageInsert(mem, pgdir[e], x.page, va2, w, t))
    BY <1>1, <2>1, <2>2, <2>3 DEF SysIpcTrySend
  <2>5. PICK t \in NewTables(mem, pgdir[e], va2) :
          Return(c, PageInsert(mem, pgdir[e], x.page, va2, w, t))
    BY <2>4
  <2>6. mem' = PageInsert(mem, pgdir[e], x.page, va2, w, t) /\ Return(c, mem')
    BY <2>5 DEF Return
  <2>7. mem.pp_ref[x.page] + 1 < REFMOD
    BY <1>2, <2>1, <2>4, Types, MappedPage DEF NoWrap
  <2>8. /\ Good(mem', pgdir, {}) /\ x.page \in Page
        /\ SpacesBut(mem, mem', pgdir, e, va2, Pte(x.page, w))
    BY <1>2, <1>3, <2>1, <2>4, <2>6, <2>7, Types, CopyGood
  <2> QED
    BY <1>1, <1>2, <2>1, <2>3, <2>4, <2>6, <2>8
<1> QED
  BY <1>4, <1>5

LEMMA ExoforkEffect ==
  ASSUME Inv, NEW c \in CPU, NEW e \in Env, SysExofork(c, e)
  PROVE  /\ Good(mem', pgdir', {}) /\ pgdir'[e] # None
         /\ \A f \in Env, va \in VA : At(mem', pgdir', f, va) = At(mem, pgdir, f, va)
         /\ Return(c, mem')
         /\ \E d \in mem.free : pgdir' = WithDir(pgdir, e, d)
<1>1. pgdir[e] = None
  BY DEF SysExofork, Inv, Slots
<1>2. PICK d \in mem.free :
        Return(c, EnvSetupVm(mem, d)) /\ pgdir' = WithDir(pgdir, e, d)
  BY DEF SysExofork, WithDir
<1>3. mem' = EnvSetupVm(mem, d) /\ Return(c, mem')
  BY <1>2 DEF Return
<1> QED
  BY <1>1, <1>2, <1>3, Types, SetupGood

LEMMA CreateEffect ==
  ASSUME Inv, NEW e \in Env, EnvCreate(e)
  PROVE  /\ Good(mem', pgdir', {}) /\ pgdir'[e] # None
         /\ \E p \in mem.free : SpaceBut(mem, pgdir, mem', pgdir', e, Stack, Pte(p, TRUE))
         /\ \E d \in mem.free : pgdir' = WithDir(pgdir, e, d)
<1>1. pgdir[e] = None
  BY DEF EnvCreate, Inv, Slots
<1>2. PICK d \in mem.free : LET m0 == EnvSetupVm(mem, d)
        IN  \E p \in m0.free : LET m1 == PageAlloc(m0, p)
        IN  \E t \in NewTables(m1, d, Stack) :
              /\ mem' = PageInsert(m1, d, p, Stack, TRUE, t)
              /\ pgdir' = [pgdir EXCEPT ![e] = d]
  BY DEF EnvCreate
<1>3. PICK p \in EnvSetupVm(mem, d).free :
        \E t \in NewTables(PageAlloc(EnvSetupVm(mem, d), p), d, Stack) :
          /\ mem' = PageInsert(PageAlloc(EnvSetupVm(mem, d), p), d, p, Stack, TRUE, t)
          /\ pgdir' = WithDir(pgdir, e, d)
  BY <1>2 DEF WithDir
<1>4. PICK t \in NewTables(PageAlloc(EnvSetupVm(mem, d), p), d, Stack) :
        /\ mem' = PageInsert(PageAlloc(EnvSetupVm(mem, d), p), d, p, Stack, TRUE, t)
        /\ pgdir' = WithDir(pgdir, e, d)
  BY <1>3
<1>5. PICK h : h = WithDir(pgdir, e, d)
  OBVIOUS
<1>6. PICK n : n = PageInsert(PageAlloc(EnvSetupVm(mem, d), p), d, p, Stack, TRUE, t)
  OBVIOUS
<1>7. Good(mem, pgdir, {}) /\ pgdir[e] = None
  BY <1>1, Types
<1>8. /\ Good(n, h, {}) /\ p \in mem.free /\ h[e] # None
      /\ SpaceBut(mem, pgdir, n, h, e, Stack, Pte(p, TRUE))
  BY <1>5, <1>6, <1>7, CreateGood
<1>9. mem' = n /\ pgdir' = h
  BY <1>4, <1>5, <1>6
<1> QED
  BY <1>4, <1>8, <1>9

LEMMA FreeEffect ==
  ASSUME Inv, NEW e \in Env, pgdir[e] # None, Free(e),
         mem' = EnvFree(mem, pgdir[e])
  PROVE  /\ Good(mem', pgdir', {}) /\ pgdir' = WithDir(pgdir, e, None)
         /\ \A f \in Env, va \in VA : At(mem', pgdir', f, va) =
              IF f = e THEN Zero ELSE At(mem, pgdir, f, va)
<1>1. pgdir' = WithDir(pgdir, e, None)
  BY DEF Free, WithDir
<1> QED
  BY <1>1, Types, EnvFreeGood

-----------------------------------------------------------------------------
(* What the MMU sees, and what the TLBs may hold.                          *)

\* What an entry means to the MMU.
Seen(x) == IF x.p THEN [page |-> x.page, w |-> x.w] ELSE None

LEMMA SpaceIsAt ==
  ASSUME NEW m, NEW g, NEW e \in Env, NEW va \in VA
  PROVE  Space(m, g[e])[va] = Seen(At(m, g, e, va))
<1>1. CASE g[e] = None
  <2>1. At(m, g, e, va) = Zero
    BY <1>1 DEF At, HasPt
  <2> QED
    BY <1>1, <2>1, EntryTypes DEF Space, Seen
<1>2. CASE g[e] # None
  <2>1. Walk(m, g[e], va) = At(m, g, e, va)
    BY <1>2, WalkIsAt
  <2> QED
    BY <1>2, <2>1 DEF Space, Seen
<1> QED
  BY <1>1, <1>2

LEMMA AtDir ==
  ASSUME NEW m, NEW g, NEW h, NEW e \in Env, NEW va \in VA, g[e] = h[e]
  PROVE  At(m, g, e, va) = At(m, h, e, va)
BY DEF At, HasPt, PtOf

\* Nothing changes for the environments that run on the other processors.
OthersKeep(c) ==
  \A d \in CPU \ {c} : curenv[d] # None =>
    /\ pgdir'[curenv[d]] = pgdir[curenv[d]]
    /\ \A va \in VA : At(mem', pgdir', curenv[d], va) = At(mem, pgdir, curenv[d], va)

LEMMA FlushClean ==
  ASSUME Inv, NEW c \in CPU, OthersKeep(c)
  PROVE  Flushed(c, mem') = [d \in CPU |-> {}]
<1>1. ASSUME NEW d \in CPU, d # c, curenv[d] # None
      PROVE  {va \in VA : /\ Space(mem, pgdir[curenv[d]])[va] # None
                          /\ Space(mem', pgdir[curenv[d]])[va]
                               # Space(mem, pgdir[curenv[d]])[va]} = {}
  <2>1. PICK e \in Env : e = curenv[d]
    BY <1>1, Types
  <2>2. ASSUME NEW va \in VA
        PROVE  Space(mem', pgdir[e])[va] = Space(mem, pgdir[e])[va]
    <3>1. /\ pgdir'[e] = pgdir[e]
          /\ At(mem', pgdir', e, va) = At(mem, pgdir, e, va)
      BY <1>1, <2>1 DEF OthersKeep
    <3>2. Space(mem', pgdir'[e])[va] = Seen(At(mem', pgdir', e, va))
      BY SpaceIsAt
    <3>3. Space(mem, pgdir[e])[va] = Seen(At(mem, pgdir, e, va))
      BY SpaceIsAt
    <3> QED
      BY <3>1, <3>2, <3>3
  <2> QED
    BY <2>1, <2>2
<1>2. \A d \in CPU : stale[d] = {}
  BY DEF Inv, NoStaleTlb
<1> QED
  BY <1>1, <1>2 DEF Flushed

-----------------------------------------------------------------------------
(* The invariant after a step of the processor c.                          *)

LEMMA InvAfter ==
  ASSUME Inv, NEW c \in CPU, Good(mem', pgdir', {}), OthersKeep(c),
         stale' = Flushed(c, mem'), Slots', status' \in [Env -> Status],
         parent' \in [Env -> Env \cup {None}], dstva' \in [Env -> VA \cup {None}],
         curenv' \in [CPU -> Env \cup {None}], booted' \in BOOLEAN
  PROVE  Inv'
<1>1. stale' = [d \in CPU |-> {}]
  BY FlushClean
<1>2. mem' \in Mem /\ pgdir' \in [Env -> Page \cup {None}]
  BY DEF Good, Shape, DirsApart
<1> QED
  BY <1>1, <1>2 DEF Inv, TypeOK, NoStaleTlb

\* Back to the current environment: only the status of e changes.
LEMMA SlotsReturn ==
  ASSUME Inv, curenv' = curenv, NEW e \in Env, NEW s \in Status,
         status' = [status EXCEPT ![e] = s],
         \A f \in Env : pgdir'[f] = None <=> status'[f] = "free",
         \A d \in CPU : curenv[d] = e => s \in {"ready", "dying"}
  PROVE  Slots' /\ status' \in [Env -> Status] /\ curenv' \in [CPU -> Env \cup {None}]
<1>1. status' \in [Env -> Status]
  BY Types
<1>2. ASSUME NEW d \in CPU, curenv[d] # None
      PROVE  status'[curenv[d]] \in {"ready", "dying"}
  BY <1>2, Types DEF Inv, Slots
<1> QED
  BY <1>1, <1>2, Types DEF Slots, Inv

\* Another environment, or none.
LEMMA SlotsYield ==
  ASSUME Inv, NEW c \in CPU, NEW m, SchedYield(c, m, status'),
         status' \in [Env -> Status],
         \A f \in Env : pgdir'[f] = None <=> status'[f] = "free",
         \A f \in Env : f # curenv[c] => status'[f] = status[f]
  PROVE  Slots' /\ curenv' \in [CPU -> Env \cup {None}]
<1> DEFINE able == {e \in Env : status'[e] = "ready" /\ \A d \in CPU \ {c} : curenv[d] # e}
<1>1. PICK next \in IF able = {} THEN {None} ELSE able :
        curenv' = [curenv EXCEPT ![c] = next]
  BY DEF SchedYield
<1>2. \/ next = None
      \/ next \in Env /\ status'[next] = "ready" /\ \A d \in CPU \ {c} : curenv[d] # next
  BY <1>1
<1>3. curenv' \in [CPU -> Env \cup {None}]
  BY <1>1, <1>2, Types
<1>4. ASSUME NEW d \in CPU, curenv'[d] # None
      PROVE  status'[curenv'[d]] \in {"ready", "dying"}
  <2>1. CASE d = c
    BY <1>1, <1>2, <1>4, <2>1, Types
  <2>2. CASE d # c
    <3>1. curenv'[d] = curenv[d] /\ curenv[d] # None
      BY <1>1, <1>4, <2>2, Types
    <3>2. curenv[d] # curenv[c] /\ curenv[d] \in Env
      BY <2>2, <3>1, Types DEF Inv, Slots
    <3> QED
      BY <3>1, <3>2 DEF Inv, Slots
  <2> QED
    BY <2>1, <2>2
<1>5. ASSUME NEW d \in CPU, NEW b \in CPU, curenv'[d] # None, curenv'[d] = curenv'[b]
      PROVE  d = b
  <2>1. /\ curenv'[d] = IF d = c THEN next ELSE curenv[d]
        /\ curenv'[b] = IF b = c THEN next ELSE curenv[b]
    BY <1>1, Types
  <2>2. CASE d = c /\ b # c
    BY <1>2, <1>5, <2>1, <2>2
  <2>3. CASE d # c /\ b = c
    BY <1>2, <1>5, <2>1, <2>3
  <2>4. CASE d # c /\ b # c
    <3>1. curenv[d] # None /\ curenv[d] = curenv[b]
      BY <1>5, <2>1, <2>4
    <3> QED
      BY <3>1 DEF Inv, Slots
  <2> QED
    BY <2>2, <2>3, <2>4
<1> QED
  BY <1>3, <1>4, <1>5 DEF Slots

-----------------------------------------------------------------------------
(* What a step makes of the address spaces.                                *)

Same == \A f \in Env, wa \in VA : At(mem', pgdir', f, wa) = At(mem, pgdir, f, wa)

\* e has x at va, and nothing else changes.
Put(e, va, x) ==
  \A f \in Env, wa \in VA : At(mem', pgdir', f, wa) =
    IF f = e /\ wa = va THEN x ELSE At(mem, pgdir, f, wa)

Takes(e, va) == \E p \in mem.free, w \in BOOLEAN : p \in Page /\ Put(e, va, Pte(p, w))

\* x may be given on with the permission w.
Grants(x, w) == x.p /\ (w => x.w) /\ x.page \in Page

Copies(e, va) ==
  \E src \in Env, srcva \in VA, w \in BOOLEAN :
    LET x == At(mem, pgdir, src, srcva)
    IN  Grants(x, w) /\ Put(e, va, Pte(x.page, w))

Execs(e) ==
  \E va \in VA, w \in BOOLEAN :
    LET x == At(mem, pgdir, e, DTemp)
    IN  /\ va # DTemp /\ x.p /\ x.page \in Page
        /\ \A f \in Env, wa \in VA : At(mem', pgdir', f, wa) =
             IF f = e /\ wa = DTemp THEN Zero
             ELSE IF f = e /\ wa = va THEN Pte(x.page, w)
             ELSE At(mem, pgdir, f, wa)

Clears(e) ==
  \A f \in Env, wa \in VA : At(mem', pgdir', f, wa) =
    IF f = e THEN Zero ELSE At(mem, pgdir, f, wa)

\* Why the address space of e may change.
Runs(e) == \E c \in CPU : curenv[c] = e
Entitled(e, va) ==
  \/ Runs(e) \/ status[e] \in {"new", "free"}
  \/ status[e] = "recv" /\ status'[e] = "ready" /\ va = dstva[e]

Kinds ==
  \/ Same
  \/ \E e \in Env, va \in VA :
       Entitled(e, va) /\ (Takes(e, va) \/ Copies(e, va) \/ Put(e, va, Zero))
  \/ \E e \in Env : Runs(e) /\ Execs(e)
  \/ \E e \in Env : status'[e] = "free" /\ Clears(e)

LEMMA OwnEntitled ==
  ASSUME NEW c \in CPU, NEW e \in Env, Own(c, e), NEW va
  PROVE  Entitled(e, va)
BY DEF Own, Entitled, Runs

\* Memory and the directories stay: every other address space does.
LEMMA SameKeeps ==
  ASSUME Inv, NEW c \in CPU, pgdir' = pgdir, mem' = mem
  PROVE  Same /\ OthersKeep(c) /\ Good(mem', pgdir', {})
BY Types DEF Same, OthersKeep

\* Only e changes, which runs on no processor but c.
LEMMA PutKeeps ==
  ASSUME Inv, NEW c \in CPU, NEW e \in Env, NEW va, NEW x, Put(e, va, x),
         \A d \in CPU \ {c} : curenv[d] # e,
         \A f \in Env : f # e => pgdir'[f] = pgdir[f]
  PROVE  OthersKeep(c)
BY Types DEF Put, OthersKeep

LEMMA DirChange ==
  ASSUME Inv, NEW e \in Env, NEW x, pgdir' = WithDir(pgdir, e, x)
  PROVE  pgdir'[e] = x /\ \A f \in Env : f # e => pgdir'[f] = pgdir[f]
BY Types DEF WithDir

\* A system call that only changes memory, and returns.
LEMMA ReturnInv ==
  ASSUME Inv, NEW c \in CPU, Good(mem', pgdir', {}), OthersKeep(c), Return(c, mem'),
         UNCHANGED <<pgdir, status, parent, booted>>,
         dstva' \in [Env -> VA \cup {None}]
  PROVE  Inv'
<1>1. Slots'
  BY DEF Inv, Slots, Return
<1>2. /\ status' \in [Env -> Status] /\ parent' \in [Env -> Env \cup {None}]
      /\ curenv' \in [CPU -> Env \cup {None}] /\ booted' \in BOOLEAN
      /\ stale' = Flushed(c, mem')
  BY DEF Inv, TypeOK, Return
<1> QED
  BY <1>1, <1>2, InvAfter

\* page_alloc, page_map and page_unmap.
LEMMA PageCallInv ==
  ASSUME Inv, NEW c \in CPU, NEW e \in Env, NEW va \in VA, NEW x, Put(e, va, x),
         curenv[c] # None, Own(c, e), Good(mem', pgdir, {}), Return(c, mem'),
         UNCHANGED envVars
  PROVE  Inv'
<1>1. /\ UNCHANGED <<pgdir, status, parent, booted>> /\ dstva' = dstva
      /\ \A f \in Env : f # e => pgdir'[f] = pgdir[f]
  BY DEF envVars
<1>2. \A d \in CPU \ {c} : curenv[d] # e
  BY OwnHasDir
<1>3. OthersKeep(c)
  BY <1>1, <1>2, PutKeeps
<1>4. Good(mem', pgdir', {}) /\ dstva' \in [Env -> VA \cup {None}]
  BY <1>1, Types
<1> QED
  BY <1>1, <1>3, <1>4, ReturnInv

LEMMA PageAllocStep ==
  ASSUME Inv, NEW c \in CPU, NEW e \in Env, Own(c, e), NEW va \in VA,
         NEW w \in BOOLEAN, SysPageAlloc(c, e, va, w)
  PROVE  Inv' /\ Kinds
<1>1. curenv[c] # None /\ UNCHANGED envVars /\ pgdir' = pgdir
  BY DEF SysPageAlloc, Trap, envVars
<1>2. Good(mem', pgdir, {}) /\ Return(c, mem')
  BY PageAllocEffect
<1>3. CASE SameSpaces(mem, mem', pgdir)
  <2>1. Same
    BY <1>1, <1>3 DEF Same, SameSpaces
  <2>2. OthersKeep(c) /\ Good(mem', pgdir', {})
    BY <1>1, <1>2, <2>1, Types DEF Same, OthersKeep
  <2>3. Inv'
    BY <1>1, <1>2, <2>2, Types, ReturnInv DEF envVars
  <2> QED
    BY <2>1, <2>3 DEF Kinds
<1>4. CASE \E p \in mem.free : p \in Page /\ SpacesBut(mem, mem', pgdir, e, va, Pte(p, w))
  <2>1. PICK p \in mem.free : p \in Page /\ SpacesBut(mem, mem', pgdir, e, va, Pte(p, w))
    BY <1>4
  <2>2. Put(e, va, Pte(p, w))
    BY <1>1, <2>1 DEF Put, SpacesBut
  <2>3. Inv'
    BY <1>1, <1>2, <2>2, PageCallInv
  <2>4. Takes(e, va)
    BY <2>1, <2>2 DEF Takes
  <2> QED
    BY <2>3, <2>4, OwnEntitled DEF Kinds
<1> QED
  BY <1>3, <1>4, PageAllocEffect

LEMMA PageUnmapStep ==
  ASSUME Inv, NEW c \in CPU, NEW e \in Env, Own(c, e), NEW va \in VA,
         SysPageUnmap(c, e, va)
  PROVE  Inv' /\ Kinds
<1>1. curenv[c] # None /\ UNCHANGED envVars /\ pgdir' = pgdir
  BY DEF SysPageUnmap, Trap, envVars
<1>2. /\ Good(mem', pgdir, {}) /\ Return(c, mem')
      /\ SpacesBut(mem, mem', pgdir, e, va, Zero)
  BY PageUnmapEffect
<1>3. Put(e, va, Zero)
  BY <1>1, <1>2 DEF Put, SpacesBut
<1>4. Inv'
  BY <1>1, <1>2, <1>3, PageCallInv
<1> QED
  BY <1>3, <1>4, OwnEntitled DEF Kinds

LEMMA PageMapStep ==
  ASSUME Inv, NoWrap, NEW c \in CPU, NEW src \in Env, NEW dst \in Env,
         NEW srcva \in VA, NEW va \in VA, NEW w \in BOOLEAN,
         LibPageMap(c, src, srcva, dst, va, w)
  PROVE  Inv' /\ Kinds
<1>1. curenv[c] # None /\ UNCHANGED envVars /\ pgdir' = pgdir
  BY DEF LibPageMap, SysPageMap, envVars
<1>2. PICK x : x = At(mem, pgdir, src, srcva)
  OBVIOUS
<1>3. /\ Good(mem', pgdir, {}) /\ Return(c, mem') /\ Own(c, dst) /\ Grants(x, w)
      /\ SpacesBut(mem, mem', pgdir, dst, va, Pte(x.page, w))
  BY <1>2, PageMapEffect DEF Grants
<1>4. Put(dst, va, Pte(x.page, w))
  BY <1>1, <1>3 DEF Put, SpacesBut
<1>5. Inv'
  BY <1>1, <1>3, <1>4, PageCallInv
<1>6. Copies(dst, va)
  BY <1>2, <1>3, <1>4 DEF Copies
<1> QED
  BY <1>3, <1>5, <1>6, OwnEntitled DEF Kinds

LEMMA ExecStep ==
  ASSUME Inv, NoWrap, NEW c \in CPU, NEW va \in VA \ {DTemp}, NEW w \in BOOLEAN,
         LibExec(c, va, w)
  PROVE  Inv' /\ Kinds
<1>1. /\ curenv[c] # None /\ UNCHANGED envVars /\ pgdir' = pgdir
      /\ UNCHANGED <<pgdir, status, parent, booted>> /\ dstva' = dstva
  BY DEF LibExec, SysExec, envVars
<1>2. PICK e \in Env : e = curenv[c]
  BY <1>1, Types
<1>3. Execs(e) /\ Good(mem', pgdir, {}) /\ Return(c, mem')
  BY <1>1, <1>2, ExecEffect DEF Execs, MovedTo
<1>4. \A f \in Env, wa \in VA :
        f # e => At(mem', pgdir', f, wa) = At(mem, pgdir, f, wa)
  BY <1>3 DEF Execs
<1>5. OthersKeep(c) /\ Good(mem', pgdir', {}) /\ dstva' \in [Env -> VA \cup {None}]
  BY <1>1, <1>2, <1>3, <1>4, Types DEF OthersKeep, Inv, Slots
<1>6. Inv'
  BY <1>1, <1>3, <1>5, ReturnInv
<1>7. Runs(e)
  BY <1>2 DEF Runs
<1> QED
  BY <1>3, <1>6, <1>7 DEF Kinds

\* SysIpcTrySend: the status and the wish of a receiver, and its memory.
LEMMA IpcSendStep ==
  ASSUME Inv, NoWrap, NEW c \in CPU, NEW e \in Env, NEW va \in VA \cup {None},
         NEW w \in BOOLEAN, SysIpcTrySend(c, e, va, w)
  PROVE  Inv' /\ Kinds
<1>1. /\ curenv[c] # None /\ status[e] = "recv" /\ UNCHANGED <<pgdir, parent, booted>>
      /\ status' = [status EXCEPT ![e] = "ready"]
      /\ dstva' = [dstva EXCEPT ![e] = None]
  BY DEF SysIpcTrySend, Trap
<1>2. PICK x : x = At(mem, pgdir, curenv[c], va)
  OBVIOUS
<1>3. /\ Good(mem', pgdir, {}) /\ Return(c, mem')
      /\ \/ mem' = mem
         \/ /\ va \in VA /\ dstva[e] \in VA /\ Grants(x, w)
            /\ SpacesBut(mem, mem', pgdir, e, dstva[e], Pte(x.page, w))
  BY <1>2, IpcEffect DEF Grants
<1>4. \A d \in CPU : curenv[d] # e
  BY <1>1, Types DEF Inv, Slots
<1>5. \A f \in Env : pgdir'[f] = None <=> status'[f] = "free"
  BY <1>1, Types DEF Inv, Slots
<1>6. /\ Slots' /\ status' \in [Env -> Status]
      /\ curenv' \in [CPU -> Env \cup {None}]
  <2>1. curenv' = curenv /\ "ready" \in Status
    BY <1>3 DEF Return, Status
  <2> QED
    BY <1>1, <1>4, <1>5, <2>1, SlotsReturn
<1>7. /\ parent' \in [Env -> Env \cup {None}] /\ dstva' \in [Env -> VA \cup {None}]
      /\ booted' \in BOOLEAN /\ stale' = Flushed(c, mem') /\ Good(mem', pgdir', {})
  BY <1>1, <1>3, Types DEF Inv, TypeOK, Return
<1>8. CASE mem' = mem
  <2>1. Same /\ OthersKeep(c)
    BY <1>1, <1>8, SameKeeps
  <2> QED
    BY <1>6, <1>7, <2>1, InvAfter DEF Kinds
<1>9. CASE mem' # mem
  <2>1. PICK va2 \in VA : va2 = dstva[e]
    BY <1>3, <1>9
  <2>2. Put(e, va2, Pte(x.page, w)) /\ va \in VA /\ Grants(x, w)
    BY <1>1, <1>3, <1>9, <2>1 DEF Put, SpacesBut
  <2>3. OthersKeep(c)
    BY <1>1, <1>4, <2>2, PutKeeps
  <2>4. Inv'
    BY <1>6, <1>7, <2>3, InvAfter
  <2>5. Copies(e, va2)
    BY <1>1, <1>2, <2>2, Types DEF Copies
  <2>6. Entitled(e, va2)
    BY <1>1, <2>1, Types DEF Entitled
  <2> QED
    BY <2>4, <2>5, <2>6 DEF Kinds
<1> QED
  BY <1>8, <1>9

\* A step that ends in sched_yield.
LEMMA YieldInv ==
  ASSUME Inv, NEW c \in CPU, Good(mem', pgdir', {}), OthersKeep(c),
         NEW m, SchedYield(c, m, status'), status' \in [Env -> Status],
         \A f \in Env : pgdir'[f] = None <=> status'[f] = "free",
         \A f \in Env : f # curenv[c] => status'[f] = status[f],
         parent' \in [Env -> Env \cup {None}], dstva' \in [Env -> VA \cup {None}],
         booted' \in BOOLEAN
  PROVE  Inv'
<1>1. Slots' /\ curenv' \in [CPU -> Env \cup {None}]
  BY SlotsYield
<1>2. stale' = Flushed(c, mem')
  BY DEF SchedYield
<1> QED
  BY <1>1, <1>2, InvAfter

\* Yield, WakeUp and SysIpcRecv.
LEMMA QuietYieldStep ==
  ASSUME Inv, NEW c \in CPU, SchedYield(c, mem, status'), pgdir' = pgdir,
         parent' = parent, booted' \in BOOLEAN, dstva' \in [Env -> VA \cup {None}],
         \/ status' = status
         \/ curenv[c] # None /\ status' = [status EXCEPT ![curenv[c]] = "recv"]
  PROVE  Inv' /\ Kinds
<1>1. mem' = mem
  BY DEF SchedYield
<1>2. Same /\ OthersKeep(c) /\ Good(mem', pgdir', {})
  BY <1>1, SameKeeps
<1>3. /\ status' \in [Env -> Status]
      /\ \A f \in Env : f # curenv[c] => status'[f] = status[f]
  BY Types DEF Status
<1>4. \A f \in Env : pgdir'[f] = None <=> status'[f] = "free"
  BY Types DEF Inv, Slots
<1>5. parent' \in [Env -> Env \cup {None}]
  BY DEF Inv, TypeOK
<1> QED
  BY <1>2, <1>3, <1>4, <1>5, YieldInv DEF Kinds

LEMMA SchedStep ==
  ASSUME Inv, NEW c \in CPU,
         \/ WakeUp(c) \/ Yield(c) \/ \E va \in VA \cup {None} : SysIpcRecv(c, va)
  PROVE  Inv' /\ Kinds
<1>1. CASE WakeUp(c)
  <2>1. /\ SchedYield(c, mem, status') /\ pgdir' = pgdir /\ parent' = parent
        /\ booted' \in BOOLEAN /\ status' = status /\ dstva' = dstva
    BY <1>1 DEF WakeUp
  <2> QED
    BY <2>1, Types, QuietYieldStep
<1>2. CASE Yield(c)
  <2>1. /\ SchedYield(c, mem, status') /\ pgdir' = pgdir /\ parent' = parent
        /\ booted' \in BOOLEAN /\ status' = status /\ dstva' = dstva
    BY <1>2 DEF Yield, envVars, Inv, TypeOK
  <2> QED
    BY <2>1, Types, QuietYieldStep
<1>3. ASSUME NEW va \in VA \cup {None}, SysIpcRecv(c, va)
      PROVE  Inv' /\ Kinds
  <2>1. /\ SchedYield(c, mem, status') /\ pgdir' = pgdir /\ parent' = parent
        /\ booted' \in BOOLEAN /\ curenv[c] # None
        /\ status' = [status EXCEPT ![curenv[c]] = "recv"]
        /\ dstva' = [dstva EXCEPT ![curenv[c]] = va]
    BY <1>3 DEF SysIpcRecv, Trap, Inv, TypeOK
  <2>2. dstva' \in [Env -> VA \cup {None}]
    BY <2>1, Types
  <2> QED
    BY <2>1, <2>2, QuietYieldStep
<1> QED
  BY <1>1, <1>2, <1>3

LEMMA ExoforkStep ==
  ASSUME Inv, NEW c \in CPU, NEW e \in Env, SysExofork(c, e)
  PROVE  Inv' /\ Kinds
<1>1. /\ curenv[c] # None /\ status[e] = "free" /\ dstva' = dstva /\ booted' = booted
      /\ status' = [status EXCEPT ![e] = "new"]
      /\ parent' = [parent EXCEPT ![e] = curenv[c]]
  BY DEF SysExofork, Trap
<1>2. PICK dir \in mem.free : pgdir' = WithDir(pgdir, e, dir)
  BY ExoforkEffect
<1>3. Good(mem', pgdir', {}) /\ Same /\ Return(c, mem') /\ pgdir'[e] # None
  BY ExoforkEffect DEF Same
<1>4. \A f \in Env : f # e => pgdir'[f] = pgdir[f]
  BY <1>2, DirChange
<1>5. \A d \in CPU : curenv[d] # e
  BY <1>1, Types DEF Inv, Slots
<1>6. OthersKeep(c)
  BY <1>3, <1>4, <1>5, Types DEF OthersKeep, Same
<1>7. \A f \in Env : pgdir'[f] = None <=> status'[f] = "free"
  BY <1>1, <1>3, <1>4, Types DEF Inv, Slots
<1>8. /\ Slots' /\ status' \in [Env -> Status]
      /\ curenv' \in [CPU -> Env \cup {None}]
  <2>1. curenv' = curenv /\ "new" \in Status
    BY <1>3 DEF Return, Status
  <2> QED
    BY <1>1, <1>5, <1>7, <2>1, SlotsReturn
<1>9. /\ parent' \in [Env -> Env \cup {None}] /\ dstva' \in [Env -> VA \cup {None}]
      /\ booted' \in BOOLEAN /\ stale' = Flushed(c, mem')
  BY <1>1, <1>3, Types DEF Inv, TypeOK, Return
<1> QED
  BY <1>3, <1>6, <1>8, <1>9, InvAfter DEF Kinds

LEMMA EnvStartStep ==
  ASSUME Inv, NEW c \in CPU, NEW e \in Env, SysEnvStart(c, e)
  PROVE  Inv' /\ Kinds
<1>1. /\ status[e] = "new" /\ UNCHANGED <<pgdir, parent, dstva, booted>>
      /\ status' = [status EXCEPT ![e] = "ready"] /\ Return(c, mem)
  BY DEF SysEnvStart
<1>2. mem' = mem /\ curenv' = curenv /\ stale' = Flushed(c, mem')
  BY <1>1 DEF Return
<1>3. Same /\ OthersKeep(c) /\ Good(mem', pgdir', {})
  BY <1>1, <1>2, SameKeeps
<1>4. \A f \in Env : pgdir'[f] = None <=> status'[f] = "free"
  BY <1>1, Types DEF Inv, Slots
<1>5. Slots' /\ status' \in [Env -> Status] /\ curenv' \in [CPU -> Env \cup {None}]
  <2>1. "ready" \in Status
    BY DEF Status
  <2> QED
    BY <1>1, <1>2, <1>4, <2>1, SlotsReturn
<1>6. /\ parent' \in [Env -> Env \cup {None}] /\ dstva' \in [Env -> VA \cup {None}]
      /\ booted' \in BOOLEAN
  BY <1>1 DEF Inv, TypeOK
<1> QED
  BY <1>2, <1>3, <1>5, <1>6, InvAfter DEF Kinds

LEMMA CreateStep ==
  ASSUME Inv, NEW e \in Env, EnvCreate(e)
  PROVE  Inv' /\ Kinds
<1>1. /\ status[e] = "free" /\ status' = [status EXCEPT ![e] = "ready"]
      /\ UNCHANGED <<parent, dstva, curenv, stale, booted>>
  BY DEF EnvCreate
<1>2. PICK d \in mem.free : pgdir' = WithDir(pgdir, e, d)
  BY CreateEffect
<1>3. PICK p \in mem.free : SpaceBut(mem, pgdir, mem', pgdir', e, Stack, Pte(p, TRUE))
  BY CreateEffect
<1>4. Good(mem', pgdir', {}) /\ pgdir'[e] # None
  BY CreateEffect
<1>5. \A f \in Env : f # e => pgdir'[f] = pgdir[f]
  BY <1>2, DirChange
<1>6. \A f \in Env : pgdir'[f] = None <=> status'[f] = "free"
  BY <1>1, <1>4, <1>5, Types DEF Inv, Slots
<1>7. Slots' /\ status' \in [Env -> Status] /\ curenv' \in [CPU -> Env \cup {None}]
  <2>1. "ready" \in Status
    BY DEF Status
  <2> QED
    BY <1>1, <1>6, <2>1, SlotsReturn
<1>8. mem' \in Mem /\ pgdir' \in [Env -> Page \cup {None}]
  BY <1>4 DEF Good, Shape, DirsApart
<1>9. Inv'
  BY <1>1, <1>4, <1>7, <1>8 DEF Inv, TypeOK, NoStaleTlb
<1>10. Takes(e, Stack)
  BY <1>3, Types DEF Takes, Put, SpaceBut
<1>11. Entitled(e, Stack) /\ Stack \in VA
  BY <1>1, AddrSpaceAssumption DEF Entitled
<1> QED
  BY <1>9, <1>10, <1>11 DEF Kinds

\* env_free(e), when nobody else runs e.
LEMMA FreeKeeps ==
  ASSUME Inv, NEW c \in CPU, NEW e \in Env, pgdir[e] # None, Free(e),
         mem' = EnvFree(mem, pgdir[e]), \A d \in CPU \ {c} : curenv[d] # e
  PROVE  /\ Good(mem', pgdir', {}) /\ OthersKeep(c) /\ Clears(e) /\ Kinds
         /\ status' \in [Env -> Status]
         /\ \A f \in Env : pgdir'[f] = None <=> status'[f] = "free"
         /\ parent' \in [Env -> Env \cup {None}] /\ dstva' \in [Env -> VA \cup {None}]
         /\ booted' \in BOOLEAN
<1>1. /\ status' = [status EXCEPT ![e] = "free"] /\ dstva' = [dstva EXCEPT ![e] = None]
      /\ parent' = [f \in Env |-> IF f = e \/ parent[f] = e THEN None ELSE parent[f]]
      /\ booted' = booted
  BY DEF Free
<1>2. Good(mem', pgdir', {}) /\ pgdir' = WithDir(pgdir, e, None) /\ Clears(e)
  BY FreeEffect DEF Clears
<1>3. pgdir'[e] = None /\ \A f \in Env : f # e => pgdir'[f] = pgdir[f]
  BY <1>2, DirChange
<1>4. OthersKeep(c)
  BY <1>2, <1>3, Types DEF OthersKeep, Clears
<1>5. status' \in [Env -> Status] /\ status'[e] = "free"
  BY <1>1, Types DEF Status
<1>6. \A f \in Env : pgdir'[f] = None <=> status'[f] = "free"
  BY <1>1, <1>3, Types DEF Inv, Slots
<1>7. /\ parent' \in [Env -> Env \cup {None}] /\ dstva' \in [Env -> VA \cup {None}]
      /\ booted' \in BOOLEAN
  BY <1>1 DEF Inv, TypeOK
<1>8. Kinds
  BY <1>2, <1>5 DEF Kinds
<1> QED
  BY <1>2, <1>4, <1>5, <1>6, <1>7, <1>8

\* The current environment of c is freed, and another one runs.
LEMMA FreeCurrentStep ==
  ASSUME Inv, NEW c \in CPU, curenv[c] # None, Free(curenv[c]),
         SchedYield(c, EnvFree(mem, pgdir[curenv[c]]), status')
  PROVE  Inv' /\ Kinds
<1>1. PICK e \in Env : e = curenv[c]
  BY Types
<1>2. pgdir[e] # None /\ \A d \in CPU \ {c} : curenv[d] # e
  BY <1>1 DEF Inv, Slots
<1>3. Free(e) /\ mem' = EnvFree(mem, pgdir[e])
  BY <1>1 DEF SchedYield
<1>4. /\ Good(mem', pgdir', {}) /\ OthersKeep(c) /\ Kinds
      /\ status' \in [Env -> Status]
      /\ \A f \in Env : pgdir'[f] = None <=> status'[f] = "free"
      /\ parent' \in [Env -> Env \cup {None}] /\ dstva' \in [Env -> VA \cup {None}]
      /\ booted' \in BOOLEAN
  BY <1>2, <1>3, FreeKeeps
<1>5. \A f \in Env : f # curenv[c] => status'[f] = status[f]
  BY <1>1, <1>3, Types DEF Free
<1> QED
  BY <1>4, <1>5, YieldInv

LEMMA DestroyStep ==
  ASSUME Inv, NEW c \in CPU, NEW e \in Env, Destroy(c, e)
  PROVE  Inv' /\ Kinds
<1>0. /\ curenv[c] # None /\ status[curenv[c]] # "dying" /\ MayManage(c, e)
      /\ status[e] # "free"
  BY DEF Destroy, Trap, MayManage, Inv, Slots
<1>1. CASE e = curenv[c]
  BY <1>0, <1>1, FreeCurrentStep DEF Destroy
<1>2. CASE e # curenv[c] /\ \E d \in CPU : curenv[d] = e
  <2>1. /\ status' = [status EXCEPT ![e] = "dying"] /\ Return(c, mem)
        /\ UNCHANGED <<pgdir, parent, dstva, booted>>
    BY <1>2 DEF Destroy
  <2>2. mem' = mem /\ curenv' = curenv /\ stale' = Flushed(c, mem')
    BY <2>1 DEF Return
  <2>3. Same /\ OthersKeep(c) /\ Good(mem', pgdir', {})
    BY <2>1, <2>2, SameKeeps
  <2>4. \A f \in Env : pgdir'[f] = None <=> status'[f] = "free"
    BY <1>0, <2>1, Types DEF Inv, Slots
  <2>5. Slots' /\ status' \in [Env -> Status] /\ curenv' \in [CPU -> Env \cup {None}]
    <3>1. "dying" \in Status
      BY DEF Status
    <3> QED
      BY <2>1, <2>2, <2>4, <3>1, SlotsReturn
  <2>6. /\ parent' \in [Env -> Env \cup {None}] /\ dstva' \in [Env -> VA \cup {None}]
        /\ booted' \in BOOLEAN
    BY <2>1 DEF Inv, TypeOK
  <2> QED
    BY <2>2, <2>3, <2>5, <2>6, InvAfter DEF Kinds
<1>3. CASE e # curenv[c] /\ \A d \in CPU : curenv[d] # e
  <2>1. Free(e) /\ Return(c, EnvFree(mem, pgdir[e])) /\ pgdir[e] # None
    BY <1>0, <1>3 DEF Destroy, Inv, Slots
  <2>2. /\ mem' = EnvFree(mem, pgdir[e]) /\ curenv' = curenv
        /\ stale' = Flushed(c, mem')
    BY <2>1 DEF Return
  <2>3. /\ Good(mem', pgdir', {}) /\ OthersKeep(c) /\ Kinds
        /\ status' \in [Env -> Status]
        /\ \A f \in Env : pgdir'[f] = None <=> status'[f] = "free"
        /\ parent' \in [Env -> Env \cup {None}] /\ dstva' \in [Env -> VA \cup {None}]
        /\ booted' \in BOOLEAN
    BY <1>3, <2>1, <2>2, FreeKeeps
  <2>4. Slots' /\ curenv' \in [CPU -> Env \cup {None}]
    <3>1. status' = [status EXCEPT ![e] = "free"] /\ "free" \in Status
      BY <2>1 DEF Free, Status
    <3> QED
      BY <1>3, <2>2, <2>3, <3>1, SlotsReturn
  <2> QED
    BY <2>2, <2>3, <2>4, InvAfter
<1> QED
  BY <1>1, <1>2, <1>3

LEMMA ReapStep ==
  ASSUME Inv, NEW c \in CPU, Reap(c)
  PROVE  Inv' /\ Kinds
BY FreeCurrentStep DEF Reap

LEMMA NextKinds ==
  ASSUME Inv, NoWrap, [LibNext]_vars
  PROVE  Inv' /\ Kinds
<1>1. ASSUME NEW e \in Env, EnvCreate(e)
      PROVE  Inv' /\ Kinds
  BY <1>1, CreateStep
<1>2. ASSUME NEW c \in CPU, CommonNext(c)
      PROVE  Inv' /\ Kinds
  <2>1. CASE \/ WakeUp(c) \/ Yield(c) \/ \E va \in VA \cup {None} : SysIpcRecv(c, va)
    BY <2>1, SchedStep
  <2>2. CASE Reap(c)
    BY <2>2, ReapStep
  <2>3. ASSUME NEW e \in Env, SysExofork(c, e) \/ SysEnvStart(c, e) \/ Destroy(c, e)
        PROVE  Inv' /\ Kinds
    BY <2>3, ExoforkStep, EnvStartStep, DestroyStep
  <2>4. ASSUME NEW e \in Env, NEW va \in VA \cup {None}, NEW w \in BOOLEAN,
               SysIpcTrySend(c, e, va, w)
        PROVE  Inv' /\ Kinds
    BY <2>4, IpcSendStep
  <2> QED
    BY <1>2, <2>1, <2>2, <2>3, <2>4 DEF CommonNext
<1>3. ASSUME NEW c \in CPU, NEW e \in Env, NEW va \in VA, NEW w \in BOOLEAN,
             Own(c, e), SysPageAlloc(c, e, va, w)
      PROVE  Inv' /\ Kinds
  BY <1>3, PageAllocStep
<1>4. ASSUME NEW c \in CPU, NEW e \in Env, NEW va \in VA,
             Own(c, e), SysPageUnmap(c, e, va)
      PROVE  Inv' /\ Kinds
  BY <1>4, PageUnmapStep
<1>5. ASSUME NEW c \in CPU, NEW src \in Env, NEW dst \in Env, NEW srcva \in VA,
             NEW va \in VA, NEW w \in BOOLEAN, LibPageMap(c, src, srcva, dst, va, w)
      PROVE  Inv' /\ Kinds
  BY <1>5, PageMapStep
<1>6. ASSUME NEW c \in CPU, NEW va \in VA \ {DTemp}, NEW w \in BOOLEAN,
             LibExec(c, va, w)
      PROVE  Inv' /\ Kinds
  BY <1>6, ExecStep
<1>7. CASE UNCHANGED vars
  <2>1. UNCHANGED <<mem, pgdir, status, parent, dstva, curenv, stale, booted>>
    BY <1>7 DEF vars
  <2>2. Inv'
    BY <2>1 DEF Inv, TypeOK, Slots, NoStaleTlb
  <2>3. Same
    BY <2>1 DEF Same
  <2> QED
    BY <2>2, <2>3 DEF Kinds
<1>8. CASE LibNext
  <2>1. CASE \E e \in Env : EnvCreate(e)
    BY <1>1, <2>1
  <2>2. CASE ~ \E e \in Env : EnvCreate(e)
    <3>1. PICK c \in CPU :
            \/ CommonNext(c)
            \/ \E e \in Env, va \in VA, w \in BOOLEAN :
                 Own(c, e) /\ SysPageAlloc(c, e, va, w)
            \/ \E e \in Env, va \in VA : Own(c, e) /\ SysPageUnmap(c, e, va)
            \/ \E src, dst \in Env, srcva, va \in VA, w \in BOOLEAN :
                 LibPageMap(c, src, srcva, dst, va, w)
            \/ \E va \in VA \ {DTemp}, w \in BOOLEAN : LibExec(c, va, w)
      BY <1>8, <2>2 DEF LibNext
    <3> QED
      BY <1>2, <1>3, <1>4, <1>5, <1>6, <3>1
  <2> QED
    BY <2>1, <2>2
<1> QED
  BY <1>7, <1>8

-----------------------------------------------------------------------------
(* After page_init and before the first environment.                       *)

LEMMA InitInv == Init => Inv
<1> SUFFICES ASSUME Init PROVE Inv
  OBVIOUS
<1>1. /\ mem.pp_ref = [p \in Phys |-> IF p = Page0 THEN 1 ELSE 0]
      /\ mem.free = Page /\ mem.pt = [p \in Page |-> ZeroPage]
      /\ mem = [pp_ref |-> mem.pp_ref, free |-> mem.free, pt |-> mem.pt]
      /\ pgdir = [e \in Env |-> None]
  BY DEF Init
<1>2. mem \in Mem
  <2>1. mem.pp_ref \in [Phys -> 0 .. REFMOD - 1]
    BY <1>1, AddrSpaceAssumption
  <2>2. mem.free \in SUBSET Page /\ mem.pt \in [Page -> [Idx -> Entry]]
    BY <1>1, EntryTypes
  <2> QED
    BY <1>1, <2>1, <2>2, MemIs
<1>3. \A q \in Page, i \in Idx : ~Present(mem, q, i)
  BY <1>1, EntryTypes DEF Present
<1>4. \A e \in Env : pgdir[e] = None
  BY <1>1
<1>5. Shape(mem, pgdir)
  <2>1. DirsApart(pgdir)
    BY <1>1 DEF DirsApart
  <2>2. \A e \in Env, i \in Idx : ~HasPt(mem, pgdir, e, i)
    BY <1>4 DEF HasPt
  <2>3. TablesApart(mem, pgdir)
    BY <2>2 DEF TablesApart
  <2>4. LeavesApart(mem, pgdir)
    BY <2>2 DEF LeavesApart
  <2>5. OthersEmpty(mem, pgdir)
    BY <1>3 DEF OthersEmpty
  <2> QED
    BY <2>1, <2>3, <2>4, <2>5 DEF Shape
<1>6. Counted(mem, pgdir)
  <2>1. ASSUME NEW p \in Phys
        PROVE  mem.pp_ref[p] = Count(mem, pgdir, p)
    <3>1. RefsOf(mem, p) = {}
      BY <1>3 DEF RefsOf
    <3>2. Holders(pgdir, p) = {}
      BY <1>4, AddrSpaceAssumption DEF Holders, Phys
    <3>3. Cardinality(RefsOf(mem, p)) = 0 /\ Cardinality(Holders(pgdir, p)) = 0
      BY <3>1, <3>2, FS_EmptySet
    <3> QED
      BY <1>1, <3>3 DEF Count
  <2> QED
    BY <2>1 DEF Counted
<1>7. FreeBut(mem, {})
  <2>1. \A p \in Page : p \in Phys /\ mem.pp_ref[p] = 0
    BY <1>1, AddrSpaceAssumption DEF Phys
  <2> QED
    BY <1>1, <2>1 DEF FreeBut
<1>8. Good(mem, pgdir, {})
  BY <1>2, <1>5, <1>6, <1>7 DEF Good
<1>9. Slots /\ NoStaleTlb
  BY DEF Init, Slots, NoStaleTlb
<1>10. TypeOK
  BY <1>2 DEF Init, TypeOK, Status
<1> QED
  BY <1>8, <1>9, <1>10 DEF Inv

LEMMA Inductive == LibSpec /\ []NoWrap => []Inv
<1>1. Inv /\ NoWrap /\ [LibNext]_vars => Inv'
  BY NextKinds
<1> QED
  BY <1>1, InitInv, PTL DEF LibSpec

-----------------------------------------------------------------------------
(* What the invariant says of single pages.                                *)

LEMMA PrivatePages ==
  ASSUME NEW m, NEW g, Good(m, g, {}), NEW e \in Env, g[e] # None
  PROVE  /\ g[e] \in Page /\ m.pp_ref[g[e]] = 1
         /\ \A i \in Idx : HasPt(m, g, e, i) =>
              /\ PtOf(m, g, e, i) \in Page
              /\ m.pp_ref[PtOf(m, g, e, i)] = 1
<1>1. Shape(m, g) /\ Counted(m, g)
  BY DEF Good
<1>2. g[e] \in Page /\ g[e] \in Phys /\ g[e] # Page0
  BY <1>1, AddrSpaceAssumption DEF Shape, DirsApart, Phys
<1>3. m.pp_ref[g[e]] = 1
  <2>1. RefsOf(m, g[e]) = {}
    <3>1. ASSUME NEW q \in Page, NEW j \in Idx, Present(m, q, j), Target(m, q, j) = g[e]
          PROVE  FALSE
      <4>1. CASE IsDir(g, q)
        <5>1. PICK f \in Env : g[f] = q
          BY <4>1 DEF IsDir
        <5>2. HasPt(m, g, f, j) /\ PtOf(m, g, f, j) = g[e]
          BY <3>1, <5>1, AddrSpaceAssumption DEF HasPt, PtOf
        <5> QED
          BY <1>1, <5>2 DEF Shape, TablesApart, IsDir
      <4>2. CASE IsTable(m, g, q)
        <5>1. PICK f \in Env, i \in Idx : HasPt(m, g, f, i) /\ PtOf(m, g, f, i) = q
          BY <4>2 DEF IsTable
        <5> QED
          BY <1>1, <3>1, <5>1 DEF Shape, LeavesApart, IsDir
      <4> QED
        BY <1>1, <3>1, <4>1, <4>2 DEF Shape, OthersEmpty
    <3> QED
      BY <3>1 DEF RefsOf
  <2>2. Holders(g, g[e]) = {e}
    BY <1>1 DEF Holders, Shape, DirsApart
  <2>3. Cardinality(RefsOf(m, g[e])) = 0 /\ Cardinality(Holders(g, g[e])) = 1
    BY <2>1, <2>2, FS_EmptySet, FS_Singleton
  <2> QED
    BY <1>1, <1>2, <2>3 DEF Counted, Count
<1>4. ASSUME NEW i \in Idx, HasPt(m, g, e, i), NEW t, t = PtOf(m, g, e, i)
      PROVE  t \in Page /\ m.pp_ref[t] = 1
  <2>1. t \in Page /\ t \in Phys /\ t # Page0 /\ ~IsDir(g, t)
    BY <1>1, <1>4, AddrSpaceAssumption DEF Shape, TablesApart, Phys
  <2>2. RefsOf(m, t) = {<<g[e], i>>}
    <3>1. ASSUME NEW q \in Page, NEW j \in Idx, Present(m, q, j), Target(m, q, j) = t
          PROVE  q = g[e] /\ j = i
      <4>1. CASE IsDir(g, q)
        <5>1. PICK f \in Env : g[f] = q
          BY <4>1 DEF IsDir
        <5>2. HasPt(m, g, f, j) /\ PtOf(m, g, f, j) = t
          BY <3>1, <5>1, AddrSpaceAssumption DEF HasPt, PtOf
        <5> QED
          BY <1>1, <1>4, <5>1, <5>2 DEF Shape, TablesApart
      <4>2. CASE IsTable(m, g, q)
        <5>1. PICK f \in Env, k \in Idx : HasPt(m, g, f, k) /\ PtOf(m, g, f, k) = q
          BY <4>2 DEF IsTable
        <5>2. ~IsTable(m, g, t)
          BY <1>1, <3>1, <5>1 DEF Shape, LeavesApart
        <5> QED
          BY <1>4, <5>2 DEF IsTable
      <4> QED
        BY <1>1, <3>1, <4>1, <4>2 DEF Shape, OthersEmpty
    <3>2. Present(m, g[e], i) /\ Target(m, g[e], i) = t
      BY <1>4 DEF HasPt, PtOf
    <3> QED
      BY <1>2, <3>1, <3>2 DEF RefsOf
  <2>3. Holders(g, t) = {}
    BY <2>1 DEF Holders, IsDir
  <2>4. Cardinality(RefsOf(m, t)) = 1 /\ Cardinality(Holders(g, t)) = 0
    BY <2>2, <2>3, FS_EmptySet, FS_Singleton
  <2> QED
    BY <1>1, <2>1, <2>4 DEF Counted, Count
<1> QED
  BY <1>2, <1>3, <1>4

\* Every entry names a page of the free list.
LEMMA NothingReserved ==
  ASSUME NEW m, NEW g, Good(m, g, {})
  PROVE  RefsOf(m, Page0) = {}
<1>1. Shape(m, g) /\ Page0 \notin Page
  BY AddrSpaceAssumption DEF Good
<1>2. ASSUME NEW q \in Page, NEW j \in Idx, Present(m, q, j), Target(m, q, j) = Page0
      PROVE  FALSE
  <2>1. CASE IsDir(g, q)
    <3>1. PICK f \in Env : g[f] = q
      BY <2>1 DEF IsDir
    <3>2. HasPt(m, g, f, j) /\ PtOf(m, g, f, j) = Page0
      BY <1>2, <3>1, AddrSpaceAssumption DEF HasPt, PtOf
    <3> QED
      BY <1>1, <3>2 DEF Shape, TablesApart
  <2>2. CASE IsTable(m, g, q)
    <3>1. PICK f \in Env, i \in Idx : HasPt(m, g, f, i) /\ PtOf(m, g, f, i) = q
      BY <2>2 DEF IsTable
    <3> QED
      BY <1>1, <1>2, <3>1 DEF Shape, LeavesApart
  <2> QED
    BY <1>1, <1>2, <2>1, <2>2 DEF Shape, OthersEmpty
<1> QED
  BY <1>2 DEF RefsOf

-----------------------------------------------------------------------------
\* The variables keep their types, pp_ref its 16 bits among them, whatever the
\* page system calls, IPC, exec, exofork and env_free do.
THEOREM TypeCorrect == LibSpec /\ []NoWrap => []TypeOK
<1>1. Inv => TypeOK
  BY DEF Inv
<1> QED
  BY <1>1, Inductive, PTL

\* pp_ref counts exactly: page_insert, page_remove, page_decref, pgdir_walk and
\* env_free keep the count of every page equal to the entries that name it and
\* the directories it is.
THEOREM CountsAreExact == LibSpec /\ []NoWrap => []RefCountExact
<1>1. ASSUME Inv, NEW p \in Phys
      PROVE  mem.pp_ref[p] = Cardinality(Refs(p))
               + Cardinality({e \in Env : pgdir[e] = p}) + (IF p = Page0 THEN 1 ELSE 0)
  <2>1. mem.pp_ref[p] = Count(mem, pgdir, p)
    BY <1>1 DEF Inv, Good, Counted
  <2>2. RefsOf(mem, p) = Refs(p) /\ Holders(pgdir, p) = {e \in Env : pgdir[e] = p}
    BY DEF RefsOf, Refs, Present, Target, Holders
  <2> QED
    BY <2>1, <2>2 DEF Count
<1>2. Inv => RefCountExact
  BY <1>1 DEF RefCountExact
<1> QED
  BY <1>2, Inductive, PTL

\* page_free_list holds exactly the pages without a reference: page_alloc never
\* hands out a page in use, and env_free and page_remove leak none.
THEOREM FreeListIsExact == LibSpec /\ []NoWrap => []FreeExact
<1>1. Inv => FreeExact
  BY DEF Inv, Good, FreeBut, FreeExact
<1> QED
  BY <1>1, Inductive, PTL

\* No page is a directory or a table twice, or one and mapped by a program.
THEOREM PrivateTables == LibSpec /\ []NoWrap => []TablesPrivate
<1>1. ASSUME Inv, NEW e \in Env, pgdir[e] # None
      PROVE  /\ mem.pp_ref[pgdir[e]] = 1
             /\ \A i \in Idx : mem.pt[pgdir[e]][i].p =>
                  /\ mem.pt[pgdir[e]][i].page \in Page
                  /\ mem.pp_ref[mem.pt[pgdir[e]][i].page] = 1
  BY <1>1, Types, PrivatePages DEF HasPt, PtOf, Present, Target
<1>2. Inv => TablesPrivate
  BY <1>1 DEF TablesPrivate
<1> QED
  BY <1>2, Inductive, PTL

\* No processor in user mode has a translation that the page tables lack: the
\* kernel changes the tables of no environment that another processor runs,
\* and tlb_invalidate of the own one is enough.
THEOREM TlbsAreClean == LibSpec /\ []NoWrap => []NoStaleTlb
<1>1. Inv => NoStaleTlb
  BY DEF Inv
<1> QED
  BY <1>1, Inductive, PTL

\* The pages page_init reserves are mapped nowhere.
THEOREM NoReserved == LibSpec /\ []NoWrap => []ReservedUnmapped
<1>1. ASSUME Inv PROVE Refs(Page0) = {}
  BY <1>1, Types, NothingReserved DEF RefsOf, Refs, Present, Target
<1>2. Inv => ReservedUnmapped
  BY <1>1 DEF ReservedUnmapped
<1> QED
  BY <1>2, Inductive, PTL

\* In every state, the two loops of env_free would leave what the destruction of
\* an environment leaves: each page that it held has one reference less for each
\* place where it was mapped, and nothing else has changed.
THEOREM LoopsFreeAll == LibSpec /\ []NoWrap => []EnvFreeIsItsLoops
<1>1. ASSUME Inv, NEW e \in Env, pgdir[e] # None
      PROVE  EnvFree(mem, pgdir[e]) = FreeLoop(mem, pgdir[e])
  BY <1>1, LoopIsEnvFree DEF Inv
<1>2. Inv => EnvFreeIsItsLoops
  BY <1>1 DEF EnvFreeIsItsLoops
<1> QED
  BY <1>2, Inductive, PTL

-----------------------------------------------------------------------------
(* Who waits keeps its address space.                                      *)

LEMMA QuietStep ==
  ASSUME Kinds, NEW e \in Env, status[e] \in {"ready", "recv"}, status'[e] # "free",
         \A c \in CPU : curenv[c] # e, NEW va \in VA
  PROVE  \/ At(mem', pgdir', e, va) = At(mem, pgdir, e, va)
         \/ status[e] = "recv" /\ status'[e] = "ready" /\ va = dstva[e]
<1>1. ~Runs(e)
  BY DEF Runs
<1>2. CASE Same
  BY <1>2 DEF Same
<1>3. ASSUME NEW f \in Env, NEW wa \in VA, NEW x, Entitled(f, wa), Put(f, wa, x)
      PROVE  \/ At(mem', pgdir', e, va) = At(mem, pgdir, e, va)
             \/ status[e] = "recv" /\ status'[e] = "ready" /\ va = dstva[e]
  BY <1>1, <1>3 DEF Entitled, Put
<1>4. ASSUME NEW f \in Env, NEW wa \in VA, Entitled(f, wa),
             Takes(f, wa) \/ Copies(f, wa) \/ Put(f, wa, Zero)
      PROVE  \E x : Put(f, wa, x)
  BY <1>4 DEF Takes, Copies
<1>5. ASSUME NEW f \in Env, Runs(f), Execs(f)
      PROVE  At(mem', pgdir', e, va) = At(mem, pgdir, e, va)
  BY <1>1, <1>5 DEF Execs
<1>6. ASSUME NEW f \in Env, status'[f] = "free", Clears(f)
      PROVE  At(mem', pgdir', e, va) = At(mem, pgdir, e, va)
  BY <1>6 DEF Clears
<1> QED
  BY <1>2, <1>3, <1>4, <1>5, <1>6 DEF Kinds

\* No system call, trap or scheduling changes the memory of an environment that
\* waits for a processor or for a message, but for the page a message brings.
THEOREM WaitersAreQuiet == LibSpec /\ []NoWrap => QuietWhileWaiting
<1> DEFINE Q(e) ==
      /\ status[e] \in {"ready", "recv"} /\ status'[e] # "free"
      /\ \A c \in CPU : curenv[c] # e
      => \A va \in VA :
           \/ Space(mem, pgdir[e])[va] = Space(mem', pgdir'[e])[va]
           \/ status[e] = "recv" /\ status'[e] = "ready" /\ va = dstva[e]
<1>1. ASSUME Inv, NoWrap, [LibNext]_vars, NEW e \in Env
      PROVE  Q(e)
  <2>1. ASSUME NEW va \in VA
        PROVE  /\ Space(mem, pgdir[e])[va] = Seen(At(mem, pgdir, e, va))
               /\ Space(mem', pgdir'[e])[va] = Seen(At(mem', pgdir', e, va))
    BY SpaceIsAt
  <2>2. Kinds
    BY <1>1, NextKinds
  <2>3. ASSUME status[e] \in {"ready", "recv"}, status'[e] # "free",
               \A c \in CPU : curenv[c] # e, NEW va \in VA
        PROVE  \/ Space(mem, pgdir[e])[va] = Space(mem', pgdir'[e])[va]
               \/ status[e] = "recv" /\ status'[e] = "ready" /\ va = dstva[e]
    BY <2>1, <2>2, <2>3, QuietStep
  <2> QED
    BY <2>3
<1>2. Inv /\ NoWrap /\ [LibNext]_vars => [\A e \in Env : Q(e)]_vars
  BY <1>1
<1> QED
  BY <1>2, Inductive, PTL DEF LibSpec, QuietWhileWaiting

-----------------------------------------------------------------------------
(* The steps are those of AbstractSpaces.                                  *)

\* The address spaces, as functions of m and g.
Spaces(m, g) == [e \in Env |-> Space(m, g[e])]

LEMMA SpacesIs ==
  ASSUME NEW m, NEW g
  PROVE  Spaces(m, g) = [e \in Env |-> [va \in VA |-> Seen(At(m, g, e, va))]]
<1>1. ASSUME NEW e \in Env
      PROVE  Space(m, g[e]) = [va \in VA |-> Seen(At(m, g, e, va))]
  <2>1. \A va \in VA : Space(m, g[e])[va] = Seen(At(m, g, e, va))
    BY SpaceIsAt
  <2>2. Space(m, g[e]) = [va \in VA |-> Space(m, g[e])[va]]
    BY DEF Space
  <2> QED
    BY <2>1, <2>2
<1> QED
  BY <1>1 DEF Spaces

\* The MMU sees an entry exactly when it is present.
LEMMA SeenEntry ==
  ASSUME NEW x \in Entry
  PROVE  /\ Seen(x) # None <=> x.p
         /\ x.p => Seen(x).page = x.page /\ Seen(x).w = x.w
<1>1. [page |-> x.page, w |-> x.w] # None
  <2>1. x.page \in Phys /\ x.w \in BOOLEAN
    BY EntryFields
  <2> QED
    BY <2>1, NoneAssumption
<1> QED
  BY <1>1 DEF Seen

LEMMA AtEntry ==
  ASSUME NEW m, NEW g, Good(m, g, {}), NEW e \in Env, NEW va \in VA
  PROVE  At(m, g, e, va) \in Entry
<1>1. va[1] \in Idx /\ va[2] \in Idx
  BY Addresses
<1>2. CASE HasPt(m, g, e, va[1])
  <2>1. PtOf(m, g, e, va[1]) \in Page
    BY <1>1, <1>2 DEF Good, Shape, TablesApart
  <2>2. m.pt[PtOf(m, g, e, va[1])][va[2]] \in Entry
    BY <1>1, <2>1, MemParts DEF Good
  <2> QED
    BY <1>2, <2>2 DEF At
<1>3. CASE ~HasPt(m, g, e, va[1])
  BY <1>3, EntryTypes DEF At
<1> QED
  BY <1>2, <1>3

\* What AbstractSpaces sees in the state.
LEMMA SpaceFacts ==
  ASSUME Inv, NEW e \in Env, NEW va \in VA, NEW x, x = At(mem, pgdir, e, va)
  PROVE  /\ Spaces(mem, pgdir)[e][va] = Seen(x)
         /\ Spaces(mem, pgdir)[e][va] # None <=> x.p
         /\ x.p => /\ Spaces(mem, pgdir)[e][va].page = x.page
                   /\ Spaces(mem, pgdir)[e][va].w = x.w
<1>1. x \in Entry
  BY Types, AtEntry
<1>2. Spaces(mem, pgdir)[e][va] = Seen(x)
  BY SpacesIs
<1> QED
  BY <1>1, <1>2, SeenEntry

LEMMA PutSpaces ==
  ASSUME NEW e \in Env, NEW va \in VA, NEW x, Put(e, va, x)
  PROVE  Spaces(mem', pgdir') = [Spaces(mem, pgdir) EXCEPT ![e][va] = Seen(x)]
<1>1. Spaces(mem, pgdir) = [f \in Env |-> [wa \in VA |-> Seen(At(mem, pgdir, f, wa))]]
  BY SpacesIs
<1>2. Spaces(mem', pgdir') =
        [f \in Env |-> [wa \in VA |-> Seen(At(mem', pgdir', f, wa))]]
  BY SpacesIs
<1>3. Spaces(mem', pgdir') = [f \in Env |-> [wa \in VA |->
        IF f = e /\ wa = va THEN Seen(x) ELSE Seen(At(mem, pgdir, f, wa))]]
  BY <1>2 DEF Put
<1>4. PICK s : s = Spaces(mem, pgdir)
  OBVIOUS
<1>5. PICK y : y = Seen(x)
  OBVIOUS
<1>6. PICK t : t = Spaces(mem', pgdir')
  OBVIOUS
<1>7. /\ t = [f \in Env |-> t[f]]
      /\ \A f \in Env : t[f] =
           [wa \in VA |-> IF f = e /\ wa = va THEN y ELSE Seen(At(mem, pgdir, f, wa))]
  BY <1>3, <1>5, <1>6
<1>8. /\ s = [f \in Env |-> s[f]]
      /\ \A f \in Env : s[f] = [wa \in VA |-> Seen(At(mem, pgdir, f, wa))]
  BY <1>1, <1>4
<1>9. \A f \in Env : t[f] = IF f = e THEN [s[e] EXCEPT ![va] = y] ELSE s[f]
  BY <1>7, <1>8
<1>10. t = [s EXCEPT ![e] = [s[e] EXCEPT ![va] = y]]
  BY <1>7, <1>8, <1>9
<1> QED
  BY <1>4, <1>5, <1>6, <1>10

LEMMA TakesRefines ==
  ASSUME Inv, NEW e \in Env, NEW va \in VA, Takes(e, va)
  PROVE  Abstract!Alloc(e, va)
<1>1. PICK p \in mem.free, w \in BOOLEAN : p \in Page /\ Put(e, va, Pte(p, w))
  BY DEF Takes
<1>2. PICK s : s = Spaces(mem, pgdir)
  OBVIOUS
<1>3. Spaces(mem', pgdir') = [s EXCEPT ![e][va] = [page |-> p, w |-> w]]
  <2>1. Seen(Pte(p, w)) = [page |-> p, w |-> w]
    BY DEF Seen, Pte
  <2> QED
    BY <1>1, <1>2, <2>1, PutSpaces
<1>4. ASSUME NEW f \in Env, NEW wa \in VA, s[f][wa] # None
      PROVE  s[f][wa].page # p
  <2>1. PICK x : x = At(mem, pgdir, f, wa)
    OBVIOUS
  <2>2. x.p /\ s[f][wa].page = x.page
    BY <1>2, <1>4, <2>1, SpaceFacts
  <2>3. x.page \notin mem.free
    BY <2>1, <2>2, Types, MappedPage
  <2> QED
    BY <1>1, <2>2, <2>3
<1>5. p \notin UNION {{s[f][wa].page : wa \in {y \in VA : s[f][y] # None}} : f \in Env}
  BY <1>4
<1>6. p \notin UNION {Abstract!Pages(f) : f \in Env}
  BY <1>2, <1>5 DEF Abstract!Pages, Spaces
<1> QED
  BY <1>1, <1>2, <1>3, <1>6 DEF Abstract!Alloc, Spaces

LEMMA CopiesRefines ==
  ASSUME Inv, NEW e \in Env, NEW va \in VA, Copies(e, va)
  PROVE  \E src \in Env, srcva \in VA : Abstract!Copy(src, srcva, e, va)
<1>1. PICK src \in Env, srcva \in VA, w \in BOOLEAN :
        LET x == At(mem, pgdir, src, srcva)
        IN  Grants(x, w) /\ Put(e, va, Pte(x.page, w))
  BY DEF Copies
<1>2. PICK s : s = Spaces(mem, pgdir)
  OBVIOUS
<1>3. PICK x : x = At(mem, pgdir, src, srcva)
  OBVIOUS
<1>4. x.p /\ (w => x.w) /\ Put(e, va, Pte(x.page, w))
  BY <1>1, <1>3 DEF Grants
<1>5. s[src][srcva] # None /\ s[src][srcva].page = x.page /\ s[src][srcva].w = x.w
  BY <1>2, <1>3, <1>4, SpaceFacts
<1>6. Spaces(mem', pgdir') = [s EXCEPT ![e][va] = [page |-> s[src][srcva].page, w |-> w]]
  <2>1. Seen(Pte(x.page, w)) = [page |-> x.page, w |-> w]
    BY DEF Seen, Pte
  <2> QED
    BY <1>2, <1>4, <1>5, <2>1, PutSpaces
<1>7. Abstract!Copy(src, srcva, e, va)
  BY <1>2, <1>4, <1>5, <1>6 DEF Abstract!Copy, Spaces
<1> QED
  BY <1>7

LEMMA RemoveRefines ==
  ASSUME NEW e \in Env, NEW va \in VA, Put(e, va, Zero)
  PROVE  Abstract!Remove(e, va)
<1>1. Seen(Zero) = None
  BY EntryTypes DEF Seen
<1>2. Spaces(mem', pgdir') = [Spaces(mem, pgdir) EXCEPT ![e][va] = None]
  BY <1>1, PutSpaces
<1> QED
  BY <1>2 DEF Abstract!Remove, Spaces

LEMMA ExecsRefines ==
  ASSUME Inv, NEW e \in Env, Execs(e)
  PROVE  Abstract!Exec(e)
<1>1. PICK va \in VA, w \in BOOLEAN :
        LET x == At(mem, pgdir, e, DTemp)
        IN  /\ va # DTemp /\ x.p /\ x.page \in Page
            /\ \A f \in Env, wa \in VA : At(mem', pgdir', f, wa) =
                 IF f = e /\ wa = DTemp THEN Zero
                 ELSE IF f = e /\ wa = va THEN Pte(x.page, w)
                 ELSE At(mem, pgdir, f, wa)
  BY DEF Execs
<1>2. PICK x : x = At(mem, pgdir, e, DTemp)
  OBVIOUS
<1>3. PICK s : s = Spaces(mem, pgdir)
  OBVIOUS
<1>4. PICK t : t = Spaces(mem', pgdir')
  OBVIOUS
<1>5. /\ x.p /\ x.page \in Page
      /\ \A f \in Env, wa \in VA : At(mem', pgdir', f, wa) =
           IF f = e /\ wa = DTemp THEN Zero
           ELSE IF f = e /\ wa = va THEN Pte(x.page, w)
           ELSE At(mem, pgdir, f, wa)
  BY <1>1, <1>2
<1>6. s = [f \in Env |-> [wa \in VA |-> Seen(At(mem, pgdir, f, wa))]]
  BY <1>3, SpacesIs
<1>7. t = [f \in Env |-> [wa \in VA |-> Seen(At(mem', pgdir', f, wa))]]
  BY <1>4, SpacesIs
<1>8. t = [s EXCEPT ![e] = t[e]]
  <2>1. \A f \in Env : f # e => t[f] = s[f]
    BY <1>5, <1>6, <1>7
  <2> QED
    BY <1>6, <1>7, <2>1
<1>9. ASSUME NEW wa \in VA, t[e][wa] # None
      PROVE  t[e][wa].page \in {s[e][y].page : y \in {z \in VA : s[e][z] # None}}
  <2>1. t[e][wa] = Seen(At(mem', pgdir', e, wa))
    BY <1>7
  <2>2. CASE wa = DTemp
    BY <1>5, <1>9, <2>1, <2>2, EntryTypes DEF Seen
  <2>3. CASE wa = va /\ wa # DTemp
    <3>1. t[e][wa].page = x.page
      BY <1>5, <2>1, <2>3 DEF Seen, Pte
    <3>2. DTemp \in VA /\ s[e][DTemp] # None /\ s[e][DTemp].page = x.page
      BY <1>2, <1>3, <1>5, AddrSpaceAssumption, SpaceFacts
    <3> QED
      BY <3>1, <3>2
  <2>4. CASE wa # va /\ wa # DTemp
    <3>1. t[e][wa] = s[e][wa]
      BY <1>5, <1>6, <2>1, <2>4
    <3> QED
      BY <1>9, <3>1
  <2> QED
    BY <2>2, <2>3, <2>4
<1>10. \A wa \in VA : t[e][wa] # None => t[e][wa].page \in Abstract!Pages(e)
  BY <1>3, <1>9 DEF Abstract!Pages, Spaces
<1> QED
  BY <1>3, <1>4, <1>8, <1>10 DEF Abstract!Exec, Spaces

LEMMA ClearsRefines ==
  ASSUME NEW e \in Env, Clears(e)
  PROVE  Abstract!Clear(e)
<1>1. Spaces(mem, pgdir) = [f \in Env |-> [wa \in VA |-> Seen(At(mem, pgdir, f, wa))]]
  BY SpacesIs
<1>2. Spaces(mem', pgdir') =
        [f \in Env |-> [wa \in VA |-> Seen(At(mem', pgdir', f, wa))]]
  BY SpacesIs
<1>3. Seen(Zero) = None
  BY EntryTypes DEF Seen
<1>4. Spaces(mem', pgdir') =
        [f \in Env |-> [wa \in VA |-> IF f = e THEN None ELSE Seen(At(mem, pgdir, f, wa))]]
  BY <1>2, <1>3 DEF Clears
<1>5. Spaces(mem', pgdir') = [Spaces(mem, pgdir) EXCEPT ![e] = [wa \in VA |-> None]]
  BY <1>1, <1>4
<1> QED
  BY <1>5 DEF Abstract!Clear, Spaces

LEMMA NextRefines ==
  ASSUME Inv, NoWrap, [LibNext]_vars
  PROVE  Abstract!Next \/ UNCHANGED [e \in Env |-> Space(mem, pgdir[e])]
<1>1. Kinds
  BY NextKinds
<1>2. CASE Same
  <2>1. Spaces(mem, pgdir) = [f \in Env |-> [wa \in VA |-> Seen(At(mem, pgdir, f, wa))]]
    BY SpacesIs
  <2>2. Spaces(mem', pgdir') =
          [f \in Env |-> [wa \in VA |-> Seen(At(mem', pgdir', f, wa))]]
    BY SpacesIs
  <2>3. Spaces(mem', pgdir') = Spaces(mem, pgdir)
    BY <1>2, <2>1, <2>2 DEF Same
  <2> QED
    BY <2>3 DEF Spaces
<1>3. ASSUME NEW e \in Env, NEW va \in VA,
             Takes(e, va) \/ Copies(e, va) \/ Put(e, va, Zero)
      PROVE  Abstract!Next
  BY <1>3, TakesRefines, CopiesRefines, RemoveRefines DEF Abstract!Next
<1>4. ASSUME NEW e \in Env, Execs(e) \/ Clears(e)
      PROVE  Abstract!Next
  BY <1>4, ExecsRefines, ClearsRefines DEF Abstract!Next
<1> QED
  BY <1>1, <1>2, <1>3, <1>4 DEF Kinds

LEMMA InitRefines == Init => Abstract!Init
<1> SUFFICES ASSUME Init PROVE Abstract!Init
  OBVIOUS
<1>1. \A e \in Env : Space(mem, pgdir[e]) = [va \in VA |-> None]
  BY DEF Init, Space
<1> QED
  BY <1>1 DEF Abstract!Init

\* Page tables, reference counts and the free list implement address spaces:
\* page_alloc adds a page nobody has, page_map, IPC and exec move pages and
\* never raise a right, env_free takes only the space of the one that ends.
THEOREM Refinement == LibSpec /\ []NoWrap => ImplementsSpaces
<1>1. Inv /\ NoWrap /\ [LibNext]_vars
        => [Abstract!Next]_([e \in Env |-> Space(mem, pgdir[e])])
  BY NextRefines
<1> QED
  BY <1>1, InitRefines, Inductive, PTL DEF LibSpec, ImplementsSpaces, Abstract!Spec

-----------------------------------------------------------------------------
(* The hypothesis []NoWrap.                                                *)

\* The machine has fewer entries of page tables than pp_ref can count.
FewEntries == Cardinality(Page \X Idx) + Cardinality(Env) + 2 < REFMOD

LEMMA FewNoWrap ==
  ASSUME FewEntries, Inv
  PROVE  NoWrap
<1>1. ASSUME NEW p \in Phys
      PROVE  mem.pp_ref[p] + 1 < REFMOD
  <2>1. mem.pp_ref[p] = Count(mem, pgdir, p)
    BY DEF Inv, Good, Counted
  <2>2. IsFiniteSet(Page \X Idx) /\ IsFiniteSet(Env)
    BY AddrSpaceAssumption, FS_Product
  <2>3. RefsOf(mem, p) \in SUBSET (Page \X Idx) /\ Holders(pgdir, p) \in SUBSET Env
    BY DEF RefsOf, Holders
  <2>4. /\ Cardinality(RefsOf(mem, p)) <= Cardinality(Page \X Idx)
        /\ Cardinality(Holders(pgdir, p)) <= Cardinality(Env)
    BY <2>2, <2>3, FS_Subset
  <2>5. /\ Cardinality(RefsOf(mem, p)) \in Nat /\ Cardinality(Page \X Idx) \in Nat
        /\ Cardinality(Holders(pgdir, p)) \in Nat /\ Cardinality(Env) \in Nat
    BY <2>2, RefsFinite, FS_CardinalityType
  <2> QED
    BY <2>1, <2>4, <2>5, AddrSpaceAssumption DEF Count, FewEntries
<1> QED
  BY <1>1 DEF NoWrap

\* A counter of pp_ref's width that could count every entry there is never
\* reaches its maximum: then the theorems above hold of every behaviour.  With
\* 16 bits and many page tables page_insert can bring pp_ref back to 0.
THEOREM FewNeverWraps == FewEntries => (LibSpec => []NoWrap)
<1> SUFFICES ASSUME FewEntries PROVE LibSpec => []NoWrap
  OBVIOUS
<1>1. Inv => NoWrap
  BY FewNoWrap
<1>2. Inv /\ [LibNext]_vars => Inv'
  BY <1>1, NextKinds
<1> QED
  BY <1>1, <1>2, InitInv, PTL DEF LibSpec

=============================================================================
