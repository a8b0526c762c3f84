----------------------------- MODULE Raid2Proofs -----------------------------
(***************************************************************************)
(* For disks of any width, any number of them, and programs that cut their *)
(* bits into calls in any way: what is added reads back, and what          *)
(* sys_raid2_check repairs is right.                                       *)
(***************************************************************************)
EXTENDS Raid2, WellFoundedInduction, FiniteSetTheorems, TLAPS

-----------------------------------------------------------------------------
(* The invariant.                                                          *)

\* A row, as the set of the disks with a 1, is a word of the code.
OddIn(S, w) == Odd({d \in S : d \in w})
Word(w) == \A p \in {0, 1, 3} : ~OddIn(Covers[p] \cup {p}, w)

\* A disk of the bit number k.
Place(k) == DataCols[(k % 4) + 1]

\* w is what a row of group g held before disks were damaged: a word with the
\* bits of s, which only the dirty disks may have lost.
Original(w, group, g, row, s) ==
  /\ Word(w)
  /\ \A i \in Col : group[i].dirty \/ (i \in w <=> row \in group[i].data)
  /\ \A k \in 0 .. Len(s) - 1 :
       Group(k) = g /\ Row(k) = row => (Place(k) \in w <=> s[k + 1] = 1)

\* Where n bits leave the disks and the place of the next one.
Shape(rows, col, n) ==
  /\ rows \in Seq([Col -> Disk]) /\ Len(rows) = Group(n) /\ col = Place(n)
  /\ \A g \in DOMAIN rows, j \in 1 .. 4 :
       rows[g][DataCols[j]].now =
         IF g < Len(rows) THEN Width ELSE Row(n) + (IF j <= n % 4 THEN 1 ELSE 0)

\* The rows of each group are known, up to a row of the last one.
Known(rows, s, done) ==
  \A g \in DOMAIN rows :
    \A row \in 0 .. (IF g < Len(rows) THEN Width ELSE done) - 1 :
      \E w \in SUBSET Col : Original(w, rows[g], g, row, s)

Clean(rows) == \A g \in DOMAIN rows, i \in Col : ~rows[g][i].dirty

Inv ==
  /\ TypeOK /\ Shape(disks, now_raid2_add, Len(added))
  /\ damage.calls = 0 => ~damage.silent /\ ~damage.early /\ Clean(disks)
  /\ ~damage.silent /\ ~damage.early =>
       Known(disks, added, disks[Len(disks)][2].now)

-----------------------------------------------------------------------------
(* The places of the bits.                                                 *)

LEMMA Tables ==
  /\ DOMAIN Covers = {0, 1, 3}
  /\ Covers[0] = {2, 4, 6} /\ Covers[1] = {2, 5, 6} /\ Covers[3] = {4, 5, 6}
  /\ Weight[0] = 1 /\ Weight[1] = 2 /\ Weight[3] = 4
  /\ DOMAIN nn_add = {2, 4, 5, 6}
  /\ nn_add[2] = 4 /\ nn_add[4] = 5 /\ nn_add[5] = 6 /\ nn_add[6] = 2
  /\ DataCols[1] = 2 /\ DataCols[2] = 4 /\ DataCols[3] = 5 /\ DataCols[4] = 6
BY DEF Covers, Weight, nn_add, DataCols

LEMMA DivIs ==
  ASSUME NEW q \in Int, NEW r \in Int, NEW p \in Int, NEW s \in Int,
         NEW m \in Nat \ {0}, 0 <= r, r < m, 0 <= s, s < m,
         m * q + r = m * p + s
  PROVE  q = p /\ r = s
<1>1. ~(q < p)
  <2>1. SUFFICES ASSUME q < p PROVE FALSE
    OBVIOUS
  <2>2. m * p >= m * (q + 1)
    BY <2>1
  <2>3. m * (q + 1) = m * q + m
    OBVIOUS
  <2> QED
    BY <2>2, <2>3
<1>2. ~(p < q)
  <2>1. SUFFICES ASSUME p < q PROVE FALSE
    OBVIOUS
  <2>2. m * q >= m * (p + 1)
    BY <2>1
  <2>3. m * (p + 1) = m * p + m
    OBVIOUS
  <2> QED
    BY <2>2, <2>3
<1>3. q = p
  BY <1>1, <1>2
<1> QED
  BY <1>3

LEMMA DivParts ==
  ASSUME NEW a \in Nat, NEW m \in Nat \ {0}
  PROVE  /\ a \div m \in Nat /\ a % m \in Nat /\ a % m < m
         /\ a = m * (a \div m) + (a % m)
<1>1. a = m * (a \div m) + (a % m) /\ a % m \in Nat /\ a % m < m /\ a \div m \in Int
  OBVIOUS
<1>2. a \div m \in Nat
  OBVIOUS
<1> QED
  BY <1>1, <1>2

\* Each bit has a group, a row and a column ...
LEMMA Parts ==
  ASSUME NEW k \in Nat
  PROVE  /\ Group(k) \in Nat \ {0} /\ Row(k) \in Bit /\ k % 4 \in 0 .. 3
         /\ k = 4 * (Width * (Group(k) - 1) + Row(k)) + (k % 4)
<1> DEFINE m == k \div 4
<1>0. Width \in Nat \ {0} /\ 4 * Width \in Nat \ {0}
  BY RaidAssumption
<1>1. m \in Nat /\ k % 4 \in 0 .. 3 /\ k = 4 * m + (k % 4)
  OBVIOUS
<1>2. /\ m \div Width \in Nat /\ m % Width \in Nat /\ m % Width < Width
      /\ m = Width * (m \div Width) + (m % Width)
  BY <1>0, <1>1, DivParts
<1>3. /\ k \div (4 * Width) \in Nat /\ k % (4 * Width) \in Nat
      /\ k % (4 * Width) < 4 * Width
      /\ k = (4 * Width) * (k \div (4 * Width)) + (k % (4 * Width))
  BY <1>0, DivParts
<1> HIDE DEF m
<1>4. k \div (4 * Width) = m \div Width
  <2>1. PICK q, r, p, s : /\ q = k \div (4 * Width) /\ r = k % (4 * Width)
                          /\ p = m \div Width /\ s = m % Width
    OBVIOUS
  <2>2. /\ q \in Int /\ p \in Int /\ r \in Int /\ 4 * s + (k % 4) \in Int
        /\ 0 <= r /\ r < 4 * Width
        /\ 0 <= 4 * s + (k % 4) /\ 4 * s + (k % 4) < 4 * Width
    BY <2>1, <1>0, <1>1, <1>2, <1>3
  <2>3. (4 * Width) * p = 4 * (Width * p)
    BY <2>2, <1>0
  <2> DEFINE x == Width * p
             y == (4 * Width) * q
             c == k % 4
  <2>4. x \in Int /\ y \in Int /\ m = x + s /\ k = 4 * m + c /\ k = y + r /\ c \in Int
    BY <2>1, <2>2, <1>0, <1>1, <1>2, <1>3
  <2>6. s \in Int
    BY <2>1, <1>2
  <2>7. y + r = 4 * x + (4 * s + c)
    <3> HIDE DEF x, y, c
    <3> QED
      BY <2>2, <2>4, <2>6
  <2>8. (4 * Width) * q + r = (4 * Width) * p + (4 * s + (k % 4))
    BY <2>3, <2>7
  <2>5. q = p
    BY <2>2, <2>8, <1>0, DivIs
  <2> QED
    BY <2>1, <2>5
<1>5. Row(k) = m % Width /\ Group(k) - 1 = m \div Width /\ Group(k) \in Nat \ {0}
  BY <1>2, <1>3, <1>4 DEF Row, Group, m
<1>6. k = 4 * (Width * (Group(k) - 1) + Row(k)) + (k % 4)
  BY <1>1, <1>2, <1>5
<1> QED
  BY <1>0, <1>1, <1>2, <1>5, <1>6 DEF Bit

\* ... and nothing else is there.
At(k, g, r, c) == k = 4 * (Width * (g - 1) + r) + c

LEMMA PartsAre ==
  ASSUME NEW k \in Nat, NEW g \in Nat \ {0}, NEW r \in Bit, NEW c \in 0 .. 3, At(k, g, r, c)
  PROVE  Group(k) = g /\ Row(k) = r /\ k % 4 = c
<1>0. Width \in Nat \ {0} /\ r \in Nat /\ r < Width
  BY RaidAssumption DEF Bit
<1>1. /\ Group(k) \in Nat \ {0} /\ Row(k) \in Nat /\ Row(k) < Width /\ k % 4 \in 0 .. 3
      /\ k = 4 * (Width * (Group(k) - 1) + Row(k)) + (k % 4)
  BY Parts, <1>0 DEF Bit
<1>2. PICK a, b : a = Width * (Group(k) - 1) + Row(k) /\ b = Width * (g - 1) + r
  OBVIOUS
<1>3. a \in Int /\ b \in Int
  BY <1>0, <1>1, <1>2
<1>4. 4 * a + (k % 4) = 4 * b + c
  BY <1>1, <1>2 DEF At
<1>5. a = b /\ k % 4 = c
  BY <1>1, <1>3, <1>4
<1>6. PICK G, R : G = Group(k) - 1 /\ R = Row(k)
  OBVIOUS
<1>7. Width * G + R = Width * (g - 1) + r /\ G \in Int /\ R \in Int /\ g - 1 \in Int
  BY <1>1, <1>2, <1>5, <1>6
<1>8. G = g - 1 /\ R = r
  <2>1. PICK h : h = g - 1
    OBVIOUS
  <2>2. /\ Width * G + R = Width * h + r /\ h \in Int /\ r \in Int
        /\ 0 <= R /\ R < Width /\ 0 <= r /\ r < Width
    BY <1>0, <1>1, <1>6, <1>7, <2>1
  <2>3. G = h /\ R = r
    BY <1>0, <1>7, <2>2, DivIs
  <2> QED
    BY <2>1, <2>3
<1> QED
  BY <1>1, <1>5, <1>6, <1>8

LEMMA PartsBound ==
  ASSUME NEW k \in Nat
  PROVE  /\ Group(k) \in Nat \ {0} /\ Row(k) \in Nat /\ Row(k) < Width
         /\ k % 4 \in 0 .. 3
<1>1. \A r \in Bit : r \in Nat /\ r < Width
  BY RaidAssumption DEF Bit
<1> QED
  BY <1>1, Parts

LEMMA NextPlace ==
  ASSUME NEW n \in Nat
  PROVE  /\ n % 4 # 3 =>
              Group(n + 1) = Group(n) /\ Row(n + 1) = Row(n) /\ (n + 1) % 4 = (n % 4) + 1
         /\ n % 4 = 3 => (n + 1) % 4 = 0
         /\ n % 4 = 3 /\ Row(n) + 1 < Width =>
              Group(n + 1) = Group(n) /\ Row(n + 1) = Row(n) + 1
         /\ n % 4 = 3 /\ Row(n) + 1 = Width =>
              Group(n + 1) = Group(n) + 1 /\ Row(n + 1) = 0
<1>0. Width \in Nat \ {0}
  BY RaidAssumption
<1>1. /\ Group(n) \in Nat \ {0} /\ Row(n) \in Nat /\ Row(n) < Width /\ n % 4 \in 0 .. 3
      /\ n = 4 * (Width * (Group(n) - 1) + Row(n)) + (n % 4)
  BY Parts, PartsBound
<1>2. PICK g, r, c : g = Group(n) /\ r = Row(n) /\ c = n % 4
  OBVIOUS
<1>3. /\ g \in Nat \ {0} /\ r \in Nat /\ r < Width /\ c \in 0 .. 3
      /\ n = 4 * (Width * (g - 1) + r) + c /\ n + 1 \in Nat
  BY <1>1, <1>2
<1> HIDE DEF Group, Row
<1>4. CASE c # 3
  <2>1. At(n + 1, g, r, c + 1) /\ c + 1 \in 0 .. 3 /\ r \in Bit
    BY <1>0, <1>3, <1>4 DEF Bit, At
  <2>2. Group(n + 1) = g /\ Row(n + 1) = r /\ (n + 1) % 4 = c + 1
    BY <1>3, <2>1, PartsAre
  <2> QED
    BY <1>2, <1>4, <2>2
<1>5. CASE c = 3 /\ r + 1 < Width
  <2>1. At(n + 1, g, r + 1, 0) /\ r + 1 \in Bit /\ 0 \in 0 .. 3
    BY <1>0, <1>3, <1>5 DEF Bit, At
  <2>2. Group(n + 1) = g /\ Row(n + 1) = r + 1 /\ (n + 1) % 4 = 0
    BY <1>3, <2>1, PartsAre
  <2>3. r + 1 # Width
    BY <1>0, <1>3, <1>5
  <2> QED
    BY <1>2, <1>5, <2>2, <2>3
<1>6. CASE c = 3 /\ r + 1 >= Width
  <2>1. r + 1 = Width
    BY <1>0, <1>3, <1>6
  <2>2. Width * (g - 1) + Width = Width * g
    BY <1>0, <1>3
  <2>3. At(n + 1, g + 1, 0, 0) /\ 0 \in Bit /\ 0 \in 0 .. 3 /\ g + 1 \in Nat \ {0}
    BY <1>0, <1>3, <1>6, <2>1, <2>2 DEF Bit, At
  <2>4. Group(n + 1) = g + 1 /\ Row(n + 1) = 0 /\ (n + 1) % 4 = 0
    BY <1>3, <2>3, PartsAre
  <2> QED
    BY <1>0, <1>2, <1>3, <1>6, <2>4
<1> QED
  BY <1>0, <1>3, <1>4, <1>5, <1>6

LEMMA Ordered ==
  ASSUME NEW k \in Nat, NEW n \in Nat, k < n
  PROVE  /\ Group(k) <= Group(n)
         /\ Group(k) = Group(n) => /\ Row(k) <= Row(n)
                                   /\ Row(k) = Row(n) => k % 4 < n % 4
<1>0. Width \in Nat \ {0}
  BY RaidAssumption
<1>1. /\ Group(k) \in Nat \ {0} /\ Row(k) \in Nat /\ Row(k) < Width /\ k % 4 \in 0 .. 3
      /\ k = 4 * (Width * (Group(k) - 1) + Row(k)) + (k % 4)
      /\ Group(n) \in Nat \ {0} /\ Row(n) \in Nat /\ Row(n) < Width /\ n % 4 \in 0 .. 3
      /\ n = 4 * (Width * (Group(n) - 1) + Row(n)) + (n % 4)
  BY Parts, PartsBound
<1>2. PICK g, r, c, h, s, d : /\ g = Group(k) /\ r = Row(k) /\ c = k % 4
                              /\ h = Group(n) /\ s = Row(n) /\ d = n % 4
  OBVIOUS
<1>3. /\ g \in Nat \ {0} /\ r \in Nat /\ r < Width /\ c \in 0 .. 3
      /\ h \in Nat \ {0} /\ s \in Nat /\ s < Width /\ d \in 0 .. 3
      /\ k = 4 * (Width * (g - 1) + r) + c /\ n = 4 * (Width * (h - 1) + s) + d
  BY <1>1, <1>2
<1>4. g <= h
  <2>1. SUFFICES ASSUME g > h PROVE FALSE
    BY <1>3
  <2>2. Width * (g - 1) >= Width * h /\ Width * h = Width * (h - 1) + Width
    BY <1>0, <1>3, <2>1
  <2>3. PICK x, y : x = Width * (g - 1) /\ y = Width * (h - 1)
    OBVIOUS
  <2>4. x \in Int /\ y \in Int /\ x >= y + Width
    BY <1>0, <1>3, <2>2, <2>3
  <2> QED
    BY <1>0, <1>3, <2>3, <2>4
<1>5. g = h => r <= s /\ (r = s => c < d)
  <2>1. PICK x : x = Width * (g - 1)
    OBVIOUS
  <2>2. x \in Int
    BY <1>0, <1>3, <2>1
  <2> QED
    BY <1>0, <1>3, <2>1, <2>2
<1> QED
  BY <1>2, <1>4, <1>5

LEMMA PlaceIs ==
  ASSUME NEW k \in Nat
  PROVE  /\ Place(k) \in {2, 4, 5, 6} /\ Place(k) \in Col
         /\ (k % 4 = 0 <=> Place(k) = 2) /\ (k % 4 = 3 <=> Place(k) = 6)
         /\ Place(k + 1) = nn_add[Place(k)]
<1>1. k % 4 \in 0 .. 3
  OBVIOUS
<1>2. (k + 1) % 4 = IF k % 4 = 3 THEN 0 ELSE (k % 4) + 1
  OBVIOUS
<1> QED
  BY <1>1, <1>2, Tables DEF Place, Col

-----------------------------------------------------------------------------
(* The code.                                                               *)

LEMMA OddMore ==
  ASSUME NEW S, IsFiniteSet(S), NEW x, x \notin S, NEW w
  PROVE  /\ IsFiniteSet(S \cup {x})
         /\ OddIn(S \cup {x}, w)
              <=> ~(OddIn(S, w) <=> x \in w)
<1> DEFINE T == {d \in S : d \in w}
<1>1. IsFiniteSet(S \cup {x})
  BY FS_AddElement
<1>2. IsFiniteSet(T) /\ Cardinality(T) \in Nat
  <2>1. T \subseteq S
    OBVIOUS
  <2> QED
    BY <2>1, FS_Subset, FS_CardinalityType
<1>3. CASE x \in w
  <2>1. {d \in S \cup {x} : d \in w} = T \cup {x} /\ x \notin T
    BY <1>3
  <2>2. Cardinality(T \cup {x}) = Cardinality(T) + 1
    BY <1>2, <2>1, FS_AddElement
  <2> HIDE DEF T
  <2>3. Odd(T \cup {x}) <=> ~Odd(T)
    BY <1>2, <2>2 DEF Odd
  <2> QED
    BY <1>1, <1>3, <2>1, <2>3 DEF T, OddIn
<1>4. CASE x \notin w
  <2>1. {d \in S \cup {x} : d \in w} = T
    BY <1>4
  <2> QED
    BY <1>1, <1>4, <2>1 DEF OddIn
<1> QED
  BY <1>3, <1>4

Odd3(a, b, c, w) == (a \in w <=> b \in w) <=> c \in w
Odd4(a, b, c, d, w) == ~((a \in w <=> b \in w) <=> (c \in w <=> d \in w))

LEMMA OddFour ==
  ASSUME NEW a, NEW b, NEW c, NEW d, NEW w, NEW S, S = {a, b, c},
         a # b, a # c, a # d, b # c, b # d, c # d
  PROVE  /\ OddIn(S, w) <=> Odd3(a, b, c, w)
         /\ OddIn(S \cup {d}, w) <=> Odd4(a, b, c, d, w)
<1>1. IsFiniteSet({}) /\ ~OddIn({}, w)
  <2>1. {x \in {} : x \in w} = {}
    OBVIOUS
  <2> QED
    BY <2>1, FS_EmptySet DEF Odd, OddIn
<1>2. /\ IsFiniteSet({} \cup {a})
      /\ OddIn({} \cup {a}, w) <=> a \in w
  BY <1>1, OddMore
<1>3. /\ IsFiniteSet({} \cup {a} \cup {b})
      /\ OddIn({} \cup {a} \cup {b}, w) <=> ~(a \in w <=> b \in w)
  <2>1. b \notin {} \cup {a}
    OBVIOUS
  <2>2. /\ IsFiniteSet({} \cup {a} \cup {b})
        /\ OddIn({} \cup {a} \cup {b}, w)
             <=> ~(OddIn({} \cup {a}, w) <=> b \in w)
    BY <1>2, <2>1, OddMore, Zenon
  <2> QED
    BY <1>2, <2>2
<1>4. /\ IsFiniteSet({} \cup {a} \cup {b} \cup {c})
      /\ OddIn({} \cup {a} \cup {b} \cup {c}, w)
           <=> ((a \in w <=> b \in w) <=> c \in w)
  <2>1. c \notin {} \cup {a} \cup {b}
    OBVIOUS
  <2>2. /\ IsFiniteSet({} \cup {a} \cup {b} \cup {c})
        /\ OddIn({} \cup {a} \cup {b} \cup {c}, w)
             <=> ~(OddIn({} \cup {a} \cup {b}, w) <=> c \in w)
    BY <1>3, <2>1, OddMore, Zenon
  <2> QED
    BY <1>3, <2>2
<1>5. {} \cup {a} \cup {b} \cup {c} = S
  OBVIOUS
<1>6. d \notin S
  OBVIOUS
<1>7. OddIn(S \cup {d}, w) <=> ~(OddIn(S, w) <=> d \in w)
  <2>1. IsFiniteSet(S)
    BY <1>4, <1>5
  <2> QED
    BY <1>6, <2>1, OddMore, Zenon
<1> QED
  BY <1>4, <1>5, <1>7 DEF Odd3, Odd4

LEMMA Parities ==
  ASSUME NEW w
  PROVE  /\ OddIn(Covers[0], w) <=> ((2 \in w <=> 4 \in w) <=> 6 \in w)
         /\ OddIn(Covers[1], w) <=> ((2 \in w <=> 5 \in w) <=> 6 \in w)
         /\ OddIn(Covers[3], w) <=> ((4 \in w <=> 5 \in w) <=> 6 \in w)
         /\ OddIn(Covers[0] \cup {0}, w)
              <=> ~((2 \in w <=> 4 \in w) <=> (6 \in w <=> 0 \in w))
         /\ OddIn(Covers[1] \cup {1}, w)
              <=> ~((2 \in w <=> 5 \in w) <=> (6 \in w <=> 1 \in w))
         /\ OddIn(Covers[3] \cup {3}, w)
              <=> ~((4 \in w <=> 5 \in w) <=> (6 \in w <=> 3 \in w))
<1>1. /\ OddIn({2, 4, 6}, w) <=> ((2 \in w <=> 4 \in w) <=> 6 \in w)
      /\ OddIn({2, 4, 6} \cup {0}, w)
           <=> ~((2 \in w <=> 4 \in w) <=> (6 \in w <=> 0 \in w))
  <2>1. PICK S, a, b, c, d : S = {a, b, c} /\ a = 2 /\ b = 4 /\ c = 6 /\ d = 0
    OBVIOUS
  <2>2. a # b /\ a # c /\ a # d /\ b # c /\ b # d /\ c # d
    BY <2>1
  <2>3. S = {a, b, c}
    BY <2>1
  <2>4. OddIn(S, w) <=> Odd3(a, b, c, w)
    BY <2>2, <2>3, OddFour
  <2>5. OddIn(S \cup {d}, w) <=> Odd4(a, b, c, d, w)
    BY <2>2, <2>3, OddFour
  <2> QED
    BY <2>1, <2>4, <2>5 DEF Odd3, Odd4
<1>2. /\ OddIn({2, 5, 6}, w) <=> ((2 \in w <=> 5 \in w) <=> 6 \in w)
      /\ OddIn({2, 5, 6} \cup {1}, w)
           <=> ~((2 \in w <=> 5 \in w) <=> (6 \in w <=> 1 \in w))
  <2>1. PICK S, a, b, c, d : S = {a, b, c} /\ a = 2 /\ b = 5 /\ c = 6 /\ d = 1
    OBVIOUS
  <2>2. a # b /\ a # c /\ a # d /\ b # c /\ b # d /\ c # d
    BY <2>1
  <2>3. S = {a, b, c}
    BY <2>1
  <2>4. OddIn(S, w) <=> Odd3(a, b, c, w)
    BY <2>2, <2>3, OddFour
  <2>5. OddIn(S \cup {d}, w) <=> Odd4(a, b, c, d, w)
    BY <2>2, <2>3, OddFour
  <2> QED
    BY <2>1, <2>4, <2>5 DEF Odd3, Odd4
<1>3. /\ OddIn({4, 5, 6}, w) <=> ((4 \in w <=> 5 \in w) <=> 6 \in w)
      /\ OddIn({4, 5, 6} \cup {3}, w)
           <=> ~((4 \in w <=> 5 \in w) <=> (6 \in w <=> 3 \in w))
  <2>1. PICK S, a, b, c, d : S = {a, b, c} /\ a = 4 /\ b = 5 /\ c = 6 /\ d = 3
    OBVIOUS
  <2>2. a # b /\ a # c /\ a # d /\ b # c /\ b # d /\ c # d
    BY <2>1
  <2>3. S = {a, b, c}
    BY <2>1
  <2>4. OddIn(S, w) <=> Odd3(a, b, c, w)
    BY <2>2, <2>3, OddFour
  <2>5. OddIn(S \cup {d}, w) <=> Odd4(a, b, c, d, w)
    BY <2>2, <2>3, OddFour
  <2> QED
    BY <2>1, <2>4, <2>5 DEF Odd3, Odd4
<1> QED
  BY <1>1, <1>2, <1>3, Tables

LEMMA WordIs ==
  ASSUME NEW w
  PROVE  Word(w) <=> /\ (2 \in w <=> 4 \in w) <=> (6 \in w <=> 0 \in w)
                     /\ (2 \in w <=> 5 \in w) <=> (6 \in w <=> 1 \in w)
                     /\ (4 \in w <=> 5 \in w) <=> (6 \in w <=> 3 \in w)
<1>1. Word(w) <=> /\ ~OddIn(Covers[0] \cup {0}, w)
                  /\ ~OddIn(Covers[1] \cup {1}, w)
                  /\ ~OddIn(Covers[3] \cup {3}, w)
  BY DEF Word
<1> QED
  BY <1>1, Parities

\* The row of a group as a set of disks.
Ones(group, row) == {i \in Col : row \in group[i].data}

LEMMA OnesCovered ==
  ASSUME NEW group, NEW row, NEW p \in {0, 1, 3}
  PROVE  /\ {d \in Covers[p] : row \in group[d].data}
               = {d \in Covers[p] : d \in Ones(group, row)}
         /\ {d \in Covers[p] \cup {p} : row \in group[d].data}
               = {d \in Covers[p] \cup {p} : d \in Ones(group, row)}
<1>1. Covers[p] \subseteq Col /\ p \in Col
  BY Tables DEF Col
<1> QED
  BY <1>1 DEF Ones

\* The syndrome names the only disk that differs from a word, if one does.
LEMMA SyndromeIs ==
  ASSUME NEW group, NEW row, NEW w \in SUBSET Col, NEW i \in Col, Word(w),
         \A j \in Col \ {i} : j \in w <=> row \in group[j].data
  PROVE  Syndrome(group, row) = IF i \in w <=> row \in group[i].data THEN -1 ELSE i
<1> DEFINE v == Ones(group, row)
           odd(p) == OddIn(Covers[p] \cup {p}, v)
<1>1. Syndrome(group, row) = (IF odd(0) THEN 1 ELSE 0) + (IF odd(1) THEN 2 ELSE 0)
                               + (IF odd(3) THEN 4 ELSE 0) - 1
  <2> DEFINE wrong(p) == Odd({d \in Covers[p] \cup {p} : row \in group[d].data})
             term(p) == IF wrong(p) THEN Weight[p] ELSE 0
  <2>1. Syndrome(group, row) = term(0) + term(1) + term(3) - 1
    BY DEF Syndrome
  <2>2. ASSUME NEW p \in {0, 1, 3} PROVE wrong(p) <=> odd(p)
    <3>1. {d \in Covers[p] \cup {p} : row \in group[d].data}
            = {d \in Covers[p] \cup {p} : d \in v}
      BY OnesCovered
    <3> QED
      BY <3>1 DEF OddIn
  <2> HIDE DEF wrong, odd
  <2> QED
    BY <2>1, <2>2, Tables
<1>2. /\ odd(0) <=> ~((2 \in v <=> 4 \in v) <=> (6 \in v <=> 0 \in v))
      /\ odd(1) <=> ~((2 \in v <=> 5 \in v) <=> (6 \in v <=> 1 \in v))
      /\ odd(3) <=> ~((4 \in v <=> 5 \in v) <=> (6 \in v <=> 3 \in v))
  BY Parities
<1>3. \A j \in Col \ {i} : j \in w <=> j \in v
  BY DEF Ones
<1>4. i \in v <=> row \in group[i].data
  BY DEF Ones
<1>5. i \in {0, 1, 2, 3, 4, 5, 6} /\ Col = {0, 1, 2, 3, 4, 5, 6}
  BY DEF Col
<1> HIDE DEF v, odd
<1> QED
  BY <1>1, <1>2, <1>3, <1>4, <1>5, WordIs

LEMMA PutIs ==
  ASSUME NEW data \in SUBSET Bit, NEW row \in Bit, NEW one \in BOOLEAN
  PROVE  /\ Put(data, row, one) \in SUBSET Bit
         /\ \A x \in Bit \ {row} : x \in Put(data, row, one) <=> x \in data
         /\ row \in Put(data, row, one) <=> one
BY DEF Put

LEMMA DiskIs ==
  ASSUME NEW disk \in Disk, NEW d \in SUBSET Bit, NEW new, new = [disk EXCEPT !.data = d]
  PROVE  /\ new \in Disk /\ new.data = d
         /\ new.now = disk.now /\ new.dirty = disk.dirty
BY DEF Disk

LEMMA HammingIs ==
  ASSUME NEW group \in [Col -> Disk], NEW row \in Bit
  PROVE  /\ Hamming(group, row) \in [Col -> Disk]
         /\ \A i \in Col : /\ Hamming(group, row)[i].now = group[i].now
                           /\ Hamming(group, row)[i].dirty = group[i].dirty
                           /\ \A x \in Bit \ {row} : x \in Hamming(group, row)[i].data
                                                      <=> x \in group[i].data
         /\ \A i \in {2, 4, 5, 6} : Hamming(group, row)[i] = group[i]
         /\ Word(Ones(Hamming(group, row), row))
<1> DEFINE h == Hamming(group, row)
           v == Ones(group, row)
           odd(i) == Odd({d \in Covers[i] : row \in group[d].data})
<1>1. ASSUME NEW i \in Col
      PROVE  h[i] = IF i \in {0, 1, 3}
                      THEN [group[i] EXCEPT !.data = Put(@, row, odd(i))] ELSE group[i]
  BY Tables DEF Hamming
<1>2. h = [i \in Col |-> h[i]]
  BY DEF Hamming
<1>3. \A i \in Col : group[i] \in [dirty : BOOLEAN, now : 0 .. Width, data : SUBSET Bit]
  BY DEF Disk
<1> HIDE DEF h
<1>4. ASSUME NEW i \in Col
      PROVE  /\ h[i] \in Disk /\ h[i].now = group[i].now /\ h[i].dirty = group[i].dirty
             /\ \A x \in Bit \ {row} : x \in h[i].data <=> x \in group[i].data
             /\ i \notin {0, 1, 3} => h[i] = group[i]
             /\ i \in {0, 1, 3} => (row \in h[i].data <=> odd(i))
  <2>1. odd(i) \in BOOLEAN
    BY DEF Odd
  <2> HIDE DEF odd
  <2>2. CASE i \in {0, 1, 3}
    <3>1. h[i] = [group[i] EXCEPT !.data = Put(group[i].data, row, odd(i))]
      BY <1>1, <1>4, <2>2
    <3>2. /\ group[i] \in [dirty : BOOLEAN, now : 0 .. Width, data : SUBSET Bit]
          /\ group[i].data \in SUBSET Bit
      BY <1>3, <1>4
    <3> DEFINE d == Put(group[i].data, row, odd(i))
    <3>3. /\ d \in SUBSET Bit /\ (row \in d <=> odd(i))
          /\ \A x \in Bit \ {row} : x \in d <=> x \in group[i].data
      BY <2>1, <3>2, PutIs
    <3>4. h[i] = [group[i] EXCEPT !.data = d] /\ group[i] \in Disk
      BY <1>4, <3>1
    <3> HIDE DEF d
    <3>5. /\ h[i] \in Disk /\ h[i].data = d /\ h[i].now = group[i].now
          /\ h[i].dirty = group[i].dirty
      <4>1. PICK g, new : g = group[i] /\ new = h[i]
        OBVIOUS
      <4>2. g \in Disk /\ new = [g EXCEPT !.data = d]
        BY <3>4, <4>1
      <4>3. /\ new \in Disk /\ new.data = d
            /\ new.now = g.now /\ new.dirty = g.dirty
        BY <3>3, <4>2, DiskIs
      <4> QED
        BY <4>1, <4>3
    <3> QED
      BY <2>2, <3>3, <3>5
  <2>3. CASE i \notin {0, 1, 3}
    <3>1. h[i] = group[i]
      BY <1>1, <1>4, <2>3
    <3> QED
      BY <2>3, <3>1
  <2> QED
    BY <2>2, <2>3
<1>5. h \in [Col -> Disk]
  BY <1>2, <1>4
<1>6. \A i \in {2, 4, 5, 6} : i \in Col /\ h[i] = group[i]
  <2>1. \A i \in {2, 4, 5, 6} : i \in Col /\ i \notin {0, 1, 3}
    BY DEF Col
  <2> QED
    BY <1>4, <2>1
<1>7. Word(Ones(h, row))
  <2>1. ASSUME NEW i \in {0, 1, 3} PROVE odd(i) <=> OddIn(Covers[i], v)
    <3>1. {d \in Covers[i] : row \in group[d].data} = {d \in Covers[i] : d \in v}
      BY <2>1, OnesCovered
    <3> QED
      BY <3>1 DEF OddIn
  <2>2. \A i \in {2, 4, 5, 6} : i \in Ones(h, row) <=> i \in v
    BY <1>6 DEF Ones
  <2>3. \A i \in {0, 1, 3} : i \in Ones(h, row) <=> odd(i)
    <3>1. \A i \in {0, 1, 3} : i \in Col
      BY DEF Col
    <3> QED
      BY <1>4, <3>1 DEF Ones
  <2> HIDE DEF odd, v
  <2>4. /\ 0 \in Ones(h, row) <=> ((2 \in v <=> 4 \in v) <=> 6 \in v)
        /\ 1 \in Ones(h, row) <=> ((2 \in v <=> 5 \in v) <=> 6 \in v)
        /\ 3 \in Ones(h, row) <=> ((4 \in v <=> 5 \in v) <=> 6 \in v)
    BY <2>1, <2>3, Parities
  <2> DEFINE o == Ones(h, row)
  <2> HIDE DEF o
  <2>5. /\ (2 \in o <=> 2 \in v) /\ (4 \in o <=> 4 \in v)
        /\ (5 \in o <=> 5 \in v) /\ (6 \in o <=> 6 \in v)
    BY <2>2 DEF o
  <2>6. Word(o)
    BY <2>4, <2>5, WordIs DEF o
  <2> QED
    BY <2>6 DEF o
<1> QED
  BY <1>4, <1>5, <1>6, <1>7 DEF h

-----------------------------------------------------------------------------
(* One bit.                                                                *)

\* What AddBit makes of the last group, by the number of bits before.
Added(group, old, n, a, e) ==
  /\ group \in [Col -> Disk]
  /\ \A i \in Col :
       /\ group[i].now = old[i].now + (IF i = Place(n) THEN 1 ELSE 0)
       /\ group[i].dirty = old[i].dirty
       /\ \A x \in Bit \ {Row(n)} : x \in group[i].data <=> x \in old[i].data
  /\ \A i \in {2, 4, 5, 6} :
       Row(n) \in group[i].data <=>
         IF i = Place(n) THEN a[e] = 1 ELSE Row(n) \in old[i].data
  /\ e = Len(a) \/ n % 4 = 3 => Word(Ones(group, Row(n)))

AddsBit(rows, st, n, a, e) ==
  /\ st.col = Place(n + 1)
  /\ \E group :
       /\ Added(group, rows[Len(rows)], n, a, e)
       /\ st.disks = IF n % 4 = 3 /\ Row(n) + 1 = Width
                       THEN Append([rows EXCEPT ![Len(rows)] = group], NewGroup)
                       ELSE [rows EXCEPT ![Len(rows)] = group]

LEMMA AddBitIs ==
  ASSUME NEW from, NEW n \in Nat, Shape(from.disks, from.col, n),
         NEW a \in Seq({0, 1}), NEW e \in DOMAIN a,
         NEW st, st = AddBit(from, a, e)
  PROVE  AddsBit(from.disks, st, n, a, e)
<1> DEFINE rows == from.disks
           L == Len(rows)
           col == from.col
           old == rows[L]
           disk == old[col]
           put == [old EXCEPT ![col] =
                     [disk EXCEPT !.data = Put(@, disk.now, a[e] = 1), !.now = @ + 1]]
           group == IF e = Len(a) \/ nn_add[col] = 2 THEN Hamming(put, put[2].now - 1) ELSE put
<1>1. st = [disks |-> IF (e = Len(a) \/ nn_add[col] = 2) /\ group[6].now = Width
                        THEN Append([rows EXCEPT ![L] = group], NewGroup)
                        ELSE [rows EXCEPT ![L] = group],
            col |-> nn_add[col]]
  BY DEF AddBit
<1>2. /\ Group(n) \in Nat \ {0} /\ Row(n) \in Nat /\ Row(n) < Width /\ n % 4 \in 0 .. 3
      /\ Row(n) \in Bit /\ Width \in Nat
  BY Parts, PartsBound, RaidAssumption
<1>3. /\ col = Place(n) /\ rows \in Seq([Col -> Disk]) /\ L \in Nat \ {0} /\ L \in DOMAIN rows
      /\ old \in [Col -> Disk]
  BY <1>2 DEF Shape
<1>4. /\ col \in {2, 4, 5, 6} /\ col \in Col /\ Place(n + 1) = nn_add[col]
      /\ (nn_add[col] = 2 <=> n % 4 = 3)
  <2>1. /\ col \in {2, 4, 5, 6} /\ col \in Col /\ Place(n + 1) = nn_add[col]
        /\ (n % 4 = 3 <=> col = 6)
    BY <1>3, PlaceIs
  <2> QED
    BY <2>1, Tables
<1>5. \A j \in 1 .. 4 : old[DataCols[j]].now = Row(n) + (IF j <= n % 4 THEN 1 ELSE 0)
  BY <1>3 DEF Shape
<1>6. /\ disk.now = Row(n) /\ old[2].now = Row(n) + (IF n % 4 = 0 THEN 0 ELSE 1)
      /\ old[6].now = Row(n)
  <2>1. (n % 4) + 1 \in 1 .. 4 /\ col = DataCols[(n % 4) + 1]
    BY <1>2, <1>3 DEF Place
  <2> QED
    <3>1. old[col].now = Row(n)
      <4>1. PICK j \in 1 .. 4 : j = (n % 4) + 1
        BY <2>1
      <4>2. old[DataCols[j]].now = Row(n) + (IF j <= n % 4 THEN 1 ELSE 0)
        BY <1>5
      <4> QED
        BY <1>2, <2>1, <4>1, <4>2
    <3>2. old[2].now = Row(n) + (IF 1 <= n % 4 THEN 1 ELSE 0)
      BY <1>5, Tables
    <3>3. old[6].now = Row(n) + (IF 4 <= n % 4 THEN 1 ELSE 0)
      BY <1>5, Tables
    <3> QED
      BY <1>2, <3>1, <3>2, <3>3
<1> HIDE DEF group, rows, L, col
<1>7. /\ put \in [Col -> Disk]
      /\ \A i \in Col :
           /\ put[i].now = old[i].now + (IF i = col THEN 1 ELSE 0)
           /\ put[i].dirty = old[i].dirty
           /\ \A x \in Bit \ {Row(n)} : x \in put[i].data <=> x \in old[i].data
           /\ Row(n) \in put[i].data <=>
                IF i = col THEN a[e] = 1 ELSE Row(n) \in old[i].data
  <2>1. \A i \in Col : old[i] \in [dirty : BOOLEAN, now : 0 .. Width, data : SUBSET Bit]
    BY <1>3 DEF Disk
  <2>2. /\ put[col] = [disk EXCEPT !.data = Put(@, disk.now, a[e] = 1), !.now = @ + 1]
        /\ \A i \in Col \ {col} : put[i] = old[i]
        /\ put = [i \in Col |-> put[i]]
    BY <1>3, <1>4
  <2> HIDE DEF put, old
  <2>3. /\ put[col] \in Disk /\ put[col].now = old[col].now + 1
        /\ put[col].dirty = old[col].dirty
        /\ \A x \in Bit \ {Row(n)} : x \in put[col].data <=> x \in old[col].data
        /\ Row(n) \in put[col].data <=> a[e] = 1
    <3> DEFINE d == Put(disk.data, disk.now, a[e] = 1)
    <3>1. disk \in [dirty : BOOLEAN, now : 0 .. Width, data : SUBSET Bit] /\ disk.now = Row(n)
      BY <1>4, <1>6, <2>1
    <3>2. /\ d \in SUBSET Bit /\ (Row(n) \in d <=> a[e] = 1)
          /\ \A x \in Bit \ {Row(n)} : x \in d <=> x \in disk.data
      <4>1. d = IF a[e] = 1 THEN disk.data \cup {Row(n)} ELSE disk.data \ {Row(n)}
        BY <3>1 DEF Put
      <4>2. disk.data \in SUBSET Bit
        BY <3>1
      <4> HIDE DEF d, disk
      <4> QED
        BY <1>2, <4>1, <4>2
    <3>3. put[col] = [disk EXCEPT !.data = d, !.now = disk.now + 1]
      BY <2>2
    <3> HIDE DEF d, disk
    <3>4. /\ put[col] \in Disk /\ put[col].now = disk.now + 1
          /\ put[col].dirty = disk.dirty /\ put[col].data = d
      <4>1. disk.now + 1 \in 0 .. Width
        BY <1>2, <3>1
      <4>2. disk = [dirty |-> disk.dirty, now |-> disk.now, data |-> disk.data]
        BY <3>1
      <4>3. put[col] = [dirty |-> disk.dirty, now |-> disk.now + 1, data |-> d]
        BY <3>3, <4>2
      <4> QED
        BY <3>1, <3>2, <4>1, <4>3 DEF Disk
    <3> QED
      BY <3>2, <3>4 DEF disk
  <2>4. ASSUME NEW i \in Col \ {col} PROVE put[i] \in Disk /\ put[i] = old[i]
    BY <1>3, <2>2 DEF old
  <2>5. \A i \in Col : old[i].now \in Int
    BY <2>1
  <2>6. put \in [Col -> Disk]
    BY <2>2, <2>3, <2>4
  <2> QED
    BY <2>3, <2>4, <2>5, <2>6
<1>8. put[2].now - 1 = Row(n)
  <2>1. 2 \in Col /\ (col = 2 <=> n % 4 = 0)
    <3>1. Place(n) = 2 <=> n % 4 = 0
      BY PlaceIs
    <3> QED
      BY <1>3, <3>1 DEF Col
  <2>2. put[2].now = old[2].now + (IF 2 = col THEN 1 ELSE 0)
    BY <1>7, <2>1
  <2> HIDE DEF put, old
  <2> QED
    BY <1>2, <1>6, <2>1, <2>2
<1> HIDE DEF put, old
<1> SUFFICES /\ st.col = Place(n + 1)
             /\ \E g : /\ Added(g, old, n, a, e)
                       /\ st.disks = IF n % 4 = 3 /\ Row(n) + 1 = Width
                                      THEN Append([rows EXCEPT ![L] = g], NewGroup)
                                      ELSE [rows EXCEPT ![L] = g]
  BY DEF AddsBit, old, rows, L
<1>9. CASE e = Len(a) \/ n % 4 = 3
  <2>1. group = Hamming(put, Row(n))
    BY <1>4, <1>8, <1>9 DEF group
  <2>2. Added(group, old, n, a, e)
    <3>1. \A i \in {2, 4, 5, 6} : i \in Col /\ group[i] = put[i]
      BY <1>2, <1>7, <2>1, HammingIs DEF Col
    <3> QED
      <4>1. /\ group \in [Col -> Disk] /\ Word(Ones(group, Row(n)))
            /\ \A i \in Col : /\ group[i].now = put[i].now /\ group[i].dirty = put[i].dirty
                              /\ \A x \in Bit \ {Row(n)} : x \in group[i].data
                                                            <=> x \in put[i].data
        BY <1>2, <1>7, <2>1, HammingIs
      <4>2. /\ \A i \in Col :
                 /\ group[i].now = old[i].now + (IF i = Place(n) THEN 1 ELSE 0)
                 /\ group[i].dirty = old[i].dirty
                 /\ \A x \in Bit \ {Row(n)} : x \in group[i].data <=> x \in old[i].data
            /\ \A i \in {2, 4, 5, 6} :
                 Row(n) \in group[i].data <=>
                   IF i = Place(n) THEN a[e] = 1 ELSE Row(n) \in old[i].data
        BY <1>3, <1>7, <3>1, <4>1
      <4> QED
        BY <4>1, <4>2 DEF Added
  <2>3. group[6].now = Row(n) + (IF n % 4 = 3 THEN 1 ELSE 0)
    <3>1. 6 \in Col /\ (col = 6 <=> n % 4 = 3)
      BY <1>4, Tables DEF Col
    <3>2. group[6].now = old[6].now + (IF 6 = col THEN 1 ELSE 0)
      BY <1>3, <2>2, <3>1 DEF Added
    <3> QED
      BY <1>2, <1>6, <3>1, <3>2
  <2>4. group[6].now = Width <=> n % 4 = 3 /\ Row(n) + 1 = Width
    BY <1>2, <2>3
  <2>5. /\ st.col = Place(n + 1)
        /\ st.disks = IF n % 4 = 3 /\ Row(n) + 1 = Width
                        THEN Append([rows EXCEPT ![L] = group], NewGroup)
                        ELSE [rows EXCEPT ![L] = group]
    <3>1. (e = Len(a) \/ nn_add[col] = 2) /\ group[6].now = Width
            <=> n % 4 = 3 /\ Row(n) + 1 = Width
      BY <1>4, <1>9, <2>4
    <3>2. st.col = nn_add[col]
      BY <1>1
    <3>3. st.disks = IF (e = Len(a) \/ nn_add[col] = 2) /\ group[6].now = Width
                       THEN Append([rows EXCEPT ![L] = group], NewGroup)
                       ELSE [rows EXCEPT ![L] = group]
      BY <1>1
    <3> QED
      BY <1>4, <3>1, <3>2, <3>3
  <2> QED
    BY <2>2, <2>5
<1>10. CASE e # Len(a) /\ n % 4 # 3
  <2>1. group = put
    BY <1>4, <1>10 DEF group
  <2>2. Added(group, old, n, a, e)
    <3>1. \A i \in {2, 4, 5, 6} : i \in Col
      BY DEF Col
    <3> QED
      BY <1>3, <1>7, <1>10, <2>1, <3>1 DEF Added
  <2> QED
    BY <1>1, <1>4, <1>10, <2>2
<1> QED
  BY <1>9, <1>10

LEMMA ColsAre ==
  ASSUME NEW n \in Nat, NEW j \in 1 .. 4
  PROVE  DataCols[j] \in {2, 4, 5, 6} /\ DataCols[j] \in Col
         /\ (DataCols[j] = Place(n) <=> j = (n % 4) + 1)
<1>1. n % 4 \in 0 .. 3
  OBVIOUS
<1>2. PICK c \in 1 .. 4 : c = (n % 4) + 1
  BY <1>1
<1>3. Place(n) = DataCols[c]
  BY <1>2 DEF Place
<1> QED
  BY <1>2, <1>3, Tables DEF Col

LEMMA NewGroupIs ==
  /\ NewGroup \in [Col -> Disk]
  /\ \A i \in Col : NewGroup[i].now = 0 /\ ~NewGroup[i].dirty
BY RaidAssumption DEF NewGroup, Disk

LEMMA AddShape ==
  ASSUME NEW rows, NEW col, NEW n \in Nat, Shape(rows, col, n),
         NEW a \in Seq({0, 1}), NEW e \in DOMAIN a,
         NEW st, AddsBit(rows, st, n, a, e)
  PROVE  Shape(st.disks, st.col, n + 1)
<1>0. PICK L : L = Len(rows)
  OBVIOUS
<1>1. AddsBit(rows, st, n, a, e)
  OBVIOUS
<1>2. PICK group : /\ Added(group, rows[L], n, a, e)
                   /\ st.disks = IF n % 4 = 3 /\ Row(n) + 1 = Width
                                   THEN Append([rows EXCEPT ![L] = group], NewGroup)
                                   ELSE [rows EXCEPT ![L] = group]
  BY <1>0, <1>1 DEF AddsBit
<1>3. /\ Group(n) \in Nat \ {0} /\ Row(n) \in Nat /\ Row(n) < Width /\ n % 4 \in 0 .. 3
      /\ Width \in Nat
  BY PartsBound, RaidAssumption
<1>4. /\ rows \in Seq([Col -> Disk]) /\ L = Group(n) /\ L \in DOMAIN rows /\ DOMAIN rows = 1 .. L
      /\ group \in [Col -> Disk]
  BY <1>0, <1>2, <1>3 DEF Shape, Added
<1> DEFINE put == [rows EXCEPT ![L] = group]
<1>5. /\ put \in Seq([Col -> Disk]) /\ Len(put) = L /\ DOMAIN put = 1 .. L
      /\ put[L] = group /\ \A g \in 1 .. L - 1 : put[g] = rows[g]
  BY <1>3, <1>4
<1>6. ASSUME NEW g \in 1 .. L - 1, NEW j \in 1 .. 4
      PROVE  put[g][DataCols[j]].now = Width
  <2>1. g \in DOMAIN rows /\ g < Len(rows) /\ put[g] = rows[g]
    BY <1>0, <1>3, <1>4, <1>5, <1>6
  <2>2. rows[g][DataCols[j]].now = Width
    BY <1>0, <1>6, <2>1 DEF Shape
  <2> HIDE DEF put
  <2> QED
    BY <2>1, <2>2
<1>7. ASSUME NEW j \in 1 .. 4
      PROVE  put[L][DataCols[j]].now = Row(n) + (IF j <= (n % 4) + 1 THEN 1 ELSE 0)
  <2>1. rows[L][DataCols[j]].now = Row(n) + (IF j <= n % 4 THEN 1 ELSE 0)
    BY <1>0, <1>4, <1>7 DEF Shape
  <2>2. /\ DataCols[j] \in Col
        /\ DataCols[j] = Place(n) <=> j = (n % 4) + 1
    BY ColsAre
  <2>3. group[DataCols[j]].now
          = rows[L][DataCols[j]].now + (IF DataCols[j] = Place(n) THEN 1 ELSE 0)
    BY <1>2, <2>2 DEF Added
  <2> HIDE DEF put
  <2> QED
    BY <1>3, <1>5, <2>1, <2>2, <2>3
<1> HIDE DEF put
<1>8. CASE n % 4 = 3 /\ Row(n) + 1 = Width
  <2>1. st.disks = Append(put, NewGroup)
    BY <1>2, <1>8 DEF put
  <2>2. /\ st.disks \in Seq([Col -> Disk]) /\ Len(st.disks) = L + 1
        /\ DOMAIN st.disks = 1 .. L + 1 /\ st.disks[L + 1] = NewGroup
        /\ \A g \in 1 .. L : st.disks[g] = put[g]
    BY <1>5, <2>1, NewGroupIs
  <2>3. Group(n + 1) = L + 1 /\ Row(n + 1) = 0 /\ (n + 1) % 4 = 0
    BY <1>3, <1>4, <1>8, NextPlace
  <2>4. ASSUME NEW g \in 1 .. L + 1, NEW j \in 1 .. 4
        PROVE  st.disks[g][DataCols[j]].now = IF g < L + 1 THEN Width ELSE 0
    <3>1. CASE g = L + 1
      <4>1. st.disks[g] = NewGroup /\ ~(g < L + 1)
        BY <1>3, <1>4, <2>2, <3>1
      <4>2. NewGroup[DataCols[j]].now = 0
        BY ColsAre, NewGroupIs
      <4> QED
        BY <4>1, <4>2
    <3>2. CASE g = L
      <4>1. put[L][DataCols[j]].now = Width
        <5>1. Row(n) + (IF j <= (n % 4) + 1 THEN 1 ELSE 0) = Width
          BY <1>3, <1>8
        <5> QED
          BY <1>7, <5>1
      <4>2. L \in 1 .. L /\ g < L + 1
        BY <1>3, <1>4, <3>2
      <4> QED
        BY <2>2, <3>2, <4>1, <4>2
    <3>3. CASE g < L
      <4>1. g \in 1 .. L /\ g \in 1 .. L - 1 /\ g < L + 1
        BY <1>3, <1>4, <2>4, <3>3
      <4> QED
        <5>1. st.disks[g] = put[g] /\ put[g][DataCols[j]].now = Width
          BY <1>6, <2>2, <4>1
        <5> QED
          BY <4>1, <5>1
    <3> QED
      BY <1>3, <1>4, <2>4, <3>1, <3>2, <3>3
  <2>5. ASSUME NEW g \in DOMAIN st.disks, NEW j \in 1 .. 4
        PROVE  st.disks[g][DataCols[j]].now =
                 IF g < Len(st.disks) THEN Width
                 ELSE Row(n + 1) + (IF j <= (n + 1) % 4 THEN 1 ELSE 0)
    <3>1. g \in 1 .. L + 1
      BY <2>2, <2>5
    <3>2. st.disks[g][DataCols[j]].now = IF g < L + 1 THEN Width ELSE 0
      BY <2>4, <3>1
    <3>3. Row(n + 1) + (IF j <= (n + 1) % 4 THEN 1 ELSE 0) = 0
      BY <2>3
    <3> QED
      BY <2>2, <3>2, <3>3
  <2> QED
    BY <1>1, <2>2, <2>3, <2>5 DEF Shape, AddsBit
<1>9. CASE ~(n % 4 = 3 /\ Row(n) + 1 = Width)
  <2>1. st.disks = put
    BY <1>2, <1>9 DEF put
  <2>2. /\ Group(n + 1) = L
        /\ \A j \in 1 .. 4 : Row(n) + (IF j <= (n % 4) + 1 THEN 1 ELSE 0)
                               = Row(n + 1) + (IF j <= (n + 1) % 4 THEN 1 ELSE 0)
    <3>1. CASE n % 4 = 3
      <4>1. Group(n + 1) = L /\ Row(n + 1) = Row(n) + 1 /\ (n + 1) % 4 = 0
        <5>1. Row(n) + 1 < Width
          BY <1>3, <1>9, <3>1
        <5> QED
          BY <1>4, <3>1, <5>1, NextPlace
      <4> QED
        BY <1>3, <3>1, <4>1
    <3>2. CASE n % 4 # 3
      <4>1. Group(n + 1) = L /\ Row(n + 1) = Row(n) /\ (n + 1) % 4 = (n % 4) + 1
        BY <1>3, <1>4, <1>9, <3>2, NextPlace
      <4> QED
        BY <1>3, <3>2, <4>1
    <3> QED
      BY <3>1, <3>2
  <2>3. ASSUME NEW g \in DOMAIN st.disks, NEW j \in 1 .. 4
        PROVE  st.disks[g][DataCols[j]].now =
                 IF g < Len(st.disks) THEN Width
                 ELSE Row(n + 1) + (IF j <= (n + 1) % 4 THEN 1 ELSE 0)
    <3>1. CASE g = L
      <4>1. st.disks[g] = put[L] /\ ~(g < Len(st.disks))
        BY <1>3, <1>4, <1>5, <2>1, <3>1
      <4>2. put[L][DataCols[j]].now = Row(n) + (IF j <= (n % 4) + 1 THEN 1 ELSE 0)
        BY <1>7
      <4> QED
        BY <2>2, <4>1, <4>2
    <3>2. CASE g # L
      <4>1. g \in 1 .. L - 1 /\ g < Len(st.disks) /\ st.disks[g] = put[g]
        BY <1>3, <1>4, <1>5, <2>1, <3>2
      <4> QED
        BY <1>6, <4>1
    <3> QED
      BY <3>1, <3>2
  <2> QED
    BY <1>1, <1>5, <2>1, <2>2, <2>3 DEF Shape, AddsBit
<1> QED
  BY <1>8, <1>9

\* The bits of the row that is being written are on the disks.
InRow(rows, s) ==
  \A k \in 0 .. Len(s) - 1 :
    Group(k) = Len(rows) /\ Row(k) = Row(Len(s)) =>
      (Row(k) \in rows[Len(rows)][Place(k)].data <=> s[k + 1] = 1)

LEMMA PlacesDiffer ==
  ASSUME NEW k \in Nat, NEW n \in Nat, k % 4 # n % 4
  PROVE  Place(k) # Place(n)
<1>1. k % 4 \in 0 .. 3 /\ n % 4 \in 0 .. 3
  OBVIOUS
<1>2. PICK c, d : c = k % 4 /\ d = n % 4
  OBVIOUS
<1>3. DataCols[c + 1] # DataCols[d + 1]
  BY <1>1, <1>2, Tables
<1> QED
  BY <1>2, <1>3 DEF Place

\* A bit more elsewhere, and a group that has not changed in this row.
LEMMA OriginalKept ==
  ASSUME NEW s, NEW t, NEW n \in Nat, Len(s) = n, Len(t) = n + 1,
         \A k \in 0 .. n - 1 : t[k + 1] = s[k + 1],
         NEW w, NEW old, NEW group, NEW g, NEW row,
         Original(w, old, g, row, s), Group(n) # g \/ Row(n) # row,
         \A i \in Col : /\ group[i].dirty = old[i].dirty
                        /\ row \in group[i].data <=> row \in old[i].data
  PROVE  Original(w, group, g, row, t)
<1>1. ASSUME NEW k \in 0 .. Len(t) - 1, Group(k) = g, Row(k) = row
      PROVE  Place(k) \in w <=> t[k + 1] = 1
  <2>1. k # n
    BY <1>1
  <2>2. k \in 0 .. n - 1 /\ k \in 0 .. Len(s) - 1
    BY <1>1, <2>1
  <2> QED
    BY <1>1, <2>2 DEF Original
<1>2. ASSUME NEW i \in Col
      PROVE  group[i].dirty \/ (i \in w <=> row \in group[i].data)
  <2>1. old[i].dirty \/ (i \in w <=> row \in old[i].data)
    BY DEF Original
  <2>2. group[i].dirty = old[i].dirty /\ (row \in group[i].data <=> row \in old[i].data)
    BY Zenon
  <2> QED
    BY <2>1, <2>2, Zenon
<1> QED
  BY <1>1, <1>2 DEF Original

\* The rows of the last group that have parities after n bits, bit e of a the last.
Done(n, a, e) == IF e = Len(a) /\ n % 4 # 0 THEN Row(n) + 1 ELSE Row(n)

LEMMA AddKnown ==
  ASSUME NEW rows, NEW col, NEW n \in Nat, Shape(rows, col, n),
         NEW a \in Seq({0, 1}), NEW e \in DOMAIN a,
         NEW st, AddsBit(rows, st, n, a, e),
         NEW s \in Seq({0, 1}), Len(s) = n,
         Known(rows, s, Row(n)), InRow(rows, s),
         NEW t, t = Append(s, a[e])
  PROVE  /\ Known(st.disks, t, Done(n + 1, a, e))
         /\ e # Len(a) => InRow(st.disks, t)
<1>0. PICK L : L = Len(rows)
  OBVIOUS
<1>1. AddsBit(rows, st, n, a, e)
  OBVIOUS
<1>2. PICK group : /\ Added(group, rows[L], n, a, e)
                   /\ st.disks = IF n % 4 = 3 /\ Row(n) + 1 = Width
                                   THEN Append([rows EXCEPT ![L] = group], NewGroup)
                                   ELSE [rows EXCEPT ![L] = group]
  BY <1>0, <1>1 DEF AddsBit
<1>3. /\ Group(n) \in Nat \ {0} /\ Row(n) \in Nat /\ Row(n) < Width /\ n % 4 \in 0 .. 3
      /\ Width \in Nat /\ Row(n) \in Bit
  BY Parts, PartsBound, RaidAssumption
<1>4. /\ rows \in Seq([Col -> Disk]) /\ L = Group(n) /\ L \in DOMAIN rows /\ DOMAIN rows = 1 .. L
      /\ group \in [Col -> Disk]
  BY <1>0, <1>2, <1>3 DEF Shape, Added
<1> DEFINE put == [rows EXCEPT ![L] = group]
<1>5. /\ put \in Seq([Col -> Disk]) /\ Len(put) = L /\ DOMAIN put = 1 .. L
      /\ put[L] = group /\ \A g \in 1 .. L - 1 : put[g] = rows[g]
  BY <1>3, <1>4
<1> HIDE DEF put
<1>6. /\ Len(t) = n + 1 /\ t[n + 1] = a[e]
      /\ \A k \in 0 .. n - 1 : t[k + 1] = s[k + 1]
  <2>1. a[e] \in {0, 1}
    OBVIOUS
  <2> QED
    BY <2>1
<1>7. ASSUME NEW k \in 0 .. n, Group(k) = L, Row(k) = Row(n)
      PROVE  Row(n) \in group[Place(k)].data <=> t[k + 1] = 1
  <2>1. Place(k) \in {2, 4, 5, 6}
    BY <1>7, PlaceIs
  <2>2. Row(n) \in group[Place(k)].data <=>
          IF Place(k) = Place(n) THEN a[e] = 1 ELSE Row(n) \in rows[L][Place(k)].data
    BY <1>2, <2>1 DEF Added
  <2>3. CASE k = n
    BY <1>6, <2>2, <2>3
  <2>4. CASE k # n
    <3>1. k \in 0 .. n - 1 /\ k \in Nat /\ k < n
      BY <2>4
    <3>2. k % 4 < n % 4
      BY <1>4, <1>7, <3>1, Ordered
    <3>3. Place(k) # Place(n)
      <4>1. k % 4 # n % 4
        BY <1>3, <3>2
      <4> QED
        BY <3>1, <4>1, PlacesDiffer
    <3>4. Row(n) \in rows[L][Place(k)].data <=> s[k + 1] = 1
      BY <1>0, <1>7, <3>1 DEF InRow
    <3> QED
      BY <1>6, <2>2, <3>1, <3>3, <3>4
  <2> QED
    BY <2>3, <2>4
<1>8. ASSUME NEW g \in 1 .. L - 1, NEW row \in 0 .. Width - 1
      PROVE  \E w \in SUBSET Col : Original(w, put[g], g, row, t)
  <2>1. g \in DOMAIN rows /\ g < Len(rows)
    BY <1>0, <1>3, <1>4, <1>8
  <2>2. PICK w \in SUBSET Col : Original(w, rows[g], g, row, s)
    BY <1>0, <1>8, <2>1 DEF Known
  <2>3. Group(n) # g /\ put[g] = rows[g]
    BY <1>3, <1>4, <1>5, <1>8
  <2>4. Original(w, put[g], g, row, t)
    BY <1>6, <2>2, <2>3, OriginalKept
  <2> QED
    BY <2>4
<1>9. ASSUME NEW row \in 0 .. Row(n) - 1
      PROVE  \E w \in SUBSET Col : Original(w, put[L], L, row, t)
  <2>1. ~(L < Len(rows)) /\ row # Row(n) /\ row \in Bit
    BY <1>0, <1>3, <1>4, <1>9 DEF Bit
  <2>2. PICK w \in SUBSET Col : Original(w, rows[L], L, row, s)
    BY <1>0, <1>4, <1>9, <2>1 DEF Known
  <2>3. \A i \in Col : /\ group[i].dirty = rows[L][i].dirty
                       /\ row \in group[i].data <=> row \in rows[L][i].data
    BY <1>2, <2>1 DEF Added
  <2>4. Original(w, group, L, row, t)
    BY <1>6, <2>1, <2>2, <2>3, OriginalKept
  <2> QED
    BY <1>5, <2>4
<1>10. ASSUME e = Len(a) \/ n % 4 = 3
       PROVE  \E w \in SUBSET Col : Original(w, put[L], L, Row(n), t)
  <2> DEFINE w == Ones(group, Row(n))
  <2>1. w \in SUBSET Col /\ Word(w)
    BY <1>2, <1>10 DEF Added, Ones
  <2>2. \A i \in Col : i \in w <=> Row(n) \in group[i].data
    BY DEF Ones
  <2>3. ASSUME NEW k \in 0 .. Len(t) - 1, Group(k) = L, Row(k) = Row(n)
        PROVE  Place(k) \in w <=> t[k + 1] = 1
    <3>1. k \in 0 .. n /\ Place(k) \in Col
      BY <1>6, <2>3, PlaceIs
    <3> QED
      BY <1>7, <2>2, <2>3, <3>1
  <2> HIDE DEF w
  <2>4. Original(w, group, L, Row(n), t)
    BY <2>1, <2>2, <2>3 DEF Original
  <2> QED
    BY <1>5, <2>1, <2>4
<1>11. ASSUME NEW g \in 1 .. L,
              NEW row \in 0 .. (IF g < L THEN Width
                               ELSE IF e = Len(a) \/ n % 4 = 3 THEN Row(n) + 1
                               ELSE Row(n)) - 1
       PROVE  \E w \in SUBSET Col : Original(w, put[g], g, row, t)
  <2>1. CASE g < L
    <3>1. g \in 1 .. L - 1 /\ row \in 0 .. Width - 1
      BY <1>3, <1>4, <1>11, <2>1
    <3> QED
      BY <1>8, <3>1
  <2>2. CASE g = L /\ row = Row(n)
    <3>1. e = Len(a) \/ n % 4 = 3
      BY <1>3, <1>4, <1>11, <2>2
    <3> QED
      BY <1>10, <2>2, <3>1
  <2>3. CASE g = L /\ row # Row(n)
    <3>1. row \in 0 .. Row(n) - 1
      BY <1>3, <1>4, <1>11, <2>3
    <3> QED
      BY <1>9, <2>3, <3>1
  <2> QED
    BY <1>3, <1>4, <1>11, <2>1, <2>2, <2>3
<1>12. ASSUME NEW k \in 0 .. n, (n + 1) % 4 = 0, Group(k) = Group(n + 1), Row(k) = Row(n + 1)
       PROVE  FALSE
  <2>1. k \in Nat /\ n + 1 \in Nat /\ k < n + 1 /\ k % 4 \in Nat
    OBVIOUS
  <2>2. k % 4 < (n + 1) % 4
    BY <1>12, <2>1, Ordered
  <2> QED
    BY <1>12, <2>1, <2>2
<1>13. CASE n % 4 = 3 /\ Row(n) + 1 = Width
  <2>1. st.disks = Append(put, NewGroup)
    BY <1>2, <1>13 DEF put
  <2>2. /\ Len(st.disks) = L + 1 /\ DOMAIN st.disks = 1 .. L + 1
        /\ \A g \in 1 .. L : st.disks[g] = put[g]
    BY <1>5, <2>1, NewGroupIs
  <2>3. Group(n + 1) = L + 1 /\ Row(n + 1) = 0 /\ (n + 1) % 4 = 0
    BY <1>4, <1>13, NextPlace
  <2>4. Known(st.disks, t, 0)
    <3>1. SUFFICES ASSUME NEW g \in 1 .. L + 1,
                          NEW row \in 0 .. (IF g < L + 1 THEN Width ELSE 0) - 1
                   PROVE  \E w \in SUBSET Col : Original(w, st.disks[g], g, row, t)
      BY <2>2 DEF Known
    <3>2. g \in 1 .. L /\ row \in 0 .. Width - 1
      BY <1>3, <1>4, <3>1
    <3>3. row \in 0 .. (IF g < L THEN Width
                        ELSE IF e = Len(a) \/ n % 4 = 3 THEN Row(n) + 1 ELSE Row(n)) - 1
      BY <1>13, <3>2
    <3>4. \E w \in SUBSET Col : Original(w, put[g], g, row, t)
      BY <1>11, <3>2, <3>3
    <3> QED
      BY <2>2, <3>2, <3>4
  <2>5. InRow(st.disks, t)
    BY <1>6, <1>12, <2>2, <2>3 DEF InRow
  <2>6. Done(n + 1, a, e) = 0
    BY <2>3 DEF Done
  <2> QED
    BY <2>4, <2>5, <2>6
<1>14. CASE ~(n % 4 = 3 /\ Row(n) + 1 = Width)
  <2>1. st.disks = put
    BY <1>2, <1>14 DEF put
  <2>2. /\ Group(n + 1) = L
        /\ n % 4 = 3 => Row(n + 1) = Row(n) + 1 /\ (n + 1) % 4 = 0
        /\ n % 4 # 3 => Row(n + 1) = Row(n)
    <3>1. n % 4 = 3 => Row(n) + 1 < Width
      BY <1>3, <1>14
    <3> QED
      BY <1>4, <3>1, NextPlace
  <2>3. Done(n + 1, a, e) = IF e = Len(a) \/ n % 4 = 3 THEN Row(n) + 1 ELSE Row(n)
    <3>1. n % 4 # 3 => (n + 1) % 4 # 0
      BY <1>3, NextPlace
    <3> QED
      BY <2>2, <3>1 DEF Done
  <2>4. Known(st.disks, t, Done(n + 1, a, e))
    <3>1. SUFFICES ASSUME NEW g \in 1 .. L,
                          NEW row \in 0 .. (IF g < L THEN Width ELSE Done(n + 1, a, e)) - 1
                   PROVE  \E w \in SUBSET Col : Original(w, st.disks[g], g, row, t)
      BY <1>5, <2>1 DEF Known
    <3> QED
      BY <1>11, <2>1, <2>3
  <2>5. e # Len(a) => InRow(st.disks, t)
    <3>1. SUFFICES ASSUME e # Len(a), NEW k \in 0 .. n, Group(k) = L, Row(k) = Row(n + 1)
                   PROVE  Row(k) \in put[L][Place(k)].data <=> t[k + 1] = 1
      <4>1. Len(st.disks) = L /\ st.disks[L] = put[L] /\ Len(t) = n + 1 /\ (n + 1) - 1 = n
        BY <1>5, <1>6, <2>1
      <4> QED
        BY <4>1 DEF InRow
    <3>2. n % 4 # 3
      BY <1>12, <2>2, <3>1
    <3> QED
      BY <1>5, <1>7, <2>2, <3>1, <3>2
  <2> QED
    BY <2>4, <2>5
<1> QED
  BY <1>13, <1>14

LEMMA AddClean ==
  ASSUME NEW rows, NEW col, NEW n \in Nat, Shape(rows, col, n),
         NEW a \in Seq({0, 1}), NEW e \in DOMAIN a,
         NEW st, AddsBit(rows, st, n, a, e), Clean(rows)
  PROVE  Clean(st.disks)
<1>0. PICK L : L = Len(rows)
  OBVIOUS
<1>1. AddsBit(rows, st, n, a, e)
  OBVIOUS
<1>2. PICK group : /\ Added(group, rows[L], n, a, e)
                   /\ st.disks = IF n % 4 = 3 /\ Row(n) + 1 = Width
                                   THEN Append([rows EXCEPT ![L] = group], NewGroup)
                                   ELSE [rows EXCEPT ![L] = group]
  BY <1>0, <1>1 DEF AddsBit
<1>3. rows \in Seq([Col -> Disk]) /\ L \in 1 .. L /\ DOMAIN rows = 1 .. L /\ L \in Nat
  <2>1. Group(n) \in Nat \ {0}
    BY PartsBound
  <2> QED
    BY <1>0, <2>1 DEF Shape
<1>4. \A i \in Col : ~group[i].dirty
  BY <1>0, <1>2, <1>3 DEF Added, Clean
<1> DEFINE put == [rows EXCEPT ![L] = group]
<1>5. /\ put \in Seq([Col -> Disk]) /\ Len(put) = L /\ DOMAIN put = 1 .. L
      /\ \A g \in 1 .. L : put[g] = IF g = L THEN group ELSE rows[g]
  <2>1. group \in [Col -> Disk]
    BY <1>2 DEF Added
  <2> QED
    BY <1>3, <2>1
<1> HIDE DEF put
<1>6. Clean(put)
  BY <1>0, <1>3, <1>4, <1>5 DEF Clean
<1>7. Clean(Append(put, NewGroup))
  <2>1. /\ DOMAIN Append(put, NewGroup) = 1 .. L + 1
        /\ \A g \in 1 .. L + 1 :
             Append(put, NewGroup)[g] = IF g = L + 1 THEN NewGroup ELSE put[g]
    BY <1>3, <1>5, NewGroupIs
  <2> QED
    BY <1>3, <1>5, <1>6, <2>1, NewGroupIs DEF Clean
<1> QED
  BY <1>2, <1>6, <1>7 DEF put

-----------------------------------------------------------------------------
(* The loop of sys_raid2_add.                                               *)

\* A set of numbers that is not empty has a least element.
LEMMA Least ==
  ASSUME NEW T, T \subseteq Nat, T # {}
  PROVE  \E x \in T : \A y \in T : x <= y
<1>1. IsWellFoundedOn(OpToRel(<, Nat), Nat)
  BY NatLessThanWellFounded
<1>2. PICK x \in T : \A y \in T : ~ (<<y, x>> \in OpToRel(<, Nat))
  BY <1>1, WFMin
<1>3. \A y \in T : ~ (y < x)
  BY <1>2 DEF OpToRel
<1> QED
  BY <1>3

LEMMA AddBitsIs ==
  ASSUME NEW st, NEW a \in Seq({0, 1})
  PROVE  \E f :
           /\ AddBits(st, a) = f[Len(a)]
           /\ f[0] = st
           /\ \A i \in 1 .. Len(a) : f[i] = AddBit(f[i - 1], a, i)
<1> DEFINE Step(g, i) == IF i = 0 THEN st ELSE AddBit(g[i - 1], a, i)
           Runs(m) == \E g : g = [i \in 0 .. m |-> Step(g, i)]
           F == CHOOSE g : g = [i \in 0 .. Len(a) |-> Step(g, i)]
<1>1. Runs(0)
  <2>1. [i \in 0 .. 0 |-> st] = [i \in 0 .. 0 |-> Step([j \in 0 .. 0 |-> st], i)]
    OBVIOUS
  <2> QED
    BY <2>1
<1>2. ASSUME NEW m \in Nat, Runs(m) PROVE Runs(m + 1)
  <2>1. PICK g : g = [i \in 0 .. m |-> Step(g, i)]
    BY <1>2
  <2> DEFINE h == [i \in 0 .. m + 1 |->
                     IF i = m + 1 THEN AddBit(g[m], a, m + 1) ELSE g[i]]
  <2>2. ASSUME NEW i \in 0 .. m + 1 PROVE h[i] = Step(h, i)
    BY <2>1
  <2>3. h = [i \in 0 .. m + 1 |-> Step(h, i)]
    BY <2>2
  <2> HIDE DEF h
  <2> QED
    BY <2>3
<1>3. Runs(Len(a))
  <2> HIDE DEF Runs
  <2> DEFINE T == {m \in Nat : ~Runs(m)}
  <2>1. CASE T = {}
    BY <2>1
  <2>2. CASE T # {}
    <3>1. PICK x \in T : \A y \in T : x <= y
      BY <2>2, Least
    <3>2. x # 0
      BY <1>1
    <3>3. x - 1 \in Nat /\ x - 1 \notin T
      BY <3>1, <3>2
    <3>4. Runs(x - 1 + 1) /\ x - 1 + 1 = x
      BY <3>3, <1>2
    <3> QED
      BY <3>4
  <2> QED
    BY <2>1, <2>2
<1>4. F = [i \in 0 .. Len(a) |-> Step(F, i)]
  BY <1>3
<1>5. AddBits(st, a) = F[Len(a)]
  BY DEF AddBits
<1> HIDE DEF F
<1>6. F[0] = st
  BY <1>4
<1>7. ASSUME NEW i \in 1 .. Len(a) PROVE F[i] = AddBit(F[i - 1], a, i)
  BY <1>4
<1> QED
  BY <1>5, <1>6, <1>7
\* The bits of a call are added one after the other.
LEMMA CallKeeps ==
  ASSUME NEW st, NEW s \in Seq({0, 1}), NEW a \in Seq({0, 1}), a # << >>,
         Shape(st.disks, st.col, Len(s))
  PROVE  LET end == AddBits(st, a)
             n == Len(s \o a)
         IN /\ Shape(end.disks, end.col, n)
            /\ Known(st.disks, s, Row(Len(s))) /\ InRow(st.disks, s) =>
                 Known(end.disks, s \o a, Row(n) + (IF n % 4 = 0 THEN 0 ELSE 1))
            /\ Clean(st.disks) => Clean(end.disks)
<1>1. PICK f : /\ AddBits(st, a) = f[Len(a)] /\ f[0] = st
               /\ \A i \in 1 .. Len(a) : f[i] = AddBit(f[i - 1], a, i)
  BY AddBitsIs
<1>0. PICK m : m = Len(s)
  OBVIOUS
<1> DEFINE To(i) == s \o SubSeq(a, 1, i)
           Good(i) == /\ Shape(f[i].disks, f[i].col, m + i)
                      /\ Known(st.disks, s, Row(m)) /\ InRow(st.disks, s) =>
                           /\ Known(f[i].disks, To(i), Done(m + i, a, i))
                           /\ i # Len(a) => InRow(f[i].disks, To(i))
                      /\ Clean(st.disks) => Clean(f[i].disks)
<1>2. m \in Nat /\ Len(a) \in Nat \ {0} /\ Len(s \o a) = m + Len(a)
  BY <1>0
<1>3. \A i \in 0 .. Len(a) : To(i) \in Seq({0, 1}) /\ Len(To(i)) = m + i
  BY <1>0, <1>2
<1>4. \A i \in 0 .. Len(a) - 1 : To(i + 1) = Append(To(i), a[i + 1])
  OBVIOUS
<1>5. To(0) = s /\ To(Len(a)) = s \o a
  OBVIOUS
<1> HIDE DEF To
<1>6. Good(0)
  <2>1. Done(m + 0, a, 0) = Row(m) /\ m + 0 = m
    BY <1>2 DEF Done
  <2> QED
    BY <1>0, <1>1, <1>5, <2>1
<1>7. ASSUME NEW i \in 0 .. Len(a) - 1, Good(i) PROVE Good(i + 1)
  <2>1. PICK from, to, t, u, n, e :
          /\ from = f[i] /\ to = f[i + 1] /\ t = To(i) /\ u = To(i + 1) /\ n = m + i /\ e = i + 1
    OBVIOUS
  <2>2. n \in Nat /\ e \in DOMAIN a /\ t \in Seq({0, 1}) /\ Len(t) = n /\ m + (i + 1) = n + 1
    BY <1>2, <1>3, <2>1
  <2>3. u = Append(t, a[e])
    BY <1>4, <2>1
  <2>4. PICK rows, col : rows = from.disks /\ col = from.col
    OBVIOUS
  <2>5. Shape(rows, col, n)
    BY <1>7, <2>1, <2>4
  <2>6. to = AddBit(from, a, e)
    <3>1. i + 1 \in 1 .. Len(a) /\ (i + 1) - 1 = i
      BY <1>2
    <3> QED
      BY <1>1, <2>1, <3>1
  <2>7. AddsBit(rows, to, n, a, e)
    BY <2>2, <2>4, <2>5, <2>6, AddBitIs
  <2>8. Shape(to.disks, to.col, n + 1)
    BY <2>2, <2>5, <2>7, AddShape
  <2>9. ASSUME Known(st.disks, s, Row(m)), InRow(st.disks, s)
        PROVE  Known(to.disks, u, Done(n + 1, a, e)) /\ (e # Len(a) => InRow(to.disks, u))
    <3>1. Known(rows, t, Row(n)) /\ InRow(rows, t)
      <4>1. Known(from.disks, t, Done(m + i, a, i)) /\ (i # Len(a) => InRow(from.disks, t))
        BY <1>7, <2>1, <2>9
      <4>2. i # Len(a) /\ Done(m + i, a, i) = Row(n)
        BY <1>2, <2>1 DEF Done
      <4> QED
        BY <2>4, <4>1, <4>2
    <3> QED
      BY <2>2, <2>3, <2>5, <2>7, <3>1, AddKnown
  <2>10. Clean(st.disks) => Clean(to.disks)
    BY <1>7, <2>1, <2>2, <2>4, <2>5, <2>7, AddClean
  <2> QED
    BY <2>1, <2>2, <2>8, <2>9, <2>10
<1>8. Good(Len(a))
  <2> HIDE DEF Good
  <2> DEFINE T == {i \in 0 .. Len(a) : ~Good(i)}
  <2>1. CASE T = {}
    BY <1>2, <2>1
  <2>2. CASE T # {}
    <3>0. T \subseteq Nat
      BY <1>2
    <3>1. PICK x \in T : \A y \in T : x <= y
      BY <2>2, <3>0, Least
    <3>2. x # 0 /\ x \in 0 .. Len(a) /\ ~Good(x)
      BY <1>6
    <3>3. x - 1 \in 0 .. Len(a) - 1 /\ x - 1 \notin T
      BY <1>2, <3>1, <3>2
    <3>4. Good(x - 1 + 1) /\ x - 1 + 1 = x
      BY <1>2, <1>7, <3>2, <3>3
    <3> QED
      BY <3>2, <3>4
  <2> QED
    BY <2>1, <2>2
<1>9. Done(m + Len(a), a, Len(a)) = Row(m + Len(a)) + (IF (m + Len(a)) % 4 = 0 THEN 0 ELSE 1)
  <2>1. Row(m + Len(a)) \in Nat
    BY <1>2, PartsBound
  <2> QED
    BY <2>1 DEF Done
<1> QED
  BY <1>0, <1>1, <1>2, <1>5, <1>8, <1>9

-----------------------------------------------------------------------------
(* The system calls keep the invariant.                                    *)

LEMMA FirstPlace == Group(0) = 1 /\ Row(0) = 0 /\ 0 % 4 = 0 /\ Place(0) = 2
<1>1. At(0, 1, 0, 0) /\ 0 \in Bit
  BY RaidAssumption DEF Bit, At
<1>2. Group(0) = 1 /\ Row(0) = 0 /\ 0 % 4 = 0
  BY <1>1, PartsAre
<1> QED
  BY <1>2, PlaceIs

LEMMA NewDisks ==
  /\ Shape(<<NewGroup>>, 2, 0) /\ Known(<<NewGroup>>, << >>, <<NewGroup>>[1][2].now)
  /\ Clean(<<NewGroup>>)
<1>1. /\ <<NewGroup>> \in Seq([Col -> Disk]) /\ Len(<<NewGroup>>) = 1
      /\ DOMAIN <<NewGroup>> = {1} /\ <<NewGroup>>[1] = NewGroup
  BY NewGroupIs
<1>2. \A j \in 1 .. 4 : NewGroup[DataCols[j]].now = 0
  BY ColsAre, NewGroupIs
<1>3. Shape(<<NewGroup>>, 2, 0)
  BY <1>1, <1>2, FirstPlace DEF Shape
<1>4. NewGroup[2].now = 0
  BY NewGroupIs DEF Col
<1>5. Known(<<NewGroup>>, << >>, 0)
  BY <1>1 DEF Known
<1>6. Clean(<<NewGroup>>)
  BY <1>1, NewGroupIs DEF Clean
<1> QED
  BY <1>1, <1>3, <1>4, <1>5, <1>6

LEMMA RowsDone ==
  ASSUME NEW rows, NEW col, NEW n \in Nat, Shape(rows, col, n)
  PROVE  /\ rows[Len(rows)][2].now = Row(n) + (IF n % 4 = 0 THEN 0 ELSE 1)
         /\ \A g \in DOMAIN rows : g < Len(rows) => rows[g][2].now = Width
         /\ rows[Len(rows)][col].now = Row(n)
         /\ Len(rows) \in DOMAIN rows /\ DOMAIN rows = 1 .. Len(rows)
<1>1. Group(n) \in Nat \ {0} /\ Row(n) \in Nat /\ n % 4 \in 0 .. 3
  BY PartsBound
<1>2. Len(rows) \in DOMAIN rows /\ DOMAIN rows = 1 .. Len(rows)
  BY <1>1 DEF Shape
<1>3. PICK c \in 1 .. 4 : c = (n % 4) + 1
  BY <1>1
<1>4. col = DataCols[c] /\ DataCols[1] = 2
  BY <1>3, Tables DEF Shape, Place
<1>5. rows[Len(rows)][DataCols[c]].now = Row(n) + (IF c <= n % 4 THEN 1 ELSE 0)
  BY <1>2 DEF Shape
<1>6. rows[Len(rows)][DataCols[1]].now = Row(n) + (IF 1 <= n % 4 THEN 1 ELSE 0)
  BY <1>2 DEF Shape
<1>7. \A g \in DOMAIN rows : g < Len(rows) => rows[g][DataCols[1]].now = Width
  BY DEF Shape
<1> QED
  BY <1>1, <1>2, <1>3, <1>4, <1>5, <1>6, <1>7

\* Other contents of the disks, with as many bits.
SameBits(new, rows) ==
  /\ new \in Seq([Col -> Disk]) /\ Len(new) = Len(rows) /\ DOMAIN new = DOMAIN rows
  /\ \A g \in DOMAIN rows, i \in Col : new[g][i].now = rows[g][i].now

\* Only disks that are dirty now have other contents.
SameClean(new, rows) ==
  /\ Len(new) = Len(rows) /\ DOMAIN new = DOMAIN rows
  /\ \A g \in DOMAIN rows, i \in Col :
       new[g][i].dirty \/ (~rows[g][i].dirty /\ new[g][i].data = rows[g][i].data)

LEMMA ShapeKept ==
  ASSUME NEW rows, NEW new, NEW col, NEW n \in Nat, Shape(rows, col, n), SameBits(new, rows)
  PROVE  Shape(new, col, n)
<1>1. \A j \in 1 .. 4 : DataCols[j] \in Col
  BY ColsAre
<1> QED
  BY <1>1 DEF Shape, SameBits

LEMMA KnownKept ==
  ASSUME NEW rows, NEW new, NEW s, NEW done, Known(rows, s, done), SameClean(new, rows)
  PROVE  Known(new, s, done)
<1>1. SUFFICES ASSUME NEW g \in DOMAIN rows,
                      NEW row \in 0 .. (IF g < Len(rows) THEN Width ELSE done) - 1
               PROVE  \E w \in SUBSET Col : Original(w, new[g], g, row, s)
  BY DEF Known, SameClean
<1>2. PICK w \in SUBSET Col : Original(w, rows[g], g, row, s)
  BY <1>1 DEF Known
<1>3. Original(w, new[g], g, row, s)
  BY <1>2 DEF Original, SameClean
<1> QED
  BY <1>3

LEMMA InitInv == Init => Inv
<1> SUFFICES ASSUME Init PROVE Inv
  OBVIOUS
<1>1. TypeOK
  <2>1. <<NewGroup>> \in Seq([Col -> Disk]) /\ <<NewGroup>> # << >> /\ Len(<<NewGroup>>) = 1
    BY NewGroupIs
  <2>2. damage \in [calls : 0 .. MaxChanges, silent : BOOLEAN, early : BOOLEAN]
    BY RaidAssumption DEF Init, NoDamage
  <2> QED
    BY <2>1, <2>2, RaidAssumption, Tables DEF Init, TypeOK
<1>2. disks = <<NewGroup>> /\ Len(disks) = 1 /\ added = << >> /\ Len(added) = 0
  BY DEF Init
<1> QED
  BY <1>1, <1>2, NewDisks DEF Init, NoDamage, Inv

LEMMA Raid2InitInv ==
  ASSUME Inv, Raid2Init
  PROVE  Inv'
<1>1. TypeOK'
  <2>1. <<NewGroup>> \in Seq([Col -> Disk]) /\ <<NewGroup>> # << >> /\ Len(<<NewGroup>>) = 1
    BY NewGroupIs
  <2>2. damage' \in [calls : 0 .. MaxChanges, silent : BOOLEAN, early : BOOLEAN]
    BY RaidAssumption DEF Raid2Init, NoDamage
  <2>3. now_raid2_disk' \in 7 * Len(disks') .. NDisk
    <3>1. /\ Len(disks) \in Nat /\ Len(disks') = 1 /\ now_raid2_disk \in 7 * Len(disks) .. NDisk
          /\ now_raid2_disk' = now_raid2_disk + 7 /\ now_raid2_disk + 7 <= NDisk
      BY DEF Inv, TypeOK, Raid2Init
    <3> QED
      BY <3>1, RaidAssumption
  <2> QED
    BY <2>1, <2>2, <2>3, Tables DEF Raid2Init, TypeOK
<1>2. /\ disks' = <<NewGroup>> /\ Len(disks') = 1 /\ added' = << >> /\ Len(added') = 0
      /\ now_raid2_add' = 2
  BY DEF Raid2Init
<1> QED
  BY <1>1, <1>2, NewDisks DEF Raid2Init, NoDamage, Inv

LEMMA Raid2AddInv ==
  ASSUME Inv, NEW a \in Inputs, Raid2Add(a)
  PROVE  Inv'
<1>1. PICK st, end : /\ st = [disks |-> disks, col |-> now_raid2_add]
                     /\ end = AddBits(st, a)
  OBVIOUS
<1>2. /\ now_raid2_disk + 7 * (Len(end.disks) - Len(disks)) <= NDisk
      /\ disks' = end.disks /\ now_raid2_add' = end.col
      /\ now_raid2_disk' = now_raid2_disk + 7 * (Len(end.disks) - Len(disks))
      /\ added' = added \o a
      /\ damage' = [damage EXCEPT !.early = @ \/ (damage.calls > 0 /\ now_raid2_add # 2)]
  BY <1>1 DEF Raid2Add
<1>3. PICK m : m = Len(added)
  OBVIOUS
<1>4. /\ a \in Seq({0, 1}) /\ a # << >> /\ added \in Seq({0, 1}) /\ m \in Nat
      /\ st.disks = disks /\ st.col = now_raid2_add
      /\ Shape(disks, now_raid2_add, m)
  BY <1>1, <1>3, RaidAssumption DEF Inv, TypeOK
<1>5. /\ Shape(end.disks, end.col, Len(added \o a))
      /\ Known(disks, added, Row(m)) /\ InRow(disks, added) =>
           Known(end.disks, added \o a,
                 Row(Len(added \o a)) + (IF Len(added \o a) % 4 = 0 THEN 0 ELSE 1))
      /\ Clean(disks) => Clean(end.disks)
  BY <1>1, <1>3, <1>4, CallKeeps
<1>6. Len(added') \in Nat /\ added' \in Seq({0, 1}) /\ Shape(disks', now_raid2_add', Len(added'))
  BY <1>2, <1>4, <1>5
<1>7. damage \in [calls : 0 .. MaxChanges, silent : BOOLEAN, early : BOOLEAN]
  BY DEF Inv, TypeOK
<1>8. /\ damage' \in [calls : 0 .. MaxChanges, silent : BOOLEAN, early : BOOLEAN]
      /\ damage'.calls = damage.calls /\ damage'.silent = damage.silent
      /\ damage'.early <=> damage.early \/ (damage.calls > 0 /\ now_raid2_add # 2)
  BY <1>2, <1>7
<1>9. TypeOK'
  <2>1. /\ disks' \in Seq([Col -> Disk]) /\ Len(disks') \in Nat \ {0}
        /\ now_raid2_add' = Place(Len(added'))
    BY <1>6, PartsBound DEF Shape
  <2>2. now_raid2_add' \in DOMAIN nn_add /\ disks' # << >>
    BY <1>6, <2>1, PlaceIs, Tables
  <2>3. now_raid2_disk' \in 7 * Len(disks') .. NDisk
    <3>1. Len(disks) \in Nat /\ now_raid2_disk \in 7 * Len(disks) .. NDisk
      BY DEF Inv, TypeOK
    <3> QED
      <4>1. PICK n, to : n = Len(disks) /\ to = Len(disks')
        OBVIOUS
      <4>2. /\ n \in Nat /\ to \in Nat /\ now_raid2_disk \in Int /\ now_raid2_disk >= 7 * n
            /\ now_raid2_disk' = now_raid2_disk + 7 * (to - n)
            /\ now_raid2_disk + 7 * (to - n) <= NDisk
        BY <1>2, <2>1, <3>1, <4>1, RaidAssumption
      <4>3. now_raid2_disk' \in 7 * to .. NDisk
        BY <4>2, RaidAssumption
      <4> QED
        BY <4>1, <4>3
  <2> QED
    BY <1>6, <1>8, <2>1, <2>2, <2>3 DEF TypeOK
<1>10. damage'.calls = 0 => ~damage'.silent /\ ~damage'.early /\ Clean(disks')
  BY <1>2, <1>5, <1>8 DEF Inv
<1>11. ASSUME ~damage'.silent, ~damage'.early
       PROVE  Known(disks', added', disks'[Len(disks')][2].now)
  <2>1. /\ Known(disks, added, disks[Len(disks)][2].now)
        /\ damage.calls = 0 => Clean(disks)
        /\ damage.calls = 0 \/ now_raid2_add = 2
    <3>1. damage.calls \in Nat
      BY <1>7
    <3> QED
      BY <1>8, <1>11, <3>1 DEF Inv
  <2>2. /\ disks[Len(disks)][2].now = Row(m) + (IF m % 4 = 0 THEN 0 ELSE 1)
        /\ Len(disks) \in DOMAIN disks /\ Len(disks) = Group(m)
        /\ now_raid2_add = Place(m) /\ Row(m) \in Nat
    <3>1. /\ disks[Len(disks)][2].now = Row(m) + (IF m % 4 = 0 THEN 0 ELSE 1)
          /\ Len(disks) \in DOMAIN disks
      BY <1>4, RowsDone
    <3>2. Len(disks) = Group(m) /\ now_raid2_add = Place(m)
      BY <1>4 DEF Shape
    <3>3. Row(m) \in Nat
      BY <1>4, PartsBound
    <3> QED
      BY <3>1, <3>2, <3>3
  <2>3. Known(disks, added, Row(m))
    <3>1. ASSUME NEW g \in DOMAIN disks,
                 NEW row \in 0 .. (IF g < Len(disks) THEN Width ELSE Row(m)) - 1
          PROVE  \E w \in SUBSET Col : Original(w, disks[g], g, row, added)
      <4>1. row \in 0 .. (IF g < Len(disks) THEN Width ELSE disks[Len(disks)][2].now) - 1
        BY <2>2, <3>1
      <4> QED
        BY <2>1, <4>1 DEF Known
    <3> QED
      BY <3>1 DEF Known
  <2>4. InRow(disks, added)
    <3>1. SUFFICES ASSUME NEW k \in 0 .. m - 1, Group(k) = Len(disks), Row(k) = Row(m)
                   PROVE  Row(k) \in disks[Len(disks)][Place(k)].data <=> added[k + 1] = 1
      BY <1>3 DEF InRow
    <3>2. k \in Nat /\ k < m /\ k % 4 \in Nat /\ k % 4 < m % 4
      <4>1. k \in Nat /\ k < m /\ k % 4 \in Nat
        BY <1>4, <3>1
      <4> QED
        BY <1>4, <2>2, <3>1, <4>1, Ordered
    <3>3. m % 4 # 0
      BY <3>2
    <3>4. damage.calls = 0
      BY <1>4, <2>1, <2>2, <3>3, PlaceIs
    <3>5. ~(Len(disks) < Len(disks)) /\ Row(m) \in 0 .. disks[Len(disks)][2].now - 1
      BY <1>4, <2>2, <3>3
    <3>6. PICK w \in SUBSET Col : Original(w, disks[Len(disks)], Len(disks), Row(m), added)
      BY <2>1, <2>2, <3>5 DEF Known
    <3>7. Place(k) \in Col
      BY <3>2, PlaceIs
    <3>8. ~disks[Len(disks)][Place(k)].dirty
      BY <2>1, <2>2, <3>4, <3>7 DEF Clean
    <3>9. Place(k) \in w <=> Row(m) \in disks[Len(disks)][Place(k)].data
      BY <3>6, <3>7, <3>8 DEF Original
    <3>10. Place(k) \in w <=> added[k + 1] = 1
      BY <1>3, <3>1, <3>6 DEF Original
    <3> QED
      BY <3>1, <3>9, <3>10
  <2>5. disks'[Len(disks')][2].now = Row(Len(added')) + (IF Len(added') % 4 = 0 THEN 0 ELSE 1)
    BY <1>6, RowsDone
  <2> QED
    BY <1>2, <1>5, <2>3, <2>4, <2>5
<1> QED
  BY <1>6, <1>9, <1>10, <1>11 DEF Inv

\* One disk of one group gets other contents.
LEMMA ContentsChanged ==
  ASSUME NEW rows \in Seq([Col -> Disk]), NEW g \in DOMAIN rows, NEW i \in Col,
         NEW disk \in Disk, disk.now = rows[g][i].now,
         NEW new, new = [rows EXCEPT ![g] = [rows[g] EXCEPT ![i] = disk]]
  PROVE  /\ SameBits(new, rows)
         /\ disk.dirty => SameClean(new, rows)
<1>1. rows[g] \in [Col -> Disk]
  OBVIOUS
<1>2. PICK group : group = [rows[g] EXCEPT ![i] = disk]
  OBVIOUS
<1>3. /\ group \in [Col -> Disk] /\ group[i] = disk
      /\ \A j \in Col : j # i => group[j] = rows[g][j]
  BY <1>1, <1>2
<1>4. new = [rows EXCEPT ![g] = group]
  BY <1>2
<1>5. new \in Seq([Col -> Disk]) /\ Len(new) = Len(rows) /\ DOMAIN new = DOMAIN rows
  BY <1>3, <1>4
<1>6. new[g] = group /\ \A h \in DOMAIN rows : h # g => new[h] = rows[h]
  BY <1>4
<1>7. SameBits(new, rows)
  BY <1>3, <1>5, <1>6 DEF SameBits
<1>8. \A h \in DOMAIN rows, j \in Col : rows[h][j].dirty \in BOOLEAN
  BY DEF Disk
<1>9. disk.dirty => SameClean(new, rows)
  BY <1>3, <1>5, <1>6, <1>8 DEF SameClean
<1> QED
  BY <1>7, <1>9

LEMMA ChangeDiskInv ==
  ASSUME Inv, NEW g \in DOMAIN disks, NEW i \in Col, NEW change \in SUBSET Bit,
         ChangeDisk(g, i, change)
  PROVE  Inv'
<1>1. /\ disks \in Seq([Col -> Disk]) /\ Len(added) \in Nat
      /\ damage \in [calls : 0 .. MaxChanges, silent : BOOLEAN, early : BOOLEAN]
  BY DEF Inv, TypeOK
<1>2. PICK disk : disk = [disks[g][i] EXCEPT !.dirty = TRUE, !.data = change]
  OBVIOUS
<1>3. disks[g][i] \in Disk
  BY <1>1
<1>4. disk \in Disk /\ disk.now = disks[g][i].now /\ disk.dirty
  BY <1>2, <1>3 DEF Disk
<1>5. disks' = [disks EXCEPT ![g] = [disks[g] EXCEPT ![i] = disk]]
  BY <1>2 DEF ChangeDisk
<1>6. SameBits(disks', disks) /\ SameClean(disks', disks)
  BY <1>1, <1>4, <1>5, ContentsChanged
<1>7. /\ added' = added /\ now_raid2_add' = now_raid2_add /\ now_raid2_disk' = now_raid2_disk
      /\ damage' = [damage EXCEPT !.calls = @ + 1] /\ damage.calls < MaxChanges
  BY DEF ChangeDisk
<1>8. /\ damage' \in [calls : 0 .. MaxChanges, silent : BOOLEAN, early : BOOLEAN]
      /\ damage'.calls # 0 /\ damage'.silent = damage.silent /\ damage'.early = damage.early
  BY <1>1, <1>7, RaidAssumption
<1>9. TypeOK'
  <2>1. disks' # << >>
    BY <1>1, <1>6 DEF Inv, TypeOK, SameBits
  <2> QED
    BY <1>6, <1>7, <1>8, <2>1 DEF Inv, TypeOK, SameBits
<1>10. Shape(disks', now_raid2_add', Len(added'))
  <2>1. Shape(disks, now_raid2_add, Len(added))
    BY DEF Inv
  <2>2. Shape(disks', now_raid2_add, Len(added))
    BY <1>1, <1>6, <2>1, ShapeKept
  <2> QED
    BY <1>7, <2>2
<1>11. ASSUME ~damage'.silent, ~damage'.early
       PROVE  Known(disks', added', disks'[Len(disks')][2].now)
  <2>1. Known(disks, added, disks[Len(disks)][2].now)
    BY <1>8, <1>11 DEF Inv
  <2>2. Known(disks', added, disks[Len(disks)][2].now)
    BY <1>6, <2>1, KnownKept
  <2>3. Len(disks) \in DOMAIN disks /\ 2 \in Col
    BY <1>1 DEF Inv, TypeOK, Col
  <2> QED
    BY <1>6, <1>7, <2>2, <2>3 DEF SameBits
<1> QED
  BY <1>8, <1>9, <1>10, <1>11 DEF Inv

LEMMA ChangeBitInv ==
  ASSUME Inv, NEW num \in 0 .. Len(added) - 1, NEW change \in {0, 1}, ChangeBit(num, change)
  PROVE  Inv'
<1>1. /\ disks \in Seq([Col -> Disk]) /\ Len(added) \in Nat
      /\ damage \in [calls : 0 .. MaxChanges, silent : BOOLEAN, early : BOOLEAN]
  BY DEF Inv, TypeOK
<1>2. PICK g, i, data, rest :
        /\ rest \in Int /\ i = DataCols[(rest % 4) + 1]
        /\ data = disks[g][i].data \ {(rest \div 4) % Width}
        /\ disks' = [disks EXCEPT ![g][i].data = IF change = 1 THEN data \cup {0} ELSE data]
  <2> DEFINE g == IF num > 4 * Width THEN (num - 1) \div (4 * Width) ELSE 0
             rest == num - g * 4 * Width
             i == DataCols[(rest % 4) + 1]
             row == (rest \div 4) % Width
             data == disks[g + 1][i].data \ {row}
  <2>1. disks' = [disks EXCEPT ![g + 1][i].data = IF change = 1 THEN data \cup {0} ELSE data]
    BY DEF ChangeBit
  <2>2. g \in Int
    <3>1. 4 * Width \in Nat \ {0} /\ num \in Nat
      BY <1>1, RaidAssumption
    <3> QED
      BY <3>1
  <2>3. rest \in Int
    <3> HIDE DEF g
    <3>1. g * 4 * Width \in Int /\ num \in Int
      BY <1>1, <2>2, RaidAssumption
    <3> QED
      BY <3>1
  <2> HIDE DEF g, rest
  <2> QED
    BY <2>1, <2>3
<1>3. i \in Col
  <2>1. (rest % 4) + 1 \in 1 .. 4
    BY <1>2
  <2> QED
    BY <1>2, <2>1, ColsAre
<1>4. SameBits(disks', disks)
  <2>1. CASE g \notin DOMAIN disks
    <3>1. PICK group : disks' = [disks EXCEPT ![g] = group]
      BY <1>2
    <3>2. disks' = disks
      BY <1>1, <2>1, <3>1
    <3> QED
      BY <1>1, <3>2 DEF SameBits
  <2>2. CASE g \in DOMAIN disks
    <3>1. PICK d, disk : /\ d = (IF change = 1 THEN data \cup {0} ELSE data)
                         /\ disk = [disks[g][i] EXCEPT !.data = d]
      OBVIOUS
    <3>2. disks[g][i] \in Disk
      BY <1>1, <1>3, <2>2
    <3>3. d \in SUBSET Bit
      <4>1. disks[g][i].data \in SUBSET Bit
        BY <3>2 DEF Disk
      <4>2. 0 \in Bit
        BY RaidAssumption DEF Bit
      <4> QED
        BY <1>2, <3>1, <4>1, <4>2
    <3>4. disk \in Disk /\ disk.now = disks[g][i].now
      <4>1. disk = [disks[g][i] EXCEPT !.data = d]
        BY <3>1
      <4> QED
        BY <3>2, <3>3, <4>1 DEF Disk
    <3>5. disks' = [disks EXCEPT ![g] = [disks[g] EXCEPT ![i] = disk]]
      BY <1>2, <3>1
    <3> QED
      BY <1>1, <1>3, <2>2, <3>4, <3>5, ContentsChanged
  <2> QED
    BY <2>1, <2>2
<1>5. /\ added' = added /\ now_raid2_add' = now_raid2_add /\ now_raid2_disk' = now_raid2_disk
      /\ damage' = [damage EXCEPT !.calls = @ + 1, !.silent = TRUE] /\ damage.calls < MaxChanges
  BY DEF ChangeBit
<1>6. /\ damage' \in [calls : 0 .. MaxChanges, silent : BOOLEAN, early : BOOLEAN]
      /\ damage'.calls # 0 /\ damage'.silent
  <2>1. damage.calls + 1 \in 0 .. MaxChanges /\ damage.calls + 1 # 0
    BY <1>1, <1>5, RaidAssumption
  <2>2. damage' = [damage EXCEPT !.calls = damage.calls + 1, !.silent = TRUE]
    BY <1>5
  <2> QED
    BY <1>1, <2>1, <2>2
<1>7. TypeOK'
  <2>1. disks' # << >>
    BY <1>1, <1>4 DEF Inv, TypeOK, SameBits
  <2> QED
    BY <1>4, <1>5, <1>6, <2>1 DEF Inv, TypeOK, SameBits
<1>8. Shape(disks', now_raid2_add', Len(added'))
  <2>1. Shape(disks, now_raid2_add, Len(added))
    BY DEF Inv
  <2>2. Shape(disks', now_raid2_add, Len(added))
    BY <1>1, <1>4, <2>1, ShapeKept
  <2> QED
    BY <1>5, <2>2
<1> QED
  BY <1>6, <1>7, <1>8 DEF Inv

\* A repair changes the data of dirty disks.
LEMMA RepairIs ==
  ASSUME NEW group \in [Col -> Disk]
  PROVE  /\ Repair(group) \in [Col -> Disk]
         /\ \A i \in Col : /\ Repair(group)[i].now = group[i].now
                           /\ Repair(group)[i].dirty = group[i].dirty
                           /\ ~group[i].dirty => Repair(group)[i].data = group[i].data
                           /\ \A row \in Bit : row \in Repair(group)[i].data <=>
                                IF /\ row < group[2].now /\ Syndrome(group, row) = i
                                   /\ group[i].dirty /\ Cardinality(Dirty(group)) <= 2
                                  THEN row \notin group[i].data ELSE row \in group[i].data
<1> DEFINE fix(i, row) == /\ row < group[2].now /\ Syndrome(group, row) = i
                          /\ group[i].dirty /\ Cardinality(Dirty(group)) <= 2
           d(i) == {row \in Bit : (row \in group[i].data) # fix(i, row)}
<1>1. Repair(group) = [i \in Col |-> [group[i] EXCEPT !.data = d(i)]]
  BY DEF Repair
<1>2. ASSUME NEW i \in Col
      PROVE  /\ Repair(group)[i] \in Disk /\ Repair(group)[i].data = d(i)
             /\ Repair(group)[i].now = group[i].now /\ Repair(group)[i].dirty = group[i].dirty
             /\ ~group[i].dirty => d(i) = group[i].data
             /\ \A row \in Bit : row \in d(i) <=>
                  IF fix(i, row) THEN row \notin group[i].data ELSE row \in group[i].data
  <2>1. group[i] \in Disk /\ d(i) \in SUBSET Bit
    OBVIOUS
  <2>2. Repair(group)[i] = [group[i] EXCEPT !.data = d(i)]
    BY <1>1
  <2>3. \A row \in Bit : row \in d(i) <=>
                  IF fix(i, row) THEN row \notin group[i].data ELSE row \in group[i].data
    <3>1. SUFFICES ASSUME NEW row \in Bit
                   PROVE  row \in d(i) <=> IF fix(i, row) THEN row \notin group[i].data
                                           ELSE row \in group[i].data
      OBVIOUS
    <3>2. row \in d(i) <=> (row \in group[i].data) # fix(i, row)
      OBVIOUS
    <3>3. fix(i, row) \in BOOLEAN
      OBVIOUS
    <3> HIDE DEF d, fix
    <3>4. PICK f \in BOOLEAN : f = fix(i, row)
      BY <3>3, Zenon
    <3>5. row \in d(i) <=> (row \in group[i].data) # f
      BY <3>2, <3>4, Zenon
    <3>6. row \in d(i) <=> IF f THEN row \notin group[i].data ELSE row \in group[i].data
      BY <3>5
    <3> QED
      BY <3>4, <3>6, Zenon
  <2>4. ~group[i].dirty => d(i) = group[i].data
    <3>1. group[i].data \in SUBSET Bit
      BY <2>1 DEF Disk
    <3>2. SUFFICES ASSUME ~group[i].dirty PROVE d(i) = group[i].data
      OBVIOUS
    <3>3. ASSUME NEW row \in Bit PROVE row \in d(i) <=> row \in group[i].data
      <4>1. ~fix(i, row)
        BY <3>2
      <4> HIDE DEF d, fix
      <4> QED
        BY <2>3, <4>1
    <3> HIDE DEF d
    <3> QED
      BY <2>1, <3>1, <3>3
  <2> HIDE DEF d
  <2>5. /\ Repair(group)[i] \in Disk /\ Repair(group)[i].data = d(i)
        /\ Repair(group)[i].now = group[i].now /\ Repair(group)[i].dirty = group[i].dirty
    <3>1. PICK data, disk : data = d(i) /\ disk = Repair(group)[i]
      OBVIOUS
    <3>2. data \in SUBSET Bit /\ disk = [group[i] EXCEPT !.data = data]
      BY <2>1, <2>2, <3>1
    <3>3. /\ disk \in Disk /\ disk.data = data
          /\ disk.now = group[i].now /\ disk.dirty = group[i].dirty
      BY <2>1, <3>2, DiskIs
    <3> QED
      BY <3>1, <3>3
  <2> QED
    BY <2>3, <2>4, <2>5
<1>3. Repair(group) \in [Col -> Disk]
  <2> HIDE DEF d, fix
  <2>1. DOMAIN Repair(group) = Col /\ Repair(group) = [i \in Col |-> Repair(group)[i]]
    BY <1>1
  <2> QED
    BY <1>2, <2>1
<1> QED
  BY <1>2, <1>3

LEMMA Raid2CheckInv ==
  ASSUME Inv, Raid2Check
  PROVE  Inv'
<1>1. /\ disks \in Seq([Col -> Disk]) /\ Len(added) \in Nat
      /\ damage \in [calls : 0 .. MaxChanges, silent : BOOLEAN, early : BOOLEAN]
  BY DEF Inv, TypeOK
<1>2. PICK new : new = disks' /\ new = [g \in DOMAIN disks |-> Repair(disks[g])]
  BY DEF Raid2Check
<1>3. /\ added' = added /\ now_raid2_add' = now_raid2_add /\ now_raid2_disk' = now_raid2_disk
      /\ damage' = damage
  BY DEF Raid2Check
<1>4. DOMAIN disks = 1 .. Len(disks) /\ Len(disks) \in Nat
  BY <1>1
<1>5. ASSUME NEW g \in DOMAIN disks
      PROVE  /\ new[g] \in [Col -> Disk]
             /\ \A i \in Col : /\ new[g][i].now = disks[g][i].now
                               /\ new[g][i].dirty = disks[g][i].dirty
                               /\ ~disks[g][i].dirty => new[g][i].data = disks[g][i].data
  <2>1. disks[g] \in [Col -> Disk]
    BY <1>1
  <2>2. PICK from, to : from = disks[g] /\ to = Repair(from)
    OBVIOUS
  <2>3. /\ to \in [Col -> Disk]
        /\ \A i \in Col : /\ to[i].now = from[i].now /\ to[i].dirty = from[i].dirty
                          /\ ~from[i].dirty => to[i].data = from[i].data
    BY <2>1, <2>2, RepairIs
  <2>4. new[g] = to
    BY <1>2, <2>2
  <2> QED
    BY <2>2, <2>3, <2>4
<1>6. /\ new \in Seq([Col -> Disk]) /\ Len(new) = Len(disks) /\ DOMAIN new = DOMAIN disks
  <2>1. new = [g \in 1 .. Len(disks) |-> Repair(disks[g])]
    BY <1>2, <1>4
  <2>2. \A g \in 1 .. Len(disks) : Repair(disks[g]) \in [Col -> Disk]
    BY <1>2, <1>4, <1>5
  <2> QED
    BY <1>4, <2>1, <2>2
<1>7. SameBits(new, disks) /\ SameClean(new, disks)
  BY <1>5, <1>6 DEF SameBits, SameClean
<1>8. TypeOK'
  <2>1. disks' # << >>
    BY <1>1, <1>2, <1>6 DEF Inv, TypeOK
  <2> QED
    BY <1>2, <1>3, <1>6, <2>1 DEF Inv, TypeOK
<1>9. Shape(disks', now_raid2_add', Len(added'))
  <2>1. PICK n : n = Len(added)
    OBVIOUS
  <2>2. n \in Nat /\ Shape(disks, now_raid2_add, n)
    BY <1>1, <2>1 DEF Inv
  <2>3. Shape(new, now_raid2_add, n)
    BY <1>7, <2>2, ShapeKept
  <2> QED
    BY <1>2, <1>3, <2>1, <2>3
<1>10. Clean(disks) => Clean(disks')
  BY <1>2, <1>5, <1>6 DEF Clean
<1>11. ASSUME ~damage'.silent, ~damage'.early
       PROVE  Known(disks', added', disks'[Len(disks')][2].now)
  <2>1. Known(disks, added, disks[Len(disks)][2].now)
    BY <1>3, <1>11 DEF Inv
  <2>2. Known(new, added, disks[Len(disks)][2].now)
    BY <1>7, <2>1, KnownKept
  <2>3. Len(disks) \in DOMAIN disks /\ 2 \in Col
    BY <1>1, <1>4 DEF Inv, TypeOK, Col
  <2> QED
    BY <1>2, <1>3, <1>5, <1>6, <2>2, <2>3
<1> QED
  BY <1>3, <1>8, <1>9, <1>10, <1>11 DEF Inv

LEMMA NextInv ==
  ASSUME Inv, [Next]_vars
  PROVE  Inv'
<1>1. CASE Raid2Init
  BY <1>1, Raid2InitInv
<1>2. ASSUME NEW a \in Inputs, Raid2Add(a) PROVE Inv'
  BY <1>2, Raid2AddInv
<1>3. ASSUME NEW g \in DOMAIN disks, NEW i \in Col, NEW change \in SUBSET Bit,
             ChangeDisk(g, i, change)
      PROVE  Inv'
  BY <1>3, ChangeDiskInv
<1>4. ASSUME NEW num \in 0 .. Len(added) - 1, NEW change \in {0, 1}, ChangeBit(num, change)
      PROVE  Inv'
  BY <1>4, ChangeBitInv
<1>5. CASE Raid2Check
  BY <1>5, Raid2CheckInv
<1>6. CASE UNCHANGED vars
  <2>1. /\ disks' = disks /\ now_raid2_add' = now_raid2_add /\ now_raid2_disk' = now_raid2_disk
        /\ added' = added /\ damage' = damage
    BY <1>6 DEF vars
  <2> QED
    BY <2>1 DEF Inv, TypeOK
<1> QED
  BY <1>1, <1>2, <1>3, <1>4, <1>5, <1>6 DEF Next

LEMMA Inductive == Spec => []Inv
BY InitInv, NextInv, PTL DEF Spec

-----------------------------------------------------------------------------
(* What the invariant says of a bit that was added.                        *)

LEMMA StoredDone ==
  ASSUME NEW rows, NEW col, NEW n \in Nat, Shape(rows, col, n), NEW k \in Nat, k < n
  PROVE  /\ Row(k) \in Bit
         /\ Row(k) < IF Group(k) < Len(rows) THEN Width ELSE rows[Len(rows)][2].now
<1>1. /\ Row(k) \in Nat /\ Row(k) < Width /\ Row(n) \in Nat
      /\ Group(k) \in Nat /\ Group(n) \in Nat /\ k % 4 \in 0 .. 3 /\ n % 4 \in 0 .. 3
  BY PartsBound
<1>2. /\ Group(k) <= Group(n)
      /\ Group(k) = Group(n) => Row(k) <= Row(n) /\ (Row(k) = Row(n) => k % 4 < n % 4)
  BY Ordered
<1>3. Len(rows) = Group(n)
  BY DEF Shape
<1>4. rows[Len(rows)][2].now = Row(n) + (IF n % 4 = 0 THEN 0 ELSE 1)
  BY RowsDone
<1>5. Row(k) \in Bit
  BY <1>1, RaidAssumption DEF Bit
<1> QED
  BY <1>1, <1>2, <1>3, <1>4, <1>5

LEMMA StoredKnown ==
  ASSUME Inv, ~damage.silent, ~damage.early, NEW g \in DOMAIN disks, NEW k \in Stored(g)
  PROVE  /\ Row(k) \in Bit /\ Row(k) < disks[g][2].now /\ Place(k) \in Col
         /\ \E w \in SUBSET Col :
              /\ Original(w, disks[g], g, Row(k), added)
              /\ Place(k) \in w <=> added[k + 1] = 1
<1>1. PICK n : n = Len(added)
  OBVIOUS
<1>2. n \in Nat /\ Shape(disks, now_raid2_add, n)
  BY <1>1 DEF Inv, TypeOK
<1>3. k \in Nat /\ k < n /\ k \in 0 .. Len(added) - 1 /\ Group(k) = g
  BY <1>1, <1>2 DEF Stored
<1>4. /\ Row(k) \in Bit
      /\ Row(k) < IF g < Len(disks) THEN Width ELSE disks[Len(disks)][2].now
  BY <1>2, <1>3, StoredDone
<1>5. /\ DOMAIN disks = 1 .. Len(disks) /\ Len(disks) \in Nat
      /\ \A h \in DOMAIN disks : h < Len(disks) => disks[h][2].now = Width
  <2>1. \A h \in DOMAIN disks : h < Len(disks) => disks[h][2].now = Width
    BY <1>2, RowsDone
  <2>2. disks \in Seq([Col -> Disk])
    BY DEF Inv, TypeOK
  <2> QED
    BY <2>1, <2>2
<1>6. Row(k) < disks[g][2].now
  BY <1>4, <1>5
<1>7. Row(k) \in Nat /\ Place(k) \in Col
  BY <1>3, PartsBound, PlaceIs
<1>8. Row(k) \in 0 .. (IF g < Len(disks) THEN Width ELSE disks[Len(disks)][2].now) - 1
  <2>1. disks[Len(disks)][2].now = Row(n) + (IF n % 4 = 0 THEN 0 ELSE 1) /\ Row(n) \in Nat
    BY <1>2, RowsDone, PartsBound
  <2> QED
    BY <1>4, <1>7, <2>1, RaidAssumption
<1>9. PICK w \in SUBSET Col : Original(w, disks[g], g, Row(k), added)
  BY <1>8 DEF Inv, Known
<1>10. Place(k) \in w <=> added[k + 1] = 1
  BY <1>3, <1>9 DEF Original
<1> QED
  BY <1>4, <1>6, <1>7, <1>9, <1>10

LEMMA ReadsBackIs ==
  ASSUME NEW group, NEW k
  PROVE  ReadsBack(group, k) <=> (Row(k) \in group[Place(k)].data <=> added[k + 1] = 1)
BY DEF ReadsBack, Place

-----------------------------------------------------------------------------
(* The theorems.                                                           *)

\* The disks of a program are whole groups, no disk holds more than Width bits,
\* and there are as many disks in use as nraid2_disks allows, seven for each
\* group at least.
THEOREM TypeCorrect == Spec => []TypeOK
<1>1. Inv => TypeOK
  BY DEF Inv
<1> QED
  BY <1>1, Inductive, PTL

LEMMA InvStored == Inv => StoredRight
<1> SUFFICES ASSUME Inv, damage.calls = 0, NEW g \in DOMAIN disks
             PROVE  /\ \A k \in Stored(g) : ReadsBack(disks[g], k)
                    /\ \A row \in 0 .. disks[g][2].now - 1 : Syndrome(disks[g], row) = -1
                    /\ g = Len(disks) => disks[g][now_raid2_add].now < Width
  BY DEF StoredRight
<1>1. /\ ~damage.silent /\ ~damage.early /\ \A i \in Col : ~disks[g][i].dirty
      /\ Known(disks, added, disks[Len(disks)][2].now)
  BY DEF Inv, Clean
<1>2. ASSUME NEW k \in Stored(g) PROVE ReadsBack(disks[g], k)
  <2>1. PICK w \in SUBSET Col : /\ Original(w, disks[g], g, Row(k), added)
                                /\ Place(k) \in w <=> added[k + 1] = 1
                                /\ Place(k) \in Col
    BY <1>1, StoredKnown
  <2>2. Place(k) \in w <=> Row(k) \in disks[g][Place(k)].data
    BY <1>1, <2>1 DEF Original
  <2> QED
    BY <2>1, <2>2, ReadsBackIs
<1>3. PICK n : n = Len(added)
  OBVIOUS
<1>4. n \in Nat /\ Shape(disks, now_raid2_add, n)
  BY <1>3 DEF Inv, TypeOK
<1>5. /\ \A h \in DOMAIN disks : h < Len(disks) => disks[h][2].now = Width
      /\ disks[Len(disks)][now_raid2_add].now = Row(n)
      /\ DOMAIN disks = 1 .. Len(disks)
  BY <1>4, RowsDone
<1>6. disks \in Seq([Col -> Disk])
  BY DEF Inv, TypeOK
<1>7. ASSUME NEW row \in 0 .. disks[g][2].now - 1 PROVE Syndrome(disks[g], row) = -1
  <2>1. row \in 0 .. (IF g < Len(disks) THEN Width ELSE disks[Len(disks)][2].now) - 1
    <3>1. Len(disks) \in Nat /\ g <= Len(disks)
      BY <1>5, <1>6
    <3> QED
      BY <1>5, <1>7, <3>1
  <2>2. PICK w \in SUBSET Col : Original(w, disks[g], g, row, added)
    BY <1>1, <2>1 DEF Known
  <2>3. Word(w) /\ \A i \in Col : i \in w <=> row \in disks[g][i].data
    BY <1>1, <2>2 DEF Original
  <2>4. 0 \in Col
    BY DEF Col
  <2> QED
    BY <2>3, <2>4, SyndromeIs
<1>8. g = Len(disks) => disks[g][now_raid2_add].now < Width
  BY <1>4, <1>5, PartsBound
<1> QED
  BY <1>2, <1>7, <1>8

\* However a program cuts its bits into calls of sys_raid2_add, and however many
\* groups of disks they fill: until a disk is changed every bit reads back, every
\* row has a syndrome of 0 and the next bit has room.
THEOREM StoredIsRight == Spec => []StoredRight
BY InvStored, Inductive, PTL

\* The other dirty disks of a group, when there are few.
LEMMA FewDirty ==
  ASSUME NEW S \in SUBSET Col, NEW p \in S
  PROVE  /\ Cardinality(S) \in Nat
         /\ Cardinality(S) <= 1 => S = {p}
         /\ Cardinality(S) <= 2 => \E q \in Col \ {p} : S \subseteq {p, q}
<1>1. IsFiniteSet(S)
  <2>1. IsFiniteSet(Col)
    <3>1. Col = 0 .. 6 /\ 0 \in Int /\ 6 \in Int
      BY DEF Col
    <3> QED
      BY <3>1, FS_Interval
  <2> QED
    BY <2>1, FS_Subset
<1>2. PICK R : R = S \ {p}
  OBVIOUS
<1>3. IsFiniteSet(R) /\ Cardinality(R) = Cardinality(S) - 1
  BY <1>1, <1>2, FS_RemoveElement
<1>4. Cardinality(S) \in Nat /\ Cardinality(R) \in Nat
  BY <1>1, <1>3, FS_CardinalityType
<1>5. Cardinality(S) <= 1 => S = {p}
  <2>1. Cardinality(S) <= 1 => R = {}
    BY <1>3, <1>4, FS_EmptySet
  <2> QED
    BY <1>2, <2>1
<1>6. ASSUME Cardinality(S) <= 2 PROVE \E q \in Col \ {p} : S \subseteq {p, q}
  <2>1. CASE R = {}
    <3>1. \E q \in Col : q # p
      BY DEF Col
    <3> QED
      BY <1>2, <2>1, <3>1
  <2>2. CASE R # {}
    <3>1. PICK q : q \in R
      BY <2>2
    <3>2. IsFiniteSet(R \ {q}) /\ Cardinality(R \ {q}) = Cardinality(R) - 1
      BY <1>3, <3>1, FS_RemoveElement
    <3>3. Cardinality(R \ {q}) \in Nat
      BY <3>2, FS_CardinalityType
    <3>4. Cardinality(R \ {q}) = 0
      BY <1>3, <1>4, <1>6, <3>2, <3>3
    <3>5. R \ {q} = {}
      BY <3>2, <3>4, FS_EmptySet
    <3> QED
      BY <1>2, <3>1, <3>5
  <2> QED
    BY <2>1, <2>2
<1> QED
  BY <1>4, <1>5, <1>6

LEMMA RepairsBit ==
  ASSUME Inv, ~damage.silent, ~damage.early, NEW g \in DOMAIN disks, NEW k \in Stored(g),
         NEW group, group = Repair(disks[g]),
         Cardinality(Dirty(disks[g])) <= 1 \/ ReadsBack(disks[g], k)
  PROVE  ReadsBack(group, k)
<1>1. PICK from, p, row : from = disks[g] /\ p = Place(k) /\ row = Row(k)
  OBVIOUS
<1>2. /\ row \in Bit /\ row < from[2].now /\ p \in Col
      /\ \E w \in SUBSET Col : /\ Original(w, from, g, row, added)
                               /\ p \in w <=> added[k + 1] = 1
  BY <1>1, StoredKnown
<1>3. PICK w \in SUBSET Col : /\ Original(w, from, g, row, added)
                              /\ p \in w <=> added[k + 1] = 1
  BY <1>2
<1>4. Word(w) /\ \A i \in Col : from[i].dirty \/ (i \in w <=> row \in from[i].data)
  BY <1>3 DEF Original
<1>5. from \in [Col -> Disk]
  BY <1>1 DEF Inv, TypeOK
<1>6. /\ ~from[p].dirty => group[p].data = from[p].data
      /\ row \in group[p].data <=>
           IF /\ row < from[2].now /\ Syndrome(from, row) = p
              /\ from[p].dirty /\ Cardinality(Dirty(from)) <= 2
             THEN row \notin from[p].data ELSE row \in from[p].data
  BY <1>1, <1>2, <1>5, RepairIs
<1>7. SUFFICES row \in group[p].data <=> p \in w
  BY <1>1, <1>3, ReadsBackIs
<1>8. Cardinality(Dirty(from)) <= 1 \/ (row \in from[p].data <=> p \in w)
  BY <1>1, <1>3, ReadsBackIs
<1>9. CASE ~from[p].dirty
  BY <1>2, <1>4, <1>6, <1>9
<1>10. CASE from[p].dirty
  <2>1. Dirty(from) \in SUBSET Col /\ p \in Dirty(from)
    BY <1>2, <1>10 DEF Dirty
  <2>2. \A i \in Col \ Dirty(from) : i \in w <=> row \in from[i].data
    BY <1>4 DEF Dirty
  <2>3. Cardinality(Dirty(from)) \in Nat
    BY <2>1, FewDirty
  <2>4. CASE Cardinality(Dirty(from)) <= 1
    <3>1. Dirty(from) = {p}
      BY <2>1, <2>4, FewDirty
    <3>2. Syndrome(from, row) = IF p \in w <=> row \in from[p].data THEN -1 ELSE p
      BY <1>2, <1>4, <2>2, <3>1, SyndromeIs
    <3>3. Cardinality(Dirty(from)) <= 2 /\ p # -1
      BY <1>2, <2>3, <2>4 DEF Col
    <3> QED
      BY <1>2, <1>6, <1>10, <3>2, <3>3
  <2>5. CASE Cardinality(Dirty(from)) <= 2 /\ (row \in from[p].data <=> p \in w)
    <3>1. PICK q \in Col \ {p} : Dirty(from) \subseteq {p, q}
      BY <2>1, <2>5, FewDirty
    <3>2. \A i \in Col \ {q} : i \in w <=> row \in from[i].data
      BY <2>2, <2>5, <3>1
    <3>3. Syndrome(from, row) = IF q \in w <=> row \in from[q].data THEN -1 ELSE q
      BY <1>4, <3>1, <3>2, SyndromeIs
    <3>4. p # -1
      BY <1>2 DEF Col
    <3> QED
      BY <1>6, <2>5, <3>1, <3>3, <3>4
  <2>6. CASE ~(Cardinality(Dirty(from)) <= 2) /\ (row \in from[p].data <=> p \in w)
    BY <1>6, <2>6
  <2> QED
    BY <1>8, <2>4, <2>5, <2>6
<1> QED
  BY <1>9, <1>10

\* sys_raid2_check, when all damage is known and no addition has taken it into
\* the parities of a row: with at most one dirty disk in a group every bit of the
\* group reads back after it, with more no bit that read back is lost.
THEOREM ChecksRepair == Spec => CheckRepairs
<1> DEFINE Step == (added' = added /\ damage' = damage /\ ~damage.silent /\ ~damage.early) =>
                     \A g \in DOMAIN disks : \A k \in Stored(g) :
                       (Cardinality(Dirty(disks[g])) <= 1 \/ ReadsBack(disks[g], k)) =>
                         ReadsBack(disks[g], k)'
<1>1. ASSUME Inv, Next PROVE Step
  <2>1. SUFFICES ASSUME added' = added, damage' = damage, ~damage.silent, ~damage.early,
                        NEW g \in DOMAIN disks, NEW k \in Stored(g),
                        Cardinality(Dirty(disks[g])) <= 1 \/ ReadsBack(disks[g], k)
                 PROVE  ReadsBack(disks[g], k)'
    BY DEF Step
  <2>2. /\ added \in Seq({0, 1})
        /\ damage \in [calls : 0 .. MaxChanges, silent : BOOLEAN, early : BOOLEAN]
    BY <1>1 DEF Inv, TypeOK
  <2>3. ~Raid2Init
    <3>1. SUFFICES ASSUME Raid2Init PROVE FALSE
      OBVIOUS
    <3>2. Len(added) = 0
      BY <2>1, <3>1 DEF Raid2Init
    <3> QED
      BY <2>1, <3>2 DEF Stored
  <2>4. ASSUME NEW a \in Inputs PROVE ~Raid2Add(a)
    <3>1. SUFFICES ASSUME Raid2Add(a) PROVE FALSE
      OBVIOUS
    <3>2. a \in Seq({0, 1}) /\ a # << >> /\ added' = added \o a
      BY <3>1, RaidAssumption DEF Raid2Add
    <3>3. Len(added') = Len(added) + Len(a) /\ Len(a) # 0 /\ Len(a) \in Nat /\ Len(added) \in Nat
      BY <2>2, <3>2
    <3> QED
      BY <2>1, <3>3
  <2>5. damage.calls \in Nat /\ damage.calls # damage.calls + 1
    BY <2>2
  <2>6. ASSUME NEW h \in DOMAIN disks, NEW i \in Col, NEW change \in SUBSET Bit
        PROVE  ~ChangeDisk(h, i, change)
    <3>1. SUFFICES ASSUME ChangeDisk(h, i, change) PROVE FALSE
      OBVIOUS
    <3>2. damage'.calls = damage.calls + 1
      BY <2>2, <3>1 DEF ChangeDisk
    <3> QED
      BY <2>1, <2>5, <3>2
  <2>7. ASSUME NEW num \in 0 .. Len(added) - 1, NEW change \in {0, 1}
        PROVE  ~ChangeBit(num, change)
    <3>1. SUFFICES ASSUME ChangeBit(num, change) PROVE FALSE
      OBVIOUS
    <3>2. damage' = [damage EXCEPT !.calls = damage.calls + 1, !.silent = TRUE]
      BY <3>1 DEF ChangeBit
    <3>3. damage'.silent
      BY <2>2, <3>2
    <3> QED
      BY <2>1, <3>3
  <2>8. Raid2Check
    BY <1>1, <2>3, <2>4, <2>6, <2>7 DEF Next
  <2>9. PICK group : group = Repair(disks[g])
    OBVIOUS
  <2>10. disks'[g] = group
    BY <2>8, <2>9 DEF Raid2Check
  <2>11. ReadsBack(group, k)
    BY <1>1, <2>1, <2>9, RepairsBit
  <2> QED
    BY <2>1, <2>10, <2>11 DEF ReadsBack, Row
<1>2. ASSUME Inv, [Next]_vars PROVE [Step]_vars
  BY <1>1, <1>2
<1> QED
  BY <1>2, Inductive, PTL DEF Spec, CheckRepairs

=============================================================================
