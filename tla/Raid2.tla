-------------------------------- MODULE Raid2 --------------------------------
(***************************************************************************)
(* The RAID-2 demonstration (sys_raid2_init, _add, _change and _check of   *)
(* kern/syscall.c): bits are stored on groups of seven disks, four for     *)
(* data and three for the parities of a Hamming code, one code word per    *)
(* row.  The groups of a program are a chain, here a sequence.  A disk's   *)
(* data is the set of the bits that are 1; it has Width bits (32).  A step *)
(* is one system call, which the kernel lock makes atomic.                 *)
(***************************************************************************)
EXTENDS Integers, Sequences, FiniteSets

CONSTANTS Width,       \* bits of a disk
          NDisk,       \* bound: disks in use (nraid2_disks)
          Inputs,      \* sequences of bits a program adds in one call
          MaxChanges   \* bound: calls of sys_raid2_change

ASSUME RaidAssumption ==
  /\ Width \in Nat \ {0} /\ NDisk \in Nat /\ NDisk >= 7 /\ MaxChanges \in Nat
  /\ Inputs \subseteq Seq({0, 1}) /\ \A a \in Inputs : a # << >>

VARIABLES
  disks,   \* the groups, from origin_raid2_disk to user_raid2_disk
  now_raid2_add,
  now_raid2_disk,
  added,   \* history: the bits that were added
  damage   \* history: the calls of sys_raid2_change, and whether the bits of a
           \* row were changed before the row was complete

vars == <<disks, now_raid2_add, now_raid2_disk, added, damage>>

Bit == 0 .. Width - 1
Col == 0 .. 6
DataCols == <<2, 4, 5, 6>>

\* The data disks each parity disk covers.
Covers == [p \in {0, 1, 3} |->
  CASE p = 0 -> {2, 4, 6} [] p = 1 -> {2, 5, 6} [] p = 3 -> {4, 5, 6}]

nn_add == [i \in {2, 4, 5, 6} |->
  CASE i = 2 -> 4 [] i = 4 -> 5 [] i = 5 -> 6 [] i = 6 -> 2]

Disk == [dirty : BOOLEAN, now : 0 .. Width, data : SUBSET Bit]

NewGroup == [i \in Col |-> [dirty |-> FALSE, now |-> 0, data |-> {}]]

NoDamage == [calls |-> 0, silent |-> FALSE, early |-> FALSE]

\* sys_raid2_init has been called.
Init ==
  /\ disks = <<NewGroup>> /\ now_raid2_add = 2 /\ now_raid2_disk = 7
  /\ added = << >> /\ damage = NoDamage

\* A program that starts over gets new disks.
Raid2Init ==
  /\ now_raid2_disk + 7 <= NDisk
  /\ disks' = <<NewGroup>> /\ now_raid2_add' = 2
  /\ now_raid2_disk' = now_raid2_disk + 7
  /\ added' = << >> /\ damage' = NoDamage

-----------------------------------------------------------------------------
Odd(S) == (Cardinality(S) % 2) = 1

Put(data, row, one) == IF one THEN data \cup {row} ELSE data \ {row}

\* Mutant: the parities of the row below the one that was written.
HammingNext(group, row) ==
  [i \in Col |-> IF i \notin DOMAIN Covers THEN group[i]
     ELSE [group[i] EXCEPT !.data =
             Put(@, row, Odd({d \in Covers[i] : row + 1 \in group[d].data}))]]

\* The parities of one row.
Hamming(group, row) ==
  [i \in Col |-> IF i \notin DOMAIN Covers THEN group[i]
     ELSE [group[i] EXCEPT !.data =
             Put(@, row, Odd({d \in Covers[i] : row \in group[d].data}))]]

\* Mutant: new disks are taken only when a call ends.
AddBitLate(st, a, i) ==
  LET last == i = Len(a)
      n == Len(st.disks)
      disk == st.disks[n][st.col]
      put == [st.disks[n] EXCEPT ![st.col] =
                [disk EXCEPT !.data = Put(@, disk.now, a[i] = 1), !.now = @ + 1]]
      col == nn_add[st.col]
      group == IF last \/ col = 2 THEN Hamming(put, put[2].now - 1) ELSE put
      rows == [st.disks EXCEPT ![n] = group]
  IN [disks |-> IF last /\ group[6].now = Width THEN Append(rows, NewGroup) ELSE rows,
      col |-> col]

\* The loop of sys_raid2_add for the bit i of a: st has the groups and the column.
AddBit(st, a, i) ==
  LET last == i = Len(a)
      n == Len(st.disks)
      disk == st.disks[n][st.col]
      put == [st.disks[n] EXCEPT ![st.col] =
                [disk EXCEPT !.data = Put(@, disk.now, a[i] = 1), !.now = @ + 1]]
      col == nn_add[st.col]
      group == IF last \/ col = 2 THEN Hamming(put, put[2].now - 1) ELSE put
      rows == [st.disks EXCEPT ![n] = group]
  IN [disks |-> IF (last \/ col = 2) /\ group[6].now = Width
                  THEN Append(rows, NewGroup) ELSE rows,
      col |-> col]

\* The loop over the bits of a.
AddBits(st, a) ==
  LET after[i \in 0 .. Len(a)] ==
        IF i = 0 THEN st ELSE AddBit(after[i - 1], a, i)
  IN after[Len(a)]

Raid2Add(a) ==
  LET st == AddBits([disks |-> disks, col |-> now_raid2_add], a)
      more == 7 * (Len(st.disks) - Len(disks))
  IN /\ now_raid2_disk + more <= NDisk
     /\ disks' = st.disks /\ now_raid2_add' = st.col
     /\ now_raid2_disk' = now_raid2_disk + more
     /\ added' = added \o a
     /\ damage' = [damage EXCEPT !.early = @ \/ (damage.calls > 0 /\ now_raid2_add # 2)]

\* A disk gets other contents and is known to be dirty.
ChangeDisk(g, i, change) ==
  /\ damage.calls < MaxChanges
  /\ disks' = [disks EXCEPT ![g][i] = [@ EXCEPT !.dirty = TRUE, !.data = change]]
  /\ damage' = [damage EXCEPT !.calls = @ + 1]
  /\ UNCHANGED <<now_raid2_add, now_raid2_disk, added>>

\* Bit num becomes change, and nobody knows.  A num that is a multiple of
\* 4 * Width counts as the row after the last one of the group before, which the
\* processor takes for row 0; a 1 goes to row 0 whatever the row.
ChangeBit(num, change) ==
  LET g == IF num > 4 * Width THEN (num - 1) \div (4 * Width) ELSE 0
      rest == num - g * 4 * Width
      i == DataCols[(rest % 4) + 1]
      row == (rest \div 4) % Width
      data == disks[g + 1][i].data \ {row}
  IN /\ damage.calls < MaxChanges
     /\ disks' = [disks EXCEPT ![g + 1][i].data =
                    IF change = 1 THEN data \cup {0} ELSE data]
     /\ damage' = [damage EXCEPT !.calls = @ + 1, !.silent = TRUE]
     /\ UNCHANGED <<now_raid2_add, now_raid2_disk, added>>

-----------------------------------------------------------------------------
\* sys_raid2_check, for one row of one group: the disk the syndrome names, or -1.
Weight == [p \in {0, 1, 3} |-> CASE p = 0 -> 1 [] p = 1 -> 2 [] p = 3 -> 4]

Syndrome(group, row) ==
  LET wrong(p) == Odd({d \in Covers[p] \cup {p} : row \in group[d].data})
      term(p) == IF wrong(p) THEN Weight[p] ELSE 0
  IN term(0) + term(1) + term(3) - 1

Dirty(group) == {i \in Col : group[i].dirty}

\* Mutant: the disk the syndrome names is repaired, dirty or not.
RepairNamed(group) ==
  [i \in Col |-> [group[i] EXCEPT !.data =
     {r \in Bit : (r \in @) #
        (/\ r < group[2].now /\ Syndrome(group, r) = i
         /\ Cardinality(Dirty(group)) <= 2)}]]

\* A dirty disk may be repaired, unless more than two of the group are dirty.
Repair(group) ==
  [i \in Col |-> [group[i] EXCEPT !.data =
     {r \in Bit : (r \in @) #
        (/\ r < group[2].now /\ Syndrome(group, r) = i
         /\ group[i].dirty /\ Cardinality(Dirty(group)) <= 2)}]]

Raid2Check ==
  /\ disks' = [g \in DOMAIN disks |-> Repair(disks[g])]
  /\ UNCHANGED <<now_raid2_add, now_raid2_disk, added, damage>>

Next ==
  \/ Raid2Init
  \/ \E a \in Inputs : Raid2Add(a)
  \/ \E g \in DOMAIN disks, i \in Col, change \in SUBSET Bit : ChangeDisk(g, i, change)
  \/ \E num \in 0 .. Len(added) - 1, change \in {0, 1} : ChangeBit(num, change)
  \/ Raid2Check

Spec == Init /\ [][Next]_vars

-----------------------------------------------------------------------------
TypeOK ==
  /\ disks \in Seq([Col -> Disk]) /\ disks # << >>
  /\ now_raid2_add \in DOMAIN nn_add /\ now_raid2_disk \in 7 * Len(disks) .. NDisk
  /\ added \in Seq({0, 1})
  /\ damage \in [calls : 0 .. MaxChanges, silent : BOOLEAN, early : BOOLEAN]

\* The disk bit number k of what was added (from 0) is on reads back that bit.
Group(k) == (k \div (4 * Width)) + 1
Row(k) == (k \div 4) % Width
ReadsBack(group, k) ==
  (Row(k) \in group[DataCols[(k % 4) + 1]].data) = (added[k + 1] = 1)

Stored(g) == {k \in 0 .. Len(added) - 1 : Group(k) = g}

\* However a program cuts its bits into calls (the kernel goes on in the middle
\* of a row, and at the end of a group with new disks), as long as nothing is
\* damaged each bit is where a reader looks for it, every row has a syndrome of
\* 0, and the next bit has a disk with room.
StoredRight ==
  damage.calls = 0 =>
    \A g \in DOMAIN disks :
      /\ \A k \in Stored(g) : ReadsBack(disks[g], k)
      /\ \A row \in 0 .. disks[g][2].now - 1 : Syndrome(disks[g], row) = -1
      /\ g = Len(disks) => disks[g][now_raid2_add].now < Width

\* sys_raid2_check, the call that neither adds nor changes: with one dirty disk
\* in a group every bit reads back after it, with two or more no bit that read
\* back is lost.  That needs the damage to be known (silent) and not to be taken
\* into the parities by an addition to the same row (early).
CheckRepairs ==
  [][ (added' = added /\ damage' = damage /\ ~damage.silent /\ ~damage.early) =>
        \A g \in DOMAIN disks : \A k \in Stored(g) :
          (Cardinality(Dirty(disks[g])) <= 1 \/ ReadsBack(disks[g], k)) =>
            ReadsBack(disks[g], k)' ]_vars
=============================================================================
