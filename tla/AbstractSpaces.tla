--------------------------- MODULE AbstractSpaces ---------------------------
(***************************************************************************)
(* What environments see of the page system calls: each has an address     *)
(* space, a partial function from addresses to pages with a permission.    *)
(* There are no page tables, no reference counts and no free list here: a  *)
(* new page is one that nobody has.                                        *)
(***************************************************************************)
CONSTANTS Env, VA, Page, None

VARIABLE space  \* for each environment and address, a mapping or None

Mapping == [page : Page, w : BOOLEAN]

TypeOK == space \in [Env -> [VA -> Mapping \cup {None}]]

Init == space = [e \in Env |-> [va \in VA |-> None]]

Pages(e) == {space[e][va].page : va \in {x \in VA : space[e][x] # None}}

\* A page nobody has appears in an address space.
Alloc(e, va) ==
  \E p \in Page \ UNION {Pages(f) : f \in Env}, w \in BOOLEAN :
    space' = [space EXCEPT ![e][va] = [page |-> p, w |-> w]]

\* A mapping is copied, never with more rights.
Copy(src, srcva, dst, dstva) ==
  /\ space[src][srcva] # None
  /\ \E w \in BOOLEAN :
       /\ w => space[src][srcva].w
       /\ space' = [space EXCEPT ![dst][dstva] =
                                   [page |-> space[src][srcva].page, w |-> w]]

Remove(e, va) == space' = [space EXCEPT ![e][va] = None]

\* A new program takes over: it keeps some pages of the old one, with any
\* rights, and gets no others.
Exec(e) ==
  /\ space' = [space EXCEPT ![e] = space'[e]]
  /\ \A va \in VA : space'[e][va] # None => space'[e][va].page \in Pages(e)

Clear(e) == space' = [space EXCEPT ![e] = [va \in VA |-> None]]

Next ==
  \/ \E e \in Env, va \in VA : Remove(e, va)
  \/ \E e, f \in Env, va, wa \in VA : Copy(e, va, f, wa)
  \/ \E e \in Env, va \in VA : Alloc(e, va)
  \/ \E e \in Env : Exec(e) \/ Clear(e)

Spec == Init /\ [][Next]_space
=============================================================================
