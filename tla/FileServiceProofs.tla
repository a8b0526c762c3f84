-------------------------- MODULE FileServiceProofs --------------------------
(***************************************************************************)
(* For any number of clients, descriptors, entries of opentab, files and   *)
(* sizes: every request gets its own answer, an open file is not given     *)
(* away, and the server and its clients implement AbstractFiles.           *)
(***************************************************************************)
EXTENDS FileService, FiniteSetTheorems, TLAPS

-----------------------------------------------------------------------------
(* The invariant.                                                          *)

OpenRequest == [file : File \cup {None}]
FileRequest == [id : Ids, n : Counts \cup {0}]

Opening(c) == pc[c].op = FSREQ_OPEN

\* c has sent its request and has no answer; the server has one to work on.
Waiting(c) == pc[c].at = "sent" \/ (pc[c].at = "wait" /\ ipc[c].recving)
Busy ==
  (srv.at = "recv" /\ ~ipc[Fs].recving) \/ srv.at \in {"scan", "advance", "reply"}

\* The page fsipcbuf of c holds its request.
Requests(c) ==
  IF Opening(c) THEN pc[c].buf \in OpenRequest
  ELSE /\ pc[c].buf \in FileRequest /\ pc[c].buf.n = pc[c].n
       /\ open[pc[c].buf.id % MAXOPEN].mapped

\* The descriptor of the call is still to be opened, or is open.
HasSlot(c) ==
  IF Opening(c) THEN fd[c][pc[c].slot] = None ELSE fd[c][pc[c].slot] # None

\* A request, which tells the id of the open file if its client is alive.
Asked(c) ==
  /\ Requests(c)
  /\ pc[c].at # "dead" =>
       HasSlot(c) /\ (~Opening(c) => pc[c].buf.id = open[fd[c][pc[c].slot]].id)

\* The answer of the server, where one is needed.
Replied(c) ==
  /\ Opening(c) => pc[c].buf \in OpenRequest
  /\ ~Opening(c) /\ pc[c].at # "dead" =>
       HasSlot(c) /\ (pc[c].op # FSREQ_FLUSH => pc[c].buf \in Contents)

\* An entry of opentab that is in use.
InUse(i) ==
  open[i].mapped /\ open[i].o_file \in File /\ open[i].id = open[i].o_fileid

Table ==
  \A i \in Open : open[i].o_fileid % MAXOPEN = i /\ (Held(i) => InUse(i))

Receiver(c) ==
  ipc[c].recving => /\ pc[c].at = "wait" /\ ipc[c].from = None
                    /\ ipc[c].dstva = IF Opening(c) THEN pc[c].slot ELSE None

\* What a client may rely on, by where it is.
Place(c) ==
  /\ pc[c].at \in {"none", "dead"} => \A s \in Slot : fd[c][s] = None
  /\ pc[c].at = "send" => Asked(c)
  /\ Waiting(c) => Busy /\ whom = c
  /\ pc[c].at = "wait" /\ ~ipc[c].recving => Replied(c)
  /\ pc[c].at = "close" => ~Opening(c) /\ HasSlot(c)
  /\ pc[c].at = "fork" =>
       /\ c = Parent /\ pc[pc[c].child].at = "new"
       /\ \A s \in pc[c].todo : fd[c][s] # None /\ fd[pc[c].child][s] = None

\* The entry i has just been taken for the open of c.
Fresh(i, c) ==
  /\ i \in Open /\ ~Held(i) /\ InUse(i)
  /\ open[i].fd_offset = 0 /\ pc[c].buf = [file |-> open[i].o_file]

Serving ==
  /\ ipc[Fs].recving => srv.at = "recv" /\ whom = None /\ ipc[Fs].dstva = Fs
  /\ srv.at = "ready" => whom = None
  /\ Busy => whom \in Client /\ (Waiting(whom) \/ pc[whom].at = "dead")
  /\ srv.at = "recv" /\ ~ipc[Fs].recving =>
       ipc[Fs].perm /\ ipc[Fs].value = pc[whom].op /\ Asked(whom)
  /\ srv.at = "scan" => Opening(whom) /\ Asked(whom) /\ ~srv.page
  /\ srv.at = "advance" =>
       /\ pc[whom].op = FSREQ_READ /\ Replied(whom) /\ pc[whom].buf \in Contents
       /\ srv.i \in Open /\ srv.r = pc[whom].buf.len /\ ~srv.page
  /\ srv.at = "reply" =>
       /\ Replied(whom) /\ (Opening(whom) => Asked(whom))
       /\ srv.page => Opening(whom) /\ Fresh(srv.i, whom)

Inv ==
  /\ TypeOK /\ Table /\ Serving
  /\ \A c \in Client : Receiver(c) /\ Place(c)

-----------------------------------------------------------------------------
(* Requests, answers and places.                                           *)

LEMMA Kinds ==
  /\ \A x \in OpenRequest : x \notin FileRequest /\ x \notin Contents
  /\ \A x \in FileRequest : x \notin Contents
<1>1. ASSUME NEW x \in OpenRequest PROVE DOMAIN x = {"file"}
  BY DEF OpenRequest
<1>2. ASSUME NEW x \in FileRequest PROVE DOMAIN x = {"id", "n"}
  BY DEF FileRequest
<1>3. ASSUME NEW x \in Contents PROVE DOMAIN x = {"file", "from", "len"}
  BY DEF Contents
<1>4. /\ {"file"} # {"id", "n"} /\ {"file"} # {"file", "from", "len"}
      /\ {"id", "n"} # {"file", "from", "len"}
  OBVIOUS
<1> QED
  BY <1>1, <1>2, <1>3, <1>4

LEMMA Constants ==
  /\ Parent \in Client /\ Fs \notin Client /\ Client \subseteq Env /\ Fs \in Env
  /\ None \notin Client /\ None # Fs /\ None \notin Slot /\ None \notin Open
  /\ None \notin File /\ 0 \in Slot /\ Slot \subseteq Int /\ Open \subseteq Int
  /\ Counts \subseteq Nat /\ Size \in Nat /\ 0 \in Ids /\ MAXOPEN \in Nat \ {0}
BY FileAssumption DEF Env, Slot, Open, Ids

\* The places that carry no call.
LEMMA Places ==
  /\ \A p \in {"none", "new", "idle", "dead"} : At(p) \in Local
  /\ Idle \in Local
BY Constants DEF At, Idle, Local, Ops, FSREQ_OPEN, FSREQ_READ, FSREQ_STAT, FSREQ_FLUSH

\* A change of place keeps the rest.
LEMMA PlaceIs ==
  ASSUME NEW l \in Local,
         NEW p \in {"none", "new", "idle", "send", "sent", "wait", "close", "fork", "dead"}
  PROVE  LET k == [l EXCEPT !.at = p]
         IN  /\ k \in Local /\ k.at = p /\ k.op = l.op /\ k.slot = l.slot
             /\ k.n = l.n /\ k.buf = l.buf /\ k.todo = l.todo /\ k.child = l.child
BY DEF Local

LEMMA AtIs ==
  ASSUME NEW p
  PROVE  At(p).at = p /\ Idle.at = "idle" /\ At(p).buf = None /\ Idle.buf = None
BY DEF At, Idle

LEMMA Types ==
  ASSUME Inv
  PROVE  /\ \A c \in Client : /\ pc[c] \in Local /\ pc[c].slot \in Slot
                              /\ pc[c].child \in Client /\ pc[c].todo \in SUBSET Slot
         /\ \A c \in Client, s \in Slot : fd[c][s] \in Open \cup {None}
         /\ \A i \in Open : open[i] \in OpenFile /\ open[i].fd_offset \in Nat
         /\ \A e \in Env : ipc[e] \in IpcFields /\ ipc[e].from \in Env \cup {None}
         /\ srv \in Server
BY DEF Inv, TypeOK, Local, OpenFile, IpcFields

-----------------------------------------------------------------------------
(* The pages of open files.                                                *)

LEMMA HeldIs ==
  ASSUME NEW i
  PROVE  Held(i) <=> Holders(i) # {}
<1>1. ASSUME NEW c \in Client, NEW s \in Slot, fd[c][s] = i
      PROVE  Holders(i) # {}
  <2>1. PICK h : h = <<c, s>>
    OBVIOUS
  <2>2. h \in Client \X Slot /\ fd[h[1]][h[2]] = i
    BY <1>1, <2>1
  <2> QED
    BY <2>2 DEF Holders
<1>2. ASSUME NEW h \in Client \X Slot, fd[h[1]][h[2]] = i
      PROVE  Held(i)
  <2>1. h[1] \in Client /\ h[2] \in Slot
    OBVIOUS
  <2> QED
    BY <1>2, <2>1 DEF Held
<1> QED
  BY <1>1, <1>2 DEF Held, Holders

LEMMA PageRefs ==
  ASSUME NEW i \in Open
  PROVE  /\ Held(i) /\ open[i].mapped => PageRef(i) # 1 /\ ~Free(i)
         /\ ~Held(i) => PageRef(i) = IF open[i].mapped THEN 1 ELSE 0
<1>1. IsFiniteSet(Client \X Slot)
  <2>1. IsFiniteSet(Client)
    BY FileAssumption
  <2>2. IsFiniteSet(Slot)
    BY FileAssumption, FS_Interval DEF Slot
  <2> QED
    BY <2>1, <2>2, FS_Product
<1>2. IsFiniteSet(Holders(i)) /\ Cardinality(Holders(i)) \in Nat
  <2>1. Holders(i) \in SUBSET (Client \X Slot)
    BY DEF Holders
  <2> QED
    BY <1>1, <2>1, FS_Subset, FS_CardinalityType
<1>3. Cardinality(Holders(i)) = 0 <=> Holders(i) = {}
  BY <1>2, FS_EmptySet
<1>4. PageRef(i) = Cardinality(Holders(i)) + (IF open[i].mapped THEN 1 ELSE 0)
  BY DEF PageRef
<1> QED
  BY <1>2, <1>3, <1>4, HeldIs DEF Free

LEMMA ModIs ==
  ASSUME NEW a \in Nat, NEW q \in Int, NEW r \in Int, NEW m \in Nat \ {0},
         0 <= r, r < m, a = q * m + r
  PROVE  a % m = r
OBVIOUS

LEMMA ModParts ==
  ASSUME NEW a \in Nat, NEW m \in Nat \ {0}
  PROVE  /\ \E q \in Nat : a = q * m + (a % m)
         /\ a % m \in Nat /\ a % m < m
<1>1. PICK q : q = a \div m
  OBVIOUS
<1>2. a = q * m + (a % m) /\ q \in Nat
  BY <1>1
<1>3. a % m \in Nat /\ a % m < m
  OBVIOUS
<1> QED
  BY <1>2, <1>3

\* The ids of an entry of opentab stay congruent to its index.
LEMMA NextId ==
  ASSUME NEW id \in Ids
  PROVE  /\ (id + MAXOPEN) % IdSpace \in Ids
         /\ ((id + MAXOPEN) % IdSpace) % MAXOPEN = id % MAXOPEN
<1>1. /\ IdSpace \in Nat /\ MAXOPEN \in Nat \ {0} /\ MAXOPEN < IdSpace
      /\ IdSpace % MAXOPEN = 0 /\ id \in Nat /\ id < IdSpace /\ IdSpace # 0
  BY FileAssumption DEF Ids
<1>2. PICK k \in Nat : IdSpace = k * MAXOPEN + 0
  BY <1>1, ModParts
<1>3. PICK q \in Nat : id = q * MAXOPEN + (id % MAXOPEN)
  BY <1>1, ModParts
<1>4. id % MAXOPEN \in Nat /\ id % MAXOPEN < MAXOPEN
  BY <1>1, ModParts
<1>5. CASE id + MAXOPEN < IdSpace
  <2>1. (id + MAXOPEN) % IdSpace = id + MAXOPEN
    <3>1. id + MAXOPEN = 0 * IdSpace + (id + MAXOPEN)
      BY <1>1
    <3> QED
      BY <1>1, <1>5, <3>1, ModIs
  <2>2. id + MAXOPEN = (q + 1) * MAXOPEN + (id % MAXOPEN)
    BY <1>1, <1>3, <1>4
  <2>3. (id + MAXOPEN) % MAXOPEN = id % MAXOPEN
    <3>1. PICK a : a = id + MAXOPEN
      OBVIOUS
    <3>2. PICK r : r = id % MAXOPEN
      OBVIOUS
    <3>3. a \in Nat /\ q + 1 \in Int /\ r \in Int /\ 0 <= r /\ r < MAXOPEN
      BY <1>1, <1>4, <3>1, <3>2
    <3>4. a = (q + 1) * MAXOPEN + r
      BY <2>2, <3>1, <3>2
    <3>5. a % MAXOPEN = r
      BY <1>1, <3>3, <3>4, ModIs
    <3> QED
      BY <3>1, <3>2, <3>5
  <2> QED
    BY <1>1, <1>5, <2>1, <2>3 DEF Ids
<1>6. CASE id + MAXOPEN >= IdSpace
  <2>1. (id + MAXOPEN) % IdSpace = id + MAXOPEN - IdSpace
    <3>1. id + MAXOPEN = 1 * IdSpace + (id + MAXOPEN - IdSpace)
      BY <1>1
    <3>2. 0 <= id + MAXOPEN - IdSpace /\ id + MAXOPEN - IdSpace < IdSpace
      BY <1>1, <1>6
    <3> QED
      BY <1>1, <3>1, <3>2, ModIs
  <2>2. id + MAXOPEN - IdSpace = (q + 1 - k) * MAXOPEN + (id % MAXOPEN)
    BY <1>1, <1>2, <1>3, <1>4
  <2>3. id + MAXOPEN - IdSpace \in Nat /\ id + MAXOPEN - IdSpace < IdSpace
    BY <1>1, <1>6
  <2>4. (id + MAXOPEN - IdSpace) % MAXOPEN = id % MAXOPEN
    BY <1>1, <1>4, <2>2, <2>3, ModIs
  <2> QED
    BY <1>1, <2>1, <2>3, <2>4 DEF Ids
<1> QED
  BY <1>1, <1>5, <1>6

-----------------------------------------------------------------------------
(* What a step leaves alone.                                               *)

\* Pages of open files stay mapped, and held ones keep their id.
TableKept ==
  \A i \in Open : /\ open[i].mapped => open'[i].mapped
                  /\ Held(i) => open'[i].id = open[i].id

SameCall(c) ==
  /\ pc'[c].op = pc[c].op /\ pc'[c].slot = pc[c].slot
  /\ pc'[c].n = pc[c].n /\ pc'[c].buf = pc[c].buf

SameFds(c) == \A s \in Slot : fd'[c][s] = fd[c][s]

LEMMA HeldOpen ==
  ASSUME Inv, NEW c \in Client, NEW s \in Slot, fd[c][s] # None
  PROVE  fd[c][s] \in Open /\ Held(fd[c][s]) /\ InUse(fd[c][s])
BY Types DEF Inv, Table, Held

LEMMA RequestEntry ==
  ASSUME NEW x \in FileRequest
  PROVE  x.id \in Ids /\ x.id % MAXOPEN \in Open
<1>1. x.id \in Ids
  BY DEF FileRequest
<1>2. x.id \in Nat /\ MAXOPEN \in Nat \ {0}
  BY <1>1, FileAssumption DEF Ids
<1>3. x.id % MAXOPEN \in Nat /\ x.id % MAXOPEN < MAXOPEN
  BY <1>2, ModParts
<1> QED
  BY <1>1, <1>2, <1>3 DEF Open

LEMMA AskedKept ==
  ASSUME Inv, TableKept, NEW c \in Client, SameCall(c), Asked(c),
         pc'[c].at # "dead" => pc[c].at # "dead" /\ SameFds(c)
  PROVE  Asked(c)'
<1>1. Opening(c)' <=> Opening(c)
  BY DEF Opening, SameCall
<1>2. Requests(c)'
  BY <1>1, RequestEntry DEF Asked, Requests, SameCall, TableKept
<1>3. ASSUME pc'[c].at # "dead"
      PROVE  /\ HasSlot(c)'
             /\ ~Opening(c) => pc'[c].buf.id = open'[fd'[c][pc'[c].slot]].id
  <2>1. PICK s \in Slot : s = pc[c].slot
    BY Types
  <2>2. pc'[c].slot = s /\ fd'[c][s] = fd[c][s] /\ pc[c].at # "dead"
    BY <1>3, <2>1 DEF SameCall, SameFds
  <2>3. HasSlot(c)'
    BY <1>1, <2>1, <2>2 DEF HasSlot, Asked
  <2>4. ASSUME ~Opening(c)
        PROVE  open'[fd[c][s]].id = open[fd[c][s]].id
    <3>1. fd[c][s] # None
      BY <2>1, <2>2, <2>4 DEF Asked, HasSlot
    <3> QED
      BY <3>1, HeldOpen DEF TableKept
  <2> QED
    BY <2>1, <2>2, <2>3, <2>4 DEF Asked, SameCall
<1> QED
  BY <1>1, <1>2, <1>3 DEF Asked

LEMMA RepliedKept ==
  ASSUME Inv, NEW c \in Client, SameCall(c), Replied(c),
         pc'[c].at # "dead" => pc[c].at # "dead" /\ SameFds(c)
  PROVE  Replied(c)'
<1>1. Opening(c)' <=> Opening(c)
  BY DEF Opening, SameCall
<1>2. ASSUME pc'[c].at # "dead", HasSlot(c)
      PROVE  HasSlot(c)'
  <2>1. PICK s \in Slot : s = pc[c].slot
    BY Types
  <2>2. pc'[c].slot = s /\ fd'[c][s] = fd[c][s]
    BY <1>2, <2>1 DEF SameCall, SameFds
  <2> QED
    BY <1>1, <1>2, <2>1, <2>2 DEF HasSlot
<1> QED
  BY <1>1, <1>2 DEF Replied, SameCall

\* A client to which nothing happens.
LEMMA PlaceKept ==
  ASSUME Inv, TableKept, NEW c \in Client, pc'[c] = pc[c], ipc'[c] = ipc[c], SameFds(c),
         Waiting(c) => Busy' /\ whom' = c,
         pc[c].at = "fork" => SameFds(pc[c].child) /\ pc'[pc[c].child].at = "new"
  PROVE  (Receiver(c) /\ Place(c))'
<1>1. SameCall(c) /\ (Opening(c)' <=> Opening(c)) /\ (Waiting(c)' <=> Waiting(c))
  BY DEF SameCall, Opening, Waiting
<1>2. Receiver(c) /\ Place(c)
  BY DEF Inv
<1>3. Receiver(c)'
  BY <1>1, <1>2 DEF Receiver
<1>4. pc[c].at = "send" => Asked(c)'
  BY <1>1, <1>2, AskedKept DEF Place
<1>5. (pc[c].at = "wait" /\ ~ipc[c].recving) => Replied(c)'
  BY <1>1, <1>2, RepliedKept DEF Place
<1>6. pc[c].at = "close" => HasSlot(c)'
  BY <1>1, <1>2, Types DEF Place, HasSlot, SameFds
<1>7. pc[c].at = "fork" =>
        \A s \in pc[c].todo : fd'[c][s] # None /\ fd'[pc[c].child][s] = None
  BY <1>2, Types DEF Place, SameFds
<1>8. pc[c].at \in {"none", "dead"} => \A s \in Slot : fd'[c][s] = None
  BY <1>2 DEF Place, SameFds
<1> QED
  BY <1>1, <1>2, <1>3, <1>4, <1>5, <1>6, <1>7, <1>8 DEF Place

\* The server does nothing; the client it works for may die, or call ipc_recv.
LEMMA ServingKept ==
  ASSUME Inv, TableKept, srv' = srv, ipc'[Fs] = ipc[Fs],
         Busy => /\ SameCall(whom)
                 /\ \/ pc'[whom].at = "dead"
                    \/ pc[whom].at # "dead" /\ SameFds(whom) /\ Waiting(whom)',
         srv.at = "reply" /\ srv.page => open'[srv.i] = open[srv.i] /\ ~Held(srv.i)'
  PROVE  Serving'
<1>1. Serving /\ (Busy' <=> Busy) /\ whom' = whom
  BY DEF Inv, Busy, whom
<1>2. CASE ~Busy
  BY <1>1, <1>2 DEF Serving, Busy, whom
<1>3. CASE Busy
  <2>1. PICK c \in Client : c = whom
    BY <1>1, <1>3 DEF Serving
  <2>2. /\ SameCall(c) /\ (pc'[c].at # "dead" => pc[c].at # "dead" /\ SameFds(c))
        /\ Waiting(c)' \/ pc'[c].at = "dead"
    BY <1>1, <1>3, <2>1
  <2>3. (Opening(c)' <=> Opening(c)) /\ pc'[c].op = pc[c].op /\ pc'[c].buf = pc[c].buf
    BY <2>2 DEF SameCall, Opening
  <2>4. Asked(c) => Asked(c)'
    BY <2>2, AskedKept
  <2>5. Replied(c) => Replied(c)'
    BY <2>2, RepliedKept
  <2>6. srv.at = "reply" /\ srv.page => Fresh(srv.i, c)'
    BY <1>1, <2>1, <2>3 DEF Serving, Fresh, InUse
  <2>7. whom' = c
    BY <1>1, <2>1
  <2> QED
    BY <1>1, <1>3, <2>1, <2>2, <2>3, <2>4, <2>5, <2>6, <2>7 DEF Serving
<1> QED
  BY <1>2, <1>3

\* The entries stay, and no other is held.
LEMMA TableSame ==
  ASSUME Inv, open' = open, \A i \in Open : Held(i)' => Held(i)
  PROVE  Table' /\ TableKept
BY DEF Inv, Table, TableKept, InUse

\* A step of c outside its calls, which may change x too: itself, or the child
\* it forks.
LEMMA LocalStep ==
  ASSUME Inv, NEW c \in Client, NEW x \in Client, srv' = srv, ipc'[Fs] = ipc[Fs],
         ~Waiting(c), ~Waiting(x), pc[c].at # "dead", pc[x].at # "dead",
         c = Parent \/ (x = c /\ pc[c].at # "new"),
         \A d \in Client \ {c, x} : pc'[d] = pc[d] /\ ipc'[d] = ipc[d] /\ SameFds(d),
         TypeOK', Table', TableKept,
         srv.at = "reply" /\ srv.page => open'[srv.i] = open[srv.i] /\ ~Held(srv.i)',
         (Receiver(c) /\ Place(c))', (Receiver(x) /\ Place(x))'
  PROVE  Inv'
<1>1. Busy' <=> Busy
  BY DEF Busy
<1>2. whom' = whom
  BY DEF whom
<1>3. ASSUME NEW d \in Client \ {c, x}
      PROVE  (Receiver(d) /\ Place(d))'
  <2>1. Place(d)
    BY DEF Inv
  <2>2. Waiting(d) => Busy' /\ whom' = d
    BY <1>1, <1>2, <2>1 DEF Place
  <2>3. ASSUME pc[d].at = "fork"
        PROVE  SameFds(pc[d].child) /\ pc'[pc[d].child].at = "new"
    <3>1. PICK y \in Client : y = pc[d].child
      BY Types
    <3>2. d = Parent /\ pc[y].at = "new"
      BY <2>1, <2>3, <3>1 DEF Place
    <3>3. y \in Client \ {c, x}
      BY <3>2
    <3> QED
      BY <3>1, <3>2, <3>3
  <2> QED
    BY <2>2, <2>3, PlaceKept
<1>4. ASSUME Busy
      PROVE  /\ SameCall(whom)
             /\ \/ pc'[whom].at = "dead"
                \/ pc[whom].at # "dead" /\ SameFds(whom) /\ Waiting(whom)'
  <2>1. PICK d \in Client : d = whom
    BY <1>4 DEF Inv, Serving
  <2>2. Waiting(d) \/ pc[d].at = "dead"
    BY <1>4, <2>1 DEF Inv, Serving
  <2>3. pc'[d] = pc[d] /\ ipc'[d] = ipc[d] /\ SameFds(d)
    BY <2>2
  <2>4. Waiting(d) => pc[d].at # "dead" /\ Waiting(d)'
    BY <2>3 DEF Waiting
  <2> QED
    BY <1>2, <2>1, <2>2, <2>3, <2>4 DEF SameCall
<1>5. Serving'
  BY <1>4, ServingKept
<1> QED
  BY <1>3, <1>5 DEF Inv

-----------------------------------------------------------------------------
(* The steps of a client.                                                  *)

\* fd' differs from fd in one place.
Maps(c, t, x) == fd' = [fd EXCEPT ![c][t] = x]

LEMMA SetFd ==
  ASSUME Inv, NEW c \in Client, NEW t \in Slot, NEW x \in Open \cup {None}, Maps(c, t, x)
  PROVE  /\ fd' \in [Client -> [Slot -> Open \cup {None}]]
         /\ \A d \in Client, s \in Slot :
              fd'[d][s] = IF d = c /\ s = t THEN x ELSE fd[d][s]
         /\ \A d \in Client \ {c} : SameFds(d)
         /\ \A i \in Open : Held(i)' => Held(i) \/ i = x
<1>1. fd \in [Client -> [Slot -> Open \cup {None}]]
  BY DEF Inv, TypeOK
<1>2. /\ fd' \in [Client -> [Slot -> Open \cup {None}]]
      /\ \A d \in Client, s \in Slot :
           fd'[d][s] = IF d = c /\ s = t THEN x ELSE fd[d][s]
  BY <1>1 DEF Maps
<1> QED
  BY <1>2 DEF SameFds, Held

LEMMA FreshKept ==
  ASSUME Inv, srv' = srv, \A i \in Open : open'[i] = open[i] /\ (Held(i)' => Held(i))
  PROVE  srv.at = "reply" /\ srv.page => open'[srv.i] = open[srv.i] /\ ~Held(srv.i)'
<1>1. ASSUME srv.at = "reply", srv.page
      PROVE  open'[srv.i] = open[srv.i] /\ ~Held(srv.i)'
  <2>1. PICK i : i = srv.i
    OBVIOUS
  <2>2. i \in Open /\ ~Held(i)
    BY <1>1, <2>1 DEF Inv, Serving, Fresh
  <2>3. open'[i] = open[i] /\ ~Held(i)'
    BY <2>2
  <2> QED
    BY <2>1, <2>3 DEF Held
<1> QED
  BY <1>1

\* A step that changes nothing but where c is.
LEMMA MoveInv ==
  ASSUME Inv, NEW c \in Client, ~Waiting(c), pc[c].at \notin {"dead", "new"},
         NEW l \in Local, pc' = [pc EXCEPT ![c] = l],
         UNCHANGED <<fd, open, srv>>, ipc' \in [Env -> IpcFields],
         \A e \in Env \ {c} : ipc'[e] = ipc[e],
         (Receiver(c) /\ Place(c))'
  PROVE  Inv'
<1>1. \A d \in Client \ {c} : pc'[d] = pc[d] /\ ipc'[d] = ipc[d] /\ SameFds(d)
  BY Constants DEF Inv, TypeOK, SameFds
<1>2. ipc'[Fs] = ipc[Fs]
  BY Constants
<1>3. TypeOK'
  BY DEF Inv, TypeOK
<1>4. \A i \in Open : Held(i)' <=> Held(i)
  BY DEF Held
<1>5. Table' /\ TableKept
  BY <1>4, TableSame
<1>6. srv.at = "reply" /\ srv.page => open'[srv.i] = open[srv.i] /\ ~Held(srv.i)'
  BY <1>4, FreshKept
<1> QED
  BY <1>1, <1>2, <1>3, <1>5, <1>6, LocalStep

\* A library call that enters fsipc.
LEMMA FsipcInv ==
  ASSUME Inv, NEW c \in Client, NEW op \in Ops, NEW s \in Slot,
         NEW n \in Counts \cup {0}, NEW buf \in Request, Fsipc(c, op, s, n, buf),
         IF op = FSREQ_OPEN THEN fd[c][s] = None /\ buf \in OpenRequest
         ELSE /\ fd[c][s] # None /\ buf = [id |-> open[fd[c][s]].id, n |-> n]
              /\ open[buf.id % MAXOPEN].mapped
  PROVE  Inv'
<1>1. PICK l : l = [Idle EXCEPT !.at = "send", !.op = op, !.slot = s, !.n = n, !.buf = buf]
  OBVIOUS
<1>2. /\ l \in Local /\ l.at = "send" /\ l.op = op /\ l.slot = s /\ l.n = n /\ l.buf = buf
  BY <1>1, Places, Constants DEF Idle, At, Local
<1>3. /\ pc[c].at = "idle" /\ pc' = [pc EXCEPT ![c] = l]
      /\ UNCHANGED <<fd, open, srv>> /\ ipc' = ipc
  BY <1>1 DEF Fsipc
<1>4. pc'[c] = l
  BY <1>3 DEF Inv, TypeOK
<1>5. buf \in FileRequest \/ op = FSREQ_OPEN
  <2>1. ASSUME op # FSREQ_OPEN
        PROVE  open[fd[c][s]].id \in Ids
    <3>1. fd[c][s] \in Open
      BY <2>1, HeldOpen
    <3> QED
      BY <3>1, Types DEF OpenFile
  <2> QED
    BY <2>1 DEF FileRequest
<1>6. Asked(c)'
  <2>1. Opening(c)' <=> op = FSREQ_OPEN
    BY <1>2, <1>4 DEF Opening
  <2>2. Requests(c)'
    BY <1>2, <1>3, <1>4, <1>5, <2>1 DEF Requests
  <2>3. HasSlot(c)'
    BY <1>2, <1>3, <1>4, <2>1 DEF HasSlot
  <2> QED
    BY <1>2, <1>3, <1>4, <2>1, <2>2, <2>3 DEF Asked
<1>7. (Receiver(c) /\ Place(c))'
  <2>1. ~ipc[c].recving
    BY <1>3 DEF Inv, Receiver
  <2> QED
    BY <1>2, <1>3, <1>4, <1>6, <2>1 DEF Receiver, Place, Waiting
<1>8. ipc' \in [Env -> IpcFields] /\ ~Waiting(c)
  BY <1>3 DEF Inv, TypeOK, Waiting
<1> QED
  BY <1>2, <1>3, <1>7, <1>8, MoveInv

LEMMA OpsAre ==
  /\ FSREQ_OPEN \in Ops /\ FSREQ_READ \in Ops /\ FSREQ_STAT \in Ops /\ FSREQ_FLUSH \in Ops
  /\ FSREQ_READ # FSREQ_OPEN /\ FSREQ_STAT # FSREQ_OPEN /\ FSREQ_FLUSH # FSREQ_OPEN
  /\ FSREQ_READ # FSREQ_STAT /\ FSREQ_READ # FSREQ_FLUSH /\ FSREQ_STAT # FSREQ_FLUSH
  /\ \A op \in Ops : \/ op = FSREQ_OPEN \/ op = FSREQ_READ \/ op = FSREQ_STAT
                     \/ op = FSREQ_FLUSH
BY DEF Ops, FSREQ_OPEN, FSREQ_READ, FSREQ_STAT, FSREQ_FLUSH

LEMMA OpenInv ==
  ASSUME Inv, NEW c \in Client, NEW f \in File \cup {None}, ClientOpen(c, f)
  PROVE  Inv'
<1>1. PICK s \in Slot : fd[c][s] = None /\ Fsipc(c, FSREQ_OPEN, s, 0, [file |-> f])
  BY DEF ClientOpen
<1>2. [file |-> f] \in OpenRequest /\ [file |-> f] \in Request /\ 0 \in Counts \cup {0}
  BY DEF OpenRequest, Request
<1> QED
  BY <1>1, <1>2, FsipcInv, OpsAre

LEMMA RequestInv ==
  ASSUME Inv, NEW c \in Client, NEW op \in Ops \ {FSREQ_OPEN}, NEW s \in Slot,
         NEW n \in Counts \cup {0}, FdRequest(c, op, s, n)
  PROVE  Inv'
<1>1. PICK i : i = fd[c][s]
  OBVIOUS
<1>2. PICK buf : buf = [id |-> open[i].id, n |-> n]
  OBVIOUS
<1>3. fd[c][s] # None /\ Fsipc(c, op, s, n, buf)
  BY <1>1, <1>2 DEF FdRequest
<1>4. i \in Open /\ InUse(i) /\ open[i].o_fileid % MAXOPEN = i
  BY <1>1, <1>3, HeldOpen DEF Inv, Table
<1>5. open[i].id \in Ids
  BY <1>4, Types DEF OpenFile
<1>6. buf \in Request /\ buf.id = open[i].id
  BY <1>2, <1>5 DEF Request
<1>7. open[buf.id % MAXOPEN].mapped
  BY <1>4, <1>6 DEF InUse
<1> QED
  BY <1>1, <1>2, <1>3, <1>6, <1>7, FsipcInv

LEMMA SendInv ==
  ASSUME Inv, NEW c \in Client, Send(c)
  PROVE  Inv'
<1>1. PICK l : l = [pc[c] EXCEPT !.at = "sent"]
  OBVIOUS
<1>2. /\ pc[c].at = "send" /\ ipc[Fs].recving /\ ipc[Fs].from = None
      /\ ipc' = [ipc EXCEPT ![Fs] = Message(Fs, c, pc[c].op, TRUE)]
      /\ pc' = [pc EXCEPT ![c] = l] /\ UNCHANGED <<fd, open, srv>>
  BY <1>1 DEF Send, Receiving, Goto
<1>3. srv.at = "recv" /\ ~Busy
  BY <1>2 DEF Inv, Serving, Busy
<1>4. /\ l \in Local /\ l.at = "sent" /\ l.op = pc[c].op /\ l.slot = pc[c].slot
      /\ l.n = pc[c].n /\ l.buf = pc[c].buf
  <2>1. PICK k \in Local : k = pc[c]
    BY Types
  <2> QED
    BY <1>1, <2>1 DEF Local
<1>5. pc'[c] = l /\ \A d \in Client \ {c} : pc'[d] = pc[d]
  BY <1>2 DEF Inv, TypeOK
<1>6. ~ipc[c].recving
  BY <1>2 DEF Inv, Receiver
<1>7. PICK msg : msg = Message(Fs, c, pc[c].op, TRUE)
  OBVIOUS
<1>8. /\ msg \in IpcFields /\ ~msg.recving /\ msg.from = c /\ msg.value = pc[c].op
  <2>1. ipc[Fs] \in IpcFields /\ c \in Env /\ pc[c].op \in Int
    BY Types, Constants DEF Local, Ops, FSREQ_OPEN, FSREQ_READ, FSREQ_STAT, FSREQ_FLUSH
  <2> QED
    BY <1>7, <2>1 DEF Message, IpcFields
<1>9. ipc'[Fs] = msg /\ \A e \in Env \ {Fs} : ipc'[e] = ipc[e]
  BY <1>2, <1>7, Constants DEF Inv, TypeOK
<1>10. TypeOK'
  BY <1>2, <1>4, <1>7, <1>8 DEF Inv, TypeOK
<1>11. Table' /\ TableKept
  BY <1>2, TableSame DEF Held
<1>12. SameFds(c) /\ SameCall(c) /\ \A d \in Client : SameFds(d)
  BY <1>2, <1>4, <1>5 DEF SameFds, SameCall
<1>13. Asked(c)'
  BY <1>2, <1>11, <1>12, AskedKept DEF Inv, Place
<1>14. Busy' /\ whom' = c
  BY <1>2, <1>3, <1>8, <1>9 DEF Busy, whom
<1>15. (Receiver(c) /\ Place(c))'
  BY <1>4, <1>5, <1>6, <1>9, <1>14, Constants DEF Receiver, Place, Waiting
<1>16. ASSUME NEW d \in Client \ {c}
       PROVE  (Receiver(d) /\ Place(d))'
  <2>1. ipc'[d] = ipc[d] /\ pc'[d] = pc[d] /\ SameFds(d)
    BY <1>5, <1>9, <1>12, Constants
  <2>2. ~Waiting(d)
    BY <1>3 DEF Inv, Place
  <2>3. pc[d].at = "fork" => pc'[pc[d].child].at = "new" /\ SameFds(pc[d].child)
    BY <1>2, <1>5, <1>12, Types DEF Inv, Place
  <2> QED
    BY <1>11, <2>1, <2>2, <2>3, PlaceKept
<1>17. msg.perm
  <2>1. ipc[Fs].dstva # None /\ ipc[Fs] \in IpcFields
    BY <1>2, Types, Constants DEF Inv, Serving
  <2> QED
    BY <1>7, <2>1 DEF Message, IpcFields
<1>18. Serving'
  <2>1. srv'.at = "recv" /\ ~ipc'[Fs].recving /\ ipc'[Fs].perm
    BY <1>2, <1>3, <1>8, <1>9, <1>17
  <2>2. ipc'[Fs].value = pc'[c].op
    BY <1>4, <1>5, <1>8, <1>9
  <2>3. Waiting(c)'
    BY <1>4, <1>5 DEF Waiting
  <2> QED
    BY <1>13, <1>14, <2>1, <2>2, <2>3 DEF Serving
<1> QED
  BY <1>10, <1>11, <1>15, <1>16, <1>18 DEF Inv

LEMMA RecvInv ==
  ASSUME Inv, NEW c \in Client, Recv(c)
  PROVE  Inv'
<1>1. PICK l : l = [pc[c] EXCEPT !.at = "wait"]
  OBVIOUS
<1>2. PICK dstva : dstva = IF Opening(c) THEN pc[c].slot ELSE None
  OBVIOUS
<1>3. PICK fields : fields = Recving(c, dstva)
  OBVIOUS
<1>4. /\ pc[c].at = "sent" /\ ipc' = [ipc EXCEPT ![c] = fields]
      /\ pc' = [pc EXCEPT ![c] = l] /\ UNCHANGED <<fd, open, srv>>
  BY <1>1, <1>2, <1>3 DEF Recv, Goto, Opening
<1>5. /\ l \in Local /\ l.at = "wait" /\ l.op = pc[c].op /\ l.slot = pc[c].slot
      /\ l.n = pc[c].n /\ l.buf = pc[c].buf
  <2>1. PICK k \in Local : k = pc[c]
    BY Types
  <2> QED
    BY <1>1, <2>1 DEF Local
<1>6. pc'[c] = l /\ \A d \in Client \ {c} : pc'[d] = pc[d]
  BY <1>4 DEF Inv, TypeOK
<1>7. /\ fields \in IpcFields /\ fields.recving /\ fields.from = None
      /\ fields.dstva = dstva
  <2>1. ipc[c] \in IpcFields /\ dstva \in Slot \cup {None}
    BY <1>2, Types, Constants
  <2> QED
    BY <1>3, <2>1 DEF Recving, IpcFields
<1>8. ipc'[c] = fields /\ \A e \in Env \ {c} : ipc'[e] = ipc[e]
  BY <1>4, Constants DEF Inv, TypeOK
<1>9. TypeOK'
  BY <1>4, <1>5, <1>7 DEF Inv, TypeOK
<1>10. Table' /\ TableKept
  BY <1>4, TableSame DEF Held
<1>11. SameCall(c) /\ \A d \in Client : SameFds(d)
  BY <1>4, <1>5, <1>6 DEF SameFds, SameCall
<1>12. Busy /\ whom = c /\ Waiting(c)
  BY <1>4 DEF Inv, Place, Waiting
<1>13. ipc'[Fs] = ipc[Fs] /\ (Busy' <=> Busy) /\ whom' = c
  BY <1>4, <1>8, <1>12, Constants DEF Busy, whom
<1>14. Waiting(c)' /\ pc[c].at # "dead"
  BY <1>4, <1>5, <1>6, <1>7, <1>8 DEF Waiting
<1>15. (Receiver(c) /\ Place(c))'
  BY <1>2, <1>5, <1>6, <1>7, <1>8, <1>12, <1>13, <1>14 DEF Receiver, Place, Opening
<1>16. ASSUME NEW d \in Client \ {c}
       PROVE  (Receiver(d) /\ Place(d))'
  <2>1. ipc'[d] = ipc[d] /\ pc'[d] = pc[d] /\ SameFds(d)
    BY <1>6, <1>8, <1>11, Constants
  <2>2. ~Waiting(d)
    BY <1>12 DEF Inv, Place
  <2>3. pc[d].at = "fork" => pc'[pc[d].child].at = "new" /\ SameFds(pc[d].child)
    BY <1>4, <1>6, <1>11, Types DEF Inv, Place
  <2> QED
    BY <1>10, <2>1, <2>2, <2>3, PlaceKept
<1>17. srv.at = "reply" /\ srv.page => open'[srv.i] = open[srv.i] /\ ~Held(srv.i)'
  <2>1. \A i \in Open : open'[i] = open[i] /\ (Held(i)' => Held(i))
    BY <1>4 DEF Held
  <2> QED
    BY <1>4, <2>1, FreshKept
<1>18. Serving'
  <2>1. SameCall(whom) /\ pc[whom].at # "dead" /\ SameFds(whom)
    BY <1>11, <1>12, <1>14
  <2>2. Waiting(whom)'
    BY <1>13, <1>14
  <2> QED
    BY <1>4, <1>10, <1>13, <1>17, <2>1, <2>2, ServingKept
<1> QED
  BY <1>9, <1>10, <1>15, <1>16, <1>18 DEF Inv

\* A message that has been read.
LEMMA ReadIs ==
  ASSUME Inv, NEW e \in Env
  PROVE  /\ Read(e) \in IpcFields /\ Read(e).from = None
         /\ Read(e).recving = ipc[e].recving
<1>1. PICK zero \in Int : zero = 0
  OBVIOUS
<1>2. PICK f \in IpcFields : f = ipc[e]
  BY Types
<1>3. PICK r : r = [f EXCEPT !.from = None, !.value = zero, !.dstva = None]
  OBVIOUS
<1>4. r \in IpcFields /\ r.from = None /\ r.recving = f.recving
  BY <1>3 DEF IpcFields
<1> QED
  BY <1>1, <1>2, <1>3, <1>4 DEF Read

LEMMA ReturnInv ==
  ASSUME Inv, NEW c \in Client, Return(c)
  PROVE  Inv'
<1>1. PICK l : l = IF pc[c].op = FSREQ_FLUSH THEN [pc[c] EXCEPT !.at = "close"] ELSE Idle
  OBVIOUS
<1>2. /\ pc[c].at = "wait" /\ ~ipc[c].recving /\ pc' = [pc EXCEPT ![c] = l]
      /\ ipc' = [ipc EXCEPT ![c] = Read(c)] /\ UNCHANGED <<fd, open, srv>>
  BY <1>1 DEF Return
<1>3. l \in Local
  BY <1>1, Types, PlaceIs, Places
<1>4. \/ l.at = "idle"
      \/ /\ l.at = "close" /\ l.op = pc[c].op /\ l.slot = pc[c].slot
         /\ pc[c].op = FSREQ_FLUSH
  BY <1>1, Types, PlaceIs, AtIs
<1>5. pc'[c] = l
  BY <1>2 DEF Inv, TypeOK
<1>6. /\ ipc' \in [Env -> IpcFields] /\ ~ipc'[c].recving
      /\ \A e \in Env \ {c} : ipc'[e] = ipc[e]
  <2>1. PICK r : r = Read(c)
    OBVIOUS
  <2>2. r \in IpcFields /\ r.recving = ipc[c].recving
    BY <2>1, Types, Constants, ReadIs
  <2> QED
    BY <1>2, <2>1, <2>2, Constants DEF Inv, TypeOK
<1>7. Replied(c)
  BY <1>2 DEF Inv, Place
<1>8. l.at = "close" => ~Opening(c)' /\ HasSlot(c)'
  BY <1>2, <1>4, <1>5, <1>7, OpsAre DEF Replied, HasSlot, Opening
<1>9. (Receiver(c) /\ Place(c))'
  BY <1>4, <1>5, <1>6, <1>8 DEF Receiver, Place, Waiting
<1>10. ~Waiting(c)
  BY <1>2 DEF Waiting
<1> QED
  BY <1>2, <1>3, <1>6, <1>9, <1>10, MoveInv

LEMMA UnmapInv ==
  ASSUME Inv, NEW c \in Client, Unmap(c)
  PROVE  Inv'
<1>1. PICK s \in Slot : s = pc[c].slot
  BY Types
<1>2. /\ pc[c].at = "close" /\ fd' = [fd EXCEPT ![c][s] = None]
      /\ pc' = [pc EXCEPT ![c] = Idle] /\ UNCHANGED <<open, ipc, srv>>
  BY <1>1 DEF Unmap
<1>3. pc'[c] = Idle /\ \A d \in Client \ {c} : pc'[d] = pc[d]
  BY <1>2 DEF Inv, TypeOK
<1>4. /\ fd' \in [Client -> [Slot -> Open \cup {None}]]
      /\ \A d \in Client \ {c} : SameFds(d)
      /\ \A i \in Open : Held(i)' => Held(i)
  <2>1. Maps(c, s, None) /\ None \notin Open
    BY <1>2, Constants DEF Maps
  <2> QED
    BY <2>1, SetFd
<1>5. TypeOK'
  BY <1>2, <1>4, Places DEF Inv, TypeOK
<1>6. Table' /\ TableKept
  BY <1>2, <1>4, TableSame
<1>7. (Receiver(c) /\ Place(c))'
  <2>1. ~ipc[c].recving
    BY <1>2 DEF Inv, Receiver
  <2> QED
    BY <1>2, <1>3, <2>1, AtIs DEF Receiver, Place, Waiting
<1>8. srv.at = "reply" /\ srv.page => open'[srv.i] = open[srv.i] /\ ~Held(srv.i)'
  BY <1>2, <1>4, FreshKept
<1>9. ~Waiting(c) /\ ipc'[Fs] = ipc[Fs]
  BY <1>2 DEF Waiting
<1> QED
  BY <1>2, <1>3, <1>4, <1>5, <1>6, <1>7, <1>8, <1>9, LocalStep

LEMMA SeekInv ==
  ASSUME Inv, NEW c \in Client, NEW s \in Slot, NEW where \in Seeks, Seek(c, s, where)
  PROVE  Inv'
<1>1. PICK i : i = fd[c][s]
  OBVIOUS
<1>2. PICK o : o = [open[i] EXCEPT !.fd_offset = where]
  OBVIOUS
<1>3. /\ pc[c].at = "idle" /\ i # None /\ open' = [open EXCEPT ![i] = o]
      /\ UNCHANGED <<fd, ipc, pc, srv>>
  BY <1>1, <1>2 DEF Seek
<1>4. i \in Open /\ Held(i)
  BY <1>1, <1>3, HeldOpen
<1>5. /\ o \in OpenFile /\ o.mapped = open[i].mapped /\ o.o_fileid = open[i].o_fileid
      /\ o.o_file = open[i].o_file /\ o.id = open[i].id
  <2>1. open[i] \in OpenFile /\ where \in Nat
    BY <1>4, Types, FileAssumption
  <2> QED
    BY <1>2, <2>1 DEF OpenFile
<1>6. open'[i] = o /\ \A j \in Open \ {i} : open'[j] = open[j]
  BY <1>3, <1>4 DEF Inv, TypeOK
<1>7. TypeOK'
  BY <1>3, <1>5 DEF Inv, TypeOK
<1>8. \A j \in Open : /\ open'[j].mapped = open[j].mapped /\ open'[j].id = open[j].id
                      /\ open'[j].o_fileid = open[j].o_fileid
                      /\ open'[j].o_file = open[j].o_file
                      /\ (Held(j)' <=> Held(j))
  BY <1>3, <1>5, <1>6 DEF Held
<1>9. Table' /\ TableKept
  BY <1>8 DEF Inv, Table, TableKept, InUse
<1>10. \A d \in Client : SameFds(d)
  BY <1>3 DEF SameFds
<1>11. (Receiver(c) /\ Place(c))'
  BY <1>3 DEF Inv, Receiver, Place, Waiting
<1>12. ASSUME srv.at = "reply", srv.page
       PROVE  open'[srv.i] = open[srv.i] /\ ~Held(srv.i)'
  <2>1. PICK j : j = srv.i
    OBVIOUS
  <2>2. j \in Open /\ ~Held(j)
    BY <1>12, <2>1 DEF Inv, Serving, Fresh
  <2>3. open'[j] = open[j] /\ ~Held(j)'
    BY <1>4, <1>6, <1>8, <2>2
  <2> QED
    BY <1>3, <2>1, <2>3
<1>13. ~Waiting(c) /\ ipc'[Fs] = ipc[Fs]
  BY <1>3 DEF Waiting
<1> QED
  BY <1>3, <1>7, <1>9, <1>10, <1>11, <1>12, <1>13, LocalStep

LEMMA DupInv ==
  ASSUME Inv, NEW c \in Client, NEW s \in Slot, NEW t \in Slot, Dup(c, s, t)
  PROVE  Inv'
<1>1. PICK i : i = fd[c][s]
  OBVIOUS
<1>2. /\ pc[c].at = "idle" /\ i # None /\ fd' = [fd EXCEPT ![c][t] = i]
      /\ UNCHANGED <<open, ipc, pc, srv>>
  BY <1>1 DEF Dup
<1>3. i \in Open /\ Held(i)
  BY <1>1, <1>2, HeldOpen
<1>4. /\ fd' \in [Client -> [Slot -> Open \cup {None}]]
      /\ \A d \in Client \ {c} : SameFds(d)
      /\ \A j \in Open : Held(j)' => Held(j)
  <2>1. Maps(c, t, i)
    BY <1>2 DEF Maps
  <2> QED
    BY <1>3, <2>1, SetFd
<1>5. TypeOK'
  BY <1>2, <1>4 DEF Inv, TypeOK
<1>6. Table' /\ TableKept
  BY <1>2, <1>4, TableSame
<1>7. (Receiver(c) /\ Place(c))'
  BY <1>2 DEF Inv, Receiver, Place, Waiting
<1>8. srv.at = "reply" /\ srv.page => open'[srv.i] = open[srv.i] /\ ~Held(srv.i)'
  BY <1>2, <1>4, FreshKept
<1>9. ~Waiting(c) /\ ipc'[Fs] = ipc[Fs]
  BY <1>2 DEF Waiting
<1> QED
  BY <1>2, <1>4, <1>5, <1>6, <1>7, <1>8, <1>9, LocalStep

LEMMA ForkInv ==
  ASSUME Inv, NEW c \in Client, NEW d \in Client, Fork(c, d)
  PROVE  Inv'
<1>1. PICK k : k = [Idle EXCEPT !.at = "fork", !.child = d,
                                !.todo = {s \in Slot : fd[c][s] # None}]
  OBVIOUS
<1>2. PICK l : l = At("new")
  OBVIOUS
<1>3. /\ c = Parent /\ pc[c].at = "idle" /\ pc[d].at = "none"
      /\ pc' = [pc EXCEPT ![d] = l, ![c] = k] /\ UNCHANGED <<fd, open, ipc, srv>>
  BY <1>1, <1>2 DEF Fork
<1>4. l \in Local /\ l.at = "new"
  BY <1>2, Places, AtIs
<1>5. /\ k \in Local /\ k.at = "fork" /\ k.child = d
      /\ k.todo = {s \in Slot : fd[c][s] # None}
  <2>1. PICK todo \in SUBSET Slot : todo = {s \in Slot : fd[c][s] # None}
    OBVIOUS
  <2>2. k = [Idle EXCEPT !.at = "fork", !.child = d, !.todo = todo]
    BY <1>1, <2>1
  <2>3. k \in Local /\ k.at = "fork" /\ k.child = d /\ k.todo = todo
    BY <2>2, Places DEF Local
  <2> QED
    BY <2>1, <2>3
<1>6. c # d
  BY <1>3
<1>7. /\ pc'[d] = l /\ pc'[c] = k
      /\ \A x \in Client \ {c, d} : pc'[x] = pc[x] /\ ipc'[x] = ipc[x] /\ SameFds(x)
  BY <1>3, <1>6 DEF Inv, TypeOK, SameFds
<1>8. TypeOK'
  BY <1>3, <1>4, <1>5 DEF Inv, TypeOK
<1>9. \A i \in Open : open'[i] = open[i] /\ (Held(i)' => Held(i))
  BY <1>3 DEF Held
<1>10. Table' /\ TableKept
  BY <1>3, <1>9, TableSame
<1>11. srv.at = "reply" /\ srv.page => open'[srv.i] = open[srv.i] /\ ~Held(srv.i)'
  BY <1>3, <1>9, FreshKept
<1>12. ~ipc[c].recving /\ ~ipc[d].recving
  BY <1>3 DEF Inv, Receiver
<1>13. \A s \in Slot : fd[d][s] = None
  BY <1>3 DEF Inv, Place
<1>14. (Receiver(d) /\ Place(d))'
  BY <1>3, <1>4, <1>7, <1>12 DEF Receiver, Place, Waiting
<1>15. (Receiver(c) /\ Place(c))'
  <2>1. pc'[c].at = "fork" /\ ~ipc'[c].recving
    BY <1>3, <1>5, <1>7, <1>12
  <2>2. /\ c = Parent /\ pc'[pc'[c].child].at = "new"
        /\ \A s \in pc'[c].todo : fd'[c][s] # None /\ fd'[pc'[c].child][s] = None
    <3>1. pc'[c].child = d /\ pc'[d].at = "new" /\ c = Parent
      BY <1>3, <1>4, <1>5, <1>7
    <3>2. \A s \in pc'[c].todo : fd'[c][s] # None /\ fd'[d][s] = None
      BY <1>3, <1>5, <1>7, <1>13
    <3> QED
      BY <3>1, <3>2
  <2> QED
    BY <2>1, <2>2 DEF Receiver, Place, Waiting
<1>16. ~Waiting(c) /\ ~Waiting(d) /\ ipc'[Fs] = ipc[Fs]
  BY <1>3 DEF Waiting
<1> QED
  BY <1>3, <1>7, <1>8, <1>10, <1>11, <1>14, <1>15, <1>16, LocalStep

LEMMA DupPageInv ==
  ASSUME Inv, NEW c \in Client, DupPage(c)
  PROVE  Inv'
<1>1. PICK d \in Client : d = pc[c].child
  BY Types
<1>2. PICK s \in pc[c].todo : /\ fd' = [fd EXCEPT ![pc[c].child][s] = fd[c][s]]
                              /\ pc' = [pc EXCEPT ![c].todo = @ \ {s}]
  BY DEF DupPage
<1>3. PICK i : i = fd[c][s]
  OBVIOUS
<1>4. PICK k : k = [pc[c] EXCEPT !.todo = @ \ {s}]
  OBVIOUS
<1>5. /\ pc[c].at = "fork" /\ fd' = [fd EXCEPT ![d][s] = i]
      /\ pc' = [pc EXCEPT ![c] = k] /\ UNCHANGED <<open, ipc, srv>>
  BY <1>1, <1>2, <1>3, <1>4 DEF DupPage
<1>6. /\ c = Parent /\ pc[d].at = "new" /\ c # d
      /\ \A t \in pc[c].todo : fd[c][t] # None /\ fd[d][t] = None
  BY <1>1, <1>5 DEF Inv, Place
<1>7. s \in Slot /\ i # None
  BY <1>3, <1>6, Types
<1>8. i \in Open /\ Held(i)
  BY <1>3, <1>7, HeldOpen
<1>9. /\ k \in Local /\ k.at = "fork" /\ k.child = d /\ k.todo = pc[c].todo \ {s}
  BY <1>1, <1>4, <1>5, Types DEF Local
<1>10. pc'[c] = k /\ pc'[d] = pc[d] /\ \A x \in Client \ {c} : pc'[x] = pc[x]
  BY <1>5, <1>6 DEF Inv, TypeOK
<1>11. /\ fd' \in [Client -> [Slot -> Open \cup {None}]]
       /\ \A x \in Client, t \in Slot :
            fd'[x][t] = IF x = d /\ t = s THEN i ELSE fd[x][t]
       /\ \A x \in Client \ {d} : SameFds(x)
       /\ \A j \in Open : Held(j)' => Held(j)
  <2>1. Maps(d, s, i) /\ s \in Slot
    BY <1>5, <1>7 DEF Maps
  <2> QED
    BY <1>8, <2>1, SetFd
<1>12. TypeOK'
  BY <1>5, <1>9, <1>11 DEF Inv, TypeOK
<1>13. Table' /\ TableKept
  BY <1>5, <1>11, TableSame
<1>14. srv.at = "reply" /\ srv.page => open'[srv.i] = open[srv.i] /\ ~Held(srv.i)'
  BY <1>5, <1>11, FreshKept
<1>15. ~ipc[c].recving /\ ~ipc[d].recving
  BY <1>5, <1>6 DEF Inv, Receiver
<1>16. (Receiver(d) /\ Place(d))'
  BY <1>5, <1>6, <1>10, <1>15 DEF Receiver, Place, Waiting
<1>17. (Receiver(c) /\ Place(c))'
  <2>1. \A t \in pc[c].todo \ {s} : fd'[c][t] # None /\ fd'[d][t] = None
    BY <1>6, <1>11, Types
  <2> QED
    BY <1>5, <1>6, <1>9, <1>10, <1>15, <2>1 DEF Receiver, Place, Waiting
<1>18. ~Waiting(c) /\ ~Waiting(d) /\ ipc'[Fs] = ipc[Fs]
  BY <1>5, <1>6 DEF Waiting
<1> QED
  BY <1>5, <1>6, <1>10, <1>11, <1>12, <1>13, <1>14, <1>16, <1>17, <1>18, LocalStep

LEMMA StartInv ==
  ASSUME Inv, NEW c \in Client, Start(c)
  PROVE  Inv'
<1>1. PICK d \in Client : d = pc[c].child
  BY Types
<1>2. /\ pc[c].at = "fork" /\ pc' = [pc EXCEPT ![c] = Idle, ![d] = Idle]
      /\ UNCHANGED <<fd, open, ipc, srv>>
  BY <1>1 DEF Start
<1>3. c = Parent /\ pc[d].at = "new"
  BY <1>1, <1>2 DEF Inv, Place
<1>4. /\ pc'[c] = Idle /\ pc'[d] = Idle
      /\ \A x \in Client \ {c, d} : pc'[x] = pc[x] /\ ipc'[x] = ipc[x] /\ SameFds(x)
  BY <1>2, <1>3 DEF Inv, TypeOK, SameFds
<1>5. TypeOK'
  BY <1>2, Places DEF Inv, TypeOK
<1>6. \A i \in Open : open'[i] = open[i] /\ (Held(i)' => Held(i))
  BY <1>2 DEF Held
<1>7. Table' /\ TableKept
  BY <1>2, <1>6, TableSame
<1>8. srv.at = "reply" /\ srv.page => open'[srv.i] = open[srv.i] /\ ~Held(srv.i)'
  BY <1>2, <1>6, FreshKept
<1>9. ~ipc[c].recving /\ ~ipc[d].recving
  BY <1>2, <1>3 DEF Inv, Receiver
<1>10. (Receiver(c) /\ Place(c))' /\ (Receiver(d) /\ Place(d))'
  BY <1>2, <1>4, <1>9, AtIs DEF Receiver, Place, Waiting
<1>11. ~Waiting(c) /\ ~Waiting(d) /\ ipc'[Fs] = ipc[Fs]
  BY <1>2, <1>3 DEF Waiting
<1> QED
  BY <1>2, <1>3, <1>4, <1>5, <1>7, <1>8, <1>10, <1>11, LocalStep

\* A client dies.
LEMMA DestroyInv ==
  ASSUME Inv, NEW c \in Client, Destroy(c), pc[c].at # "dead",
         \A d \in Client : pc[d].at = "fork" => pc[d].child # c
  PROVE  Inv'
<1>1. PICK l : l = IF whom = c THEN [pc[c] EXCEPT !.at = "dead"] ELSE At("dead")
  OBVIOUS
<1>2. PICK cleared : cleared = [recving |-> FALSE, from |-> None, perm |-> FALSE,
                                value |-> 0, dstva |-> None]
  OBVIOUS
<1>3. /\ fd' = [fd EXCEPT ![c] = [s \in Slot |-> None]]
      /\ pc' = [pc EXCEPT ![c] = l] /\ ipc' = [ipc EXCEPT ![c] = cleared]
      /\ UNCHANGED <<open, srv>>
  BY <1>1, <1>2 DEF Destroy, whom
<1>4. l \in Local /\ l.at = "dead"
  <2>1. At("dead") \in Local /\ At("dead").at = "dead"
    BY Places, AtIs
  <2>2. PICK k : k = [pc[c] EXCEPT !.at = "dead"]
    OBVIOUS
  <2>3. k \in Local /\ k.at = "dead"
    BY <2>2, Types, PlaceIs
  <2> QED
    BY <1>1, <2>1, <2>2, <2>3
<1>5. cleared \in IpcFields /\ ~cleared.recving
  BY <1>2, Constants DEF IpcFields
<1>6. /\ pc'[c] = l /\ ipc'[c] = cleared /\ \A s \in Slot : fd'[c][s] = None
      /\ \A d \in Client \ {c} : pc'[d] = pc[d] /\ ipc'[d] = ipc[d] /\ SameFds(d)
      /\ ipc'[Fs] = ipc[Fs]
  BY <1>3, Constants DEF Inv, TypeOK, SameFds
<1>7. TypeOK'
  BY <1>3, <1>4, <1>5 DEF Inv, TypeOK
<1>8. \A i \in Open : open'[i] = open[i] /\ (Held(i)' => Held(i))
  <2>1. ASSUME NEW i \in Open, NEW d \in Client, NEW s \in Slot, fd'[d][s] = i
        PROVE  fd[d][s] = i
    BY <1>6, <2>1, Constants DEF SameFds
  <2> QED
    BY <1>3, <2>1 DEF Held
<1>9. Table' /\ TableKept
  BY <1>3, <1>8, TableSame
<1>10. (Busy' <=> Busy) /\ whom' = whom
  BY <1>3, <1>6 DEF Busy, whom
<1>11. (Receiver(c) /\ Place(c))'
  BY <1>4, <1>5, <1>6 DEF Receiver, Place, Waiting
<1>12. ASSUME NEW d \in Client \ {c}
       PROVE  (Receiver(d) /\ Place(d))'
  <2>1. Waiting(d) => Busy' /\ whom' = d
    BY <1>10 DEF Inv, Place
  <2>2. pc[d].at = "fork" => SameFds(pc[d].child) /\ pc'[pc[d].child].at = "new"
    BY <1>6, Types DEF Inv, Place
  <2> QED
    BY <1>6, <1>9, <2>1, <2>2, PlaceKept
<1>13. ASSUME Busy
       PROVE  /\ SameCall(whom)
              /\ \/ pc'[whom].at = "dead"
                 \/ pc[whom].at # "dead" /\ SameFds(whom) /\ Waiting(whom)'
  <2>1. PICK d \in Client : d = whom
    BY <1>13 DEF Inv, Serving
  <2>2. CASE d = c
    <3>1. SameCall(c)
      BY <1>1, <1>6, <2>1, <2>2, Types, PlaceIs DEF SameCall
    <3> QED
      BY <1>4, <1>6, <2>1, <2>2, <3>1
  <2>3. CASE d # c
    <3>1. pc'[d] = pc[d] /\ ipc'[d] = ipc[d] /\ SameFds(d)
      BY <1>6, <2>3
    <3>2. Waiting(d) \/ pc[d].at = "dead"
      BY <1>13, <2>1 DEF Inv, Serving
    <3>3. Waiting(d) => pc[d].at # "dead" /\ Waiting(d)'
      BY <3>1 DEF Waiting
    <3>4. SameCall(d)
      BY <3>1 DEF SameCall
    <3> QED
      BY <1>10, <2>1, <3>1, <3>2, <3>3, <3>4
  <2> QED
    BY <2>2, <2>3
<1>14. srv.at = "reply" /\ srv.page => open'[srv.i] = open[srv.i] /\ ~Held(srv.i)'
  BY <1>3, <1>8, FreshKept
<1>15. Serving'
  BY <1>3, <1>6, <1>9, <1>13, <1>14, ServingKept
<1> QED
  BY <1>7, <1>9, <1>11, <1>12, <1>15 DEF Inv

LEMMA ExitInv ==
  ASSUME Inv, NEW c \in Client, Exit(c)
  PROVE  Inv'
<1>1. pc[c].at = "idle" /\ Destroy(c)
  BY DEF Exit
<1>2. \A d \in Client : pc[d].at = "fork" => pc[d].child # c
  BY <1>1 DEF Inv, Place
<1> QED
  BY <1>1, <1>2, DestroyInv

LEMMA KillInv ==
  ASSUME Inv, NEW c \in Client, Kill(c)
  PROVE  Inv'
<1>1. pc[c].at # "dead" /\ pc[Parent].at = "idle" /\ Destroy(c)
  BY DEF Kill
<1>2. \A d \in Client : pc[d].at # "fork"
  BY <1>1 DEF Inv, Place
<1> QED
  BY <1>1, <1>2, DestroyInv

-----------------------------------------------------------------------------
(* The steps of the server.                                                *)

\* The clients do not notice.
LEMMA ServerMove ==
  ASSUME Inv, UNCHANGED <<fd, ipc, pc>>, srv' \in Server, open' \in [Open -> OpenFile],
         Table', TableKept, Serving', Busy => Busy' \/ pc[whom].at = "dead"
  PROVE  Inv'
<1>1. whom' = whom
  BY DEF whom
<1>2. ASSUME NEW d \in Client
      PROVE  (Receiver(d) /\ Place(d))'
  <2>1. Waiting(d) => Busy' /\ whom' = d
    <3>1. Waiting(d) => Busy /\ whom = d /\ pc[d].at # "dead"
      BY DEF Inv, Place, Waiting
    <3> QED
      BY <1>1, <3>1
  <2>2. SameFds(d) /\ pc'[d] = pc[d] /\ ipc'[d] = ipc[d]
    BY DEF SameFds
  <2>3. pc[d].at = "fork" => SameFds(pc[d].child) /\ pc'[pc[d].child].at = "new"
    BY DEF Inv, Place, SameFds
  <2> QED
    BY <2>1, <2>2, <2>3, PlaceKept
<1>3. TypeOK'
  BY DEF Inv, TypeOK
<1> QED
  BY <1>2, <1>3 DEF Inv

\* Nor does the table.
LEMMA ServerTurn ==
  ASSUME Inv, UNCHANGED <<fd, open, ipc, pc>>, srv' \in Server, Serving',
         Busy => Busy' \/ pc[whom].at = "dead"
  PROVE  Inv'
<1>1. \A i \in Open : Held(i)' => Held(i)
  BY DEF Held
<1>2. Table' /\ TableKept
  BY <1>1, TableSame
<1>3. open' \in [Open -> OpenFile]
  BY DEF Inv, TypeOK
<1> QED
  BY <1>2, <1>3, ServerMove

LEMMA ServerAtType ==
  ASSUME NEW p \in {"ready", "recv", "scan", "advance", "reply", "panic"},
         NEW i \in 0 .. MAXOPEN, NEW page \in BOOLEAN, NEW r \in Int
  PROVE  ServerAt(p, i, page, r) \in Server
BY DEF ServerAt, Server

LEMMA ServerPlaces ==
  ASSUME NEW r \in Int,
         NEW p \in {"ready", "recv", "scan", "advance", "reply", "panic"}
  PROVE  /\ ServerAt(p, 0, FALSE, r) \in Server /\ ServerAt(p, 0, FALSE, r).at = p
         /\ ~ServerAt(p, 0, FALSE, r).page
<1>1. PICK no \in BOOLEAN : no = FALSE
  OBVIOUS
<1>2. PICK zero \in 0 .. MAXOPEN : zero = 0
  BY Constants
<1>3. PICK x : x = ServerAt(p, zero, no, r)
  OBVIOUS
<1>4. x \in Server
  BY <1>3, ServerAtType
<1>5. x.at = p /\ x.page = no
  BY <1>3 DEF ServerAt
<1> QED
  BY <1>1, <1>2, <1>3, <1>4, <1>5

\* The server is about to send a reply without a page.
LEMMA ReplyServing ==
  ASSUME Inv, Busy, NEW r \in Int, Reply(r), UNCHANGED ipc,
         pc'[whom].at = pc[whom].at, Replied(whom)', (Opening(whom) => Asked(whom))'
  PROVE  Serving' /\ Busy' /\ srv' \in Server
<1>1. /\ srv' \in Server /\ srv'.at = "reply" /\ ~srv'.page
  BY ServerPlaces DEF Reply
<1>2. whom' = whom /\ Busy'
  BY <1>1 DEF whom, Busy
<1>3. ~ipc[Fs].recving
  BY DEF Inv, Serving, Busy
<1>4. whom' \in Client /\ (Waiting(whom)' \/ pc'[whom'].at = "dead")
  BY <1>2 DEF Inv, Serving, Waiting
<1>5. Replied(whom)' /\ (Opening(whom) => Asked(whom))'
  BY <1>2
<1> QED
  BY <1>1, <1>2, <1>3, <1>4, <1>5 DEF Serving

LEMMA ServerRecvInv ==
  ASSUME Inv, ServerRecv
  PROVE  Inv'
<1>1. PICK fields : fields = Recving(Fs, Fs)
  OBVIOUS
<1>2. /\ srv.at = "ready" /\ ipc' = [ipc EXCEPT ![Fs] = fields]
      /\ srv' = ServerAt("recv", 0, FALSE, 0) /\ UNCHANGED <<fd, open, pc>>
  BY <1>1 DEF ServerRecv
<1>3. /\ fields \in IpcFields /\ fields.recving /\ fields.from = None
      /\ fields.dstva = Fs
  <2>1. ipc[Fs] \in IpcFields
    BY Types, Constants
  <2> QED
    BY <1>1, <2>1 DEF Recving, IpcFields
<1>4. ipc'[Fs] = fields /\ \A e \in Env \ {Fs} : ipc'[e] = ipc[e]
  BY <1>2, Constants DEF Inv, TypeOK
<1>5. srv' \in Server /\ srv'.at = "recv"
  <2>1. PICK zero \in Int : zero = 0
    OBVIOUS
  <2>2. srv' = ServerAt("recv", 0, FALSE, zero)
    BY <1>2, <2>1
  <2> QED
    BY <2>2, ServerPlaces
<1>6. TypeOK'
  BY <1>2, <1>3, <1>5 DEF Inv, TypeOK
<1>7. Table' /\ TableKept
  BY <1>2, TableSame DEF Held
<1>8. ~Busy
  BY <1>2 DEF Busy
<1>9. ASSUME NEW d \in Client
      PROVE  (Receiver(d) /\ Place(d))'
  <2>1. ~Waiting(d)
    BY <1>8 DEF Inv, Place
  <2>2. SameFds(d) /\ pc'[d] = pc[d] /\ ipc'[d] = ipc[d]
    BY <1>2, <1>4, Constants DEF SameFds
  <2>3. pc[d].at = "fork" => SameFds(pc[d].child) /\ pc'[pc[d].child].at = "new"
    BY <1>2 DEF Inv, Place, SameFds
  <2> QED
    BY <1>7, <2>1, <2>2, <2>3, PlaceKept
<1>10. Serving'
  BY <1>3, <1>4, <1>5 DEF Serving, Busy, whom
<1> QED
  BY <1>6, <1>7, <1>9, <1>10 DEF Inv

\* What the server knows when it takes a request.
LEMMA RequestedIs ==
  ASSUME Inv, NEW op, Requested(op)
  PROVE  /\ Busy /\ ~ipc[Fs].recving /\ whom \in Client
         /\ pc[whom].op = op /\ Asked(whom)
         /\ Waiting(whom) \/ pc[whom].at = "dead"
BY DEF Inv, Serving, Requested, Busy

LEMMA ServeOpenInv ==
  ASSUME Inv, ServeOpen
  PROVE  Inv'
<1>1. /\ Requested(FSREQ_OPEN) /\ srv' = ServerAt("scan", 0, FALSE, 0)
      /\ UNCHANGED <<fd, open, ipc, pc>>
  BY DEF ServeOpen
<1>2. srv' \in Server /\ srv'.at = "scan" /\ ~srv'.page
  <2>1. PICK zero \in Int : zero = 0
    OBVIOUS
  <2>2. srv' = ServerAt("scan", 0, FALSE, zero)
    BY <1>1, <2>1
  <2> QED
    BY <2>2, ServerPlaces
<1>3. PICK c \in Client : c = whom
  BY <1>1, RequestedIs
<1>4. /\ Opening(c) /\ Asked(c) /\ ~ipc[Fs].recving
      /\ Waiting(c) \/ pc[c].at = "dead"
  BY <1>1, <1>3, RequestedIs DEF Opening
<1>5. /\ Opening(c)' /\ Asked(c)' /\ (Waiting(c)' \/ pc'[c].at = "dead")
      /\ whom' = c /\ ~ipc'[Fs].recving
  BY <1>1, <1>3, <1>4 DEF Opening, Asked, Requests, HasSlot, Waiting, whom
<1>6. Serving' /\ Busy'
  BY <1>2, <1>5 DEF Serving, Busy
<1> QED
  BY <1>1, <1>2, <1>6, ServerTurn

LEMMA ScanUsedInv ==
  ASSUME Inv, ScanUsed
  PROVE  Inv'
<1>1. /\ srv.at = "scan" /\ srv.i < MAXOPEN /\ srv' = [srv EXCEPT !.i = @ + 1]
      /\ UNCHANGED <<fd, open, ipc, pc>>
  BY DEF ScanUsed
<1>2. srv' \in Server /\ srv'.at = "scan" /\ ~srv'.page
  <2>1. srv' \in Server /\ srv'.at = srv.at /\ srv'.page = srv.page
    BY <1>1, Types, Constants DEF Server
  <2>2. ~srv.page
    BY <1>1 DEF Inv, Serving
  <2> QED
    BY <1>1, <2>1, <2>2
<1>3. PICK c \in Client : c = whom
  BY <1>1 DEF Inv, Serving, Busy
<1>4. /\ Opening(c) /\ Asked(c) /\ ~ipc[Fs].recving
      /\ Waiting(c) \/ pc[c].at = "dead"
  BY <1>1, <1>3 DEF Inv, Serving, Busy
<1>5. /\ Opening(c)' /\ Asked(c)' /\ (Waiting(c)' \/ pc'[c].at = "dead")
      /\ whom' = c /\ ~ipc'[Fs].recving
  BY <1>1, <1>3, <1>4 DEF Opening, Asked, Requests, HasSlot, Waiting, whom
<1>6. Serving' /\ Busy'
  BY <1>2, <1>5 DEF Serving, Busy
<1> QED
  BY <1>1, <1>2, <1>6, ServerTurn

\* An answer in fsipcbuf, or none needed, and the server turns to its reply.
LEMMA ReplyInv ==
  ASSUME Inv, Busy, NEW r \in Int, Reply(r), UNCHANGED <<fd, open, ipc, pc>>,
         Replied(whom), Opening(whom) => Asked(whom)
  PROVE  Inv'
<1>1. PICK c \in Client : c = whom
  BY DEF Inv, Serving
<1>2. whom' = c /\ Replied(c)' /\ (Opening(c) => Asked(c))'
  BY <1>1 DEF Opening, Asked, Replied, Requests, HasSlot, whom
<1>3. Replied(whom)' /\ (Opening(whom) => Asked(whom))'
  BY <1>2
<1>4. Serving' /\ Busy' /\ srv' \in Server
  BY <1>3, ReplyServing
<1> QED
  BY <1>4, ServerTurn

LEMMA MinusOne == -1 \in Int /\ 0 \in Int
OBVIOUS

LEMMA ScanFailsInv ==
  ASSUME Inv, ScanFails
  PROVE  Inv'
<1>1. srv.at = "scan" /\ Reply(-1) /\ UNCHANGED <<fd, open, ipc, pc>> /\ Busy
  BY DEF ScanFails, Busy
<1>2. Opening(whom) /\ Asked(whom)
  BY <1>1 DEF Inv, Serving
<1>3. Replied(whom)
  BY <1>2 DEF Asked, Requests, Replied
<1> QED
  BY <1>1, <1>2, <1>3, ReplyInv, MinusOne

LEMMA ServeFlushInv ==
  ASSUME Inv, ServeFlush
  PROVE  Inv'
<1>1. Requested(FSREQ_FLUSH) /\ Reply(0) /\ UNCHANGED <<fd, open, ipc, pc>>
  BY DEF ServeFlush
<1>2. Busy /\ Asked(whom) /\ pc[whom].op = FSREQ_FLUSH /\ ~Opening(whom)
  BY <1>1, RequestedIs, OpsAre DEF Opening
<1>3. Replied(whom)
  BY <1>2 DEF Asked, Replied
<1> QED
  BY <1>1, <1>2, <1>3, ReplyInv, MinusOne

\* A request about an open file: its entry is in use while its client lives.
LEMMA EntryIs ==
  ASSUME Inv, NEW c \in Client, c = whom, Asked(c), ~Opening(c)
  PROVE  /\ Req \in FileRequest /\ Entry \in Open /\ open[Entry].mapped
         /\ ~LookupFails => Held(Entry)
         /\ pc[c].at # "dead" => /\ ~LookupFails /\ Entry = fd[c][pc[c].slot]
                                 /\ fd[c][pc[c].slot] # None
<1>1. PICK x : x = pc[c].buf
  OBVIOUS
<1>2. Req = x /\ x \in FileRequest /\ open[x.id % MAXOPEN].mapped
  BY <1>1 DEF Req, Asked, Requests
<1>3. PICK i \in Open : i = x.id % MAXOPEN
  BY <1>2, RequestEntry
<1>4. Entry = i /\ open[i].mapped
  BY <1>2, <1>3 DEF Entry
<1>5. ~LookupFails => Held(i)
  <2>1. ~Held(i) => PageRef(i) = 1
    BY <1>4, PageRefs
  <2> QED
    BY <1>4, <2>1 DEF LookupFails
<1>6. ASSUME pc[c].at # "dead"
      PROVE  /\ ~LookupFails /\ i = fd[c][pc[c].slot] /\ fd[c][pc[c].slot] # None
  <2>1. PICK j : j = fd[c][pc[c].slot]
    OBVIOUS
  <2>2. j # None /\ x.id = open[j].id
    BY <1>1, <1>6, <2>1 DEF Asked, HasSlot
  <2>3. pc[c].slot \in Slot
    BY Types
  <2>4. j \in Open /\ Held(j) /\ InUse(j)
    BY <2>1, <2>2, <2>3, HeldOpen
  <2>5. x.id = open[j].o_fileid /\ open[j].o_fileid % MAXOPEN = j
    BY <2>2, <2>4 DEF InUse, Inv, Table
  <2>6. i = j
    BY <1>3, <2>5
  <2>7. PageRef(i) # 1
    BY <1>4, <2>4, <2>6, PageRefs
  <2> QED
    BY <1>2, <1>4, <2>1, <2>2, <2>5, <2>6, <2>7 DEF LookupFails
<1> QED
  BY <1>2, <1>4, <1>5, <1>6

LEMMA ServeErrorInv ==
  ASSUME Inv, NEW op \in {FSREQ_READ, FSREQ_STAT}, ServeError(op)
  PROVE  Inv'
<1>1. Requested(op) /\ LookupFails /\ Reply(-1) /\ UNCHANGED <<fd, open, ipc, pc>>
  BY DEF ServeError
<1>2. PICK c \in Client : c = whom
  BY <1>1, RequestedIs
<1>3. Busy /\ Asked(c) /\ ~Opening(c)
  BY <1>1, <1>2, RequestedIs, OpsAre DEF Opening
<1>4. pc[c].at = "dead"
  BY <1>1, <1>2, <1>3, EntryIs
<1>5. Replied(whom) /\ ~Opening(whom)
  BY <1>2, <1>3, <1>4 DEF Replied
<1> QED
  BY <1>1, <1>3, <1>5, ReplyInv, MinusOne

LEMMA PanicInv ==
  ASSUME Inv, Panic
  PROVE  Inv'
<1>1. /\ srv.at = "reply" /\ pc[whom].at = "dead"
      /\ srv' = [srv EXCEPT !.at = "panic"] /\ UNCHANGED <<fd, open, ipc, pc>>
  BY DEF Panic
<1>2. srv' \in Server /\ srv'.at = "panic"
  BY <1>1, Types DEF Server
<1>3. ~ipc[Fs].recving
  BY <1>1 DEF Inv, Serving
<1>4. Serving'
  BY <1>1, <1>2, <1>3 DEF Serving, Busy
<1> QED
  BY <1>1, <1>2, <1>4, ServerTurn

\* The server writes its answer into fsipcbuf.
LEMMA AnswerInv ==
  ASSUME Inv, NEW c \in Client, c = whom, Busy, NEW data \in Contents, ~Opening(c), Asked(c),
         pc' = [pc EXCEPT ![c].buf = data], UNCHANGED <<fd, open, ipc>>,
         srv' \in Server, Busy', Serving'
  PROVE  Inv'
<1>1. PICK l : l = [pc[c] EXCEPT !.buf = data]
  OBVIOUS
<1>2. l \in Local /\ l.at = pc[c].at
  BY <1>1, Types DEF Local
<1>3. pc' = [pc EXCEPT ![c] = l]
  BY <1>1
<1>4. pc'[c] = l /\ \A d \in Client \ {c} : pc'[d] = pc[d]
  BY <1>3 DEF Inv, TypeOK
<1>5. TypeOK'
  BY <1>2, <1>3 DEF Inv, TypeOK
<1>6. Table' /\ TableKept
  BY TableSame DEF Held
<1>7. whom' = c /\ (Waiting(c) \/ pc[c].at = "dead")
  BY DEF whom, Inv, Serving
<1>8. (Receiver(c) /\ Place(c))'
  <2>1. pc[c].at \in {"sent", "wait", "dead"} /\ (pc[c].at = "wait" => ipc[c].recving)
    BY <1>7 DEF Waiting
  <2>2. pc[c].at # "dead" => ~ipc[c].recving \/ pc[c].at = "wait"
    BY DEF Inv, Receiver
  <2>3. l.op = pc[c].op /\ l.slot = pc[c].slot
    BY <1>1, Types DEF Local
  <2>4. Receiver(c)'
    BY <1>2, <1>4, <2>3 DEF Inv, Receiver, Opening
  <2>5. Place(c)'
    BY <1>2, <1>4, <1>7, <2>1 DEF Inv, Place
  <2> QED
    BY <2>4, <2>5
<1>9. ASSUME NEW d \in Client \ {c}
      PROVE  (Receiver(d) /\ Place(d))'
  <2>1. ~Waiting(d)
    BY DEF Inv, Place
  <2>2. SameFds(d) /\ pc'[d] = pc[d] /\ ipc'[d] = ipc[d]
    BY <1>4 DEF SameFds
  <2>3. pc[d].at = "fork" => SameFds(pc[d].child) /\ pc'[pc[d].child].at = "new"
    <3>1. \A x \in Client : SameFds(x) /\ pc'[x].at = pc[x].at
      BY <1>2, <1>4 DEF SameFds
    <3> QED
      BY <3>1, Types DEF Inv, Place
  <2> QED
    BY <1>6, <2>1, <2>2, <2>3, PlaceKept
<1> QED
  BY <1>5, <1>6, <1>8, <1>9 DEF Inv

\* With its answer a client that lives has all it waits for.
LEMMA AnswerReplied ==
  ASSUME Inv, NEW c \in Client, NEW data \in Contents, ~Opening(c), Asked(c),
         pc' = [pc EXCEPT ![c].buf = data], UNCHANGED <<fd, open, ipc>>
  PROVE  /\ Replied(c)' /\ ~Opening(c)' /\ pc'[c].buf = data
         /\ pc'[c].at = pc[c].at /\ pc'[c].op = pc[c].op
<1>1. PICK l : l = [pc[c] EXCEPT !.buf = data]
  OBVIOUS
<1>2. /\ l.at = pc[c].at /\ l.op = pc[c].op /\ l.slot = pc[c].slot /\ l.buf = data
  BY <1>1, Types DEF Local
<1>3. pc'[c] = l
  BY <1>1 DEF Inv, TypeOK
<1>4. ~Opening(c)' /\ (pc[c].at # "dead" => HasSlot(c)')
  BY <1>2, <1>3 DEF Opening, Asked, HasSlot
<1> QED
  BY <1>2, <1>3, <1>4 DEF Replied

LEMMA FileReadIs ==
  ASSUME Inv, NEW i \in Open, Held(i), NEW n \in Counts \cup {0}
  PROVE  /\ FileRead(open[i], n) \in Contents /\ FileRead(open[i], n).len \in Int
         /\ FileRead(open[i], n).len \in Nat
<1>1. /\ open[i].o_file \in File /\ open[i].fd_offset \in Nat /\ n \in Nat /\ Size \in Nat
  <2>1. n \in Nat /\ Size \in Nat
    BY Constants
  <2>2. open[i].fd_offset \in Nat
    BY Types
  <2>3. open[i].o_file \in File
    BY DEF Inv, Table, InUse
  <2> QED
    BY <2>1, <2>2, <2>3
<1>2. PICK len : len = IF open[i].fd_offset >= Size THEN 0
           ELSE IF open[i].fd_offset + n <= Size THEN n ELSE Size - open[i].fd_offset
  OBVIOUS
<1>3. len \in 0 .. Size
  BY <1>1, <1>2
<1>4. PICK d : d = [file |-> open[i].o_file, from |-> open[i].fd_offset, len |-> len]
  OBVIOUS
<1>5. d \in Contents /\ d.len = len
  BY <1>1, <1>3, <1>4 DEF Contents
<1>6. d = FileRead(open[i], n)
  BY <1>2, <1>4 DEF FileRead
<1> QED
  BY <1>3, <1>5, <1>6

LEMMA ServeReadInv ==
  ASSUME Inv, ServeRead
  PROVE  Inv'
<1>1. PICK c \in Client : c = whom
  BY RequestedIs DEF ServeRead
<1>2. PICK data : data = FileRead(open[Entry], Req.n)
  OBVIOUS
<1>3. PICK i : i = Entry
  OBVIOUS
<1>4. /\ Requested(FSREQ_READ) /\ ~LookupFails /\ pc' = [pc EXCEPT ![c].buf = data]
      /\ srv' = ServerAt("advance", i, FALSE, data.len) /\ UNCHANGED <<fd, open, ipc>>
  BY <1>1, <1>2, <1>3 DEF ServeRead
<1>5. /\ Busy /\ Asked(c) /\ pc[c].op = FSREQ_READ /\ ~Opening(c) /\ ~ipc[Fs].recving
      /\ (Waiting(c) \/ pc[c].at = "dead")
  BY <1>1, <1>4, RequestedIs, OpsAre DEF Opening
<1>6. Req \in FileRequest /\ i \in Open /\ Held(i)
  BY <1>1, <1>3, <1>4, <1>5, EntryIs
<1>7. Req.n \in Counts \cup {0}
  BY <1>6 DEF FileRequest
<1>8. data \in Contents /\ data.len \in Int
  BY <1>2, <1>3, <1>6, <1>7, FileReadIs
<1>9. /\ srv' \in Server /\ srv'.at = "advance" /\ srv'.i = i /\ srv'.r = data.len
      /\ ~srv'.page
  <2>1. PICK r \in Int : r = data.len
    BY <1>8
  <2>2. i \in 0 .. MAXOPEN
    BY <1>6, Constants DEF Open
  <2>3. srv' = ServerAt("advance", i, FALSE, r)
    BY <1>4, <2>1
  <2>4. srv' \in Server
    BY <2>2, <2>3, ServerAtType
  <2> QED
    BY <2>1, <2>3, <2>4 DEF ServerAt
<1>10. /\ Replied(c)' /\ pc'[c].buf = data /\ pc'[c].at = pc[c].at
       /\ pc'[c].op = FSREQ_READ
  BY <1>4, <1>5, <1>8, AnswerReplied
<1>11. whom' = c /\ Busy' /\ (Waiting(c)' \/ pc'[c].at = "dead") /\ ~ipc'[Fs].recving
  BY <1>1, <1>4, <1>5, <1>9, <1>10 DEF whom, Busy, Waiting
<1>12. Serving'
  BY <1>6, <1>8, <1>9, <1>10, <1>11 DEF Serving
<1> QED
  BY <1>1, <1>4, <1>5, <1>8, <1>9, <1>11, <1>12, AnswerInv

LEMMA ServeStatInv ==
  ASSUME Inv, ServeStat
  PROVE  Inv'
<1>1. PICK c \in Client : c = whom
  BY RequestedIs DEF ServeStat
<1>2. PICK data : data = [file |-> open[Entry].o_file, from |-> 0, len |-> 0]
  OBVIOUS
<1>3. /\ Requested(FSREQ_STAT) /\ ~LookupFails /\ pc' = [pc EXCEPT ![c].buf = data]
      /\ Reply(0) /\ UNCHANGED <<fd, open, ipc>>
  BY <1>1, <1>2 DEF ServeStat
<1>4. /\ Busy /\ Asked(c) /\ pc[c].op = FSREQ_STAT /\ ~Opening(c)
  BY <1>1, <1>3, RequestedIs, OpsAre DEF Opening
<1>5. Entry \in Open /\ Held(Entry)
  BY <1>1, <1>3, <1>4, EntryIs
<1>6. data \in Contents
  <2>1. open[Entry].o_file \in File
    BY <1>5 DEF Inv, Table, InUse
  <2>2. PICK zero \in 0 .. Size : zero = 0
    BY Constants
  <2>3. PICK none \in Nat : none = 0
    OBVIOUS
  <2>4. data = [file |-> open[Entry].o_file, from |-> none, len |-> zero]
    BY <1>2, <2>2, <2>3
  <2> QED
    BY <2>1, <2>4 DEF Contents
<1>7. Replied(c)' /\ ~Opening(c)' /\ pc'[c].at = pc[c].at
  BY <1>3, <1>4, <1>6, AnswerReplied
<1>8. whom' = c
  BY <1>1, <1>3 DEF whom
<1>9. pc'[whom].at = pc[whom].at /\ Replied(whom)' /\ (Opening(whom) => Asked(whom))'
  BY <1>1, <1>7, <1>8
<1>10. Serving' /\ Busy' /\ srv' \in Server
  BY <1>3, <1>4, <1>9, ReplyServing, MinusOne
<1> QED
  BY <1>1, <1>3, <1>4, <1>6, <1>10, AnswerInv

LEMMA AdvanceInv ==
  ASSUME Inv, Advance
  PROVE  Inv'
<1>1. PICK i : i = srv.i
  OBVIOUS
<1>2. PICK r : r = srv.r
  OBVIOUS
<1>3. PICK o : o = [open[i] EXCEPT !.fd_offset = @ + r]
  OBVIOUS
<1>4. /\ srv.at = "advance" /\ open' = [open EXCEPT ![i] = o] /\ Reply(r)
      /\ UNCHANGED <<fd, ipc, pc>>
  BY <1>1, <1>2, <1>3 DEF Advance
<1>5. PICK c \in Client : c = whom
  BY <1>4 DEF Inv, Serving, Busy
<1>6. /\ Busy /\ pc[c].op = FSREQ_READ /\ Replied(c) /\ pc[c].buf \in Contents
      /\ i \in Open /\ r = pc[c].buf.len
  BY <1>1, <1>2, <1>4, <1>5 DEF Inv, Serving, Busy
<1>7. r \in Nat /\ r \in Int
  <2>1. PICK x \in Contents : x = pc[c].buf
    BY <1>6
  <2>2. x.len \in 0 .. Size
    BY DEF Contents
  <2> QED
    BY <1>6, <2>1, <2>2, Constants
<1>8. /\ o \in OpenFile /\ o.mapped = open[i].mapped /\ o.o_fileid = open[i].o_fileid
      /\ o.o_file = open[i].o_file /\ o.id = open[i].id
  <2>1. PICK to : to = open[i].fd_offset + r
    OBVIOUS
  <2>2. to \in Nat /\ open[i] \in OpenFile
    BY <1>6, <1>7, <2>1, Types
  <2>3. o = [open[i] EXCEPT !.fd_offset = to]
    BY <1>3, <2>1
  <2> QED
    BY <2>2, <2>3 DEF OpenFile
<1>9. open'[i] = o /\ \A j \in Open \ {i} : open'[j] = open[j]
  BY <1>4, <1>6 DEF Inv, TypeOK
<1>10. open' \in [Open -> OpenFile]
  BY <1>4, <1>8 DEF Inv, TypeOK
<1>11. \A j \in Open : /\ open'[j].mapped = open[j].mapped /\ open'[j].id = open[j].id
                       /\ open'[j].o_fileid = open[j].o_fileid
                       /\ open'[j].o_file = open[j].o_file
                       /\ (Held(j)' <=> Held(j))
  BY <1>4, <1>8, <1>9 DEF Held
<1>12. Table' /\ TableKept
  BY <1>11 DEF Inv, Table, TableKept, InUse
<1>13. ~Opening(c)' /\ Replied(c)'
  BY <1>4, <1>6, OpsAre DEF Opening, Replied, HasSlot
<1>14. whom' = c
  BY <1>4, <1>5 DEF whom
<1>15. pc'[whom].at = pc[whom].at /\ Replied(whom)' /\ (Opening(whom) => Asked(whom))'
  BY <1>4, <1>13, <1>14
<1>16. Serving' /\ Busy' /\ srv' \in Server
  BY <1>4, <1>6, <1>7, <1>15, ReplyServing
<1> QED
  BY <1>4, <1>10, <1>12, <1>16, ServerMove

\* The entry i, which nobody holds, becomes o.
LEMMA TakeEntry ==
  ASSUME Inv, NEW i \in Open, ~Held(i), NEW o \in OpenFile,
         open' = [open EXCEPT ![i] = o], UNCHANGED <<fd, ipc, pc>>,
         o.mapped, o.o_fileid % MAXOPEN = i
  PROVE  /\ open' \in [Open -> OpenFile] /\ Table' /\ TableKept
         /\ open'[i] = o /\ \A j \in Open : Held(j)' <=> Held(j)
<1>1. open'[i] = o /\ \A j \in Open \ {i} : open'[j] = open[j]
  BY DEF Inv, TypeOK
<1>2. open' \in [Open -> OpenFile]
  BY DEF Inv, TypeOK
<1>3. \A j \in Open : Held(j)' <=> Held(j)
  BY DEF Held
<1>4. TableKept
  BY <1>1 DEF TableKept
<1>5. Table'
  <2>1. ASSUME NEW j \in Open
        PROVE  open'[j].o_fileid % MAXOPEN = j
    BY <1>1 DEF Inv, Table
  <2>2. ASSUME NEW j \in Open, Held(j)'
        PROVE  InUse(j)'
    BY <1>1, <1>3, <2>2 DEF Inv, Table, InUse
  <2> QED
    BY <2>1, <2>2 DEF Table
<1> QED
  BY <1>1, <1>2, <1>3, <1>4, <1>5

LEMMA ScanFreeInv ==
  ASSUME Inv, ScanFree
  PROVE  Inv'
<1>1. PICK i : i = srv.i
  OBVIOUS
<1>2. PICK id : id = (open[i].o_fileid + MAXOPEN) % IdSpace
  OBVIOUS
<1>3. PICK f : f = Req.file
  OBVIOUS
<1>4. /\ srv.at = "scan" /\ i < MAXOPEN /\ Free(i) /\ UNCHANGED <<fd, ipc, pc>>
      /\ IF 2 * id >= IdSpace \/ f = None
          THEN /\ open' = [open EXCEPT ![i] = [mapped |-> TRUE, o_fileid |-> id,
                              o_file |-> @.o_file, id |-> 0, fd_offset |-> 0]]
               /\ Reply(-1)
          ELSE /\ open' = [open EXCEPT ![i] = [mapped |-> TRUE, o_fileid |-> id,
                              o_file |-> f, id |-> id, fd_offset |-> 0]]
               /\ srv' = ServerAt("reply", i, TRUE, 0)
  BY <1>1, <1>2, <1>3 DEF ScanFree
<1>5. i \in Open /\ i \in 0 .. MAXOPEN
  <2>1. srv.i \in 0 .. MAXOPEN
    BY Types DEF Server
  <2> QED
    BY <1>1, <1>4, <2>1, Constants DEF Open
<1>6. ~Held(i)
  BY <1>4, <1>5, PageRefs DEF Inv, Table, InUse
<1>7. id \in Ids /\ id % MAXOPEN = i
  <2>1. open[i].o_fileid \in Ids /\ open[i].o_fileid % MAXOPEN = i
    BY <1>5, Types DEF OpenFile, Inv, Table
  <2> QED
    BY <1>2, <2>1, NextId
<1>8. PICK c \in Client : c = whom
  BY <1>4 DEF Inv, Serving, Busy
<1>9. /\ Busy /\ Opening(c) /\ Asked(c) /\ ~ipc[Fs].recving
      /\ (Waiting(c) \/ pc[c].at = "dead")
  BY <1>4, <1>8 DEF Inv, Serving, Busy
<1>10. PICK none \in Nat : none = 0 /\ none \in Ids
  BY Constants
<1>11. f \in File \cup {None} /\ pc[c].buf = [file |-> f]
  <2>1. pc[c].buf \in OpenRequest
    BY <1>9 DEF Asked, Requests
  <2> QED
    BY <1>3, <1>8, <2>1 DEF OpenRequest, Req
<1>12. SameCall(c) /\ SameFds(c) /\ pc'[c].at = pc[c].at
  BY <1>4 DEF SameCall, SameFds
<1>13. CASE 2 * id >= IdSpace \/ f = None
  <2>1. PICK o : o = [mapped |-> TRUE, o_fileid |-> id, o_file |-> open[i].o_file,
                      id |-> none, fd_offset |-> none]
    OBVIOUS
  <2>2. open' = [open EXCEPT ![i] = o] /\ Reply(-1)
    BY <1>4, <1>10, <1>13, <2>1
  <2>3. o \in OpenFile /\ o.mapped /\ o.o_fileid = id
    <3>1. open[i].o_file \in File \cup {None}
      BY <1>5, Types DEF OpenFile
    <3> QED
      BY <1>7, <1>10, <2>1, <3>1 DEF OpenFile
  <2>4. open' \in [Open -> OpenFile] /\ Table' /\ TableKept
    BY <1>4, <1>5, <1>6, <1>7, <2>2, <2>3, TakeEntry
  <2>5. Asked(c)' /\ Opening(c)'
    BY <1>9, <1>12, <2>4, AskedKept DEF Opening, SameCall
  <2>6. Replied(c)'
    BY <2>5 DEF Asked, Requests, Replied
  <2>7. whom' = c
    BY <1>4, <1>8 DEF whom
  <2>8. pc'[whom].at = pc[whom].at /\ Replied(whom)' /\ (Opening(whom) => Asked(whom))'
    BY <1>4, <2>5, <2>6, <2>7
  <2>9. Serving' /\ Busy' /\ srv' \in Server
    BY <1>4, <1>9, <2>2, <2>8, ReplyServing, MinusOne
  <2> QED
    BY <1>4, <2>4, <2>9, ServerMove
<1>14. CASE ~(2 * id >= IdSpace \/ f = None)
  <2>1. PICK o : o = [mapped |-> TRUE, o_fileid |-> id, o_file |-> f,
                      id |-> id, fd_offset |-> none]
    OBVIOUS
  <2>2. open' = [open EXCEPT ![i] = o] /\ srv' = ServerAt("reply", i, TRUE, 0)
    BY <1>4, <1>10, <1>14, <2>1
  <2>3. o \in OpenFile /\ o.mapped /\ o.o_fileid = id
    BY <1>7, <1>10, <1>11, <2>1 DEF OpenFile
  <2>4. /\ open' \in [Open -> OpenFile] /\ Table' /\ TableKept
        /\ open'[i] = o /\ ~Held(i)'
    BY <1>4, <1>5, <1>6, <1>7, <2>2, <2>3, TakeEntry
  <2>5. Asked(c)' /\ Opening(c)'
    BY <1>9, <1>12, <2>4, AskedKept DEF Opening, SameCall
  <2>6. Replied(c)'
    BY <2>5 DEF Asked, Requests, Replied
  <2>7. whom' = c /\ ~ipc'[Fs].recving /\ (Waiting(c)' \/ pc'[c].at = "dead")
    BY <1>4, <1>8, <1>9 DEF whom, Waiting
  <2>8. Fresh(i, c)'
    <3>1. InUse(i)'
      BY <1>11, <1>14, <2>1, <2>4 DEF InUse
    <3>2. open'[i].fd_offset = 0 /\ pc'[c].buf = [file |-> open'[i].o_file]
      BY <1>4, <1>10, <1>11, <2>1, <2>4
    <3> QED
      BY <1>5, <2>4, <3>1, <3>2 DEF Fresh
  <2>9. srv' \in Server /\ srv'.at = "reply" /\ srv'.i = i
    <3>1. PICK yes \in BOOLEAN : yes = TRUE
      OBVIOUS
    <3>2. srv' = ServerAt("reply", i, yes, none) /\ none \in Int
      BY <1>10, <2>2, <3>1
    <3>3. srv' \in Server
      BY <1>5, <3>2, ServerAtType
    <3> QED
      BY <3>2, <3>3 DEF ServerAt
  <2>10. Busy' /\ Serving'
    BY <2>5, <2>6, <2>7, <2>8, <2>9 DEF Busy, Serving
  <2> QED
    BY <1>4, <2>4, <2>9, <2>10, ServerMove
<1> QED
  BY <1>13, <1>14

LEMMA SendReplyInv ==
  ASSUME Inv, SendReply
  PROVE  Inv'
<1>1. PICK c \in Client : c = whom
  BY DEF SendReply, Inv, Serving, Busy
<1>2. PICK msg : msg = Message(c, Fs, srv.r, srv.page)
  OBVIOUS
<1>3. PICK idle : idle = Read(Fs)
  OBVIOUS
<1>4. /\ srv.at = "reply" /\ pc[c].at # "dead" /\ ipc[c].recving
      /\ ipc' = [ipc EXCEPT ![c] = msg, ![Fs] = idle]
      /\ fd' = IF srv.page /\ ipc[c].dstva # None
                 THEN [fd EXCEPT ![c][ipc[c].dstva] = srv.i] ELSE fd
      /\ srv' = ServerAt("ready", 0, FALSE, 0) /\ UNCHANGED <<open, pc>>
  BY <1>1, <1>2, <1>3 DEF SendReply, Receiving
<1>5. PICK s \in Slot : s = pc[c].slot
  BY Types
<1>6. /\ pc[c].at = "wait" /\ (Opening(c) => ipc[c].dstva = s) /\ Replied(c)
      /\ srv.page => Opening(c) /\ Fresh(srv.i, c)
  BY <1>1, <1>4, <1>5 DEF Inv, Receiver, Serving
<1>7. PICK i : i = srv.i
  OBVIOUS
<1>8. IF srv.page THEN fd' = [fd EXCEPT ![c][s] = i] ELSE fd' = fd
  <2>1. s # None
    BY Constants
  <2> QED
    BY <1>4, <1>6, <1>7, <2>1
<1>9. srv.page => i \in Open /\ InUse(i)
  BY <1>6, <1>7 DEF Fresh
<1>10. /\ fd' \in [Client -> [Slot -> Open \cup {None}]]
       /\ \A d \in Client \ {c} : SameFds(d)
       /\ ~srv.page => fd' = fd
       /\ \A j \in Open : Held(j)' => Held(j) \/ (srv.page /\ j = i)
  <2>1. CASE srv.page
    <3>1. Maps(c, s, i)
      BY <1>8, <2>1 DEF Maps
    <3> QED
      BY <1>9, <2>1, <3>1, SetFd
  <2>2. CASE ~srv.page
    BY <1>8, <2>2 DEF Inv, TypeOK, SameFds, Held
  <2> QED
    BY <2>1, <2>2
<1>11. Table' /\ TableKept
  BY <1>4, <1>9, <1>10 DEF Inv, Table, TableKept, InUse
<1>12. msg \in IpcFields /\ ~msg.recving
  <2>1. ipc[c] \in IpcFields /\ Fs \in Env \cup {None} /\ srv.r \in Int
    BY Types, Constants DEF Server
  <2> QED
    BY <1>2, <2>1 DEF Message, IpcFields
<1>13. idle \in IpcFields /\ ~idle.recving /\ idle.from = None
  <2>1. ~ipc[Fs].recving
    BY <1>4 DEF Inv, Serving
  <2> QED
    BY <1>3, <2>1, ReadIs, Constants
<1>14. /\ ipc'[c] = msg /\ ipc'[Fs] = idle /\ \A d \in Client \ {c} : ipc'[d] = ipc[d]
       /\ ipc' \in [Env -> IpcFields]
  BY <1>4, <1>12, <1>13, Constants DEF Inv, TypeOK
<1>15. srv' \in Server /\ srv'.at = "ready"
  <2>1. PICK zero \in Int : zero = 0
    OBVIOUS
  <2>2. srv' = ServerAt("ready", 0, FALSE, zero)
    BY <1>4, <2>1
  <2> QED
    BY <2>2, ServerPlaces
<1>16. TypeOK'
  BY <1>4, <1>10, <1>14, <1>15 DEF Inv, TypeOK
<1>17. Serving'
  BY <1>13, <1>14, <1>15 DEF Serving, Busy, whom
<1>18. Replied(c)'
  <2>1. srv.page => Opening(c)
    BY <1>6
  <2> QED
    BY <1>4, <1>6, <1>10, <2>1 DEF Replied, Opening, HasSlot
<1>19. (Receiver(c) /\ Place(c))'
  BY <1>4, <1>6, <1>12, <1>14, <1>18 DEF Receiver, Place, Waiting
<1>20. ASSUME NEW d \in Client \ {c}
       PROVE  (Receiver(d) /\ Place(d))'
  <2>1. ~Waiting(d)
    BY <1>1 DEF Inv, Place
  <2>2. SameFds(d) /\ pc'[d] = pc[d] /\ ipc'[d] = ipc[d]
    BY <1>4, <1>10, <1>14
  <2>3. ASSUME pc[d].at = "fork"
        PROVE  SameFds(pc[d].child) /\ pc'[pc[d].child].at = "new"
    <3>1. PICK x \in Client : x = pc[d].child
      BY Types
    <3>2. pc[x].at = "new"
      BY <2>3, <3>1 DEF Inv, Place
    <3>3. x # c
      BY <1>6, <3>2
    <3> QED
      BY <1>4, <1>10, <3>1, <3>2, <3>3
  <2> QED
    BY <1>11, <2>1, <2>2, <2>3, PlaceKept
<1> QED
  BY <1>11, <1>16, <1>17, <1>19, <1>20 DEF Inv

-----------------------------------------------------------------------------
(* The invariant is one.                                                   *)

LEMMA InitInv == Init => Inv
<1> SUFFICES ASSUME Init PROVE Inv
  OBVIOUS
<1>1. /\ \A c \in Client, s \in Slot : fd[c][s] = None
      /\ fd \in [Client -> [Slot -> Open \cup {None}]]
  BY DEF Init
<1>2. /\ open \in [Open -> OpenFile]
      /\ \A i \in Open : open[i].o_fileid = i
  <2>1. PICK zero \in Nat : zero = 0 /\ zero \in Ids
    BY Constants
  <2>2. open = [i \in Open |-> [mapped |-> FALSE, o_fileid |-> i, o_file |-> None,
                                id |-> zero, fd_offset |-> zero]]
    BY <2>1 DEF Init
  <2>3. Open \subseteq Ids
    BY FileAssumption DEF Open, Ids
  <2> QED
    BY <2>1, <2>2, <2>3 DEF OpenFile
<1>3. /\ ipc \in [Env -> IpcFields]
      /\ \A e \in Env : ~ipc[e].recving /\ ipc[e].from = None
  <2>1. PICK zero \in Int : zero = 0
    OBVIOUS
  <2>2. PICK no \in BOOLEAN : no = FALSE
    OBVIOUS
  <2>3. ipc = [e \in Env |-> [recving |-> no, from |-> None, perm |-> no,
                              value |-> zero, dstva |-> None]]
    BY <2>1, <2>2 DEF Init
  <2> QED
    BY <2>1, <2>2, <2>3 DEF IpcFields
<1>4. /\ pc \in [Client -> Local]
      /\ \A c \in Client : pc[c].at \in {"none", "idle"}
  BY Places, AtIs DEF Init
<1>5. srv \in Server /\ srv.at = "ready"
  <2>1. PICK zero \in Int : zero = 0
    OBVIOUS
  <2>2. srv = ServerAt("ready", 0, FALSE, zero)
    BY <2>1 DEF Init
  <2> QED
    BY <2>2, ServerPlaces
<1>6. TypeOK
  BY <1>1, <1>2, <1>3, <1>4, <1>5 DEF TypeOK
<1>7. Table
  <2>1. ASSUME NEW i \in Open
        PROVE  i % MAXOPEN = i /\ ~Held(i)
    <3>1. i \in Nat /\ i < MAXOPEN /\ MAXOPEN \in Nat \ {0}
      BY FileAssumption DEF Open
    <3>2. i % MAXOPEN = i
      <4>1. i = 0 * MAXOPEN + i
        BY <3>1
      <4> QED
        BY <3>1, <4>1, ModIs
    <3>3. ~Held(i)
      BY <1>1, Constants DEF Held
    <3> QED
      BY <3>2, <3>3
  <2> QED
    BY <1>2, <2>1 DEF Table
<1>8. Serving
  BY <1>3, <1>5, Constants DEF Serving, Busy, whom
<1>9. ASSUME NEW c \in Client
      PROVE  Receiver(c) /\ Place(c)
  BY <1>1, <1>3, <1>4, Constants DEF Receiver, Place, Waiting
<1> QED
  BY <1>6, <1>7, <1>8, <1>9 DEF Inv

LEMMA NextInv == Inv /\ [Next]_vars => Inv'
<1> SUFFICES ASSUME Inv, [Next]_vars PROVE Inv'
  OBVIOUS
<1>1. CASE ServerStep
  BY <1>1, ServerRecvInv, ServeOpenInv, ScanUsedInv, ScanFailsInv, ScanFreeInv,
     ServeErrorInv, ServeReadInv, AdvanceInv, ServeStatInv, ServeFlushInv, SendReplyInv,
     PanicInv DEF ServerStep
<1>2. ASSUME NEW c \in Client, ClientStep(c)
      PROVE  Inv'
  BY <1>2, SendInv, RecvInv, ReturnInv, UnmapInv, DupPageInv, StartInv DEF ClientStep
<1>3. ASSUME NEW c \in Client, Choice(c)
      PROVE  Inv'
  <2>1. \A n \in Counts : n \in Counts \cup {0}
    OBVIOUS
  <2>2. 0 \in Counts \cup {0}
    OBVIOUS
  <2>3. /\ FSREQ_READ \in Ops \ {FSREQ_OPEN} /\ FSREQ_STAT \in Ops \ {FSREQ_OPEN}
        /\ FSREQ_FLUSH \in Ops \ {FSREQ_OPEN}
    BY OpsAre
  <2>4. ASSUME NEW f \in File \cup {None}, ClientOpen(c, f) PROVE Inv'
    BY <2>4, OpenInv
  <2>5. ASSUME NEW s \in Slot, NEW n \in Counts, FdRequest(c, FSREQ_READ, s, n) PROVE Inv'
    BY <2>1, <2>3, <2>5, RequestInv
  <2>6. ASSUME NEW s \in Slot, FdRequest(c, FSREQ_STAT, s, 0) PROVE Inv'
    BY <2>2, <2>3, <2>6, RequestInv
  <2>7. ASSUME NEW s \in Slot, FdRequest(c, FSREQ_FLUSH, s, 0) PROVE Inv'
    BY <2>2, <2>3, <2>7, RequestInv
  <2>8. ASSUME NEW s \in Slot, NEW where \in Seeks, Seek(c, s, where) PROVE Inv'
    BY <2>8, SeekInv
  <2>9. ASSUME NEW s \in Slot, NEW t \in Slot, Dup(c, s, t) PROVE Inv'
    BY <2>9, DupInv
  <2>10. ASSUME NEW d \in Client, Fork(c, d) PROVE Inv'
    BY <2>10, ForkInv
  <2> QED
    BY <1>3, <2>4, <2>5, <2>6, <2>7, <2>8, <2>9, <2>10, ExitInv, KillInv DEF Choice
<1>4. CASE UNCHANGED vars
  <2>1. /\ UNCHANGED <<fd, open, ipc, pc>> /\ srv' = srv /\ srv' \in Server
    BY <1>4, Types DEF vars
  <2>2. /\ Requests(whom)' <=> Requests(whom)
        /\ HasSlot(whom)' <=> HasSlot(whom)
    BY <2>1 DEF Requests, HasSlot, Opening, whom
  <2>3. /\ Asked(whom)' <=> Asked(whom)
        /\ Replied(whom)' <=> Replied(whom)
        /\ Fresh(srv.i, whom)' <=> Fresh(srv.i, whom)
    BY <2>1, <2>2 DEF Asked, Replied, Fresh, Opening, Held, InUse, whom
  <2>4. Serving' <=> Serving
    BY <2>1, <2>3 DEF Serving, Busy, Waiting, Opening, whom
  <2>5. Busy' <=> Busy
    BY <2>1 DEF Busy
  <2> QED
    BY <2>1, <2>4, <2>5, ServerTurn DEF Inv
<1> QED
  BY <1>1, <1>2, <1>3, <1>4 DEF Next

LEMMA Inductive == Spec => []Inv
BY InitInv, NextInv, PTL DEF Spec

-----------------------------------------------------------------------------

\* Every variable keeps its type: file ids stay in their 32 bits, an entry of
\* opentab always has a file or none, and fsipcbuf holds a request or an answer
\* and nothing else (fs/serv.c, lib/file.c).
THEOREM TypeCorrect == Spec => []TypeOK
BY Inductive, PTL DEF Inv

LEMMA InvTaker == Inv => ReplyHasTaker
<1> SUFFICES ASSUME Inv, srv.at \in {"scan", "advance", "reply"}
             PROVE  /\ whom \in Client
                    /\ pc[whom].at \in {"sent", "wait", "dead"}
                    /\ pc[whom].at = "wait" => Receiving(whom)
                    /\ srv.page => pc[whom].op = FSREQ_OPEN
  BY DEF ReplyHasTaker
<1>1. PICK c \in Client : c = whom
  BY DEF Inv, Serving, Busy
<1>2. Waiting(c) \/ pc[c].at = "dead"
  BY <1>1 DEF Inv, Serving, Busy
<1>3. pc[c].at = "wait" => Receiving(c)
  BY <1>2 DEF Waiting, Inv, Receiver, Receiving
<1>4. srv.page => pc[c].op = FSREQ_OPEN
  BY <1>1 DEF Inv, Serving, Opening
<1> QED
  BY <1>1, <1>2, <1>3, <1>4 DEF Waiting

\* While the server works on a request, or sends the answer to it, the client it
\* came from is on its way into ipc_recv, in it, or dead; a client in ipc_recv
\* takes the answer, and a page only goes to a client that opens a file: the
\* server never waits for a client that waits for it (fs/serv.c:serve,
\* lib/file.c:fsipc, lib/ipc.c).
THEOREM RepliesAreTaken == Spec => []ReplyHasTaker
BY Inductive, InvTaker, PTL

-----------------------------------------------------------------------------
(* What AbstractFiles sees of a state.                                     *)

CallIs(c) == IF Calling(c) THEN CallOf(c) ELSE None
AnswerIs(c) == IF Calling(c) /\ pc[c].buf \in Contents THEN pc[c].buf ELSE None

Kept(c) == CallIs(c)' = CallIs(c) /\ AnswerIs(c)' = AnswerIs(c)

\* A read under way whose open file somebody holds.
Moves == srv.at = "advance" /\ Held(srv.i)

\* All but the calls and answers.
RestKept ==
  fd' = fd /\ AbsFile' = AbsFile /\ AbsPos' = AbsPos /\ AbsMoving' = AbsMoving
  /\ AbsGone' = AbsGone

LEMMA AbsIs ==
  /\ AbsCall = [c \in Client |-> CallIs(c)] /\ AbsAnswer = [c \in Client |-> AnswerIs(c)]
  /\ AbsCall' = [c \in Client |-> CallIs(c)'] /\ AbsAnswer' = [c \in Client |-> AnswerIs(c)']
BY DEF AbsCall, AbsAnswer, CallIs, AnswerIs

LEMMA AllKept ==
  ASSUME \A c \in Client : Kept(c)
  PROVE  AbsCall' = AbsCall /\ AbsAnswer' = AbsAnswer
BY AbsIs DEF Kept

LEMMA OthersKept ==
  ASSUME NEW c \in Client, \A d \in Client \ {c} : Kept(d)
  PROVE  /\ AbsCall' = [AbsCall EXCEPT ![c] = CallIs(c)']
         /\ AbsAnswer' = [AbsAnswer EXCEPT ![c] = AnswerIs(c)']
         /\ AbsCall[c] = CallIs(c) /\ AbsAnswer[c] = AnswerIs(c)
         /\ AbsCall'[c] = CallIs(c)' /\ AbsAnswer'[c] = AnswerIs(c)'
BY AbsIs DEF Kept

LEMMA Stutters ==
  ASSUME \A c \in Client : Kept(c), RestKept
  PROVE  UNCHANGED Files!vars
BY AllKept DEF RestKept, Files!vars

LEMMA CallKept ==
  ASSUME NEW c \in Client, SameCall(c), Calling(c)' <=> Calling(c), pc[c].slot \in Slot,
         Calling(c) => (pc'[c].at = "dead" <=> pc[c].at = "dead") /\ SameFds(c)
  PROVE  Kept(c)
<1>1. CASE ~Calling(c)
  BY <1>1 DEF Kept, CallIs, AnswerIs
<1>2. CASE Calling(c)
  <2>1. PICK s \in Slot : s = pc[c].slot
    OBVIOUS
  <2>2. /\ pc'[c].slot = s /\ fd'[c][s] = fd[c][s] /\ pc'[c].op = pc[c].op
        /\ pc'[c].buf = pc[c].buf /\ pc'[c].n = pc[c].n
    BY <1>2, <2>1 DEF SameFds, SameCall
  <2>3. (pc'[c].at = "dead") <=> (pc[c].at = "dead")
    BY <1>2
  <2>4. CallOf(c)' = CallOf(c)
    BY <2>1, <2>2, <2>3 DEF CallOf
  <2> QED
    BY <1>2, <2>2, <2>4 DEF Kept, CallIs, AnswerIs
<1> QED
  BY <1>1, <1>2

LEMMA NoCallKept ==
  ASSUME NEW c \in Client, ~Calling(c), ~Calling(c)'
  PROVE  Kept(c)
BY DEF Kept, CallIs, AnswerIs

LEMMA OtherKept ==
  ASSUME Inv, NEW d \in Client, pc'[d] = pc[d], SameFds(d),
         pc[d].at = "dead" => ((whom = d /\ srv.at = "recv") <=> (whom' = d /\ srv'.at = "recv"))
  PROVE  Kept(d)
<1>1. SameCall(d) /\ pc'[d].at = pc[d].at /\ pc[d].slot \in Slot
  BY Types DEF SameCall
<1>2. Calling(d)' <=> Calling(d)
  BY <1>1 DEF Calling, SameCall
<1> QED
  BY <1>1, <1>2, CallKept

LEMMA FilesKept ==
  ASSUME \A i \in Open : /\ Held(i)' <=> Held(i)
                         /\ Held(i) => /\ open'[i].o_file = open[i].o_file
                                       /\ open'[i].fd_offset = open[i].fd_offset
  PROVE  AbsFile' = AbsFile /\ AbsPos' = AbsPos
BY DEF AbsFile, AbsPos

LEMMA GoneKept ==
  ASSUME \A c \in Client : pc'[c].at = "dead" <=> pc[c].at = "dead"
  PROVE  AbsGone' = AbsGone
BY DEF AbsGone

LEMMA MovingIs ==
  ASSUME Inv
  PROVE  IF Moves THEN /\ AbsMoving # None /\ AbsMoving.client = whom
                       /\ AbsMoving.open = srv.i /\ AbsMoving.len = srv.r
                       /\ whom \in Client /\ srv.i \in Open
         ELSE AbsMoving = None
<1>1. CASE Moves
  <2>1. PICK c \in Client : c = whom
    BY <1>1 DEF Moves, Inv, Serving, Busy
  <2>2. PICK i \in Open : i = srv.i
    BY <1>1 DEF Moves, Inv, Serving
  <2>3. srv.r = pc[c].buf.len /\ pc[c].buf \in Contents
    BY <1>1, <2>1 DEF Moves, Inv, Serving
  <2>4. PICK x \in Contents : x = pc[c].buf
    BY <2>3
  <2>5. x.len \in 0 .. Size
    BY DEF Contents
  <2>6. PICK r \in Nat : r = srv.r
    BY <2>3, <2>4, <2>5
  <2>7. PICK m : m = [client |-> c, open |-> i, len |-> r]
    OBVIOUS
  <2>8. m \in [client : Client, open : Open, len : Nat]
    BY <2>7
  <2>9. AbsMoving = m
    BY <1>1, <2>1, <2>2, <2>6, <2>7 DEF AbsMoving, Moves
  <2> QED
    BY <1>1, <2>1, <2>2, <2>6, <2>7, <2>8, <2>9, NoneAssumption
<1>2. CASE ~Moves
  BY <1>2 DEF Moves, AbsMoving
<1> QED
  BY <1>1, <1>2

LEMMA NotMoving ==
  ASSUME srv.at # "advance", srv'.at # "advance"
  PROVE  AbsMoving' = AbsMoving /\ AbsMoving = None
BY DEF AbsMoving

LEMMA MovingKept ==
  ASSUME srv' = srv, srv.at = "advance" => whom' = whom,
         srv.at = "advance" => (Held(srv.i)' <=> Held(srv.i))
  PROVE  AbsMoving' = AbsMoving
BY DEF AbsMoving

\* The buffer of a call, and its descriptor.
LEMMA CallBuf ==
  ASSUME Inv, NEW c \in Client, Calling(c)
  PROVE  /\ Opening(c) => pc[c].buf \in OpenRequest
         /\ ~Opening(c) /\ pc[c].at # "dead" => HasSlot(c)
         /\ pc[c].at = "dead" => Asked(c)
         /\ pc[c].op \in {FSREQ_OPEN, FSREQ_READ, FSREQ_STAT}
<1>1. pc[c].op \in {FSREQ_OPEN, FSREQ_READ, FSREQ_STAT}
  BY Types, OpsAre DEF Calling, Local
<1>2. CASE pc[c].at = "send"
  BY <1>1, <1>2 DEF Inv, Place, Asked, Requests
<1>3. CASE Waiting(c)
  <2>1. Busy /\ whom = c /\ pc[c].at # "dead"
    BY <1>3 DEF Inv, Place, Waiting
  <2>2. Asked(c) \/ Replied(c)
    BY <2>1 DEF Inv, Serving, Busy
  <2> QED
    BY <1>1, <2>1, <2>2 DEF Asked, Replied, Requests
<1>4. CASE pc[c].at = "wait" /\ ~ipc[c].recving
  BY <1>1, <1>4 DEF Inv, Place, Replied
<1>5. CASE pc[c].at = "dead"
  <2>1. whom = c /\ srv.at = "recv"
    BY <1>5 DEF Calling
  <2>2. ~ipc[Fs].recving
    BY <2>1, Constants DEF Inv, Serving
  <2>3. Asked(c)
    BY <2>1, <2>2 DEF Inv, Serving
  <2> QED
    BY <1>1, <1>5, <2>3 DEF Asked, Requests
<1> QED
  BY <1>2, <1>3, <1>4, <1>5 DEF Calling, Waiting

\* A call is one AbstractFiles knows.
LEMMA CallType ==
  ASSUME Inv, NEW c \in Client, Calling(c)
  PROVE  /\ CallIs(c) \in Files!Call /\ CallIs(c) # None
         /\ Opening(c) => /\ CallIs(c).op = "open" /\ CallIs(c).slot = pc[c].slot
                          /\ CallIs(c).arg = pc[c].buf.file
         /\ ~Opening(c) =>
              /\ CallIs(c).op = IF pc[c].op = FSREQ_READ THEN "read" ELSE "stat"
              /\ CallIs(c).on = IF pc[c].at = "dead" THEN pc[c].buf.id % MAXOPEN
                                ELSE fd[c][pc[c].slot]
              /\ CallIs(c).arg = pc[c].n
<1>1. CallIs(c) = CallOf(c)
  BY DEF CallIs
<1>2. CASE Opening(c)
  <2>1. PICK f \in File \cup {None} : pc[c].buf.file = f
    <3>1. pc[c].buf \in OpenRequest
      BY <1>2, CallBuf
    <3> QED
      BY <3>1 DEF OpenRequest
  <2>2. PICK s \in Slot : s = pc[c].slot
    BY Types
  <2>3. PICK k : k = [op |-> "open", slot |-> s, arg |-> f]
    OBVIOUS
  <2>4. CallOf(c) = k
    BY <1>2, <2>1, <2>2, <2>3 DEF CallOf, Opening
  <2>5. k \in [op : {"open"}, slot : Slot, arg : File \cup {None}]
    BY <2>3
  <2> QED
    BY <1>1, <1>2, <2>1, <2>2, <2>3, <2>4, <2>5, NoneAssumption DEF Files!Call
<1>3. CASE ~Opening(c)
  <2>1. PICK on : on = IF pc[c].at = "dead" THEN pc[c].buf.id % MAXOPEN
                       ELSE fd[c][pc[c].slot]
    OBVIOUS
  <2>2. PICK op : op = IF pc[c].op = FSREQ_READ THEN "read" ELSE "stat"
    OBVIOUS
  <2>3. on \in Open
    <3>1. CASE pc[c].at = "dead"
      <4>1. pc[c].buf \in FileRequest
        BY <1>3, <3>1, CallBuf DEF Asked, Requests
      <4> QED
        BY <2>1, <3>1, <4>1, RequestEntry
    <3>2. CASE pc[c].at # "dead"
      BY <1>3, <2>1, <3>2, CallBuf, HeldOpen, Types DEF HasSlot
    <3> QED
      BY <3>1, <3>2
  <2>4. PICK k : k = [op |-> op, on |-> on, arg |-> pc[c].n]
    OBVIOUS
  <2>5. CallOf(c) = k
    BY <1>3, <2>1, <2>2, <2>4 DEF CallOf, Opening
  <2>6. k \in [op : {"read", "stat"}, on : Open, arg : Counts \cup {0}]
    <3>1. pc[c].n \in Counts \cup {0}
      BY Types DEF Local
    <3> QED
      BY <2>2, <2>3, <2>4, <3>1
  <2> QED
    BY <1>1, <1>3, <2>1, <2>2, <2>4, <2>5, <2>6, NoneAssumption DEF Files!Call
<1> QED
  BY <1>2, <1>3

LEMMA HeldSet ==
  /\ \A i : i \in Files!Held(fd) <=> i \in Open /\ Held(i)
  /\ \A i : i \in Files!Held(fd') <=> i \in Open /\ Held(i)'
BY DEF Files!Held, Held

LEMMA FileOf ==
  ASSUME NEW i \in Open
  PROVE  /\ AbsFile[i] = IF Held(i) THEN open[i].o_file ELSE None
         /\ AbsPos[i] = IF Held(i) THEN open[i].fd_offset ELSE 0
BY DEF AbsFile, AbsPos

\* A client whose call ends without the server having moved.
LEMMA Returns ==
  ASSUME Inv, NEW c \in Client, Calling(c), ~Calling(c)',
         Opening(c) \/ pc[c].buf \in Contents \/ pc[c].at = "dead",
         Moves => whom # c, \A d \in Client \ {c} : Kept(d), RestKept
  PROVE  Files!Return(c)
<1>1. CallIs(c)' = None /\ AnswerIs(c)' = None
  BY DEF CallIs, AnswerIs
<1>2. CallIs(c) # None /\ (Opening(c) => CallIs(c).op = "open")
  BY CallType
<1>3. pc[c].buf \in Contents => AnswerIs(c) # None
  BY NoneAssumption DEF AnswerIs
<1>4. pc[c].at = "dead" => c \in AbsGone
  BY DEF AbsGone
<1>5. AbsMoving # None => AbsMoving.client # c
  BY MovingIs
<1>6. /\ AbsCall' = [AbsCall EXCEPT ![c] = None]
      /\ AbsAnswer' = [AbsAnswer EXCEPT ![c] = None]
      /\ AbsCall[c] = CallIs(c) /\ AbsAnswer[c] = AnswerIs(c)
  BY <1>1, OthersKept
<1> QED
  BY <1>2, <1>3, <1>4, <1>5, <1>6 DEF Files!Return, RestKept

\* A step of one client, which its call and the server do not notice.
LEMMA ClientStutters ==
  ASSUME Inv, NEW c \in Client, Kept(c), UNCHANGED <<fd, open, srv>>, whom' = whom,
         \A d \in Client \ {c} : pc'[d] = pc[d], pc'[c].at = "dead" <=> pc[c].at = "dead"
  PROVE  UNCHANGED Files!vars
<1>1. \A d \in Client \ {c} : Kept(d)
  BY OtherKept DEF SameFds
<1>2. AbsFile' = AbsFile /\ AbsPos' = AbsPos
  BY FilesKept DEF Held
<1>3. AbsMoving' = AbsMoving
  BY MovingKept DEF Held
<1>4. AbsGone' = AbsGone
  <2>1. \A d \in Client : pc'[d].at = "dead" <=> pc[d].at = "dead"
    OBVIOUS
  <2> QED
    BY <2>1, GoneKept
<1> QED
  BY <1>1, <1>2, <1>3, <1>4, Stutters DEF RestKept

\* A step of one client that only its call notices.
LEMMA ClientRest ==
  ASSUME Inv, NEW c \in Client, UNCHANGED <<fd, open, srv>>, whom' = whom,
         \A d \in Client \ {c} : pc'[d] = pc[d],
         pc[c].at # "dead", pc'[c].at # "dead"
  PROVE  RestKept /\ \A d \in Client \ {c} : Kept(d)
<1>1. \A d \in Client \ {c} : Kept(d)
  BY OtherKept DEF SameFds
<1>2. AbsFile' = AbsFile /\ AbsPos' = AbsPos
  BY FilesKept DEF Held
<1>3. AbsMoving' = AbsMoving
  BY MovingKept DEF Held
<1>4. AbsGone' = AbsGone
  <2>1. \A d \in Client : pc'[d].at = "dead" <=> pc[d].at = "dead"
    OBVIOUS
  <2> QED
    BY <2>1, GoneKept
<1> QED
  BY <1>1, <1>2, <1>3, <1>4 DEF RestKept

\* A library call begins.
LEMMA FsipcRefines ==
  ASSUME Inv, Inv', NEW c \in Client, NEW op \in Ops, NEW s \in Slot,
         NEW n \in Counts \cup {0}, NEW buf \in Request, Fsipc(c, op, s, n, buf),
         op # FSREQ_OPEN => fd[c][s] # None
  PROVE  Files!Begin(c) \/ UNCHANGED Files!vars
<1>1. PICK l : l = [Idle EXCEPT !.at = "send", !.op = op, !.slot = s, !.n = n, !.buf = buf]
  OBVIOUS
<1>2. /\ l \in Local /\ l.at = "send" /\ l.op = op /\ l.slot = s /\ l.n = n /\ l.buf = buf
  BY <1>1, Places, Constants DEF Idle, At, Local
<1>3. /\ pc[c].at = "idle" /\ pc' = [pc EXCEPT ![c] = l]
      /\ UNCHANGED <<fd, open, srv>> /\ ipc' = ipc
  BY <1>1 DEF Fsipc
<1>4. pc'[c] = l /\ \A d \in Client \ {c} : pc'[d] = pc[d]
  BY <1>3 DEF Inv, TypeOK
<1>5. /\ whom' = whom /\ pc[c].at # "dead" /\ pc'[c].at # "dead" /\ ~Calling(c)
      /\ UNCHANGED <<fd, open, srv>>
  BY <1>2, <1>3, <1>4 DEF whom, Calling
<1>6. RestKept /\ \A d \in Client \ {c} : Kept(d)
  BY <1>4, <1>5, ClientRest
<1>7. CASE op = FSREQ_FLUSH
  <2>1. ~Calling(c)'
    BY <1>2, <1>4, <1>7 DEF Calling
  <2>2. Kept(c)
    BY <1>5, <2>1, NoCallKept
  <2> QED
    BY <1>6, <2>2, Stutters
<1>8. CASE op # FSREQ_FLUSH
  <2>1. Calling(c)'
    BY <1>2, <1>4, <1>8 DEF Calling
  <2>2. /\ CallIs(c)' \in Files!Call
        /\ CallIs(c)'.op # "open" => CallIs(c)'.on = fd[c][s] /\ fd[c][s] # None
    <3>1. op = FSREQ_OPEN => CallOf(c)'.op = "open"
      BY <1>2, <1>4 DEF CallOf
    <3>2. op # FSREQ_OPEN => CallOf(c)'.on = fd[c][s]
      BY <1>2, <1>3, <1>4 DEF CallOf
    <3>3. CallIs(c)' = CallOf(c)'
      BY <2>1 DEF CallIs
    <3>4. CallIs(c)' \in Files!Call
      <4>1. Inv' /\ Calling(c)'
        BY <2>1
      <4>2. pc'[c].op = op /\ pc'[c].slot = s /\ pc'[c].n = n /\ pc'[c].buf = buf
            /\ pc'[c].at = "send"
        BY <1>2, <1>4
      <4>3. CASE op = FSREQ_OPEN
        <5>1. pc'[c].buf \in OpenRequest
          <6>1. Asked(c)'
            BY <4>2 DEF Inv, Place
          <6> QED
            BY <4>2, <4>3, <6>1 DEF Asked, Requests, Opening
        <5>2. PICK f \in File \cup {None} : buf.file = f
          BY <4>2, <5>1 DEF OpenRequest
        <5>3. CallOf(c)' = [op |-> "open", slot |-> s, arg |-> f]
          BY <4>2, <4>3, <5>2 DEF CallOf
        <5> QED
          BY <3>3, <5>3 DEF Files!Call
      <4>4. CASE op # FSREQ_OPEN
        <5>1. PICK i \in Open : i = fd[c][s]
          BY <4>4, HeldOpen
        <5>2. PICK k : k = IF op = FSREQ_READ THEN "read" ELSE "stat"
          OBVIOUS
        <5>3. CallOf(c)' = [op |-> k, on |-> i, arg |-> n]
          BY <1>3, <4>2, <4>4, <5>1, <5>2 DEF CallOf
        <5> QED
          BY <3>3, <5>2, <5>3 DEF Files!Call
      <4> QED
        BY <4>3, <4>4
    <3> QED
      BY <3>1, <3>2, <3>3, <3>4
  <2>3. AnswerIs(c)' = None /\ AnswerIs(c) = None /\ CallIs(c) = None
    <3>1. buf \notin Contents
      <4>1. pc'[c].buf = buf /\ pc'[c].at = "send"
        BY <1>2, <1>4
      <4>2. Asked(c)'
        BY <4>1 DEF Inv, Place
      <4>3. buf \in OpenRequest \/ buf \in FileRequest
        BY <4>1, <4>2 DEF Asked, Requests
      <4> QED
        BY <4>3, Kinds
    <3> QED
      BY <1>2, <1>4, <1>5, <3>1 DEF AnswerIs, CallIs
  <2>4. c \notin AbsGone
    BY <1>5 DEF AbsGone
  <2>5. AbsAnswer' = AbsAnswer
    <3>1. \A d \in Client : AnswerIs(d)' = AnswerIs(d)
      BY <1>6, <2>3 DEF Kept
    <3> QED
      BY <3>1, AbsIs
  <2>6. /\ AbsCall[c] = None /\ AbsCall'[c] = CallIs(c)'
        /\ AbsCall' = [AbsCall EXCEPT ![c] = AbsCall'[c]]
    BY <1>6, <2>3, OthersKept
  <2> QED
    BY <1>6, <2>2, <2>4, <2>5, <2>6 DEF Files!Begin, RestKept
<1> QED
  BY <1>7, <1>8

LEMMA SendRefines ==
  ASSUME Inv, NEW c \in Client, Send(c)
  PROVE  UNCHANGED Files!vars
<1>1. PICK l : l = [pc[c] EXCEPT !.at = "sent"]
  OBVIOUS
<1>2. /\ pc[c].at = "send" /\ ipc[Fs].recving /\ ipc[Fs].from = None
      /\ ipc' = [ipc EXCEPT ![Fs] = Message(Fs, c, pc[c].op, TRUE)]
      /\ pc' = [pc EXCEPT ![c] = l] /\ UNCHANGED <<fd, open, srv>>
  BY <1>1 DEF Send, Receiving, Goto
<1>3. /\ l \in Local /\ l.at = "sent" /\ l.op = pc[c].op /\ l.slot = pc[c].slot
      /\ l.n = pc[c].n /\ l.buf = pc[c].buf
  <2>1. PICK k \in Local : k = pc[c]
    BY Types
  <2> QED
    BY <1>1, <2>1 DEF Local
<1>4. pc'[c] = l /\ \A d \in Client \ {c} : pc'[d] = pc[d]
  BY <1>2 DEF Inv, TypeOK
<1>5. srv.at = "recv" /\ whom = None /\ whom' = c
  <2>1. ipc'[Fs] = Message(Fs, c, pc[c].op, TRUE)
    BY <1>2, Constants DEF Inv, TypeOK
  <2>2. PICK f \in IpcFields : f = ipc[Fs]
    BY Types, Constants
  <2>3. Message(Fs, c, pc[c].op, TRUE).from = c
    BY <2>2 DEF Message, IpcFields
  <2> QED
    BY <1>2, <2>1, <2>3 DEF Inv, Serving, whom
<1>6. Kept(c)
  <2>1. SameCall(c) /\ SameFds(c) /\ pc[c].slot \in Slot
    BY <1>2, <1>3, <1>4, Types DEF SameCall, SameFds
  <2>2. Calling(c)' <=> Calling(c)
    BY <1>2, <1>3, <1>4 DEF Calling
  <2> QED
    BY <1>2, <1>3, <1>4, <2>1, <2>2, CallKept
<1>7. ASSUME NEW d \in Client \ {c}
      PROVE  Kept(d)
  <2>1. pc'[d] = pc[d] /\ SameFds(d)
    BY <1>2, <1>4 DEF SameFds
  <2>2. whom # d /\ whom' # d
    BY <1>5, Constants
  <2> QED
    BY <2>1, <2>2, OtherKept
<1>8. RestKept
  <2>1. AbsFile' = AbsFile /\ AbsPos' = AbsPos
    BY <1>2, FilesKept DEF Held
  <2>2. AbsMoving' = AbsMoving
    BY <1>2, <1>5, NotMoving
  <2>3. \A d \in Client : pc'[d].at = "dead" <=> pc[d].at = "dead"
    BY <1>2, <1>3, <1>4
  <2> QED
    BY <1>2, <2>1, <2>2, <2>3, GoneKept DEF RestKept
<1> QED
  BY <1>6, <1>7, <1>8, Stutters

LEMMA RecvRefines ==
  ASSUME Inv, NEW c \in Client, Recv(c)
  PROVE  UNCHANGED Files!vars
<1>1. PICK l : l = [pc[c] EXCEPT !.at = "wait"]
  OBVIOUS
<1>2. /\ pc[c].at = "sent" /\ pc' = [pc EXCEPT ![c] = l] /\ UNCHANGED <<fd, open, srv>>
      /\ ipc'[Fs] = ipc[Fs]
  BY <1>1, Constants DEF Recv, Goto, Inv, TypeOK
<1>3. /\ l \in Local /\ l.at = "wait" /\ l.op = pc[c].op /\ l.slot = pc[c].slot
      /\ l.n = pc[c].n /\ l.buf = pc[c].buf
  <2>1. PICK k \in Local : k = pc[c]
    BY Types
  <2> QED
    BY <1>1, <2>1 DEF Local
<1>4. pc'[c] = l /\ \A d \in Client \ {c} : pc'[d] = pc[d]
  BY <1>2 DEF Inv, TypeOK
<1>5. SameCall(c) /\ SameFds(c) /\ pc[c].slot \in Slot
  BY <1>2, <1>3, <1>4, Types DEF SameCall, SameFds
<1>6. Calling(c)' <=> Calling(c)
  BY <1>2, <1>3, <1>4 DEF Calling
<1>7. (pc'[c].at = "dead") <=> (pc[c].at = "dead")
  BY <1>2, <1>3, <1>4
<1>8. Kept(c)
  BY <1>5, <1>6, <1>7, CallKept
<1>9. whom' = whom
  BY <1>2 DEF whom
<1> QED
  BY <1>2, <1>4, <1>7, <1>8, <1>9, ClientStutters

LEMMA ReturnRefines ==
  ASSUME Inv, NEW c \in Client, Return(c)
  PROVE  Files!Return(c) \/ UNCHANGED Files!vars
<1>1. PICK l : l = IF pc[c].op = FSREQ_FLUSH THEN [pc[c] EXCEPT !.at = "close"] ELSE Idle
  OBVIOUS
<1>2. /\ pc[c].at = "wait" /\ ~ipc[c].recving /\ pc' = [pc EXCEPT ![c] = l]
      /\ UNCHANGED <<fd, open, srv>> /\ ipc'[Fs] = ipc[Fs]
  BY <1>1, Constants DEF Return, Inv, TypeOK
<1>3. l.at \in {"idle", "close"}
  BY <1>1, Types, PlaceIs, AtIs
<1>4. pc'[c] = l /\ \A d \in Client \ {c} : pc'[d] = pc[d]
  BY <1>2 DEF Inv, TypeOK
<1>5. whom' = whom /\ ~Calling(c)' /\ pc[c].at # "dead" /\ pc'[c].at # "dead"
  BY <1>2, <1>3, <1>4 DEF whom, Calling
<1>6. RestKept /\ \A d \in Client \ {c} : Kept(d)
  BY <1>2, <1>4, <1>5, ClientRest
<1>7. CASE ~Calling(c)
  <2>1. Kept(c)
    BY <1>5, <1>7, NoCallKept
  <2> QED
    BY <1>6, <2>1, Stutters
<1>8. CASE Calling(c)
  <2>1. Opening(c) \/ pc[c].buf \in Contents
    BY <1>2, <1>8 DEF Inv, Place, Replied, Calling
  <2>2. Moves => whom # c
    BY <1>2 DEF Moves, Inv, Serving, Busy, Waiting
  <2> QED
    BY <1>5, <1>6, <1>8, <2>1, <2>2, Returns
<1> QED
  BY <1>7, <1>8

\* Who holds the open files becomes fd'.
LEMMA Becomes ==
  ASSUME Inv, UNCHANGED <<open, srv>>, whom' = whom,
         \A i \in Open : Held(i)' => Held(i) /\ open'[i] = open[i]
  PROVE  Files!Become(fd')
<1>1. AbsFile' = [i \in Open |-> IF i \in Files!Held(fd') THEN AbsFile[i] ELSE None]
  <2>1. ASSUME NEW i \in Open
        PROVE  AbsFile'[i] = IF i \in Files!Held(fd') THEN AbsFile[i] ELSE None
    <3>1. AbsFile'[i] = IF Held(i)' THEN open'[i].o_file ELSE None
      BY DEF AbsFile
    <3> QED
      BY <3>1, FileOf, HeldSet
  <2>2. AbsFile' = [i \in Open |-> AbsFile'[i]]
    BY DEF AbsFile
  <2> QED
    BY <2>1, <2>2
<1>2. AbsPos' = [i \in Open |-> IF i \in Files!Held(fd') THEN AbsPos[i] ELSE 0]
  <2>1. ASSUME NEW i \in Open
        PROVE  AbsPos'[i] = IF i \in Files!Held(fd') THEN AbsPos[i] ELSE 0
    <3>1. AbsPos'[i] = IF Held(i)' THEN open'[i].fd_offset ELSE 0
      BY DEF AbsPos
    <3> QED
      BY <3>1, FileOf, HeldSet
  <2>2. AbsPos' = [i \in Open |-> AbsPos'[i]]
    BY DEF AbsPos
  <2> QED
    BY <2>1, <2>2
<1>3. AbsMoving' = IF AbsMoving # None /\ AbsMoving.open \notin Files!Held(fd')
                     THEN None ELSE AbsMoving
  <2>1. CASE Moves
    <3>1. AbsMoving # None /\ AbsMoving.open = srv.i /\ srv.i \in Open
      BY <2>1, MovingIs
    <3>2. AbsMoving' = IF Held(srv.i)' THEN AbsMoving ELSE None
      BY <2>1 DEF AbsMoving, Moves
    <3>3. srv.i \in Files!Held(fd') <=> Held(srv.i)'
      <4>1. PICK i : i = srv.i
        OBVIOUS
      <4>2. Held(srv.i)' <=> Held(i)'
        BY <4>1 DEF Held
      <4> QED
        BY <3>1, <4>1, <4>2, HeldSet
    <3> QED
      BY <3>1, <3>2, <3>3
  <2>2. CASE ~Moves
    <3>1. AbsMoving = None
      BY <2>2, MovingIs
    <3>2. AbsMoving' = None
      <4>1. ASSUME srv.at = "advance"
            PROVE  ~Held(srv.i)'
        <5>1. PICK i \in Open : i = srv.i
          BY <4>1 DEF Inv, Serving
        <5>2. ~Held(i)'
          BY <2>2, <4>1, <5>1 DEF Moves
        <5> QED
          BY <5>1, <5>2 DEF Held
      <4> QED
        BY <4>1 DEF AbsMoving
    <3> QED
      BY <3>1, <3>2
  <2> QED
    BY <2>1, <2>2
<1> QED
  BY <1>1, <1>2, <1>3 DEF Files!Become

LEMMA UnmapRefines ==
  ASSUME Inv, NEW c \in Client, Unmap(c)
  PROVE  \E s \in Slot : Files!Close(c, s)
<1>1. PICK s \in Slot : s = pc[c].slot
  BY Types
<1>2. /\ pc[c].at = "close" /\ fd' = [fd EXCEPT ![c][s] = None]
      /\ pc' = [pc EXCEPT ![c] = Idle] /\ UNCHANGED <<open, ipc, srv>>
  BY <1>1 DEF Unmap
<1>3. pc'[c] = Idle /\ \A d \in Client \ {c} : pc'[d] = pc[d]
  BY <1>2 DEF Inv, TypeOK
<1>4. /\ \A d \in Client \ {c} : SameFds(d)
      /\ \A i \in Open : Held(i)' => Held(i)
  <2>1. Maps(c, s, None) /\ None \notin Open
    BY <1>2, Constants DEF Maps
  <2> QED
    BY <2>1, SetFd
<1>5. fd[c][s] # None
  BY <1>1, <1>2 DEF Inv, Place, HasSlot
<1>6. whom' = whom
  BY <1>2 DEF whom
<1>7. \A d \in Client \ {c} : Kept(d)
  BY <1>2, <1>3, <1>4, <1>6, OtherKept
<1>8. ~Calling(c) /\ ~Calling(c)'
  BY <1>2, <1>3, AtIs DEF Calling
<1>9. AbsCall' = AbsCall /\ AbsAnswer' = AbsAnswer /\ AbsCall[c] = None
  <2>1. Kept(c)
    BY <1>8, NoCallKept
  <2> QED
    BY <1>7, <1>8, <2>1, AllKept, AbsIs DEF CallIs
<1>10. AbsGone' = AbsGone
  BY <1>2, <1>3, AtIs, GoneKept
<1>11. Files!Become(fd')
  BY <1>2, <1>4, <1>6, Becomes
<1> QED
  BY <1>2, <1>5, <1>9, <1>10, <1>11 DEF Files!Close

LEMMA SeekRefines ==
  ASSUME Inv, NEW c \in Client, NEW s \in Slot, NEW where \in Seeks, Seek(c, s, where)
  PROVE  Files!Seek(c, s, where)
<1>1. PICK i : i = fd[c][s]
  OBVIOUS
<1>2. PICK o : o = [open[i] EXCEPT !.fd_offset = where]
  OBVIOUS
<1>3. /\ pc[c].at = "idle" /\ i # None /\ open' = [open EXCEPT ![i] = o]
      /\ UNCHANGED <<fd, ipc, pc, srv>>
  BY <1>1, <1>2 DEF Seek
<1>4. i \in Open /\ Held(i)
  BY <1>1, <1>3, HeldOpen
<1>5. o.o_file = open[i].o_file /\ o.fd_offset = where
  <2>1. open[i] \in OpenFile
    BY <1>4, Types
  <2> QED
    BY <1>2, <2>1 DEF OpenFile
<1>6. open'[i] = o /\ \A j \in Open \ {i} : open'[j] = open[j]
  BY <1>3, <1>4 DEF Inv, TypeOK
<1>7. \A j \in Open : Held(j)' <=> Held(j)
  BY <1>3 DEF Held
<1>8. AbsFile' = AbsFile
  BY <1>5, <1>6, <1>7 DEF AbsFile
<1>9. AbsPos' = [AbsPos EXCEPT ![i] = where]
  <2>1. \A j \in Open : AbsPos'[j] = IF j = i THEN where ELSE AbsPos[j]
    BY <1>4, <1>5, <1>6, <1>7 DEF AbsPos
  <2>2. AbsPos' = [j \in Open |-> AbsPos'[j]] /\ AbsPos = [j \in Open |-> AbsPos[j]]
    BY DEF AbsPos
  <2> QED
    BY <2>1, <2>2
<1>10. whom' = whom
  BY <1>3 DEF whom
<1>11. AbsMoving' = AbsMoving
  BY <1>3, <1>10, MovingKept DEF Held
<1>12. \A d \in Client : Kept(d)
  BY <1>3, <1>10, OtherKept DEF SameFds
<1>13. AbsCall' = AbsCall /\ AbsAnswer' = AbsAnswer /\ AbsCall[c] = None
  BY <1>3, <1>12, AllKept, AbsIs DEF CallIs, Calling
<1>14. AbsGone' = AbsGone
  BY <1>3 DEF AbsGone
<1> QED
  BY <1>1, <1>3, <1>8, <1>9, <1>11, <1>13, <1>14 DEF Files!Seek

\* A descriptor of c is mapped at the place t of d.
LEMMA Shares ==
  ASSUME Inv, NEW c \in Client, NEW s \in Slot, NEW d \in Client, NEW t \in Slot,
         fd[c][s] # None, fd[d][t] = None, fd' = [fd EXCEPT ![d][t] = fd[c][s]],
         \A x \in Client \ {d} : SameFds(x), \A i \in Open : Held(i)' => Held(i),
         UNCHANGED <<open, ipc, srv>>, \A x \in Client \ {c} : pc'[x] = pc[x],
         ~Calling(c), ~Calling(c)', ~Calling(d), pc'[c].at # "dead", pc[c].at # "dead",
         pc[d].at # "dead"
  PROVE  Files!Share(c, s, d, t)
<1>1. whom' = whom
  BY DEF whom
<1>2. \A x \in Client \ {c, d} : Kept(x)
  BY <1>1, OtherKept
<1>3. Kept(c)
  BY NoCallKept
<1>4. Kept(d)
  <2>1. d # c => ~Calling(d)'
    BY <1>1 DEF Calling
  <2> QED
    BY <1>3, <2>1, NoCallKept
<1>5. /\ AbsCall' = AbsCall /\ AbsAnswer' = AbsAnswer /\ AbsCall[c] = None
      /\ AbsCall[d] = None
  BY <1>2, <1>3, <1>4, AllKept, AbsIs DEF CallIs
<1>6. AbsGone' = AbsGone /\ d \notin AbsGone
  BY GoneKept DEF AbsGone
<1>7. Files!Become(fd')
  BY <1>1, Becomes
<1> QED
  BY <1>5, <1>6, <1>7 DEF Files!Share

LEMMA DupRefines ==
  ASSUME Inv, NEW c \in Client, NEW s \in Slot, NEW t \in Slot, Dup(c, s, t)
  PROVE  Files!Share(c, s, c, t)
<1>1. PICK i : i = fd[c][s]
  OBVIOUS
<1>2. /\ pc[c].at = "idle" /\ i # None /\ fd[c][t] = None
      /\ fd' = [fd EXCEPT ![c][t] = i] /\ UNCHANGED <<open, ipc, pc, srv>>
  BY <1>1 DEF Dup
<1>3. i \in Open /\ Held(i)
  BY <1>1, <1>2, HeldOpen
<1>4. /\ \A d \in Client \ {c} : SameFds(d)
      /\ \A j \in Open : Held(j)' => Held(j)
  <2>1. Maps(c, t, i)
    BY <1>2 DEF Maps
  <2> QED
    BY <1>3, <2>1, SetFd
<1>5. ~Calling(c) /\ ~Calling(c)' /\ pc[c].at # "dead" /\ pc'[c].at # "dead"
  BY <1>2 DEF Calling
<1> QED
  BY <1>1, <1>2, <1>4, <1>5, Shares

LEMMA DupPageRefines ==
  ASSUME Inv, NEW c \in Client, DupPage(c)
  PROVE  \E d \in Client, s \in Slot : Files!Share(c, s, d, s)
<1>1. PICK d \in Client : d = pc[c].child
  BY Types
<1>2. PICK s \in pc[c].todo : /\ fd' = [fd EXCEPT ![pc[c].child][s] = fd[c][s]]
                              /\ pc' = [pc EXCEPT ![c].todo = @ \ {s}]
  BY DEF DupPage
<1>3. PICK i : i = fd[c][s]
  OBVIOUS
<1>4. PICK k : k = [pc[c] EXCEPT !.todo = @ \ {s}]
  OBVIOUS
<1>5. /\ pc[c].at = "fork" /\ fd' = [fd EXCEPT ![d][s] = i]
      /\ pc' = [pc EXCEPT ![c] = k] /\ UNCHANGED <<open, ipc, srv>>
  BY <1>1, <1>2, <1>3, <1>4 DEF DupPage
<1>6. pc[d].at = "new" /\ i # None /\ fd[d][s] = None /\ s \in Slot
  BY <1>1, <1>3, <1>5, Types DEF Inv, Place
<1>7. i \in Open /\ Held(i)
  BY <1>3, <1>6, HeldOpen
<1>8. /\ \A x \in Client \ {d} : SameFds(x)
      /\ \A j \in Open : Held(j)' => Held(j)
  <2>1. s \in Slot /\ Maps(d, s, i)
    BY <1>5, <1>6 DEF Maps
  <2> QED
    BY <1>7, <2>1, SetFd
<1>9. k.at = "fork"
  BY <1>4, <1>5, Types DEF Local
<1>10. pc'[c] = k /\ \A x \in Client \ {c} : pc'[x] = pc[x]
  BY <1>5 DEF Inv, TypeOK
<1>11. /\ ~Calling(c) /\ ~Calling(c)' /\ pc[c].at # "dead" /\ pc'[c].at # "dead"
       /\ ~Calling(d) /\ pc[d].at # "dead"
  BY <1>5, <1>6, <1>9, <1>10 DEF Calling
<1>12. Files!Share(c, s, d, s)
  BY <1>3, <1>5, <1>6, <1>8, <1>10, <1>11, Shares
<1> QED
  BY <1>6, <1>12

\* Fork and Start change two clients that have no call.
LEMMA PairStutters ==
  ASSUME Inv, NEW c \in Client, NEW d \in Client, UNCHANGED <<fd, open, ipc, srv>>,
         \A x \in Client \ {c, d} : pc'[x] = pc[x],
         pc[c].at \in {"none", "new", "idle", "fork"}, pc[d].at \in {"none", "new", "idle", "fork"},
         pc'[c].at \in {"none", "new", "idle", "fork"}, pc'[d].at \in {"none", "new", "idle", "fork"}
  PROVE  UNCHANGED Files!vars
<1>1. whom' = whom
  BY DEF whom
<1>2. \A x \in Client \ {c, d} : Kept(x)
  BY <1>1, OtherKept DEF SameFds
<1>3. Kept(c) /\ Kept(d)
  <2>1. ~Calling(c) /\ ~Calling(c)' /\ ~Calling(d) /\ ~Calling(d)'
    BY DEF Calling
  <2> QED
    BY <2>1, NoCallKept
<1>4. AbsFile' = AbsFile /\ AbsPos' = AbsPos
  BY FilesKept DEF Held
<1>5. AbsMoving' = AbsMoving
  BY <1>1, MovingKept DEF Held
<1>6. \A x \in Client : pc'[x].at = "dead" <=> pc[x].at = "dead"
  OBVIOUS
<1> QED
  BY <1>2, <1>3, <1>4, <1>5, <1>6, GoneKept, Stutters DEF RestKept

LEMMA ForkRefines ==
  ASSUME Inv, NEW c \in Client, NEW d \in Client, Fork(c, d)
  PROVE  UNCHANGED Files!vars
<1>1. PICK k : k = [Idle EXCEPT !.at = "fork", !.child = d,
                                !.todo = {s \in Slot : fd[c][s] # None}]
  OBVIOUS
<1>2. PICK l : l = At("new")
  OBVIOUS
<1>3. /\ pc[c].at = "idle" /\ pc[d].at = "none"
      /\ pc' = [pc EXCEPT ![d] = l, ![c] = k] /\ UNCHANGED <<fd, open, ipc, srv>>
  BY <1>1, <1>2 DEF Fork
<1>4. l.at = "new" /\ k.at = "fork" /\ c # d
  BY <1>1, <1>2, <1>3, AtIs, Places DEF Local
<1>5. pc'[c] = k /\ pc'[d] = l /\ \A x \in Client \ {c, d} : pc'[x] = pc[x]
  BY <1>3, <1>4 DEF Inv, TypeOK
<1> QED
  BY <1>3, <1>4, <1>5, PairStutters

LEMMA StartRefines ==
  ASSUME Inv, NEW c \in Client, Start(c)
  PROVE  UNCHANGED Files!vars
<1>1. PICK d \in Client : d = pc[c].child
  BY Types
<1>2. /\ pc[c].at = "fork" /\ pc' = [pc EXCEPT ![c] = Idle, ![d] = Idle]
      /\ UNCHANGED <<fd, open, ipc, srv>>
  BY <1>1 DEF Start
<1>3. pc[d].at = "new"
  BY <1>1, <1>2 DEF Inv, Place
<1>4. pc'[c] = Idle /\ pc'[d] = Idle /\ \A x \in Client \ {c, d} : pc'[x] = pc[x]
  BY <1>2, <1>3 DEF Inv, TypeOK
<1>5. Idle.at = "idle"
  BY AtIs
<1> QED
  BY <1>2, <1>3, <1>4, <1>5, PairStutters

LEMMA DestroyRefines ==
  ASSUME Inv, NEW c \in Client, Destroy(c), pc[c].at # "dead"
  PROVE  Files!Exit(c)
<1>1. PICK l : l = IF whom = c THEN [pc[c] EXCEPT !.at = "dead"] ELSE At("dead")
  OBVIOUS
<1>2. /\ fd' = [fd EXCEPT ![c] = [s \in Slot |-> None]]
      /\ pc' = [pc EXCEPT ![c] = l] /\ ipc'[Fs] = ipc[Fs] /\ UNCHANGED <<open, srv>>
  BY <1>1, Constants DEF Destroy, whom, Inv, TypeOK
<1>3. whom = c => /\ l.at = "dead" /\ l.op = pc[c].op /\ l.slot = pc[c].slot
                  /\ l.n = pc[c].n /\ l.buf = pc[c].buf
  <2>1. PICK k \in Local : k = pc[c]
    BY Types
  <2> QED
    BY <1>1, <2>1 DEF Local
<1>4. l.at = "dead"
  BY <1>1, <1>3, AtIs
<1>5. /\ pc'[c] = l
      /\ \A d \in Client \ {c} : pc'[d] = pc[d] /\ SameFds(d)
      /\ \A s \in Slot : fd'[c][s] = None
  BY <1>2 DEF Inv, TypeOK, SameFds
<1>6. \A i \in Open : open'[i] = open[i] /\ (Held(i)' => Held(i))
  <2>1. ASSUME NEW i \in Open, NEW d \in Client, NEW s \in Slot, fd'[d][s] = i
        PROVE  fd[d][s] = i
    BY <1>5, <2>1, Constants DEF SameFds
  <2> QED
    BY <1>2, <2>1 DEF Held
<1>7. whom' = whom
  BY <1>2 DEF whom
<1>8. \A d \in Client \ {c} : Kept(d)
  BY <1>2, <1>5, <1>7, OtherKept
<1>9. Files!Become(fd')
  BY <1>2, <1>6, <1>7, Becomes
<1>10. c \notin AbsGone /\ AbsGone' = AbsGone \cup {c}
  <2>1. \A d \in Client : pc'[d].at = "dead" <=> pc[d].at = "dead" \/ d = c
    BY <1>4, <1>5
  <2> QED
    BY <2>1 DEF AbsGone
<1>11. /\ AbsCall' = [AbsCall EXCEPT ![c] = CallIs(c)']
       /\ AbsAnswer' = [AbsAnswer EXCEPT ![c] = AnswerIs(c)']
       /\ AbsCall[c] = CallIs(c)
  BY <1>8, OthersKept
<1>12. CASE ~Calling(c)'
  <2>1. CallIs(c)' = None /\ AnswerIs(c)' = None
    BY <1>12 DEF CallIs, AnswerIs
  <2> QED
    BY <1>2, <1>9, <1>10, <1>11, <2>1 DEF Files!Exit
<1>13. CASE Calling(c)'
  <2>1. whom = c /\ srv.at = "recv" /\ pc'[c].op # FSREQ_FLUSH
    BY <1>2, <1>4, <1>5, <1>7, <1>13 DEF Calling
  <2>2. Busy /\ Asked(c) /\ Waiting(c)
    BY <2>1, Constants DEF Inv, Serving, Busy
  <2>3. Calling(c)
    BY <1>3, <1>5, <2>1, <2>2 DEF Calling, Waiting
  <2>4. CallOf(c)' = CallOf(c)
    <3>1. /\ pc'[c].at = "dead" /\ pc'[c].op = pc[c].op /\ pc'[c].slot = pc[c].slot
          /\ pc'[c].n = pc[c].n /\ pc'[c].buf = pc[c].buf
      BY <1>3, <1>4, <1>5, <2>1
    <3>2. CASE Opening(c)
      BY <3>1, <3>2 DEF CallOf, Opening
    <3>3. CASE ~Opening(c)
      <4>1. Entry = fd[c][pc[c].slot] /\ Entry = pc[c].buf.id % MAXOPEN
        BY <2>1, <2>2, <3>3, EntryIs DEF Entry, Req
      <4> QED
        BY <3>1, <3>3, <4>1 DEF CallOf, Opening
    <3> QED
      BY <3>2, <3>3
  <2>5. CallIs(c)' = CallIs(c)
    BY <1>13, <2>3, <2>4 DEF CallIs
  <2>6. AnswerIs(c)' = None
    <3>1. pc[c].buf \notin Contents
      BY <2>2, Kinds DEF Asked, Requests
    <3> QED
      BY <1>3, <1>5, <2>1, <3>1 DEF AnswerIs
  <2>7. AbsCall' = AbsCall
    BY <1>11, <2>5, AbsIs
  <2> QED
    BY <1>2, <1>9, <1>10, <1>11, <2>6, <2>7 DEF Files!Exit
<1> QED
  BY <1>12, <1>13

-----------------------------------------------------------------------------
(* What AbstractFiles sees of the server.                                  *)

\* Nothing of a step that writes no answer.
LEMMA ServerRest ==
  ASSUME Inv, UNCHANGED <<fd, pc>>, srv.at # "advance", srv'.at # "advance",
         \A i \in Open : Held(i) => open'[i] = open[i]
  PROVE  /\ RestKept
         /\ \A d \in Client : ~(srv.at = "recv" /\ whom = d) /\ ~(srv'.at = "recv" /\ whom' = d)
                                 => Kept(d)
<1>1. AbsFile' = AbsFile /\ AbsPos' = AbsPos
  BY FilesKept DEF Held
<1>2. AbsMoving' = AbsMoving
  BY NotMoving
<1>3. \A d \in Client : ~(srv.at = "recv" /\ whom = d) /\ ~(srv'.at = "recv" /\ whom' = d)
                           => Kept(d)
  BY OtherKept DEF SameFds
<1>4. AbsGone' = AbsGone
  BY DEF AbsGone
<1> QED
  BY <1>1, <1>2, <1>3, <1>4 DEF RestKept

\* The server turns to another place that has nothing to do with a request.
LEMMA ServerStutters ==
  ASSUME Inv, UNCHANGED <<fd, pc>>, srv.at \notin {"recv", "advance"},
         srv'.at # "advance", srv'.at = "recv" => whom' = None,
         \A i \in Open : Held(i) => open'[i] = open[i]
  PROVE  UNCHANGED Files!vars
<1>1. RestKept
  BY ServerRest
<1>2. \A d \in Client : Kept(d)
  BY Constants, ServerRest
<1> QED
  BY <1>1, <1>2, Stutters

\* The server is done with the request of c, which has no answer.
LEMMA Dropped ==
  ASSUME Inv, NEW c \in Client, c = whom, srv.at = "recv", ~ipc[Fs].recving,
         UNCHANGED <<fd, open, ipc, pc>>, srv'.at \notin {"recv", "advance"}
  PROVE  /\ pc[c].at = "dead" /\ pc[c].op # FSREQ_FLUSH => Files!Return(c)
         /\ pc[c].at # "dead" \/ pc[c].op = FSREQ_FLUSH => UNCHANGED Files!vars
<1>1. RestKept /\ \A d \in Client \ {c} : Kept(d)
  BY ServerRest
<1>2. CASE pc[c].at = "dead" /\ pc[c].op # FSREQ_FLUSH
  <2>1. Calling(c) /\ ~Calling(c)'
    BY <1>2 DEF Calling
  <2>2. ~Moves
    BY DEF Moves
  <2> QED
    BY <1>1, <1>2, <2>1, <2>2, Returns
<1>3. CASE pc[c].at # "dead" \/ pc[c].op = FSREQ_FLUSH
  <2>1. Calling(c)' <=> Calling(c)
    BY <1>3 DEF Calling
  <2>2. SameCall(c) /\ SameFds(c) /\ pc[c].slot \in Slot /\ pc'[c].at = pc[c].at
    BY Types DEF SameCall, SameFds
  <2>3. Kept(c)
    BY <2>1, <2>2, CallKept
  <2> QED
    BY <1>1, <1>3, <2>3, Stutters
<1> QED
  BY <1>2, <1>3

LEMMA ServerRecvRefines ==
  ASSUME Inv, ServerRecv
  PROVE  UNCHANGED Files!vars
<1>1. /\ srv.at = "ready" /\ ipc' = [ipc EXCEPT ![Fs] = Recving(Fs, Fs)]
      /\ srv' = ServerAt("recv", 0, FALSE, 0) /\ UNCHANGED <<fd, open, pc>>
  BY DEF ServerRecv
<1>2. whom' = None
  <2>1. ipc'[Fs] = Recving(Fs, Fs)
    BY <1>1, Constants DEF Inv, TypeOK
  <2>2. PICK f \in IpcFields : f = ipc[Fs]
    BY Types, Constants
  <2>3. Recving(Fs, Fs).from = None
    BY <2>2 DEF Recving, IpcFields
  <2> QED
    BY <2>1, <2>3 DEF whom
<1>3. srv'.at = "recv"
  BY <1>1 DEF ServerAt
<1> QED
  BY <1>1, <1>2, <1>3, ServerStutters

LEMMA ServeOpenRefines ==
  ASSUME Inv, ServeOpen
  PROVE  (\E c \in Client : Files!Return(c)) \/ UNCHANGED Files!vars
<1>1. /\ Requested(FSREQ_OPEN) /\ srv' = ServerAt("scan", 0, FALSE, 0)
      /\ UNCHANGED <<fd, open, ipc, pc>>
  BY DEF ServeOpen
<1>2. PICK c \in Client : c = whom
  BY <1>1, RequestedIs
<1>3. srv.at = "recv" /\ ~ipc[Fs].recving /\ srv'.at = "scan"
  BY <1>1 DEF Requested, ServerAt
<1> QED
  BY <1>1, <1>2, <1>3, Dropped

\* The server is done with the request and turns to its reply.
LEMMA DroppedReply ==
  ASSUME Inv, NEW op, Requested(op), NEW r, Reply(r), UNCHANGED <<fd, open, ipc, pc>>
  PROVE  (\E c \in Client : Files!Return(c)) \/ UNCHANGED Files!vars
<1>1. PICK c \in Client : c = whom
  BY RequestedIs
<1>2. srv.at = "recv" /\ ~ipc[Fs].recving /\ srv'.at = "reply"
  BY DEF Requested, Reply, ServerAt
<1> QED
  BY <1>1, <1>2, Dropped

LEMMA ScanRefines ==
  ASSUME Inv, ScanUsed \/ ScanFails
  PROVE  UNCHANGED Files!vars
<1>1. /\ srv.at = "scan" /\ UNCHANGED <<fd, open, ipc, pc>>
      /\ (srv' = [srv EXCEPT !.i = @ + 1] \/ Reply(-1))
  BY DEF ScanUsed, ScanFails
<1>2. srv'.at \in {"scan", "reply"}
  <2>1. CASE srv' = [srv EXCEPT !.i = @ + 1]
    BY <1>1, <2>1, Types DEF Server
  <2>2. CASE Reply(-1)
    BY <2>2 DEF Reply, ServerAt
  <2> QED
    BY <1>1, <2>1, <2>2
<1> QED
  BY <1>1, <1>2, ServerStutters

LEMMA ScanFreeRefines ==
  ASSUME Inv, ScanFree
  PROVE  UNCHANGED Files!vars
<1>1. PICK i : i = srv.i
  OBVIOUS
<1>2. PICK id : id = (open[i].o_fileid + MAXOPEN) % IdSpace
  OBVIOUS
<1>3. PICK f : f = Req.file
  OBVIOUS
<1>4. /\ srv.at = "scan" /\ i < MAXOPEN /\ Free(i) /\ UNCHANGED <<fd, ipc, pc>>
      /\ (\E o : open' = [open EXCEPT ![i] = o])
      /\ Reply(-1) \/ srv' = ServerAt("reply", i, TRUE, 0)
  <2>1. /\ srv.at = "scan" /\ i < MAXOPEN /\ Free(i) /\ UNCHANGED <<fd, ipc, pc>>
        /\ IF 2 * id >= IdSpace \/ f = None
             THEN /\ open' = [open EXCEPT ![i] = [mapped |-> TRUE, o_fileid |-> id,
                                 o_file |-> @.o_file, id |-> 0, fd_offset |-> 0]]
                  /\ Reply(-1)
             ELSE /\ open' = [open EXCEPT ![i] = [mapped |-> TRUE, o_fileid |-> id,
                                 o_file |-> f, id |-> id, fd_offset |-> 0]]
                  /\ srv' = ServerAt("reply", i, TRUE, 0)
    BY <1>1, <1>2, <1>3 DEF ScanFree
  <2> QED
    BY <2>1
<1>5. i \in Open
  <2>1. srv.i \in 0 .. MAXOPEN
    BY Types DEF Server
  <2> QED
    BY <1>1, <1>4, <2>1, Constants DEF Open
<1>6. ~Held(i)
  BY <1>4, <1>5, PageRefs DEF Inv, Table, InUse
<1>7. \A j \in Open : Held(j) => open'[j] = open[j]
  BY <1>4, <1>5, <1>6 DEF Inv, TypeOK
<1>8. srv'.at = "reply"
  BY <1>4 DEF Reply, ServerAt
<1> QED
  BY <1>4, <1>7, <1>8, ServerStutters

LEMMA PanicRefines ==
  ASSUME Inv, Panic
  PROVE  UNCHANGED Files!vars
<1>1. /\ srv.at = "reply" /\ srv' = [srv EXCEPT !.at = "panic"]
      /\ UNCHANGED <<fd, open, ipc, pc>>
  BY DEF Panic
<1>2. srv'.at = "panic"
  BY <1>1, Types DEF Server
<1> QED
  BY <1>1, <1>2, ServerStutters

\* The call of whom, and its entry, while the server has its request.
LEMMA ServedCall ==
  ASSUME Inv, NEW c \in Client, c = whom, srv.at = "recv", Asked(c),
         Waiting(c) \/ pc[c].at = "dead", pc[c].op \in {FSREQ_READ, FSREQ_STAT},
         ~LookupFails
  PROVE  /\ Calling(c) /\ AbsCall[c] = CallIs(c) /\ CallIs(c) # None
         /\ CallIs(c).op = IF pc[c].op = FSREQ_READ THEN "read" ELSE "stat"
         /\ CallIs(c).on = Entry /\ CallIs(c).arg = Req.n
         /\ AbsAnswer[c] = None /\ Entry \in Open /\ Held(Entry)
         /\ Req.n \in Counts \cup {0}
<1>1. ~Opening(c)
  BY OpsAre DEF Opening
<1>2. Req \in FileRequest /\ Entry \in Open /\ Held(Entry)
  BY <1>1, EntryIs
<1>3. Calling(c)
  BY OpsAre DEF Calling, Waiting
<1>4. CallIs(c).on = Entry
  <2>1. Entry = pc[c].buf.id % MAXOPEN
    BY DEF Entry, Req
  <2>2. pc[c].at # "dead" => Entry = fd[c][pc[c].slot]
    BY <1>1, EntryIs
  <2> QED
    BY <1>1, <1>3, <2>1, <2>2, CallType
<1>5. CallIs(c).arg = Req.n
  BY <1>1, <1>3, CallType DEF Asked, Requests, Req
<1>6. AbsAnswer[c] = None
  <2>1. pc[c].buf \notin Contents
    BY <1>1, Kinds DEF Asked, Requests
  <2> QED
    BY <2>1, AbsIs DEF AnswerIs
<1>7. Req.n \in Counts \cup {0}
  BY <1>2 DEF FileRequest
<1> QED
  BY <1>1, <1>2, <1>3, <1>4, <1>5, <1>6, <1>7, CallType, AbsIs

\* An answer is written into fsipcbuf of c.
LEMMA Answers ==
  ASSUME Inv, NEW c \in Client, c = whom, srv.at = "recv", NEW data \in Contents,
         pc' = [pc EXCEPT ![c].buf = data], UNCHANGED <<fd, open, ipc>>,
         srv'.at # "recv", pc[c].op # FSREQ_FLUSH, Calling(c)
  PROVE  /\ \A d \in Client \ {c} : Kept(d)
         /\ AbsFile' = AbsFile /\ AbsPos' = AbsPos /\ AbsGone' = AbsGone
         /\ pc[c].at = "dead" => CallIs(c)' = None /\ AnswerIs(c)' = None
         /\ pc[c].at # "dead" /\ ~Opening(c) =>
              CallIs(c)' = CallIs(c) /\ AnswerIs(c)' = data
<1>1. PICK l : l = [pc[c] EXCEPT !.buf = data]
  OBVIOUS
<1>2. /\ l.at = pc[c].at /\ l.op = pc[c].op /\ l.slot = pc[c].slot /\ l.n = pc[c].n
      /\ l.buf = data
  BY <1>1, Types DEF Local
<1>3. pc'[c] = l /\ \A d \in Client \ {c} : pc'[d] = pc[d]
  BY <1>1 DEF Inv, TypeOK
<1>4. whom' = whom
  BY DEF whom
<1>5. \A d \in Client \ {c} : Kept(d)
  BY <1>3, <1>4, OtherKept DEF SameFds
<1>6. AbsFile' = AbsFile /\ AbsPos' = AbsPos
  BY FilesKept DEF Held
<1>7. AbsGone' = AbsGone
  <2>1. \A d \in Client : pc'[d].at = "dead" <=> pc[d].at = "dead"
    BY <1>2, <1>3
  <2> QED
    BY <2>1, GoneKept
<1>8. ASSUME pc[c].at = "dead"
      PROVE  CallIs(c)' = None /\ AnswerIs(c)' = None
  <2>1. ~Calling(c)'
    BY <1>2, <1>3, <1>8 DEF Calling
  <2> QED
    BY <2>1 DEF CallIs, AnswerIs
<1>9. ASSUME pc[c].at # "dead", ~Opening(c)
      PROVE  CallIs(c)' = CallIs(c) /\ AnswerIs(c)' = data
  <2>1. Calling(c)'
    BY <1>2, <1>3, <1>9 DEF Calling
  <2>2. CallOf(c)' = CallOf(c)
    <3>1. PICK s \in Slot : s = pc[c].slot
      BY Types
    <3>2. /\ pc'[c].slot = s /\ pc'[c].op = pc[c].op /\ pc'[c].n = pc[c].n
          /\ pc'[c].at # "dead" /\ fd' = fd
      BY <1>2, <1>3, <1>9, <3>1
    <3> QED
      BY <1>9, <3>1, <3>2 DEF CallOf, Opening
  <2> QED
    BY <1>2, <1>3, <2>1, <2>2 DEF CallIs, AnswerIs
<1> QED
  BY <1>5, <1>6, <1>7, <1>8, <1>9

LEMMA ServeReadRefines ==
  ASSUME Inv, ServeRead
  PROVE  \E c \in Client : Files!Taken(c)
<1>1. PICK c \in Client : c = whom
  BY RequestedIs DEF ServeRead
<1>2. PICK data : data = FileRead(open[Entry], Req.n)
  OBVIOUS
<1>3. PICK i : i = Entry
  OBVIOUS
<1>4. /\ Requested(FSREQ_READ) /\ ~LookupFails /\ pc' = [pc EXCEPT ![c].buf = data]
      /\ srv' = ServerAt("advance", i, FALSE, data.len) /\ UNCHANGED <<fd, open, ipc>>
  BY <1>1, <1>2, <1>3 DEF ServeRead
<1>5. /\ Asked(c) /\ pc[c].op = FSREQ_READ /\ ~Opening(c) /\ srv.at = "recv"
      /\ (Waiting(c) \/ pc[c].at = "dead")
  BY <1>1, <1>4, RequestedIs, OpsAre DEF Opening, Requested
<1>6. /\ Calling(c) /\ AbsCall[c] # None /\ AbsCall[c].op = "read"
      /\ AbsCall[c].on = i /\ AbsCall[c].arg = Req.n /\ AbsAnswer[c] = None
      /\ i \in Open /\ Held(i) /\ Req.n \in Counts \cup {0}
  BY <1>1, <1>3, <1>4, <1>5, ServedCall
<1>7. data \in Contents
  BY <1>2, <1>3, <1>6, FileReadIs
<1>8. data = Files!Contents(i, Req.n)
  <2>1. AbsFile[i] = open[i].o_file /\ AbsPos[i] = open[i].fd_offset
    BY <1>6, FileOf
  <2> QED
    BY <1>2, <1>3, <2>1 DEF FileRead, Files!Contents
<1>9. AbsMoving = None /\ AbsMoving' = [client |-> c, open |-> i, len |-> data.len]
  <2>1. srv'.at = "advance" /\ srv'.i = i /\ srv'.r = data.len
    BY <1>4 DEF ServerAt
  <2>2. Held(srv.i)' /\ whom' = c
    BY <1>1, <1>4, <1>6, <2>1 DEF Held, whom
  <2> QED
    BY <1>5, <2>1, <2>2 DEF AbsMoving
<1>10. /\ \A d \in Client \ {c} : Kept(d)
       /\ AbsFile' = AbsFile /\ AbsPos' = AbsPos /\ AbsGone' = AbsGone
       /\ pc[c].at = "dead" => CallIs(c)' = None /\ AnswerIs(c)' = None
       /\ pc[c].at # "dead" => CallIs(c)' = CallIs(c) /\ AnswerIs(c)' = data
  <2>1. srv'.at # "recv" /\ pc[c].op # FSREQ_FLUSH
    BY <1>4, <1>5, OpsAre DEF ServerAt
  <2> QED
    BY <1>1, <1>4, <1>5, <1>6, <1>7, <2>1, Answers
<1>11. /\ AbsCall' = [AbsCall EXCEPT ![c] = CallIs(c)']
       /\ AbsAnswer' = [AbsAnswer EXCEPT ![c] = AnswerIs(c)']
       /\ AbsCall[c] = CallIs(c)
  BY <1>10, OthersKept
<1>12. IF c \in AbsGone
         THEN AbsCall' = [AbsCall EXCEPT ![c] = None] /\ AbsAnswer' = AbsAnswer
         ELSE AbsAnswer' = [AbsAnswer EXCEPT ![c] = data] /\ AbsCall' = AbsCall
  <2>1. c \in AbsGone <=> pc[c].at = "dead"
    BY DEF AbsGone
  <2>2. CASE pc[c].at = "dead"
    <3>1. AbsAnswer' = AbsAnswer
      BY <1>6, <1>10, <1>11, <2>2, AbsIs
    <3> QED
      BY <1>10, <1>11, <2>1, <2>2, <3>1
  <2>3. CASE pc[c].at # "dead"
    <3>1. AbsCall' = AbsCall
      BY <1>10, <1>11, <2>3, AbsIs
    <3> QED
      BY <1>10, <1>11, <2>1, <2>3, <3>1
  <2> QED
    BY <2>2, <2>3
<1>13. i \in Files!Held(fd)
  BY <1>6, HeldSet
<1>14. Files!Taken(c)
  BY <1>4, <1>6, <1>8, <1>9, <1>10, <1>12, <1>13 DEF Files!Taken, Files!Pending
<1> QED
  BY <1>14

LEMMA ServeStatRefines ==
  ASSUME Inv, ServeStat
  PROVE  \E c \in Client : Files!Stat(c) \/ Files!Return(c)
<1>1. PICK c \in Client : c = whom
  BY RequestedIs DEF ServeStat
<1>2. PICK data : data = [file |-> open[Entry].o_file, from |-> 0, len |-> 0]
  OBVIOUS
<1>3. PICK i : i = Entry
  OBVIOUS
<1>4. /\ Requested(FSREQ_STAT) /\ ~LookupFails /\ pc' = [pc EXCEPT ![c].buf = data]
      /\ Reply(0) /\ UNCHANGED <<fd, open, ipc>>
  BY <1>1, <1>2 DEF ServeStat
<1>5. /\ Asked(c) /\ pc[c].op = FSREQ_STAT /\ ~Opening(c) /\ srv.at = "recv"
      /\ (Waiting(c) \/ pc[c].at = "dead")
  BY <1>1, <1>4, RequestedIs, OpsAre DEF Opening, Requested
<1>6. /\ Calling(c) /\ AbsCall[c] # None /\ AbsCall[c].op = "stat"
      /\ AbsCall[c].on = i /\ AbsAnswer[c] = None /\ i \in Open /\ Held(i)
  BY <1>1, <1>3, <1>4, <1>5, OpsAre, ServedCall
<1>7. data \in Contents
  <2>1. open[i].o_file \in File
    BY <1>6 DEF Inv, Table, InUse
  <2>2. PICK zero \in 0 .. Size : zero = 0
    BY Constants
  <2>3. PICK none \in Nat : none = 0
    OBVIOUS
  <2>4. data = [file |-> open[i].o_file, from |-> none, len |-> zero]
    BY <1>2, <1>3, <2>2, <2>3
  <2> QED
    BY <2>1, <2>4 DEF Contents
<1>8. data = [file |-> AbsFile[i], from |-> 0, len |-> 0]
  BY <1>2, <1>3, <1>6, FileOf
<1>9. srv'.at = "reply"
  BY <1>4 DEF Reply, ServerAt
<1>10. /\ \A d \in Client \ {c} : Kept(d)
       /\ AbsFile' = AbsFile /\ AbsPos' = AbsPos /\ AbsGone' = AbsGone
       /\ pc[c].at = "dead" => CallIs(c)' = None /\ AnswerIs(c)' = None
       /\ pc[c].at # "dead" => CallIs(c)' = CallIs(c) /\ AnswerIs(c)' = data
  BY <1>1, <1>4, <1>5, <1>6, <1>7, <1>9, OpsAre, Answers
<1>11. /\ AbsCall' = [AbsCall EXCEPT ![c] = CallIs(c)']
       /\ AbsAnswer' = [AbsAnswer EXCEPT ![c] = AnswerIs(c)']
       /\ AbsCall[c] = CallIs(c)
  BY <1>10, OthersKept
<1>12. AbsMoving' = AbsMoving /\ AbsMoving = None
  BY <1>5, <1>9, NotMoving
<1>13. CASE pc[c].at = "dead"
  <2>1. c \in AbsGone
    BY <1>13 DEF AbsGone
  <2>2. /\ AbsCall' = [AbsCall EXCEPT ![c] = None]
        /\ AbsAnswer' = [AbsAnswer EXCEPT ![c] = None]
    BY <1>10, <1>11, <1>13
  <2>3. Files!Return(c)
    BY <1>4, <1>6, <1>10, <1>12, <2>1, <2>2 DEF Files!Return
  <2> QED
    BY <2>3
<1>14. CASE pc[c].at # "dead"
  <2>1. c \notin AbsGone
    BY <1>14 DEF AbsGone
  <2>2. AbsCall' = AbsCall /\ AbsAnswer' = [AbsAnswer EXCEPT ![c] = data]
    BY <1>10, <1>11, <1>14, AbsIs
  <2>3. Files!Stat(c)
    BY <1>4, <1>6, <1>8, <1>10, <1>12, <2>1, <2>2 DEF Files!Stat, Files!Pending
  <2> QED
    BY <2>3
<1> QED
  BY <1>13, <1>14

LEMMA AdvanceRefines ==
  ASSUME Inv, Advance
  PROVE  Files!Moved \/ UNCHANGED Files!vars
<1>1. PICK i : i = srv.i
  OBVIOUS
<1>2. PICK r : r = srv.r
  OBVIOUS
<1>3. PICK o : o = [open[i] EXCEPT !.fd_offset = @ + r]
  OBVIOUS
<1>4. /\ srv.at = "advance" /\ open' = [open EXCEPT ![i] = o] /\ Reply(r)
      /\ UNCHANGED <<fd, ipc, pc>>
  BY <1>1, <1>2, <1>3 DEF Advance
<1>5. i \in Open
  BY <1>1, <1>4 DEF Inv, Serving
<1>6. o.o_file = open[i].o_file /\ o.fd_offset = open[i].fd_offset + r
  <2>1. PICK x \in OpenFile : x = open[i]
    BY <1>5, Types
  <2>2. o = [x EXCEPT !.fd_offset = x.fd_offset + r]
    BY <1>3, <2>1
  <2> QED
    BY <2>1, <2>2 DEF OpenFile
<1>7. open'[i] = o /\ \A j \in Open \ {i} : open'[j] = open[j]
  BY <1>4, <1>5 DEF Inv, TypeOK
<1>8. \A j \in Open : Held(j)' <=> Held(j)
  BY <1>4 DEF Held
<1>9. srv'.at = "reply"
  BY <1>4 DEF Reply, ServerAt
<1>10. AbsMoving' = None
  BY <1>9 DEF AbsMoving
<1>11. \A d \in Client : Kept(d)
  BY <1>4, <1>9, OtherKept DEF SameFds
<1>12. AbsCall' = AbsCall /\ AbsAnswer' = AbsAnswer /\ AbsGone' = AbsGone
  BY <1>4, <1>11, AllKept DEF AbsGone
<1>13. AbsFile' = AbsFile
  BY <1>6, <1>7, <1>8 DEF AbsFile
<1>14. CASE Held(i)
  <2>1. AbsMoving # None /\ AbsMoving.open = i /\ AbsMoving.len = r
    BY <1>1, <1>2, <1>4, <1>14, MovingIs DEF Moves
  <2>2. AbsPos' = [AbsPos EXCEPT ![i] = @ + r]
    <3>1. \A j \in Open : AbsPos'[j] = IF j = i THEN AbsPos[j] + r ELSE AbsPos[j]
      BY <1>6, <1>7, <1>8, <1>14 DEF AbsPos
    <3>2. AbsPos' = [j \in Open |-> AbsPos'[j]] /\ AbsPos = [j \in Open |-> AbsPos[j]]
      BY DEF AbsPos
    <3> QED
      BY <3>1, <3>2
  <2> QED
    BY <1>4, <1>10, <1>12, <1>13, <2>1, <2>2 DEF Files!Moved
<1>15. CASE ~Held(i)
  <2>1. AbsMoving = None
    BY <1>1, <1>15 DEF AbsMoving
  <2>2. AbsPos' = AbsPos
    BY <1>7, <1>8, <1>15 DEF AbsPos
  <2>3. RestKept
    BY <1>4, <1>10, <1>12, <1>13, <2>1, <2>2 DEF RestKept
  <2> QED
    BY <1>11, <2>3, Stutters
<1> QED
  BY <1>14, <1>15

LEMMA SendReplyRefines ==
  ASSUME Inv, SendReply
  PROVE  (\E c \in Client : Files!Opened(c)) \/ UNCHANGED Files!vars
<1>1. PICK c \in Client : c = whom
  BY DEF SendReply, Inv, Serving, Busy
<1>2. /\ srv.at = "reply" /\ pc[c].at # "dead" /\ ipc[c].recving
      /\ fd' = IF srv.page /\ ipc[c].dstva # None
                 THEN [fd EXCEPT ![c][ipc[c].dstva] = srv.i] ELSE fd
      /\ srv' = ServerAt("ready", 0, FALSE, 0) /\ UNCHANGED <<open, pc>>
  BY <1>1 DEF SendReply, Receiving
<1>3. PICK s \in Slot : s = pc[c].slot
  BY Types
<1>4. PICK i : i = srv.i
  OBVIOUS
<1>5. /\ pc[c].at = "wait" /\ (Opening(c) => ipc[c].dstva = s /\ Asked(c))
      /\ srv.page => Opening(c) /\ Fresh(i, c)
  BY <1>1, <1>2, <1>3, <1>4 DEF Inv, Receiver, Serving
<1>6. srv'.at = "ready"
  BY <1>2 DEF ServerAt
<1>7. CASE ~srv.page
  <2>1. fd' = fd
    BY <1>2, <1>7
  <2> QED
    BY <1>2, <1>6, <2>1, ServerStutters
<1>8. CASE srv.page
  <2>1. /\ Opening(c) /\ i \in Open /\ ~Held(i) /\ InUse(i) /\ open[i].fd_offset = 0
        /\ pc[c].buf = [file |-> open[i].o_file] /\ fd[c][s] = None
    BY <1>3, <1>5, <1>2, <1>8 DEF Fresh, Asked, HasSlot
  <2>2. fd' = [fd EXCEPT ![c][s] = i]
    BY <1>2, <1>4, <1>5, <1>8, <2>1, Constants
  <2>3. /\ \A d \in Client, t \in Slot :
             fd'[d][t] = IF d = c /\ t = s THEN i ELSE fd[d][t]
        /\ \A d \in Client \ {c} : SameFds(d)
        /\ \A j \in Open : Held(j)' => Held(j) \/ j = i
    <3>1. i \in Open \cup {None} /\ Maps(c, s, i)
      BY <2>1, <2>2 DEF Maps
    <3> QED
      BY <3>1, SetFd
  <2>4. \A j \in Open : Held(j)' <=> Held(j) \/ j = i
    <3>1. ASSUME NEW j \in Open, NEW d \in Client, NEW t \in Slot, fd[d][t] = j
          PROVE  Held(j)'
      <4>1. ~(d = c /\ t = s)
        BY <2>1, <3>1, Constants
      <4>2. fd'[d][t] = j
        BY <2>3, <3>1, <4>1
      <4> QED
        BY <4>2 DEF Held
    <3>2. \A j \in Open : Held(j) => Held(j)'
      BY <3>1 DEF Held
    <3>3. Held(i)'
      BY <2>3 DEF Held
    <3> QED
      BY <2>3, <3>2, <3>3
  <2>5. AbsFile' = [AbsFile EXCEPT ![i] = open[i].o_file]
    <3>1. \A j \in Open : AbsFile'[j] = IF j = i THEN open[i].o_file ELSE AbsFile[j]
      BY <1>2, <2>1, <2>4 DEF AbsFile
    <3>2. AbsFile' = [j \in Open |-> AbsFile'[j]] /\ AbsFile = [j \in Open |-> AbsFile[j]]
      BY DEF AbsFile
    <3> QED
      BY <2>1, <3>1, <3>2
  <2>6. AbsPos' = AbsPos
    BY <1>2, <2>1, <2>4 DEF AbsPos
  <2>7. AbsMoving' = AbsMoving
    BY <1>2, <1>6, NotMoving
  <2>8. AbsGone' = AbsGone /\ c \notin AbsGone
    BY <1>2 DEF AbsGone
  <2>9. \A d \in Client \ {c} : Kept(d)
    BY <1>2, <1>6, <2>3, OtherKept
  <2>10. Calling(c) /\ Calling(c)'
    BY <1>2, <1>5, <2>1, OpsAre DEF Calling, Opening
  <2>11. CallIs(c)' = CallIs(c) /\ AnswerIs(c)' = AnswerIs(c)
    <3>1. CallOf(c)' = CallOf(c)
      BY <1>2, <2>1 DEF CallOf, Opening
    <3> QED
      BY <1>2, <2>10, <3>1 DEF CallIs, AnswerIs
  <2>12. AbsCall' = AbsCall /\ AbsAnswer' = AbsAnswer
    BY <2>9, <2>11, AllKept DEF Kept
  <2>13. /\ AbsCall[c] # None /\ AbsCall[c].op = "open" /\ AbsCall[c].slot = s
         /\ AbsCall[c].arg = open[i].o_file /\ AbsAnswer[c] = None
    <3>1. pc[c].buf.file = open[i].o_file
      BY <2>1
    <3>2. pc[c].buf \notin Contents
      BY <1>5, <2>1, Kinds DEF Asked, Requests
    <3> QED
      BY <1>3, <2>1, <2>10, <3>1, <3>2, CallType, AbsIs DEF AnswerIs
  <2>14. open[i].o_file # None
    BY <2>1, Constants DEF InUse
  <2>15. i \in Open \ Files!Held(fd)
    BY <2>1, HeldSet
  <2>16. Files!Opened(c)
    BY <2>1, <2>2, <2>5, <2>6, <2>7, <2>8, <2>12, <2>13, <2>14, <2>15
       DEF Files!Opened, Files!Pending
  <2> QED
    BY <2>16
<1> QED
  BY <1>7, <1>8

-----------------------------------------------------------------------------
(* The server and its clients implement AbstractFiles.                     *)

LEMMA InitRefines == Init => Files!Init
<1> SUFFICES ASSUME Init PROVE Files!Init
  OBVIOUS
<1>1. /\ fd = [c \in Client |-> [s \in Slot |-> None]]
      /\ \A c \in Client : pc[c].at \in {"none", "idle"}
      /\ srv.at = "ready"
  BY AtIs DEF Init, ServerAt
<1>2. \A i \in Open : ~Held(i)
  BY <1>1, Constants DEF Held
<1>3. AbsFile = [i \in Open |-> None] /\ AbsPos = [i \in Open |-> 0]
  BY <1>2 DEF AbsFile, AbsPos
<1>4. AbsCall = [c \in Client |-> None] /\ AbsAnswer = [c \in Client |-> None]
  BY <1>1, AbsIs DEF CallIs, AnswerIs, Calling
<1>5. AbsMoving = None
  BY <1>1 DEF AbsMoving
<1>6. AbsGone = {}
  BY <1>1 DEF AbsGone
<1> QED
  BY <1>1, <1>3, <1>4, <1>5, <1>6 DEF Files!Init

LEMMA NextRefines ==
  Inv /\ Inv' /\ [Next]_vars => [UNCHANGED Files!vars \/ Files!Next]_(Files!vars)
<1> SUFFICES ASSUME Inv, Inv', [Next]_vars
             PROVE  UNCHANGED Files!vars \/ Files!Next
  OBVIOUS
<1>1. ASSUME ServerStep
      PROVE  UNCHANGED Files!vars \/ Files!Next
  <2>1. ASSUME NEW op \in {FSREQ_READ, FSREQ_STAT}, ServeError(op)
        PROVE  (\E c \in Client : Files!Return(c)) \/ UNCHANGED Files!vars
    BY <2>1, DroppedReply DEF ServeError
  <2>2. ASSUME ServeFlush
        PROVE  (\E c \in Client : Files!Return(c)) \/ UNCHANGED Files!vars
    BY <2>2, DroppedReply DEF ServeFlush
  <2> QED
    BY <1>1, <2>1, <2>2, ServerRecvRefines, ServeOpenRefines, ScanRefines, ScanFreeRefines,
       ServeReadRefines, AdvanceRefines, ServeStatRefines, SendReplyRefines, PanicRefines
       DEF ServerStep, Files!Next
<1>2. ASSUME NEW c \in Client, ClientStep(c)
      PROVE  UNCHANGED Files!vars \/ Files!Next
  BY <1>2, SendRefines, RecvRefines, ReturnRefines, UnmapRefines, DupPageRefines,
     StartRefines DEF ClientStep, Files!Next
<1>3. ASSUME NEW c \in Client, Choice(c)
      PROVE  UNCHANGED Files!vars \/ Files!Next
  <2>1. ASSUME NEW f \in File \cup {None}, ClientOpen(c, f)
        PROVE  Files!Begin(c) \/ UNCHANGED Files!vars
    <3>1. PICK s \in Slot : Fsipc(c, FSREQ_OPEN, s, 0, [file |-> f])
      BY <2>1 DEF ClientOpen
    <3>2. [file |-> f] \in Request /\ 0 \in Counts \cup {0}
      BY DEF Request
    <3> QED
      BY <3>1, <3>2, FsipcRefines, OpsAre
  <2>2. ASSUME NEW op \in Ops \ {FSREQ_OPEN}, NEW s \in Slot, NEW n \in Counts \cup {0},
               FdRequest(c, op, s, n)
        PROVE  Files!Begin(c) \/ UNCHANGED Files!vars
    <3>1. PICK i : i = fd[c][s]
      OBVIOUS
    <3>2. PICK buf : buf = [id |-> open[i].id, n |-> n]
      OBVIOUS
    <3>3. fd[c][s] # None /\ Fsipc(c, op, s, n, buf)
      BY <2>2, <3>1, <3>2 DEF FdRequest
    <3>4. open[i].id \in Ids
      BY <3>1, <3>3, HeldOpen, Types DEF OpenFile
    <3>5. buf \in Request
      BY <3>2, <3>4 DEF Request
    <3> QED
      BY <3>3, <3>5, FsipcRefines
  <2>3. /\ FSREQ_READ \in Ops \ {FSREQ_OPEN} /\ FSREQ_STAT \in Ops \ {FSREQ_OPEN}
        /\ FSREQ_FLUSH \in Ops \ {FSREQ_OPEN}
    BY OpsAre
  <2>4. ASSUME NEW s \in Slot, NEW n \in Counts, FdRequest(c, FSREQ_READ, s, n)
        PROVE  Files!Begin(c) \/ UNCHANGED Files!vars
    <3>1. n \in Counts \cup {0}
      OBVIOUS
    <3> QED
      BY <2>2, <2>3, <2>4, <3>1
  <2>5. ASSUME NEW s \in Slot,
               FdRequest(c, FSREQ_STAT, s, 0) \/ FdRequest(c, FSREQ_FLUSH, s, 0)
        PROVE  Files!Begin(c) \/ UNCHANGED Files!vars
    <3>1. 0 \in Counts \cup {0}
      OBVIOUS
    <3> QED
      BY <2>2, <2>3, <2>5, <3>1
  <2>6. ASSUME NEW s \in Slot, NEW where \in Seeks, Seek(c, s, where)
        PROVE  Files!Next
    BY <2>6, SeekRefines DEF Files!Next
  <2>7. ASSUME NEW s \in Slot, NEW t \in Slot, Dup(c, s, t)
        PROVE  Files!Next
    BY <2>7, DupRefines DEF Files!Next
  <2>8. ASSUME Exit(c) \/ Kill(c)
        PROVE  Files!Next
    BY <2>8, DestroyRefines DEF Exit, Kill, Files!Next
  <2> QED
    BY <1>3, <2>1, <2>4, <2>5, <2>6, <2>7, <2>8, ForkRefines DEF Choice, Files!Next
<1>4. CASE UNCHANGED vars
  <2>1. /\ UNCHANGED <<fd, open, ipc, pc, srv>> /\ whom' = whom
    BY <1>4 DEF vars, whom
  <2>2. AbsFile' = AbsFile /\ AbsPos' = AbsPos
    BY <2>1, FilesKept DEF Held
  <2>3. AbsMoving' = AbsMoving
    BY <2>1, MovingKept DEF Held
  <2>4. \A d \in Client : Kept(d)
    BY <2>1, OtherKept DEF SameFds
  <2>5. RestKept
    BY <2>1, <2>2, <2>3 DEF RestKept, AbsGone
  <2> QED
    BY <2>4, <2>5, Stutters
<1> QED
  BY <1>1, <1>2, <1>3, <1>4 DEF Next

\* The server with its clients, over messages, mapped pages and a table that it
\* clears by looking at the number of mappings, is the files and descriptors of
\* AbstractFiles: every call gets its own answer, an open file is given to nobody
\* else while somebody holds it, and a position moves with every read and seek of
\* those who share it (fs/serv.c, lib/file.c, lib/fd.c, lib/ipc.c).
THEOREM Refinement == Spec => ImplementsFiles
BY Inductive, InitRefines, NextRefines, PTL DEF Spec, ImplementsFiles, Files!Spec

=============================================================================
