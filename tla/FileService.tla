----------------------------- MODULE FileService -----------------------------
(***************************************************************************)
(* The file server (fs/serv.c), its clients (lib/file.c, lib/fd.c) and the *)
(* messages between them (lib/ipc.c and the system calls under it).        *)
(*                                                                         *)
(* An open file is one entry of opentab and its Fd page, which the server  *)
(* maps for good once it has been allocated and every client with a        *)
(* descriptor of the file maps too: nobody tells the server about a dup, a *)
(* fork or a close, it looks at the number of mappings.  A client has one  *)
(* request under way at a time, in the page fsipcbuf that it shares with   *)
(* the server for that time.  A step is one system call or one access to a *)
(* shared page.                                                            *)
(***************************************************************************)
EXTENDS Integers, FiniteSets

CONSTANTS Client,       \* the environments that use files
          Parent,       \* the one that exists first and forks the others
          Killable,     \* the ones Parent may destroy
          Calls,        \* the requests the program of each client makes
          Fs,           \* the file server
          NFD,          \* descriptors of a client (MAXFD)
          MAXOPEN,      \* entries of opentab
          IdSpace,      \* file ids wrap here (2^32)
          File, None,
          Size,         \* length of a file
          Counts,       \* sizes of a read
          Seeks         \* the positions that are seeked to

ASSUME FileAssumption ==
  /\ IsFiniteSet(Client) /\ Parent \in Client /\ Fs \notin Client
  /\ Killable \subseteq Client \ {Parent}
  /\ Calls \in [Client -> SUBSET {1, 3, 5, 6}]
  /\ NFD \in Nat \ {0} /\ MAXOPEN \in Nat \ {0} /\ Size \in Nat
  /\ IdSpace \in Nat /\ 2 * MAXOPEN <= IdSpace /\ IdSpace % MAXOPEN = 0
  /\ None \notin Client \cup {Fs} \cup File \cup 0 .. NFD \cup 0 .. MAXOPEN
  /\ Counts \subseteq Nat \ {0} /\ Seeks \subseteq Nat

VARIABLES
  fd,        \* the open file each client has mapped at a descriptor, or None
  open,      \* opentab with the Fd pages
  ipc,       \* the env_ipc fields of every environment
  pc,        \* where each client is, with its local variables and fsipcbuf
  srv        \* where the server is, with its local variables

vars == <<fd, open, ipc, pc, srv>>

Env == Client \cup {Fs}
Slot == 0 .. NFD - 1
Open == 0 .. MAXOPEN - 1
Ids == 0 .. IdSpace - 1

FSREQ_OPEN == 1
FSREQ_READ == 3
FSREQ_STAT == 5
FSREQ_FLUSH == 6
Ops == {FSREQ_OPEN, FSREQ_READ, FSREQ_STAT, FSREQ_FLUSH}

\* An entry of opentab, whether its page exists, and fd_file.id and fd_offset
\* of that page.
OpenFile == [mapped : BOOLEAN, o_fileid : Ids, o_file : File \cup {None},
             id : Ids, fd_offset : Nat]

\* The fields sys_ipc_recv and sys_ipc_try_send keep; perm is whether it is not
\* zero, dstva a descriptor, None for "no page" or Fs for the page fsreq.
IpcFields == [recving : BOOLEAN, from : Env \cup {None}, perm : BOOLEAN,
              value : Int,
              dstva : Slot \cup {None, Fs}]

\* fsipcbuf: a request or what the server has written over it.
Request == [file : File \cup {None}] \cup [id : Ids, n : Counts \cup {0}]
Contents == [file : File, from : Nat, len : 0 .. Size]

(* The places of a client:                                                 *)
(*  "none" does not exist, "new" created, not started, "dead" destroyed    *)
(*  "idle" in its own code                                                 *)
(*  "send", "sent", "wait"  fsipc: in ipc_send, before and in ipc_recv     *)
(*  "close"  devfile_flush is done       "fork" todo is yet to be mapped   *)
Local == [at : {"none", "new", "idle", "send", "sent", "wait", "close", "fork",
                "dead"},
          op : Ops, slot : Slot,
          n : Counts \cup {0},
          buf : Request \cup Contents \cup {None},
          todo : SUBSET Slot, child : Client]

At(place) == [at |-> place, op |-> FSREQ_OPEN, slot |-> 0, n |-> 0, buf |-> None,
              todo |-> {}, child |-> Parent]
Idle == At("idle")

(* The places of the server: "ready" before ipc_recv, "recv" in it, "scan" *)
(* in openfile_alloc at entry i, "advance" in serve_read before            *)
(* fd_offset += r, "reply" in ipc_send with value r and page i if there is *)
(* one, "panic" in the panic of ipc_send.                                  *)
Server == [at : {"ready", "recv", "scan", "advance", "reply", "panic"},
           i : 0 .. MAXOPEN, page : BOOLEAN, r : Int]

ServerAt(place, i, page, r) == [at |-> place, i |-> i, page |-> page, r |-> r]

\* The server has no open file yet; only Parent runs.
Init ==
  /\ fd = [c \in Client |-> [s \in Slot |-> None]]
  /\ open = [i \in Open |-> [mapped |-> FALSE, o_fileid |-> i, o_file |-> None,
                             id |-> 0, fd_offset |-> 0]]
  /\ ipc = [e \in Env |-> [recving |-> FALSE, from |-> None, perm |-> FALSE,
                           value |-> 0, dstva |-> None]]
  /\ pc = [c \in Client |-> IF c = Parent THEN Idle ELSE At("none")]
  /\ srv = ServerAt("ready", 0, FALSE, 0)

Holders(i) == {h \in Client \X Slot : fd[h[1]][h[2]] = i}

\* pageref(opentab[i].o_fd)
PageRef(i) == Cardinality(Holders(i)) + (IF open[i].mapped THEN 1 ELSE 0)

-----------------------------------------------------------------------------
\* Messages.

\* sys_ipc_try_send does not return -E_IPC_NOT_RECV.
Receiving(e) == ipc[e].recving /\ ipc[e].from = None

\* The fields of the receiver t after a message with or without a page.
Message(t, sender, value, page) ==
  [ipc[t] EXCEPT !.recving = FALSE, !.from = sender, !.value = value,
                 !.perm = IF page /\ ipc[t].dstva # None THEN TRUE ELSE @]

\* sys_ipc_recv
Recving(e, dstva) ==
  [ipc[e] EXCEPT !.recving = TRUE, !.from = None, !.dstva = dstva]

-----------------------------------------------------------------------------
\* Clients.

Goto(c, place) == pc' = [pc EXCEPT ![c].at = place]

\* A library call fills fsipcbuf and enters fsipc.
Fsipc(c, op, s, n, buf) ==
  /\ pc[c].at = "idle" /\ op \in Calls[c]
  /\ pc' = [pc EXCEPT ![c] = [Idle EXCEPT !.at = "send", !.op = op, !.slot = s,
                                          !.n = n, !.buf = buf]]
  /\ UNCHANGED <<fd, open, ipc, srv>>

\* open: fd_alloc finds the lowest descriptor that is not mapped.
ClientOpen(c, f) ==
  \E s \in Slot : /\ fd[c][s] = None /\ \A t \in 0 .. s - 1 : fd[c][t] # None
                  /\ Fsipc(c, FSREQ_OPEN, s, 0, [file |-> f])

\* read, fstat, and devfile_flush in close: the file id is in the shared page.
FdRequest(c, op, s, n) ==
  /\ fd[c][s] # None
  /\ Fsipc(c, op, s, n, [id |-> open[fd[c][s]].id, n |-> n])

\* ipc_send to the server; a try that fails changes nothing.
Send(c) ==
  /\ pc[c].at = "send" /\ Receiving(Fs)
  /\ ipc' = [ipc EXCEPT ![Fs] = Message(Fs, c, pc[c].op, TRUE)]
  /\ Goto(c, "sent") /\ UNCHANGED <<fd, open, srv>>

\* ipc_recv of the reply.
Recv(c) ==
  /\ pc[c].at = "sent"
  /\ ipc' = [ipc EXCEPT ![c] =
       Recving(c, IF pc[c].op = FSREQ_OPEN THEN pc[c].slot ELSE None)]
  /\ Goto(c, "wait") /\ UNCHANGED <<fd, open, srv>>

\* Once a message is read, nobody looks at these until they are set again.
Read(e) == [ipc[e] EXCEPT !.from = None, !.value = 0, !.dstva = None]

\* sys_ipc_recv does not block (mutant).
ReturnEarly(c) ==
  /\ pc[c].at = "wait"
  /\ pc' = [pc EXCEPT ![c] = Idle]
  /\ ipc' = [ipc EXCEPT ![c] = Read(c)]
  /\ UNCHANGED <<fd, open, srv>>

\* fsipc returns.
Return(c) ==
  /\ pc[c].at = "wait" /\ ~ipc[c].recving
  /\ pc' = [pc EXCEPT ![c] = IF @.op = FSREQ_FLUSH THEN [@ EXCEPT !.at = "close"]
                             ELSE Idle]
  /\ ipc' = [ipc EXCEPT ![c] = Read(c)]
  /\ UNCHANGED <<fd, open, srv>>

\* fd_close unmaps the descriptor, whatever the flush returned.
Unmap(c) ==
  /\ pc[c].at = "close"
  /\ fd' = [fd EXCEPT ![c][pc[c].slot] = None]
  /\ pc' = [pc EXCEPT ![c] = Idle] /\ UNCHANGED <<open, ipc, srv>>

Seek(c, s, where) ==
  /\ pc[c].at = "idle" /\ fd[c][s] # None
  /\ open' = [open EXCEPT ![fd[c][s]].fd_offset = where]
  /\ UNCHANGED <<fd, ipc, pc, srv>>

\* dup to a closed descriptor; one that is open is closed first.
Dup(c, s, t) ==
  /\ pc[c].at = "idle" /\ fd[c][s] # None /\ fd[c][t] = None
  /\ fd' = [fd EXCEPT ![c][t] = fd[c][s]]
  /\ UNCHANGED <<open, ipc, pc, srv>>

\* fork, and spawn with its copy_shared_pages: the descriptors are mapped in the
\* child one after the other, then it is started.
Fork(c, d) ==
  /\ c = Parent /\ pc[c].at = "idle" /\ pc[d].at = "none"
  /\ pc' = [pc EXCEPT ![d] = At("new"),
                      ![c] = [Idle EXCEPT !.at = "fork", !.child = d,
                              !.todo = {s \in Slot : fd[c][s] # None}]]
  /\ UNCHANGED <<fd, open, ipc, srv>>

DupPage(c) ==
  /\ pc[c].at = "fork"
  /\ \E s \in pc[c].todo :
       /\ \A t \in pc[c].todo : s <= t
       /\ fd' = [fd EXCEPT ![pc[c].child][s] = fd[c][s]]
       /\ pc' = [pc EXCEPT ![c].todo = @ \ {s}]
  /\ UNCHANGED <<open, ipc, srv>>

Start(c) ==
  /\ pc[c].at = "fork" /\ pc[c].todo = {}
  /\ pc' = [pc EXCEPT ![c] = Idle, ![pc[c].child] = Idle]
  /\ UNCHANGED <<fd, open, ipc, srv>>

\* env_free: every mapping goes, and nobody can send to c any more; the server
\* keeps the page with its request.
Destroy(c) ==
  /\ fd' = [fd EXCEPT ![c] = [s \in Slot |-> None]]
  /\ pc' = [pc EXCEPT ![c] = IF ipc[Fs].from = c THEN [@ EXCEPT !.at = "dead"]
                             ELSE At("dead")]
  /\ ipc' = [ipc EXCEPT ![c] = [recving |-> FALSE, from |-> None,
                                perm |-> FALSE, value |-> 0, dstva |-> None]]
  /\ UNCHANGED <<open, srv>>

\* exit: close_all has closed every descriptor.
Exit(c) ==
  /\ pc[c].at = "idle" /\ \A s \in Slot : fd[c][s] = None
  /\ Destroy(c)

\* Parent destroys a child, whatever it is doing.
Kill(c) ==
  /\ c \in Killable /\ pc[c].at \notin {"none", "dead"}
  /\ pc[Parent].at = "idle" /\ Destroy(c)

-----------------------------------------------------------------------------
\* The server.

whom == ipc[Fs].from

Reply(r) == srv' = ServerAt("reply", 0, FALSE, r)

ServerRecv ==
  /\ srv.at = "ready"
  /\ ipc' = [ipc EXCEPT ![Fs] = Recving(Fs, Fs)]
  /\ srv' = ServerAt("recv", 0, FALSE, 0) /\ UNCHANGED <<fd, open, pc>>

\* A request with a page has been received.
Requested(op) ==
  srv.at = "recv" /\ ~ipc[Fs].recving /\ ipc[Fs].value = op /\ ipc[Fs].perm

\* The requester may be gone, but the page with its request is here.
Req == pc[whom].buf

ServeOpen ==
  /\ Requested(FSREQ_OPEN)
  /\ srv' = ServerAt("scan", 0, FALSE, 0) /\ UNCHANGED <<fd, open, ipc, pc>>

\* An entry with one client is taken to be free (mutant).
FreeShared(i) == PageRef(i) <= 2

\* Cases 0 and 1 of openfile_alloc.
Free(i) == PageRef(i) <= 1

\* openfile_alloc looks at entry i.
ScanUsed ==
  /\ srv.at = "scan" /\ srv.i < MAXOPEN /\ ~Free(srv.i)
  /\ srv' = [srv EXCEPT !.i = @ + 1] /\ UNCHANGED <<fd, open, ipc, pc>>

\* -E_MAX_OPEN, or -E_NO_MEM for an entry without a page.
ScanFails ==
  /\ srv.at = "scan"
  /\ srv.i < MAXOPEN => PageRef(srv.i) = 0
  /\ Reply(-1) /\ UNCHANGED <<fd, open, ipc, pc>>

\* The id of an entry does not wrap (mutant).
ScanNoWrap ==
  /\ srv.at = "scan" /\ srv.i < MAXOPEN /\ Free(srv.i)
  /\ open' = [open EXCEPT ![srv.i] =
        [mapped |-> TRUE, o_fileid |-> @.o_fileid + MAXOPEN, o_file |-> Req.file,
         id |-> 0, fd_offset |-> 0]]
  /\ Reply(-1) /\ UNCHANGED <<fd, ipc, pc>>

\* The entry gets a new id, returned as an int: from 2^31 on it is an error to
\* serve_open.  So is a file that is not there.
ScanFree ==
  /\ srv.at = "scan" /\ srv.i < MAXOPEN /\ Free(srv.i)
  /\ LET i == srv.i
         id == (open[i].o_fileid + MAXOPEN) % IdSpace
         f == Req.file
     IN IF 2 * id >= IdSpace \/ f = None
          THEN /\ open' = [open EXCEPT ![i] = [mapped |-> TRUE, o_fileid |-> id,
                              o_file |-> @.o_file, id |-> 0, fd_offset |-> 0]]
               /\ Reply(-1)
          ELSE /\ open' = [open EXCEPT ![i] = [mapped |-> TRUE, o_fileid |-> id,
                              o_file |-> f, id |-> id, fd_offset |-> 0]]
               /\ srv' = ServerAt("reply", i, TRUE, 0)
  /\ UNCHANGED <<fd, ipc, pc>>

\* openfile_lookup
Entry == Req.id % MAXOPEN

LookupFails == PageRef(Entry) = 1 \/ open[Entry].o_fileid # Req.id

\* file_read and serve_stat write over the request.
FileRead(o, n) ==
  [file |-> o.o_file, from |-> o.fd_offset,
   len |-> IF o.fd_offset >= Size THEN 0
           ELSE IF o.fd_offset + n <= Size THEN n ELSE Size - o.fd_offset]

ServeError(op) ==
  /\ Requested(op) /\ LookupFails
  /\ Reply(-1) /\ UNCHANGED <<fd, open, ipc, pc>>

ServeRead ==
  /\ Requested(FSREQ_READ) /\ ~LookupFails
  /\ LET data == FileRead(open[Entry], Req.n)
     IN /\ pc' = [pc EXCEPT ![whom].buf = data]
        /\ srv' = ServerAt("advance", Entry, FALSE, data.len)
  /\ UNCHANGED <<fd, open, ipc>>

\* o->o_fd->fd_offset += r, in the shared page.
Advance ==
  /\ srv.at = "advance"
  /\ open' = [open EXCEPT ![srv.i].fd_offset = @ + srv.r]
  /\ Reply(srv.r) /\ UNCHANGED <<fd, ipc, pc>>

ServeStat ==
  /\ Requested(FSREQ_STAT) /\ ~LookupFails
  /\ pc' = [pc EXCEPT ![whom].buf =
                [file |-> open[Entry].o_file, from |-> 0, len |-> 0]]
  /\ Reply(0) /\ UNCHANGED <<fd, open, ipc>>

ServeFlush == Requested(FSREQ_FLUSH) /\ Reply(0) /\ UNCHANGED <<fd, open, ipc, pc>>

\* The server tries to send its reply only once (mutant).
SendReplyOnce ==
  /\ srv.at = "reply" /\ pc[whom].at # "dead"
  /\ ipc' = IF Receiving(whom)
              THEN [ipc EXCEPT ![whom] = Message(whom, Fs, srv.r, srv.page)] ELSE ipc
  /\ fd' = IF Receiving(whom) /\ srv.page /\ ipc[whom].dstva # None
              THEN [fd EXCEPT ![whom][ipc[whom].dstva] = srv.i] ELSE fd
  /\ srv' = ServerAt("ready", 0, FALSE, 0) /\ UNCHANGED <<open, pc>>

\* ipc_send of the reply; then fsreq is unmapped, which nobody else sees.
SendReply ==
  /\ srv.at = "reply" /\ pc[whom].at # "dead" /\ Receiving(whom)
  /\ ipc' = [ipc EXCEPT ![whom] = Message(whom, Fs, srv.r, srv.page),
                         ![Fs] = Read(Fs)]
  /\ fd' = IF srv.page /\ ipc[whom].dstva # None
              THEN [fd EXCEPT ![whom][ipc[whom].dstva] = srv.i] ELSE fd
  /\ srv' = ServerAt("ready", 0, FALSE, 0) /\ UNCHANGED <<open, pc>>

\* -E_BAD_ENV: the requester is gone.
Panic ==
  /\ srv.at = "reply" /\ pc[whom].at = "dead"
  /\ srv' = [srv EXCEPT !.at = "panic"] /\ UNCHANGED <<fd, open, ipc, pc>>

-----------------------------------------------------------------------------
\* What a client does without a choice of its own.
ClientStep(c) ==
  Send(c) \/ Recv(c) \/ Return(c) \/ Unmap(c) \/ DupPage(c) \/ Start(c)

ServerStep ==
  \/ ServerRecv \/ ServeOpen \/ ScanUsed \/ ScanFails \/ ScanFree
  \/ ServeError(FSREQ_READ) \/ ServeError(FSREQ_STAT) \/ ServeRead \/ Advance
  \/ ServeStat \/ ServeFlush \/ SendReply \/ Panic

Choice(c) ==
  \/ \E f \in File \cup {None} : ClientOpen(c, f)
  \/ \E s \in Slot : \/ \E n \in Counts : FdRequest(c, FSREQ_READ, s, n)
                     \/ FdRequest(c, FSREQ_STAT, s, 0) \/ FdRequest(c, FSREQ_FLUSH, s, 0)
                     \/ \E where \in Seeks : Seek(c, s, where)
                     \/ \E t \in Slot : Dup(c, s, t)
  \/ \E d \in Client : Fork(c, d)
  \/ Exit(c) \/ Kill(c)

Next == ServerStep \/ \E c \in Client : Choice(c) \/ ClientStep(c)

Spec == Init /\ [][Next]_vars

\* The scheduler lets everyone who can run run (Kernel, RoundRobin).
FairSpec ==
  Spec /\ WF_vars(ServerStep) /\ \A c \in Client : WF_vars(ClientStep(c))

-----------------------------------------------------------------------------
TypeOK ==
  /\ fd \in [Client -> [Slot -> Open \cup {None}]]
  /\ open \in [Open -> OpenFile]
  /\ ipc \in [Env -> IpcFields]
  /\ pc \in [Client -> Local]
  /\ srv \in Server

-----------------------------------------------------------------------------
(* The refinement: a call is in progress from fsipc to its return, its     *)
(* answer is decided when the server has written it into fsipcbuf, and an  *)
(* open file that no client holds does not count.                          *)
Held(i) == \E c \in Client, s \in Slot : fd[c][s] = i

AbsFile == [i \in Open |-> IF Held(i) THEN open[i].o_file ELSE None]
AbsPos == [i \in Open |-> IF Held(i) THEN open[i].fd_offset ELSE 0]

\* A client that dies leaves its call behind until the server has served it.
Calling(c) ==
  /\ pc[c].op # FSREQ_FLUSH
  /\ \/ pc[c].at \in {"send", "sent", "wait"}
     \/ pc[c].at = "dead" /\ whom = c /\ srv.at = "recv"

CallOf(c) ==
  IF pc[c].op = FSREQ_OPEN
    THEN [op |-> "open", slot |-> pc[c].slot, arg |-> pc[c].buf.file]
    ELSE [op |-> IF pc[c].op = FSREQ_READ THEN "read" ELSE "stat",
          on |-> IF pc[c].at = "dead" THEN pc[c].buf.id % MAXOPEN
                 ELSE fd[c][pc[c].slot],
          arg |-> pc[c].n]

AbsCall == [c \in Client |-> IF Calling(c) THEN CallOf(c) ELSE None]

AbsAnswer ==
  [c \in Client |-> IF Calling(c) /\ pc[c].buf \in Contents THEN pc[c].buf ELSE None]

AbsMoving ==
  IF srv.at = "advance" /\ Held(srv.i)
    THEN [client |-> whom, open |-> srv.i, len |-> srv.r] ELSE None

AbsGone == {c \in Client : pc[c].at = "dead"}

\* None is no call, no answer and no read under way.
ASSUME NoneAssumption ==
  /\ None \notin Contents
  /\ None \notin [op : {"open"}, slot : Slot, arg : File \cup {None}]
  /\ None \notin [op : {"read", "stat"}, on : Open, arg : Counts \cup {0}]
  /\ None \notin [client : Client, open : Open, len : Nat]

Files == INSTANCE AbstractFiles WITH
  Count <- Counts \cup {0}, file <- AbsFile, pos <- AbsPos, call <- AbsCall,
  answer <- AbsAnswer, moving <- AbsMoving, gone <- AbsGone

\* Programs see files and descriptors that behave as AbstractFiles says: an open
\* file is never given to a second open while someone has a descriptor of it,
\* reads by all who share it follow each other, a read or stat through a
\* descriptor is never refused and returns what belongs to that descriptor, and
\* a call is answered once and with its own answer.
ImplementsFiles == Files!Spec

\* While the server sends a reply, the one it is for is about to receive it and
\* has room for it: nobody else's message can be the answer and the server never
\* waits for a client that waits for the server.
ReplyHasTaker ==
  srv.at \in {"scan", "advance", "reply"} =>
    /\ whom \in Client
    /\ pc[whom].at \in {"sent", "wait", "dead"}
    /\ pc[whom].at = "wait" => Receiving(whom)
    /\ srv.page => pc[whom].op = FSREQ_OPEN

\* A request the server has accepted is answered, unless its client dies.
Answered ==
  \A c \in Client : (pc[c].at = "sent") ~> (pc[c].at \notin {"sent", "wait"})

\* env_ipc_perm tells whether the message that has just arrived had a page
\* (kern/syscall.c:350, lib/ipc.c:11).
PermTellsPage ==
  \A c \in Client : pc[c].at = "wait" /\ ~ipc[c].recving /\ pc[c].op # FSREQ_OPEN
                       => ~ipc[c].perm
=============================================================================
