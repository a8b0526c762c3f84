---------------------------- MODULE AbstractFiles ----------------------------
(***************************************************************************)
(* What programs see of files: descriptors that name open files, each with *)
(* a position that everyone who shares the open file shares too.  There is *)
(* no server, no message, no file id and no table of open files here: an   *)
(* open file that nobody has a descriptor of is not there.                 *)
(***************************************************************************)
EXTENDS Integers

CONSTANTS Client, Slot, Open, File, Count, Size, Seeks, None

VARIABLES
  fd,      \* for each client and slot, an open file or None
  file,    \* the file of an open file
  pos,     \* its position
  call,    \* the call each client has in progress, or None
  answer,  \* what it will return, once that is decided
  moving,  \* a read whose bytes are taken and whose position is yet to move
  gone     \* the clients that have exited

vars == <<fd, file, pos, call, answer, moving, gone>>

Call == [op : {"open"}, slot : Slot, arg : File \cup {None}]
          \cup [op : {"read", "stat"}, on : Open, arg : Count]

Init ==
  /\ fd = [c \in Client |-> [s \in Slot |-> None]]
  /\ file = [o \in Open |-> None] /\ pos = [o \in Open |-> 0]
  /\ call = [c \in Client |-> None] /\ answer = [c \in Client |-> None]
  /\ moving = None /\ gone = {}

Held(table) == {o \in Open : \E c \in Client, s \in Slot : table[c][s] = o}

\* The descriptors become table; open files that nobody holds are forgotten.
Become(table) ==
  /\ fd' = table
  /\ file' = [o \in Open |-> IF o \in Held(table) THEN file[o] ELSE None]
  /\ pos' = [o \in Open |-> IF o \in Held(table) THEN pos[o] ELSE 0]
  /\ moving' = IF moving # None /\ moving.open \notin Held(table)
                 THEN None ELSE moving

\* A call names a descriptor the client has.
Begin(c) ==
  /\ c \notin gone /\ call[c] = None /\ call'[c] \in Call
  /\ call'[c].op # "open" => \E s \in Slot : fd[c][s] = call'[c].on
  /\ call' = [call EXCEPT ![c] = call'[c]]
  /\ UNCHANGED <<fd, file, pos, answer, moving, gone>>

Pending(c, op) == call[c] # None /\ call[c].op = op /\ answer[c] = None

\* An open file nobody had appears at the slot, at its beginning.
Opened(c) ==
  /\ c \notin gone /\ Pending(c, "open") /\ call[c].arg # None
  /\ fd[c][call[c].slot] = None
  /\ \E o \in Open \ Held(fd) :
       /\ fd' = [fd EXCEPT ![c][call[c].slot] = o]
       /\ file' = [file EXCEPT ![o] = call[c].arg]
       /\ UNCHANGED pos
  /\ UNCHANGED <<call, answer, moving, gone>>

Contents(o, n) ==
  [file |-> file[o], from |-> pos[o],
   len |-> IF pos[o] >= Size THEN 0
           ELSE IF pos[o] + n <= Size THEN n ELSE Size - pos[o]]

\* A read takes the bytes at the position of the open file, also when the client
\* has exited since, as long as someone has the file open ...
Taken(c) ==
  /\ Pending(c, "read") /\ moving = None /\ call[c].on \in Held(fd)
  /\ LET data == Contents(call[c].on, call[c].arg)
     IN /\ moving' = [client |-> c, open |-> call[c].on, len |-> data.len]
        /\ IF c \in gone
             THEN call' = [call EXCEPT ![c] = None] /\ UNCHANGED answer
             ELSE answer' = [answer EXCEPT ![c] = data] /\ UNCHANGED call
  /\ UNCHANGED <<fd, file, pos, gone>>

\* ... and moves it by what it took.
Moved ==
  /\ moving # None
  /\ pos' = [pos EXCEPT ![moving.open] = @ + moving.len]
  /\ moving' = None
  /\ UNCHANGED <<fd, file, call, answer, gone>>

Stat(c) ==
  /\ c \notin gone /\ Pending(c, "stat")
  /\ answer' = [answer EXCEPT ![c] =
                  [file |-> file[call[c].on], from |-> 0, len |-> 0]]
  /\ UNCHANGED <<fd, file, pos, call, moving, gone>>

\* Only an open may come back without having done what it was called for.
Return(c) ==
  /\ call[c] # None
  /\ call[c].op = "open" \/ answer[c] # None \/ c \in gone
  /\ moving # None => moving.client # c
  /\ call' = [call EXCEPT ![c] = None] /\ answer' = [answer EXCEPT ![c] = None]
  /\ UNCHANGED <<fd, file, pos, moving, gone>>

Seek(c, s, where) ==
  /\ call[c] = None /\ fd[c][s] # None
  /\ pos' = [pos EXCEPT ![fd[c][s]] = where]
  /\ UNCHANGED <<fd, file, call, answer, moving, gone>>

Close(c, s) ==
  /\ call[c] = None /\ fd[c][s] # None
  /\ Become([fd EXCEPT ![c][s] = None])
  /\ UNCHANGED <<call, answer, gone>>

\* dup (d = c) and fork.
Share(c, s, d, t) ==
  /\ call[c] = None /\ call[d] = None /\ d \notin gone
  /\ fd[c][s] # None /\ fd[d][t] = None
  /\ Become([fd EXCEPT ![d][t] = fd[c][s]])
  /\ UNCHANGED <<call, answer, gone>>

\* A call that has been made may still be carried out.
Exit(c) ==
  /\ c \notin gone /\ gone' = gone \cup {c}
  /\ Become([fd EXCEPT ![c] = [s \in Slot |-> None]])
  /\ \/ UNCHANGED call
     \/ call' = [call EXCEPT ![c] = None]
  /\ answer' = [answer EXCEPT ![c] = None]

Next ==
  \/ \E c \in Client : Begin(c) \/ Opened(c) \/ Taken(c) \/ Stat(c)
                       \/ Return(c) \/ Exit(c)
  \/ \E c \in Client, s \in Slot : \/ \E where \in Seeks : Seek(c, s, where)
                                   \/ Close(c, s)
  \/ \E c, d \in Client, s, t \in Slot : Share(c, s, d, t)
  \/ Moved

\* Most steps of an implementation change nothing here.
Spec == Init /\ [][UNCHANGED vars \/ Next]_vars
=============================================================================
