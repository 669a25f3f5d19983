------------------------------ MODULE NameServer -------------------------------
(***************************************************************************)
(* name_server.c: a process that accepts TCP connections and serves each   *)
(* in a detached thread.  A thread reads a login, registers the user in    *)
(* the shared list `users`, answers list and find until the connection     *)
(* ends, and unregisters.  userlist_mutex guards the list and is held      *)
(* while the lines of a reply are written to the socket.                   *)
(*                                                                         *)
(* A connection c stands for its client_info, its thread, its command      *)
(* stream and the one user_node the thread may create; the address and     *)
(* port of a user are those of its connection, so a reply names c.         *)
(***************************************************************************)
EXTENDS Integers, Sequences, FiniteSets

CONSTANTS
  Conns,      \* connections that clients may open
  Names,      \* usernames
  NoConn,     \* the NULL user_node, and the owner of a free mutex
  NoName,     \* the argument of a command without one
  Radix,      \* rio_writei's ten; smaller to give few users two digits
  SockBuf,    \* bound: lines a client leaves unread before a write blocks
  MaxLines,   \* bound: lines a client sends
  MaxFds      \* connections the descriptor table has room for

ASSUME ConstantsOK ==
  /\ NoConn \notin Conns
  /\ NoName \notin Names
  /\ Radix \in Nat \ {0, 1}
  /\ SockBuf \in Nat \ {0}
  /\ MaxLines \in Nat
  /\ MaxFds \in Nat

VARIABLES
  alive,        \* the process has not been terminated
  pc,           \* pc[c]: where the thread of c is
  mutex,        \* the thread that owns userlist_mutex, or NoConn
  users,        \* the linked list, from its head
  users_count,
  uname,        \* uname[c]: username field of the node of c
  arg,          \* arg[c]: the username argument of the command in hand
  cursor,       \* cursor[c]: the user_node a list or find has in hand
  reply,        \* reply[c]: lines written since the last command was read
  writefailed,  \* writefailed[c]: the local of that name
  cend,         \* cend[c]: the client's end of the connection
  inbox,        \* inbox[c]: the line sent and not yet read by the thread
  sent,         \* sent[c]: lines the client has sent
  unread        \* unread[c]: lines written and not yet read by the client

threadVars == <<pc, arg, cursor, reply, writefailed>>
listVars == <<users, users_count, uname>>
clientVars == <<cend, inbox, sent, unread>>
vars == <<alive, mutex, threadVars, listVars, clientVars>>

--------------------------------------------------------------------------------
\* Lines of the protocol.

\* A line a thread can read, by what it makes the thread do: "quit" is exit, a
\* blank line or a find without argument, which all end the session, and
\* "other" any unknown word or malformed login, which a session ignores.
Line ==
  [op : {"login", "find"}, name : Names] \cup
  [op : {"list", "quit", "other"}, name : {NoName}]
NoLine == [op |-> "none", name |-> NoName]

\* A line of a reply.
OnlineLine(n) == [tag |-> "online", n |-> n, name |-> NoName, who |-> NoConn]
UserLine(c) == [tag |-> "user", n |-> 0, name |-> uname[c], who |-> c]
NoUserLine == [tag |-> "no_user_found", n |-> 0, name |-> NoName, who |-> NoConn]
EndLine == [tag |-> "end", n |-> 0, name |-> NoName, who |-> NoConn]
ReplyLine ==
  [tag : {"online", "user", "no_user_found", "end"}, n : Nat,
   name : Names \cup {NoName}, who : Conns \cup {NoConn}]

\* What rio_writei returns when every write succeeds.  It returns !ok, and takes
\* what its recursive call returns, which is also a !ok, for an ok.  A write
\* that fails returns -1, and ok &= -1 leaves ok as it was.
rio_writei[val \in Nat] ==
  IF val < Radix THEN FALSE ELSE ~rio_writei[val \div Radix]

--------------------------------------------------------------------------------
\* The linked list.

Registered == {users[i] : i \in DOMAIN users}

\* Mutant: stops before the last node (user -> next != NULL).
findUserButLast(n) ==
  LET hits == {i \in 1 .. Len(users) - 1 : uname[users[i]] = n}
  IN  IF hits = {} THEN NoConn
      ELSE users[CHOOSE i \in hits : \A j \in hits : i <= j]

\* The first node from the head with that username, or NULL.
findUser(n) ==
  LET hits == {i \in DOMAIN users : uname[users[i]] = n}
  IN  IF hits = {} THEN NoConn
      ELSE users[CHOOSE i \in hits : \A j \in hits : i <= j]

head == IF users = <<>> THEN NoConn ELSE users[1]

\* user -> next, for a node of the list.
next(c) ==
  LET i == CHOOSE j \in DOMAIN users : users[j] = c
  IN  IF i = Len(users) THEN NoConn ELSE users[i + 1]

\* The list with the node of c unlinked.
unlink(c) ==
  LET i == CHOOSE j \in DOMAIN users : users[j] = c
  IN  SubSeq(users, 1, i - 1) \o SubSeq(users, i + 1, Len(users))

--------------------------------------------------------------------------------
\* Locations of a thread.

\* Blocked in pthread_mutex_lock, inside the critical section, writing a line.
Locking == {"create", "listLock", "findLock", "delete"}
Locked == {"listHead", "listUser", "findSend"}
Writing == {"listHead", "listUser", "listEnd", "findSend"}
\* Between createUser and deleteUser, and all locations.
Session == {"loop", "listLock", "listEnd", "findLock", "delete"} \cup Locked
Locations == Session \cup {"unborn", "first", "create", "close", "done"}

Goto(c, l) == pc' = [pc EXCEPT ![c] = l]
--------------------------------------------------------------------------------
\* The clients, through their sockets.

Connect(c) ==
  /\ cend[c] = "new"
  /\ cend' = [cend EXCEPT ![c] = "open"]
  /\ UNCHANGED <<alive, mutex, threadVars, listVars, inbox, sent, unread>>

\* The next line; the previous one has been read.
Send(c, line) ==
  /\ cend[c] = "open"
  /\ pc[c] # "done"
  /\ inbox[c] = NoLine
  /\ sent[c] < MaxLines
  /\ inbox' = [inbox EXCEPT ![c] = line]
  /\ sent' = [sent EXCEPT ![c] = @ + 1]
  /\ UNCHANGED <<alive, mutex, threadVars, listVars, cend, unread>>

Receive(c) ==
  /\ cend[c] = "open"
  /\ unread[c] > 0
  /\ unread' = [unread EXCEPT ![c] = @ - 1]
  /\ UNCHANGED <<alive, mutex, threadVars, listVars, cend, inbox, sent>>

\* The client closes its end, or dies, at any moment.
HangUp(c) ==
  /\ cend[c] = "open"
  /\ cend' = [cend EXCEPT ![c] = "gone"]
  /\ unread' = [unread EXCEPT ![c] = 0]
  /\ UNCHANGED <<alive, mutex, threadVars, listVars, inbox, sent>>

--------------------------------------------------------------------------------
\* main: the accept loop.

OpenFds == {c \in Conns : pc[c] \notin {"unborn", "done"}}

Accept(c) ==
  /\ alive
  /\ pc[c] = "unborn"
  /\ cend[c] # "new"
  /\ Cardinality(OpenFds) < MaxFds
  /\ Goto(c, "first")
  /\ UNCHANGED <<alive, mutex, arg, cursor, reply, writefailed, listVars, clientVars>>

\* Without a descriptor Accept fails, and unix_error exits the process.
AcceptFails(c) ==
  /\ alive
  /\ pc[c] = "unborn"
  /\ cend[c] # "new"
  /\ Cardinality(OpenFds) >= MaxFds
  /\ alive' = FALSE
  /\ UNCHANGED <<mutex, threadVars, listVars, clientVars>>

--------------------------------------------------------------------------------
\* A thread.

\* The first getCommand's result is not looked at: at end of file the line and
\* the position in it are uninitialised memory, which may hold any line.
ReadLogin(c) ==
  /\ alive
  /\ pc[c] = "first"
  /\ inbox[c] # NoLine \/ cend[c] = "gone"
  /\ \E line \in IF inbox[c] # NoLine THEN {inbox[c]} ELSE Line :
       /\ arg' = [arg EXCEPT ![c] = IF line.op = "login" THEN line.name ELSE NoName]
       /\ Goto(c, IF line.op = "login" THEN "create" ELSE "close")
  /\ inbox' = [inbox EXCEPT ![c] = NoLine]
  /\ UNCHANGED <<alive, mutex, cursor, reply, writefailed, listVars, cend, sent, unread>>

\* Mutant: users_count++ forgotten.
createUserUncounted(c) ==
  /\ alive
  /\ pc[c] = "create"
  /\ mutex = NoConn
  /\ IF findUser(arg[c]) # NoConn
     THEN /\ Goto(c, "close")
          /\ UNCHANGED listVars
     ELSE /\ Goto(c, "loop")
          /\ users' = <<c>> \o users
          /\ uname' = [uname EXCEPT ![c] = arg[c]]
          /\ UNCHANGED users_count
  /\ arg' = [arg EXCEPT ![c] = NoName]
  /\ UNCHANGED <<alive, mutex, cursor, reply, writefailed, clientVars>>

\* Mutant: returns NULL without unlocking.
createUserKeepsLock(c) ==
  /\ alive
  /\ pc[c] = "create"
  /\ mutex = NoConn
  /\ IF findUser(arg[c]) # NoConn
     THEN /\ Goto(c, "close")
          /\ mutex' = c
          /\ UNCHANGED listVars
     ELSE /\ Goto(c, "loop")
          /\ users' = <<c>> \o users
          /\ users_count' = users_count + 1
          /\ uname' = [uname EXCEPT ![c] = arg[c]]
          /\ UNCHANGED mutex
  /\ arg' = [arg EXCEPT ![c] = NoName]
  /\ UNCHANGED <<alive, cursor, reply, writefailed, clientVars>>

\* Lock, look the name up, link a new node at the head, unlock.
createUser(c) ==
  /\ alive
  /\ pc[c] = "create"
  /\ mutex = NoConn
  /\ IF findUser(arg[c]) # NoConn
     THEN /\ Goto(c, "close")
          /\ UNCHANGED listVars
     ELSE /\ Goto(c, "loop")
          /\ users' = <<c>> \o users
          /\ users_count' = users_count + 1
          /\ uname' = [uname EXCEPT ![c] = arg[c]]
  /\ arg' = [arg EXCEPT ![c] = NoName]
  /\ UNCHANGED <<alive, mutex, cursor, reply, writefailed, clientVars>>

ReadCommand(c) ==
  /\ alive
  /\ pc[c] = "loop"
  /\ inbox[c] # NoLine
  /\ arg' = [arg EXCEPT ![c] = IF inbox[c].op = "find" THEN inbox[c].name ELSE NoName]
  /\ inbox' = [inbox EXCEPT ![c] = NoLine]
  /\ reply' = [reply EXCEPT ![c] = <<>>]
  /\ writefailed' = [writefailed EXCEPT ![c] = FALSE]
  /\ Goto(c, CASE inbox[c].op = "list" -> "listLock"
               [] inbox[c].op = "find" -> "findLock"
               [] inbox[c].op = "quit" -> "delete"
               [] OTHER -> "loop")
  /\ UNCHANGED <<alive, mutex, cursor, listVars, cend, sent, unread>>

\* Mutant: at end of file the thread returns without deleteUser.
EndOfFileForgets(c) ==
  /\ alive
  /\ pc[c] = "loop"
  /\ inbox[c] = NoLine
  /\ cend[c] = "gone"
  /\ Goto(c, "close")
  /\ UNCHANGED <<alive, mutex, arg, cursor, reply, writefailed, listVars, clientVars>>

EndOfFile(c) ==
  /\ alive
  /\ pc[c] = "loop"
  /\ inbox[c] = NoLine
  /\ cend[c] = "gone"
  /\ Goto(c, "delete")
  /\ UNCHANGED <<alive, mutex, arg, cursor, reply, writefailed, listVars, clientVars>>

\* rio_writen of one line, which blocks while the client's buffer is full.  To a
\* client that is gone it may succeed or fail; err is a failure reported anyhow.
Write(c, line, err) ==
  /\ cend[c] = "gone" \/ unread[c] < SockBuf
  /\ reply' = [reply EXCEPT ![c] = Append(@, line)]
  /\ unread' = [unread EXCEPT ![c] = IF cend[c] = "gone" THEN @ ELSE @ + 1]
  /\ \E e \in IF cend[c] = "gone" THEN BOOLEAN ELSE {FALSE} :
       writefailed' = [writefailed EXCEPT ![c] = @ \/ e \/ err]

\* SIGPIPE is not ignored: a write to a connection that was reset may end the
\* whole process instead of failing.  So may the login line that was never read:
\* the position in it may lie anywhere.
Dies(c) ==
  /\ alive
  /\ pc[c] \in Writing \/ (pc[c] = "first" /\ inbox[c] = NoLine)
  /\ cend[c] = "gone"
  /\ alive' = FALSE
  /\ UNCHANGED <<mutex, threadVars, listVars, clientVars>>

ListLock(c) ==
  /\ alive
  /\ pc[c] = "listLock"
  /\ mutex = NoConn
  /\ mutex' = c
  /\ Goto(c, "listHead")
  /\ UNCHANGED <<alive, arg, cursor, reply, writefailed, listVars, clientVars>>

ListHead(c) ==
  /\ alive
  /\ pc[c] = "listHead"
  /\ Write(c, OnlineLine(users_count), rio_writei[users_count])
  /\ cursor' = [cursor EXCEPT ![c] = head]
  /\ Goto(c, "listUser")
  /\ UNCHANGED <<alive, mutex, arg, listVars, cend, inbox, sent>>

\* Mutant: next taken twice.
ListUserSkips(c) ==
  /\ alive
  /\ pc[c] = "listUser"
  /\ cursor[c] # NoConn
  /\ Write(c, UserLine(cursor[c]), FALSE)
  /\ cursor' = [cursor EXCEPT ![c] =
                  IF next(cursor[c]) = NoConn THEN NoConn ELSE next(next(cursor[c]))]
  /\ UNCHANGED <<alive, mutex, pc, arg, listVars, cend, inbox, sent>>

ListUser(c) ==
  /\ alive
  /\ pc[c] = "listUser"
  /\ cursor[c] # NoConn
  /\ Write(c, UserLine(cursor[c]), FALSE)
  /\ cursor' = [cursor EXCEPT ![c] = next(cursor[c])]
  /\ UNCHANGED <<alive, mutex, pc, arg, listVars, cend, inbox, sent>>

\* Mutant: the unlock is left to the code after the reply, which has none.
ListUnlockForgotten(c) ==
  /\ alive
  /\ pc[c] = "listUser"
  /\ cursor[c] = NoConn
  /\ Goto(c, "listEnd")
  /\ UNCHANGED <<alive, mutex, arg, cursor, reply, writefailed, listVars, clientVars>>

ListUnlock(c) ==
  /\ alive
  /\ pc[c] = "listUser"
  /\ cursor[c] = NoConn
  /\ mutex' = NoConn
  /\ Goto(c, "listEnd")
  /\ UNCHANGED <<alive, arg, cursor, reply, writefailed, listVars, clientVars>>

\* After a reply: the session goes on unless a write is taken to have failed.
AfterReply(c) == Goto(c, IF writefailed'[c] THEN "delete" ELSE "loop")

ListEnd(c) ==
  /\ alive
  /\ pc[c] = "listEnd"
  /\ Write(c, EndLine, FALSE)
  /\ AfterReply(c)
  /\ UNCHANGED <<alive, mutex, arg, cursor, listVars, cend, inbox, sent>>

\* Mutant: only findUser locks, so that the lock is free again before the reply.
FindLockReleases(c) ==
  /\ alive
  /\ pc[c] = "findLock"
  /\ mutex = NoConn
  /\ cursor' = [cursor EXCEPT ![c] = findUser(arg[c])]
  /\ Goto(c, "findSend")
  /\ UNCHANGED <<alive, mutex, arg, reply, writefailed, listVars, clientVars>>

FindLock(c) ==
  /\ alive
  /\ pc[c] = "findLock"
  /\ mutex = NoConn
  /\ mutex' = c
  /\ cursor' = [cursor EXCEPT ![c] = findUser(arg[c])]
  /\ Goto(c, "findSend")
  /\ UNCHANGED <<alive, arg, reply, writefailed, listVars, clientVars>>

FindSend(c) ==
  /\ alive
  /\ pc[c] = "findSend"
  /\ Write(c, IF cursor[c] = NoConn THEN NoUserLine ELSE UserLine(cursor[c]), FALSE)
  /\ mutex' = NoConn
  /\ arg' = [arg EXCEPT ![c] = NoName]
  /\ cursor' = [cursor EXCEPT ![c] = NoConn]
  /\ AfterReply(c)
  /\ UNCHANGED <<alive, listVars, cend, inbox, sent>>

\* Mutant: unlinks and frees without the lock.
deleteUserUnlocked(c) ==
  /\ alive
  /\ pc[c] = "delete"
  /\ users' = unlink(c)
  /\ users_count' = users_count - 1
  /\ uname' = [uname EXCEPT ![c] = NoName]
  /\ Goto(c, "close")
  /\ UNCHANGED <<alive, mutex, arg, cursor, reply, writefailed, clientVars>>

\* Lock, unlink the node, free it, unlock.
deleteUser(c) ==
  /\ alive
  /\ pc[c] = "delete"
  /\ mutex = NoConn
  /\ users' = unlink(c)
  /\ users_count' = users_count - 1
  /\ uname' = [uname EXCEPT ![c] = NoName]
  /\ Goto(c, "close")
  /\ UNCHANGED <<alive, mutex, arg, cursor, reply, writefailed, clientVars>>

\* Close the socket, free the stream and the client_info, exit the thread.
cleanThread(c) ==
  /\ alive
  /\ pc[c] = "close"
  /\ Goto(c, "done")
  /\ inbox' = [inbox EXCEPT ![c] = NoLine]
  /\ UNCHANGED <<alive, mutex, arg, cursor, reply, writefailed, listVars, cend, sent, unread>>

--------------------------------------------------------------------------------
Init ==
  /\ alive = TRUE
  /\ pc = [c \in Conns |-> "unborn"]
  /\ mutex = NoConn
  /\ users = <<>>
  /\ users_count = 0
  /\ uname = [c \in Conns |-> NoName]
  /\ arg = [c \in Conns |-> NoName]
  /\ cursor = [c \in Conns |-> NoConn]
  /\ reply = [c \in Conns |-> <<>>]
  /\ writefailed = [c \in Conns |-> FALSE]
  /\ cend = [c \in Conns |-> "new"]
  /\ inbox = [c \in Conns |-> NoLine]
  /\ sent = [c \in Conns |-> 0]
  /\ unread = [c \in Conns |-> 0]

Client(c) ==
  \/ Connect(c)
  \/ \E line \in Line : Send(c, line)
  \/ Receive(c)
  \/ HangUp(c)

Thread(c) ==
  \/ ReadLogin(c)
  \/ createUser(c)
  \/ ReadCommand(c)
  \/ EndOfFile(c)
  \/ ListLock(c)
  \/ ListHead(c)
  \/ ListUser(c)
  \/ ListUnlock(c)
  \/ ListEnd(c)
  \/ FindLock(c)
  \/ FindSend(c)
  \/ deleteUser(c)
  \/ cleanThread(c)

Next ==
  \E c \in Conns :
    \/ Client(c)
    \/ Accept(c)
    \/ AcceptFails(c)
    \/ Thread(c)
    \/ Dies(c)

Spec == Init /\ [][Next]_vars

\* The threads run, and main accepts.  Receive is what peer.c does: its list and
\* find read a reply up to its last line.  Clients send finitely many lines, so
\* weak fairness is enough for userlist_mutex, which promises no order.
Fairness ==
  \A c \in Conns :
    /\ WF_vars(Thread(c))
    /\ WF_vars(Accept(c) \/ AcceptFails(c))
    /\ WF_vars(Receive(c))

FairSpec == Spec /\ Fairness

--------------------------------------------------------------------------------
\* Properties.

\* Every variable has its type.
TypeOK ==
  /\ alive \in BOOLEAN
  /\ pc \in [Conns -> Locations]
  /\ mutex \in Conns \cup {NoConn}
  /\ users \in Seq(Conns)
  /\ users_count \in Nat
  /\ uname \in [Conns -> Names \cup {NoName}]
  /\ arg \in [Conns -> Names \cup {NoName}]
  /\ cursor \in [Conns -> Conns \cup {NoConn}]
  /\ reply \in [Conns -> Seq(ReplyLine)]
  /\ writefailed \in [Conns -> BOOLEAN]
  /\ cend \in [Conns -> {"new", "open", "gone"}]
  /\ inbox \in [Conns -> Line \cup {NoLine}]
  /\ sent \in [Conns -> 0 .. MaxLines]
  /\ unread \in [Conns -> 0 .. SockBuf]

\* userlist_mutex is owned exactly while its owner is inside list or find: every
\* path through the locked regions of thread() unlocks once.
MutexInv == \A c \in Conns : pc[c] \in Locked <=> mutex = c

\* However logins of one name race, the list never holds a name twice.
UniqueNames ==
  \A i, j \in DOMAIN users : i # j => uname[users[i]] # uname[users[j]]

\* The list holds the nodes of the threads between createUser and deleteUser, no
\* node that was freed, and users_count, which a list prints, is its length.
RegistryOwned ==
  /\ Registered = {c \in Conns : pc[c] \in Session}
  /\ users_count = Len(users)
  /\ \A c \in Registered : uname[c] \in Names

\* A thread that writes user lines never has a freed node in hand: what the loop
\* of list and the result of find point to is still in the list.
CursorLive ==
  \A c \in Conns :
    pc[c] \in {"listUser", "findSend"} => cursor[c] \in Registered \cup {NoConn}

\* What c has written of a list is the count and the users of the list as it is
\* now, up to the node in hand.
Walked(c) ==
  LET r == reply[c] IN
  /\ Len(r) \in 1 .. Len(users) + 1
  /\ r[1] = OnlineLine(Len(users))
  /\ \A i \in 2 .. Len(r) : r[i] = UserLine(users[i - 1])
  /\ cursor[c] = IF Len(r) <= Len(users) THEN users[Len(r)] ELSE NoConn

\* Nothing changes the list under a thread that walks it line by line, and what
\* find found is still what it would find.
Snapshot ==
  \A c \in Conns :
    /\ pc[c] \in {"listLock", "listHead", "findLock", "findSend"} => reply[c] = <<>>
    /\ pc[c] = "listUser" => Walked(c)
    /\ pc[c] = "findSend" => cursor[c] = findUser(arg[c])

\* A list about to be ended, with the lock already released, announced as many
\* users as it has user lines, names nobody twice and names its reader: what
\* findAllUsers in peer.c prints as it comes, without a count of its own.
ListCoherent ==
  \A c \in Conns : pc[c] = "listEnd" =>
    LET r == reply[c] IN
    /\ r # <<>>
    /\ r[1] = OnlineLine(Len(r) - 1)
    /\ \A i \in 2 .. Len(r) : r[i].tag = "user"
    /\ \A i, j \in 2 .. Len(r) : i # j => r[i].name # r[j].name
    /\ \E i \in 2 .. Len(r) : r[i].who = c

\* What was written to c since its last command, once the reply is complete.
Told(c) ==
  LET r == reply[c]
      found == {<<r[i].name, r[i].who>> : i \in {j \in DOMAIN r : r[j].tag = "user"}}
  IN  IF r = <<>> \/ pc[c] \in {"listLock", "listHead", "listUser", "findLock", "findSend"}
      THEN [about |-> "nothing", users |-> {}]
      ELSE [about |-> IF r[1].tag = "online" THEN "all" ELSE "one", users |-> found]

Dir == INSTANCE Directory
         WITH dir <- [n \in Names |-> findUser(n)], answer <- [c \in Conns |-> Told(c)]

\* The server implements Directory: each login, logout, find and list is one
\* step of it, the list seen by its reader being the directory at one moment
\* although it was written line by line while others came and went.
ImplementsDirectory == Dir!Spec

\* A connection whose client is gone is in the end unregistered and closed,
\* unless the process ends: no thread stays behind a mutex or in a write.
GoneIsForgotten ==
  \A c \in Conns : cend[c] = "gone" ~> (pc[c] = "done" \/ ~alive)

\* A thread at a lock or in the middle of a reply gets on: no thread keeps
\* userlist_mutex, whatever the other clients do, as long as they read.
RepliesEnd ==
  \A c \in Conns :
    pc[c] \in Locking \cup Writing ~> (pc[c] \in {"loop", "close"} \/ ~alive)

\* The message "writing failed" and the end of the session that follows it are
\* for clients to which a write failed, so for clients that went away.
OnlyFailedWritesEndSessions ==
  \A c \in Conns : writefailed[c] => cend[c] = "gone"
================================================================================
