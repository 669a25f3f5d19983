----------------------------- MODULE MessageServer -----------------------------
(***************************************************************************)
(* message_server.c, with the parts of peer.c that call it, in one peer    *)
(* process: the main thread runs the user's commands, receiverThread       *)
(* accepts connections, and a messageReceiverThread per connection stores  *)
(* what the other peer says.  They share the list `senders`, the array     *)
(* `messages` and the array `messageThreads`, each with a mutex.           *)
(*                                                                         *)
(* A connection c stands for its peer_info, its thread and the one         *)
(* peer_node made for it, which is allocated exactly while it is linked.   *)
(* threadlist_mutex has no variable: its critical sections neither block   *)
(* nor take another mutex, so each is one step.                            *)
(***************************************************************************)
EXTENDS Integers, Sequences, FiniteSets

CONSTANTS
  Conns,              \* connections to other peers
  Names,              \* usernames
  Main,               \* the main thread
  NoConn,             \* the NULL peer_node, and the owner of a free mutex
  NoName,             \* the argument of a line without one
  MAX_MESSAGE_COUNT,  \* length of messages
  MAX_THREADS,        \* length of messageThreads
  MaxLines            \* bound: lines read from a connection

ASSUME ConstantsOK ==
  /\ IsFiniteSet(Conns)
  /\ NoConn \notin Conns
  /\ Main \notin Conns \cup {NoConn}
  /\ NoName \notin Names
  /\ MAX_MESSAGE_COUNT \in Nat
  /\ MAX_THREADS \in Nat
  /\ MaxLines \in Nat \ {0}

\* messageThreads is written without a look at its length: what more threads
\* than that would overwrite is not modelled.
ASSUME ThreadsFit == Cardinality(Conns) <= MAX_THREADS

VARIABLES
  alive,           \* the process has not ended
  loggedIn,
  listener,        \* receiverThread: "off", "accepting", "cancelled"
  mpc,             \* where the main thread is
  mgoal,           \* the command it runs: "msg" or "show"
  mname,           \* the username in the command
  mnode,           \* the peer_node it has in hand
  mconn,           \* the connection it is making
  tpc,             \* tpc[c]: where the messageReceiverThread of c is
  arg,             \* arg[c]: the username in the connect line of c
  cancelled,       \* connections whose thread has a cancellation pending
  messageThreads,  \* the registered threads, [0 .. threadCount - 1]
  senders,         \* the linked list, from its head
  uname,           \* uname[c]: username field of the node of c
  messages,        \* [0 .. messageCount - 1]
  senderlist,      \* the owner of senderlist_mutex
  messagelist,     \* the owner of messagelist_mutex
  cend,            \* cend[c]: the other end: "new", "open", "gone"
  nread            \* nread[c]: lines read from c

sessionVars == <<alive, loggedIn, listener>>
askedVars == <<mgoal, mname, mconn>>
commandVars == <<askedVars, mnode>>
ownVars == <<arg, cancelled>>
listVars == <<senders, uname>>
peerVars == <<cend, nread>>
vars == <<sessionVars, mpc, commandVars, tpc, ownVars, messageThreads, listVars, messages,
          senderlist, messagelist, peerVars>>

--------------------------------------------------------------------------------
\* A stored message: its sender and which of its sender's lines it was.
Message == [sender : Conns, line : 1 .. MaxLines]

\* The list and the arrays.
Linked == {senders[i] : i \in DOMAIN senders}
Stored == {messages[i] : i \in DOMAIN messages}
Running == {messageThreads[i] : i \in DOMAIN messageThreads}

lookupUser(n) ==
  LET hits == {i \in DOMAIN senders : uname[senders[i]] = n}
  IN  IF hits = {} THEN NoConn
      ELSE senders[CHOOSE i \in hits : \A j \in hits : i <= j]

\* s without its element c.
Without(s, c) ==
  LET i == CHOOSE j \in DOMAIN s : s[j] = c
  IN  SubSeq(s, 1, i - 1) \o SubSeq(s, i + 1, Len(s))

\* Mutant: a hole is filled with any later message.
flushReorders(node) ==
  LET keep == {i \in DOMAIN messages : node # NoConn /\ messages[i].sender # node} IN
  \E at \in [1 .. Cardinality(keep) -> keep] :
    /\ \A i \in keep : \E j \in DOMAIN at : at[j] = i
    /\ messages' = [j \in DOMAIN at |-> messages[at[j]]]

\* Mutant: the count is reset whatever was kept.
flushForgetsAll(node) == messages' = <<>>

\* The loop of flushMessageFrom, for a node or for NULL: the messages at the
\* indices to keep move down in their order; at[j] is where the j-th was.
flushMessageFrom(node) ==
  LET keep == {i \in DOMAIN messages : node # NoConn /\ messages[i].sender # node} IN
  \E n \in 0 .. Len(messages) : \E at \in [1 .. n -> keep] :
    /\ \A j, k \in 1 .. n : j < k => at[j] < at[k]
    /\ \A i \in keep : \E j \in 1 .. n : at[j] = i
    /\ messages' = [j \in 1 .. n |-> messages[at[j]]]

\* messagelist_mutex is recursive: its owner gets it again.
MessagesFree(t) == messagelist \in {NoConn, t}

\* A thread keeps messagelist_mutex beyond a step only when storeMessage has
\* returned without unlocking it.
Leaked == messagelist \in Conns

\* Locations of a thread: registered in messageThreads, all.
Registered == {"first", "add", "loop", "store", "clean"}
Locations ==
  Registered \cup {"none", "start", "delete", "flush", "unlink", "close", "done", "dialled"}
MainLocations == {"idle", "lookup", "find", "dial", "add", "sayLock", "say", "flushLock", "flush"}

\* The thread of c, and the main thread, go from one location to another.
Advance(c, from, to) ==
  /\ alive
  /\ tpc[c] = from
  /\ tpc' = [tpc EXCEPT ![c] = to]
  /\ UNCHANGED <<sessionVars, mpc, askedVars>>

Goto(c, from, to) == Advance(c, from, to) /\ UNCHANGED mnode

GotoMain(from, to) ==
  /\ alive
  /\ mpc = from
  /\ mpc' = to
  /\ UNCHANGED <<alive, ownVars, messageThreads>>

\* The process ends, by exit, a signal or a fault.
Die ==
  /\ alive
  /\ alive' = FALSE
  /\ UNCHANGED <<loggedIn, listener, mpc, commandVars, tpc, ownVars, messageThreads, listVars,
                 messages, senderlist, messagelist, peerVars>>

--------------------------------------------------------------------------------
\* The other peers.  A line is sent, and what it says is chosen, when it is read;
\* it may have been sent before the other end hung up.

HangUp(c) ==
  /\ alive
  /\ cend[c] = "open"
  /\ cend' = [cend EXCEPT ![c] = "gone"]
  /\ UNCHANGED <<sessionVars, mpc, commandVars, tpc, ownVars, messageThreads, listVars,
                 messages, senderlist, messagelist, nread>>

\* getCommand.
Consume(c) ==
  /\ nread[c] < MaxLines
  /\ nread' = [nread EXCEPT ![c] = @ + 1]
  /\ UNCHANGED cend

--------------------------------------------------------------------------------
\* receiverThread.

\* A peer connects, and Accept starts a thread without a node for it.
Accept(c) ==
  /\ listener = "accepting"
  /\ Goto(c, "none", "start")
  /\ cend' = [cend EXCEPT ![c] = "open"]
  /\ UNCHANGED <<ownVars, messageThreads, listVars, messages, senderlist, messagelist, nread>>

\* Cancelled in Accept, it cancels the threads registered so far and closes the
\* listening socket.
destroyThreads ==
  /\ alive
  /\ listener = "cancelled"
  /\ listener' = "off"
  /\ cancelled' = cancelled \cup Running
  /\ UNCHANGED <<alive, loggedIn, mpc, commandVars, tpc, arg, messageThreads, listVars,
                 messages, senderlist, messagelist, peerVars>>

--------------------------------------------------------------------------------
\* messageReceiverThread.

\* The node is there already if connectToUser made the connection.
Register(c) ==
  /\ Goto(c, "start", IF c \in Linked THEN "loop" ELSE "first")
  /\ messageThreads' = Append(messageThreads, c)
  /\ UNCHANGED <<ownVars, listVars, messages, senderlist, messagelist, peerVars>>

\* The first line: "connect" with a username, or anything else.  getCommand's
\* result is not looked at: at the end of file the line and the position in it
\* are uninitialised memory, which may hold any line or end the process.
ReadConnect(c) ==
  /\ \/ /\ Goto(c, "first", "add")
        /\ \E n \in Names : arg' = [arg EXCEPT ![c] = n]
     \/ /\ Goto(c, "first", "clean")
        /\ UNCHANGED arg
  /\ Consume(c)
  /\ UNCHANGED <<cancelled, messageThreads, listVars, messages, senderlist, messagelist>>

ReadNothing(c) ==
  /\ tpc[c] = "first"
  /\ cend[c] = "gone"
  /\ Die

\* The new node of c is linked at the head.
Link(c, n) ==
  /\ senders' = <<c>> \o senders
  /\ uname' = [uname EXCEPT ![c] = n]

\* malloc may give the new node of c the memory of a freed one that main still
\* has in hand: main's pointer is then one to the node of c.
MayRecycle(c) ==
  \/ UNCHANGED mnode
  \/ mnode \notin Linked \cup {NoConn} /\ mnode' = c

\* Mutant: a user is added without a look for it.
addSenderUnchecked(c) ==
  /\ senderlist = NoConn
  /\ Advance(c, "add", "loop")
  /\ MayRecycle(c)
  /\ Link(c, arg[c])
  /\ arg' = [arg EXCEPT ![c] = NoName]
  /\ UNCHANGED <<cancelled, messageThreads, messages, senderlist, messagelist, peerVars>>

addSender(c) ==
  /\ senderlist = NoConn
  /\ IF lookupUser(arg[c]) # NoConn
     THEN Goto(c, "add", "clean") /\ UNCHANGED listVars
     ELSE Advance(c, "add", "loop") /\ MayRecycle(c) /\ Link(c, arg[c])
  /\ arg' = [arg EXCEPT ![c] = NoName]
  /\ UNCHANGED <<cancelled, messageThreads, messages, senderlist, messagelist, peerVars>>

\* A blank line ends the session.  Anything with an argument is stored, whatever
\* its first word.  A bare word leaves the message pointer uninitialised: strdup
\* of it finds a text or ends the process.
ReadMessage(c) ==
  /\ Goto(c, "loop", "store") \/ Goto(c, "loop", "clean")
  /\ Consume(c)
  /\ UNCHANGED <<ownVars, messageThreads, listVars, messages, senderlist, messagelist>>

ReadBareWord(c) ==
  /\ tpc[c] = "loop"
  /\ nread[c] < MaxLines
  /\ Die

\* Mutant: > for >=.
storeMessageOneMore(c) ==
  /\ Goto(c, "store", "loop")
  /\ MessagesFree(c)
  /\ IF Len(messages) > MAX_MESSAGE_COUNT
     THEN messagelist' = c /\ UNCHANGED messages
     ELSE /\ messages' = Append(messages, [sender |-> c, line |-> nread[c]])
          /\ UNCHANGED messagelist
  /\ UNCHANGED <<ownVars, messageThreads, listVars, senderlist, peerVars>>

\* When the array is full storeMessage returns without unlocking.
storeMessage(c) ==
  /\ Goto(c, "store", "loop")
  /\ MessagesFree(c)
  /\ IF Len(messages) >= MAX_MESSAGE_COUNT
     THEN messagelist' = c /\ UNCHANGED messages
     ELSE /\ messages' = Append(messages, [sender |-> c, line |-> nread[c]])
          /\ UNCHANGED messagelist
  /\ UNCHANGED <<ownVars, messageThreads, listVars, senderlist, peerVars>>

\* The end of the connection, or a cancellation, which a thread takes where it
\* waits for a line; either way the destructor of the key runs.
EndOfFile(c) ==
  /\ cend[c] = "gone"
  /\ Goto(c, "loop", "clean")
  /\ UNCHANGED <<ownVars, messageThreads, listVars, messages, senderlist, messagelist, peerVars>>

Cancelled(c) ==
  /\ c \in cancelled
  /\ Goto(c, "first", "clean") \/ Goto(c, "loop", "clean")
  /\ UNCHANGED <<ownVars, messageThreads, listVars, messages, senderlist, messagelist, peerVars>>

\* Mutant: threadCount goes down and nothing moves.
cleanKeepsOrder(c) ==
  /\ c \in Running
  /\ Goto(c, "clean", IF c \in Linked THEN "delete" ELSE "close")
  /\ messageThreads' = SubSeq(messageThreads, 1, Len(messageThreads) - 1)
  /\ UNCHANGED <<ownVars, listVars, messages, senderlist, messagelist, peerVars>>

\* Mutant: the node is not looked for.
cleanForgetsNode(c) ==
  /\ c \in Running
  /\ Goto(c, "clean", "close")
  /\ messageThreads' = Without(messageThreads, c)
  /\ UNCHANGED <<ownVars, listVars, messages, senderlist, messagelist, peerVars>>

\* A thread that does not find itself in messageThreads exits the process.
cleanReceiverThread(c) ==
  /\ tpc[c] = "clean"
  /\ IF c \in Running
     THEN /\ Goto(c, "clean", IF c \in Linked THEN "delete" ELSE "close")
          /\ messageThreads' = Without(messageThreads, c)
          /\ UNCHANGED <<ownVars, listVars, messages, senderlist, messagelist, peerVars>>
     ELSE Die

\* Mutant: deleteSender does not flush.
DeleteUnflushed(c) ==
  /\ senderlist = NoConn
  /\ Goto(c, "delete", "unlink")
  /\ senderlist' = c
  /\ UNCHANGED <<ownVars, messageThreads, listVars, messages, messagelist, peerVars>>

\* deleteSender: lock the list, flush the sender's messages, unlink and free the
\* node, unlock.
DeleteLock(c) ==
  /\ senderlist = NoConn
  /\ Goto(c, "delete", "flush")
  /\ senderlist' = c
  /\ UNCHANGED <<ownVars, messageThreads, listVars, messages, messagelist, peerVars>>

DeleteFlush(c) ==
  /\ MessagesFree(c)
  /\ Goto(c, "flush", "unlink")
  /\ flushMessageFrom(c)
  /\ UNCHANGED <<ownVars, messageThreads, listVars, senderlist, messagelist, peerVars>>

\* Mutant: deleteSender does not unlock.
DeleteKeepsLock(c) ==
  /\ Goto(c, "unlink", "close")
  /\ senders' = Without(senders, c)
  /\ uname' = [uname EXCEPT ![c] = NoName]
  /\ UNCHANGED <<ownVars, messageThreads, messages, senderlist, messagelist, peerVars>>

DeleteUnlink(c) ==
  /\ Goto(c, "unlink", "close")
  /\ senders' = Without(senders, c)
  /\ uname' = [uname EXCEPT ![c] = NoName]
  /\ senderlist' = NoConn
  /\ UNCHANGED <<ownVars, messageThreads, messages, messagelist, peerVars>>

\* The rest of the destructor: close the socket, free, exit the thread.
CloseThread(c) ==
  /\ Goto(c, "close", "done")
  /\ cancelled' = cancelled \ {c}
  /\ cend' = [cend EXCEPT ![c] = "gone"]
  /\ nread' = [nread EXCEPT ![c] = 0]
  /\ UNCHANGED <<arg, messageThreads, listVars, messages, senderlist, messagelist>>

--------------------------------------------------------------------------------
\* The main thread.

\* connectClient.  A login on another port while the receiverThread of an earlier
\* one is still closing down is not modelled.
Login ==
  /\ ~loggedIn /\ listener = "off"
  /\ GotoMain("idle", "idle")
  /\ loggedIn' = TRUE
  /\ listener' = "accepting"
  /\ UNCHANGED <<commandVars, tpc, listVars, messages, senderlist, messagelist, peerVars>>

\* No name server to connect to, or the port still bound by an earlier login:
\* Open_clientfd and Open_listenfd exit the process.
LoginFails == mpc = "idle" /\ ~loggedIn /\ Die

\* What logoutUser changes: pthread_cancel(tid).
logoutUser ==
  /\ loggedIn' = FALSE
  /\ listener' = IF listener = "accepting" THEN "cancelled" ELSE listener

Logout ==
  /\ loggedIn
  /\ GotoMain("idle", "idle")
  /\ logoutUser
  /\ UNCHANGED <<commandVars, tpc, listVars, messages, senderlist, messagelist, peerVars>>

\* /exit, the end of the input, or the SIGPIPE that logoutUser's "exit" may raise
\* when the name server has closed the connection.
Exit == mpc = "idle" /\ Die

\* /msg n text, /show n.
Command(goal, n) ==
  /\ GotoMain("idle", "lookup")
  /\ mgoal' = goal
  /\ mname' = n
  /\ UNCHANGED <<loggedIn, listener, mnode, mconn, tpc, listVars, messages, senderlist,
                 messagelist, peerVars>>

\* /show.
ShowAll ==
  /\ GotoMain("idle", "flushLock")
  /\ UNCHANGED <<loggedIn, listener, commandVars, tpc, listVars, messages, senderlist,
                 messagelist, peerVars>>

\* What main does with the result of getUser: msg gives up on NULL, show goes on.
Got(from, node) ==
  LET to == CASE mgoal = "show" -> "flushLock"
              [] mgoal = "msg" /\ node # NoConn -> "sayLock"
              [] OTHER -> "idle"
  IN  /\ GotoMain(from, to)
      /\ mnode' = node
      /\ mgoal' = "none"
      /\ mname' = IF to = "idle" THEN NoName ELSE mname

\* getUser.  Without a login connectToUser returns NULL at once.
Lookup ==
  /\ senderlist = NoConn
  /\ IF lookupUser(mname) # NoConn \/ ~loggedIn
     THEN Got("lookup", lookupUser(mname))
     ELSE GotoMain("lookup", "find") /\ UNCHANGED <<mnode, mgoal, mname>>
  /\ UNCHANGED <<loggedIn, listener, mconn, tpc, listVars, messages, senderlist, messagelist,
                 peerVars>>

\* The name server knows the user, does not, or the connection to it is lost.
Find ==
  /\ \/ GotoMain("find", "dial") /\ UNCHANGED <<mnode, mgoal, mname, loggedIn, listener>>
     \/ Got("find", NoConn) /\ UNCHANGED <<loggedIn, listener>>
     \/ Got("find", NoConn) /\ logoutUser
  /\ UNCHANGED <<mconn, tpc, listVars, messages, senderlist, messagelist, peerVars>>

\* The name server has closed the connection, and the second write of "find <n>", or
\* the "exit" of logoutUser, raises SIGPIPE.
FindFails == mpc = "find" /\ Die

\* Open_clientfd and Rio_writen exit the process when they fail.
Dial(c) ==
  /\ GotoMain("dial", "add")
  /\ tpc[c] = "none"
  /\ tpc' = [tpc EXCEPT ![c] = "dialled"]
  /\ mconn' = c
  /\ cend' = [cend EXCEPT ![c] = "open"]
  /\ UNCHANGED <<loggedIn, listener, mgoal, mname, mnode, listVars, messages, senderlist,
                 messagelist, nread>>

DialFails == mpc = "dial" /\ Die

\* addSender, and the thread for the new node.  When another thread has added
\* the user in the meantime the connection stays open with nobody to close it.
AddSender ==
  /\ senderlist = NoConn
  /\ IF lookupUser(mname) # NoConn
     THEN Got("add", NoConn) /\ UNCHANGED <<tpc, listVars>>
     ELSE /\ Got("add", mconn)
          /\ tpc' = [tpc EXCEPT ![mconn] = "start"]
          /\ Link(mconn, mname)
  /\ mconn' = NoConn
  /\ UNCHANGED <<loggedIn, listener, messages, senderlist, messagelist, peerVars>>

\* The main loop forgets the command and the node it had in hand.
EndCommand ==
  /\ mname' = NoName
  /\ mnode' = NoConn
  /\ UNCHANGED <<mgoal, mconn>>

\* messageUser.
SayLock ==
  /\ senderlist = NoConn
  /\ GotoMain("sayLock", "say")
  /\ senderlist' = Main
  /\ UNCHANGED <<loggedIn, listener, commandVars, tpc, listVars, messages, messagelist, peerVars>>

\* rio_writen, of a few bytes three times, to a connection that may take no more.
Say ==
  /\ GotoMain("say", "idle")
  /\ senderlist' = NoConn
  /\ EndCommand
  /\ UNCHANGED <<loggedIn, listener, tpc, listVars, messages, messagelist, peerVars>>

\* The node may have been freed since getUser, and the other end may be gone:
\* what is read from freed memory, or SIGPIPE, may end the process.  If it does
\* not, Say writes to whoever the memory now belongs to.
SayFails ==
  /\ mpc = "say"
  /\ mnode \notin Linked \/ cend[mnode] = "gone"
  /\ Die

\* flushMessageFrom, printing.
FlushLock ==
  /\ MessagesFree(Main)
  /\ GotoMain("flushLock", "flush")
  /\ messagelist' = Main
  /\ UNCHANGED <<loggedIn, listener, commandVars, tpc, listVars, messages, senderlist, peerVars>>

Flush ==
  /\ GotoMain("flush", "idle")
  /\ flushMessageFrom(mnode)
  /\ messagelist' = NoConn
  /\ EndCommand
  /\ UNCHANGED <<loggedIn, listener, tpc, listVars, senderlist, peerVars>>

--------------------------------------------------------------------------------
Init ==
  /\ alive = TRUE
  /\ loggedIn = FALSE
  /\ listener = "off"
  /\ mpc = "idle"
  /\ mgoal = "none"
  /\ mname = NoName
  /\ mnode = NoConn
  /\ mconn = NoConn
  /\ tpc = [c \in Conns |-> "none"]
  /\ arg = [c \in Conns |-> NoName]
  /\ cancelled = {}
  /\ messageThreads = <<>>
  /\ senders = <<>>
  /\ uname = [c \in Conns |-> NoName]
  /\ messages = <<>>
  /\ senderlist = NoConn
  /\ messagelist = NoConn
  /\ cend = [c \in Conns |-> "new"]
  /\ nread = [c \in Conns |-> 0]

User ==
  \/ Login \/ LoginFails \/ Logout \/ Exit \/ ShowAll
  \/ \E goal \in {"msg", "show"}, n \in Names : Command(goal, n)

MainStep ==
  \/ Lookup \/ Find \/ FindFails \/ DialFails \/ AddSender
  \/ SayLock \/ Say \/ SayFails \/ FlushLock \/ Flush
  \/ \E c \in Conns : Dial(c)

\* A thread reads a line, or takes any other step.
Reads(c) == ReadConnect(c) \/ ReadMessage(c) \/ ReadBareWord(c)
Thread(c) ==
  \/ Register(c) \/ ReadNothing(c) \/ addSender(c) \/ storeMessage(c)
  \/ EndOfFile(c) \/ Cancelled(c) \/ cleanReceiverThread(c)
  \/ DeleteLock(c) \/ DeleteFlush(c) \/ DeleteUnlink(c) \/ CloseThread(c)

Next ==
  \/ User
  \/ MainStep
  \/ destroyThreads
  \/ \E c \in Conns : HangUp(c) \/ Accept(c) \/ Reads(c) \/ Thread(c)

Spec == Init /\ [][Next]_vars

\* What main writes to is an open connection, on which the other peer need not read
\* (PeerLinks shows how it comes that nobody does), or the freed node may name any:
\* the write may wait for room for ever, with senderlist_mutex held.
MayBlock == mpc = "say" /\ ~(mnode \in Linked /\ cend[mnode] = "gone")

\* Every thread runs, but lines need not come, and a write that may block need not
\* end.  The name server answers or hangs up: NameServer's RepliesEnd.  A thread at
\* a mutex gets it when it is free again and again: between two commands main waits
\* for the user with no mutex held, so strong fairness asks nothing of
\* pthread_mutex_lock that it does not do.
Fairness ==
  /\ WF_vars(~MayBlock /\ MainStep)
  /\ WF_vars(destroyThreads)
  /\ \A c \in Conns : SF_vars(Thread(c) \/ (cend[c] = "gone" /\ ReadConnect(c)))

FairSpec == Spec /\ Fairness

--------------------------------------------------------------------------------
\* Properties.

\* Every variable has its type, and the arrays have their lengths.
TypeOK ==
  /\ alive \in BOOLEAN
  /\ loggedIn \in BOOLEAN
  /\ listener \in {"off", "accepting", "cancelled"}
  /\ mpc \in MainLocations
  /\ mgoal \in {"none", "msg", "show"}
  /\ mname \in Names \cup {NoName}
  /\ mnode \in Conns \cup {NoConn}
  /\ mconn \in Conns \cup {NoConn}
  /\ tpc \in [Conns -> Locations]
  /\ arg \in [Conns -> Names \cup {NoName}]
  /\ cancelled \subseteq Conns
  /\ messageThreads \in Seq(Conns)
  /\ senders \in Seq(Conns)
  /\ uname \in [Conns -> Names \cup {NoName}]
  /\ messages \in Seq(Message)
  /\ Len(messages) <= MAX_MESSAGE_COUNT
  /\ senderlist \in Conns \cup {Main, NoConn}
  /\ messagelist \in Conns \cup {Main, NoConn}
  /\ cend \in [Conns -> {"new", "open", "gone"}]
  /\ nread \in [Conns -> 0 .. MaxLines]

\* Each mutex is owned by a thread inside deleteSender, messageUser or a show, and
\* by nobody else, but for the early return of storeMessage.
MutexInv ==
  /\ \A c \in Conns : tpc[c] \in {"flush", "unlink"} <=> senderlist = c
  /\ mpc = "say" <=> senderlist = Main
  /\ mpc = "flush" <=> messagelist = Main

\* The threads that run from their registration to their destructor are those in
\* messageThreads, once each, however they start, end and are cancelled: none
\* comes to the "ERROR!!!" exit, and destroyThreads cancels no thread that ended.
ThreadsRegistered ==
  /\ Running = {c \in Conns : tpc[c] \in Registered}
  /\ \A i, j \in DOMAIN messageThreads : messageThreads[i] = messageThreads[j] => i = j

\* However incoming and outgoing connections race, the list holds a user once.
SendersUnique ==
  \A i, j \in DOMAIN senders : i # j => uname[senders[i]] # uname[senders[j]]

\* A thread in its session has its node in the list, and a thread that has come
\* to its end, or never had a node, has none in it.
NodesOwned ==
  \A c \in Conns :
    /\ tpc[c] \in {"loop", "store", "delete", "flush", "unlink"} => c \in Linked
    /\ tpc[c] \in {"none", "dialled", "first", "add", "close", "done"} => c \notin Linked

\* The sender of a stored message is allocated: flushMessageFrom prints its
\* username without senderlist_mutex.
MessageSenderLive == \A m \in Stored : m.sender \in Linked

\* The messages of a sender are stored in the order of its lines, each once.
MessagesInOrder ==
  \A i, j \in DOMAIN messages :
    i < j /\ messages[i].sender = messages[j].sender => messages[i].line < messages[j].line

\* The user of a connection talks while its node is linked and not yet flushed, a
\* line counts when storeMessage has had it, and the box is the array.
Talking(c) == c \in Linked /\ tpc[c] # "unlink"
Mail == INSTANCE Mailbox WITH
  talker <- [c \in Conns |-> IF Talking(c) THEN uname[c] ELSE NoName],
  leaving <- {c \in Conns : tpc[c] \in {"delete", "flush"} \/ (tpc[c] = "clean" /\ Talking(c))},
  heard <- [c \in Conns |-> CASE ~Talking(c) -> 0
                              [] tpc[c] = "store" -> nread[c] - 1
                              [] OTHER -> nread[c]],
  box <- messages,
  Capacity <- MAX_MESSAGE_COUNT

\* However its threads interleave, the message server is a mailbox: it takes each
\* line once and in order, loses one only to a full array, and forgets a user's
\* messages exactly when they are shown or the user leaves.
ImplementsMailbox == Mail!Spec

\* A thread whose peer is gone or that was cancelled closes its connection in the
\* end, unless the process ends or the buffer was full once.  Nothing else keeps it
\* but a /msg that never gets its line written: then it waits in addSender or
\* deleteSender, for the mutex that messageUser holds, and nowhere else.
ThreadsEnd ==
  \A c \in Conns :
    (tpc[c] \notin {"none", "dialled"} /\ (cend[c] = "gone" \/ c \in cancelled))
      ~> (tpc[c] = "done" \/ ~alive \/ Leaked \/ [](MayBlock /\ tpc[c] \in {"add", "delete"}))

\* A command of the user comes to its end, unless the buffer was full once, or its
\* own write never ends: the three mutexes are never waited for in a circle.
CommandsReturn == mpc # "idle" ~> (mpc = "idle" \/ ~alive \/ Leaked \/ []MayBlock)

\* With the buffer full, "cannot receive messages", the user's commands, and the
\* /show that would empty it, still come to their end, but for a write that does not.
CommandsReturnWhenFull == mpc # "idle" ~> (mpc = "idle" \/ ~alive \/ []MayBlock)
================================================================================
