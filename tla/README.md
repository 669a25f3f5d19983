# A TLA+ development of the chat system

The repository is a chat system of two programs: a **name server**
(`src/name_server.c`), where users register and look each other up, and a
**peer** (`src/peer.c` with `src/message_server.c`), which talks to the name
server and, directly, to other peers.  Both read lines with `src/command.c` and
do their I/O with `src/csapp.c`.  This directory models them in TLA+, checks the
models with TLC, and proves what matters most about them with TLAPS.
(Paths below are relative to the repository; `PROJECT.json` has them with the
directory the repository is in.)

## Inventory

| component | state | operations | interacts by |
|---|---|---|---|
| name server | list `users` with `users_count`, `userlist_mutex`; per thread a command stream, the username in hand, the node in hand, `writefailed` | `createUser`, `findUser`, `deleteUser`, `sendUser`, `rio_writei`, `cleanThread`, the loop of `thread`, the accept loop of `main` | shared list under a recursive mutex, which is held while replies are written to sockets; TCP with the clients |
| message server (in each peer) | list `senders` (`senderlist_mutex`), array `messages` (`messagelist_mutex`), array `messageThreads` (`threadlist_mutex`), `server_fd`, `tid`, a thread-specific key | `addSender`, `lookupUser`, `deleteSender`, `storeMessage`, `flushMessageFrom`, `messageUser`, `openServer`, `receiverThread`, `messageReceiverThread`, `destroyThreads`, `cleanReceiverThread` | shared lists; thread cancellation and destructors; TCP with other peers |
| peer commands | `loggedIn`, `clientfd`, `client_in`, `loginName` | `connectClient`, `logoutUser`, `findAllUsers`, `findUser`, `writeUser`, `getUser`, `connectToUser`, the loop of `main` | calls into the message server; the name server's protocol |
| command parser | `currentCommand`, `commandChar`, `allocatedObject` | `getCommand`, `commandGetString`, `commandGetLine`, `commandGetInt`, `commandGetIndicator`, `commandHasNext` | called by every thread on a stream of its own |
| rio | `rio_cnt`, `rio_bufptr`, `rio_buf` | `rio_readlineb`, `rio_read`, `rio_writen` | system calls that block, fail, or do part of the work |
| wrappers | none | `Accept`, `Open_clientfd`, `Open_listenfd`, `Pthread_create`, ... | end the process when the call fails |

What is hard about them, and what makes them correct:

* **Name server.**  Threads race to log in under one name; a list is written
  node by node to a client that may stop reading while others come and go; a
  client may hang up at any point of a session, and each way out of the loop has
  to unregister the user once.  Correct means: names are unique, the list is
  exactly the users in a session, no freed node is used, an answer is a snapshot
  of one moment, and threads whose client is gone end.
* **Message server.**  Three mutexes, two of which nest; a node that is freed by
  its own thread while main or another thread may know it; threads that end by a
  blank line, the end of the connection or a cancellation; an incoming and an
  outgoing connection for one user at once; a buffer that is full.  Correct
  means: senders are unique and live exactly as long as their threads, no stored
  message refers to a freed sender, messages keep their order and only go when
  shown or when their sender leaves, every thread finds itself in
  `messageThreads`, and no command waits for ever but for a write that nobody reads.
* **Peer commands.**  The look-up and the addition of a user are separated by a
  question to the name server and a connect; login, logout and the listening
  thread overlap.
* **Parser and rio.**  A failed read leaves the state of the previous line, and a
  failed first read no state at all, which two callers do not notice; lines longer
  than the buffer, or ended by the end of the file, are split.

`PROJECT.json` lists the hazards one by one, each with its line.

## Modules

| module | what it is |
|---|---|
| `Directory` | abstract: what the name server promises, a map from names to connections and answers that are its entries at one moment |
| `NameServer` | `name_server.c`, one action per step of a thread between two points where it blocks or another thread can see the difference |
| `MCNameServer` | instances for TLC |
| `NameServer_proofs` | the inductive invariant and the theorems about it |
| `NameServer_refinement` | the theorem that `NameServer` implements `Directory` |
| `MessageServer` | `message_server.c` and the commands of `peer.c` that use it, in one peer process |
| `MCMessageServer` | instances for TLC |
| `MessageServer_proofs`, `MessageServer_refinement` | the inductive invariant and its theorems, and that `MessageServer` implements `Mailbox` |
| `Mailbox` | abstract: what the message server promises, users who talk, the lines they say, the bounded box they go to |
| `PeerSession`, `MCPeerSession` | login, lookup, logout and exit of one peer, its listening socket, and the name server's threads for it, as a user of `Directory` |
| `PeerLinks`, `MCPeerLinks` | several peers that write to each other: `/msg`, `connectToUser` and the receiver threads at both ends of every connection |
| `PeerSession_proofs`, `PeerLinks_proofs` | their inductive invariants: main is in step with the server, and a user is heard with one voice |
| `UserList`, `MCUserList` | the doubly linked list with its pointers, as `name_server.c` and `message_server.c` both have it |
| `CommandStream`, `MCCommandStream` | `rio_readlineb` over its buffer, the words and numbers `command.c` takes from a line, and the `rio_writei` that writes a number |
| `UserList_proofs`, `CommandStream_proofs` | theorems about the pointers, and about the text of a line by induction over it |

How they fit together.  `NameServer` implements `Directory`; `PeerSession` and
`UserList` are stated over `Directory` in their turn, one as its client, the other
as its data structure.  `MessageServer` looks into one peer and implements
`Mailbox`; `PeerLinks` takes several peers, reduced to what the other end of a
connection can tell.  `CommandStream` has the functions that the
others see as one step: reading a line, taking it to pieces.

### NameServer

A connection `c` stands for everything the C program allocates for it: its
`client_info`, thread, command stream and `user_node`.  `pc[c]` is the place in
`thread()`, `users` the linked list from its head, `cursor[c]` the `user` pointer
of the loop of `list` or the result of `find`.  A line is abstracted to what it
makes its reader do (`Line`); a reply is kept as the sequence of its lines, since
the properties are about them.

`createUser` and `deleteUser` are one step each: they hold the mutex throughout
and do not block.  `list` and `find` are several steps, because they write to a
socket, and may block there, with the mutex held.  `userlist_mutex` is recursive,
but only `findUser` takes it twice, inside one step, so its owner is enough.
After a failed first `getCommand` the thread reads uninitialised memory: the model
lets it read any line, or end the process (`ReadLogin`, `Dies`).  `Write` to a
client that is gone may succeed, fail or raise SIGPIPE.  `rio_writei` is the
function of its return value, inverted recursion and all; its ten is the constant
`Radix`, so that two users can have a number of two digits.

`Directory` is refined by `dir[n] = findUser(n)` and by what the lines written to
a client tell it (`Told`).  The answer to a list becomes visible in `Told` when
the mutex is released, the last moment at which it is still true.

### MessageServer

`mpc` is the place of the main thread in `getUser`, `connectToUser`,
`messageUser` or `flushMessageFrom`, `tpc[c]` that of the messageReceiverThread
of `c`.  A thread enters its destructor (`clean`) at the end of its function or by
a cancellation, which it takes where it waits for a line.  The node of `c` is in
`senders` exactly while it is allocated, so a pointer to a freed node is an
`mnode` that is not `Linked`.  The allocator may give the memory of a freed node
that main has in hand to the next node (`MayRecycle`): main's pointer is then one
to the new node, and its message goes to another user.

`threadlist_mutex` has no variable: its regions neither block nor take another
mutex.  `storeMessage` is a step; when the array is full it leaves
`messagelist_mutex` with its thread (`Leaked`), and since the mutex is recursive,
that thread alone can go on storing.  A line is sent, and what
it says is chosen, when it is read; so the other end may hang up with lines
unread, and how many is open.
`flushMessageFrom` is stated by the indices it keeps: the loop moves them down in
their order.

`Mailbox` is refined by who talks (`Talking`: the node is linked and its messages
not yet flushed for good), by how many lines `storeMessage` has had of each, and
by the array itself.  A flush by the destructor is `Leave`, one by main is `Show`,
`storeMessage` is `Hear` whether the array is full or not, and everything the
mutexes and the thread array do is a stutter.

`Say` is the write of `messageUser`.  It may wait for room, with `senderlist_mutex`
held, as long as the connection is open or the node is a freed one (`MayBlock`):
what the other peer does with the connection is the subject of `PeerLinks`.  A
`find` to a connection that the name server has closed may raise SIGPIPE
(`FindFails`).

`flushMessageFrom` with its printing is one step, since every other access to the
array waits for `messagelist_mutex`: `MutexInv` and `MessageSenderLive` say what the
critical sections give.  That they are critical sections is read from the source, here
as in `createUser` of `NameServer`, and not checked.

### PeerSession

A session `k` is one login: its connection to the server, its receiver thread and
its listening socket.  `logoutUser` cancels the thread of the session, and the
thread closes `server_fd`, a global that the next login's thread may have set by
then.  A thread is cancelled where it looks up the address (`CancelledEarly`) or in
`Accept` (`destroyThreads`): from the bind to the push of the cleanup handler there
is no point at which it could be.  `portString` is the session whose port argument
is still allocated; the next line of the user frees it, and what the thread then
reads is any port.  The user may log in again while the thread of the last login
still closes down.

A descriptor that is closed twice may be somebody else's by then.  When the socket
`server_fd` names is closed, its number may go to the connection of the next login
(`reused`); `destroyThreads` then closes that connection, and main, which may be
waiting for an answer on it, takes the server for lost.  `logoutUser` closes the
number once more (`closeClient`), and that may hit the listening socket that got
it.  Numbers that go to connections between peers are left out.

The server's side is `NameServer` in four steps over `Directory`.  It may end a
session at any time (`ServerDrops`), with part of its answer unread, be it a part of
a line: a line is written in several pieces, and `rio_readlineb` hands over what
there is of the last one.  Such a line (`Cut`) is one main does not understand or, if
only its newline or the end of its number or port is missing, one that it does.  The
lines of an answer are otherwise their kinds, and `After` is what main makes of one
in `findAllUsers` and `findUser`.  When the process ends (`Die`) its memory goes and
its descriptors are closed; the server and the others go on.

### PeerLinks

A connection has a dialled end and an accepted end, and belongs to the peer that
has a node for it (`senders[p]`), or to nobody.  A mutex needs no variable: only
`messageUser` keeps one while it may block, which is when `mpc` is `"say"`; the
other regions are single steps that wait for it.  `wire[e]` are the lines written
at an end and not read at the other; a write to a full one waits, a write to a
closed one is lost or raises SIGPIPE.  A line 0 is the connect line, a line n the
n-th message of the peer's user.  `Calls` says who writes to whom without having
heard from them; a peer may be in a pair with itself, which `peer.c`
allows but the runs leave out.
`Restart` is a user who starts the program again after it ended.

### UserList, CommandStream

`UserList` has the pointers as functions from nodes to nodes; unallocated memory
holds anything to begin with, and freed memory what it held last.  A search is a
step per node, an insertion or deletion is one, since the mutex is held.

`CommandStream` cuts an input, of which every prefix may have arrived, byte by byte
into lines and takes words from them in any way a caller may: `commandGetString`,
`commandGetLine`, `commandGetInt`, `commandGetIndicator`, in any order and number up
to `MaxGets`.  `makeCommandStream` sets neither `commandChar` (`Unset`) nor the line.
Callers give up on a stream whose `getCommand` failed, except that the threads of
the name server and of the message server do not look at the result of their first
one: they take words from memory nobody has set (`ParseUnset`), which may end the
process, or give no word, or any of `Strays`.  Characters stand for their class.  Numbers are written and read in
radix two instead of ten; both algorithms are the same in any radix.

## Runs

| run | module, cfg | question | bounds |
|---|---|---|---|
| `ns_safety` | NameServerSafety | the invariants of the list, the mutex and the replies | 3 connections, 2 names, 2 lines a client |
| `ns_directory` | NameServerDirectory | does the server implement `Directory`? | 3 connections, 2 names, 2 descriptors |
| `ns_live` | NameServerLiveness | do threads of clients that left end, and do replies? | 2 connections, 2 lines |
| `ns_writefailed` | NameServerWriteFailed | does only a failed write end a session as "writing failed"? **no** | `Radix` 2 |
| `ms_safety` | MessageServerSafety | the invariants of the senders, the messages and the threads, and does the message server implement `Mailbox`? | 2 connections, 2 names, 3 messages, 2 lines |
| `ms_live` | MessageServerLiveness | do the user's commands return, and do threads end, but for a write that is never read? | 2 connections, 1 name, 1 message |
| `ms_full` | MessageServerFull | do commands return when the buffer was full? **no** | 1 connection, 1 message, 3 lines |
| `ul_safety` | UserListSafety | are the pointers a list, and the list a directory? | 3 nodes, 3 names |
| `cs_lines` | CommandStreamLines | are lines, words and numbers those of the input, and is a message heard as it was typed? | all texts of up to 4 characters, alone and behind `/s s `, a buffer of 9, numbers of 3 digits, 1 word to find in unset memory |
| `peer_session` | PeerSession | do peer and server stay in step, with lines cut off and descriptors closed twice, and does a logout close the socket and free the name? | 3 logins, 2 names, 2 ports, 1 question in the last session, 1 name of others |
| `links` | PeerLinks | are messages stored once and in order, lines read, connections agreed on, and when does `/msg` return? | 2 peers that both write first, 2 connections, 3 messages and 1, 1 restart, a wire of 1 line |
| `links_crossed` | PeerLinksCrossed | are connections agreed on when both write first? **no** | 1 message each |

Why the bounds are enough.  Three connections and two names give two logins that
race for one name while a third lists both; a list of three nodes with one of
them hanging up in the middle; and a thread that waits for the mutex while
another holds it and a third is freed.  `SockBuf` 1 makes every second write
block.  Two lines a client are a login and one command, which is all a session
repeats.  `MaxFds` below the number of connections lets `Accept` fail.  In the
message server two connections give an incoming one and a dialled one for the
same user, two incoming ones under one name, one that is deleted while the other
stores, and both filling an array of three, in which two messages of one sender
surround one of the other.  Main, the receiver thread and two receiver threads
are all the parties the three mutexes have.  Runs of safety properties permute
connections and names, which no module orders; runs with liveness do not.

Two logins are a logout and the login that follows it, in either order of the two
receiver threads, and with the server's threads for both; a third is the least for
which a number that one thread has closed, and a second thread closes again, can have
become that of the connection main asks on.  Only the third session asks
(`OneQuestion`), which keeps the run small; that nothing of an earlier session's
answer is read in a later one is `AnswersAreInStep`, which is proved for any number
of logins and questions.  The names and ports typed are fixed (`ThreeLogins`) so that the last session has the name of the
second, which its thread at the server may still hold and another client may take in
between, and the port of the first.  Two connections between two peers are the two that crossed calls
make, or an old one and the one after a restart; three messages are one that
passes while the connections are made, one that fills an abandoned connection, and
one that blocks on it.  A list of three nodes has a first, a middle and a last one.
A buffer of nine holds a line of eight: a `/s s ` with four characters behind it
is cut, and its rest is the next line; four characters are enough for every word,
gap, number and newline to stand next to every other.  The texts of messages are
short because the real buffer leaves room for every line that the reader's own
buffer let in: the `/msg b ` of what was typed is longer than the `say ` of what is
sent.

Deadlock is not checked (`CHECK_DEADLOCK FALSE`): when every client has hung up,
or the process has ended, the bounded system stops.  The liveness runs show that
it stops nowhere else.

### Fairness

The threads of the name server run (`WF` on `Thread(c)`), main accepts, and a
client reads what it is sent, as `findAllUsers` and `findUser` in `peer.c` do up
to the last line; a client that hangs up need not.  Clients send finitely many
lines, so weak fairness is enough for the mutex.  In the message server a thread
may wait for a mutex that main takes again and again; between two commands main
holds none and waits for a person, so a waiting thread does get it, which strong
fairness of `Thread(c)` says.  Main itself waits only for threads that delete
their node once, so weak fairness of its steps is enough; it also says that the
name server answers `find` or its connection is lost (`Find`), which is `RepliesEnd`
of `NameServer` and takes clients that read.  Nothing is assumed of the user and of
the other peers: no line need come, nobody need hang up, and nobody need read.  A
write of `messageUser` that may have to wait is therefore under no fairness
(`~MayBlock /\ MainStep`), and `CommandsReturn` and `ThreadsEnd` name what follows when
it never ends: that command does not return, and a thread may wait in `addSender`
or `deleteSender`, but nowhere else.  When such a write never ends is what
`SayReturns` of `PeerLinks` says.

In `PeerSession` main reads on, the receiver threads run and the name server's
threads answer, again by `RepliesEnd`.  Each of these is one weak fairness for all
sessions, which is less than one for each and enough here, since a session takes
finitely many steps; a thread that waits in `Accept` need not notice that its
descriptor was closed.  In `PeerLinks` main
and the threads of every peer run.  Users send finitely many messages there, so
weak fairness is enough for the mutex, as in the name server.

## What the runs found

1. `rio_writei` (`src/name_server.c:31`) returns `!ok`, and uses its own result as
   an `ok`.  For a number of two digits it reports a failure although every write
   succeeded; `list` with 10 to 99 users online is answered, and then the session
   of the client that asked is ended as "writing failed".
2. `storeMessage` (`src/message_server.c:91-94`) returns from the full buffer
   without unlocking.  From then on `/show`, which would empty it, never returns.
3. `connectToUser` (`src/peer.c:224-230`) says of addSender's NULL that a connection
   to the user is established then.  Two users who write to each other at the same
   time may each be left with the connection the other has abandoned: both seem to be
   connected, and nothing that they say is read.  When such a connection is full,
   `/msg` never returns, with `senderlist_mutex` held.

`links` says when `/msg` hangs, and that it hangs in no other case: on a full
connection that was abandoned (3), or when the peers at both ends hold their mutex in
a write that waits for a thread that waits for the mutex.

The models also contain, without a run of their own, what the code does in these
places; the properties that hold, hold in spite of it:

* `/show` of a user who is unknown or out of reach goes on with NULL
  (`src/peer.c:324-327`), and shows and drops the messages of everybody (`Got`,
  `Flush` of `MessageServer`).
* `messageUser` (`src/message_server.c:105`) writes through a node that may have been
  freed since `getUser` found it (`Say`, `SayFails`).
* `rio_writei` (`src/name_server.c:30`) takes the -1 of a failed write for true.
* `destroyThreads` (`src/message_server.c:154`) closes the socket of a later login
  instead of its own, which stays open: the `Lost` of `LogoutStopsListening`.  After
  that login's thread has closed its socket it closes whatever has the number since,
  be it the connection to the name server.
* A thread parses on after its first `getCommand` failed
  (`src/name_server.c:149`, `src/message_server.c:230`), from a position nobody has set
  (`ParseUnset`, and `ReadLogin` and `ReadConnect` of the servers' modules).
* The port string of the receiver thread (`src/peer.c:62`) is freed by the next
  command line, perhaps before it is read (`Listen`).
* "Welcome" (`src/peer.c:60`) is printed to users whose name is taken: nobody answers
  a login (`ServeLogin`).
* `logoutUser` (`src/peer.c:33`) and `findUser` (`src/peer.c:151`) after a lost
  connection may end the process with SIGPIPE (`PipeBroken`, `FindFails`).
* A line that the name server was cut off in may still be taken for good: a port
  (`src/peer.c:123`) or a number with its last digits missing (`Cut`).
* Two users who write to each other may each refuse the other
  (`src/message_server.c:251-254`): both connections are closed and what was said is
  lost (`addSender` of `PeerLinks`).

## What is proved

Every safety property the passing runs check is also a theorem of its module's
`Spec`: for any number of connections, nodes, peers, sessions and names, any sizes
of the buffers and any text.  The theorems start from the named assumptions on the
constants alone: `ConstantsOK` and `ThreadsFit` (MessageServer, NameServer),
`ListConstants`, `SessionConstants`, `LinkConstants`, `NoEndIsNoEnd`, and those of
`CommandStream`.  They say that null values are no members, that sets of
connections, nodes and names are finite, that numbers are in their ranges, that
the input and the words in unset memory are text and that `messageThreads` and `allocatedObject` have room for
what the callers do, which the code does not check.

| module | theorems |
|---|---|
| `NameServer_proofs` | `TypeCorrect`, `MutexCorrect`, `NamesUnique`, `RegistryCorrect`, `NoUseAfterFree`, `WalkUndisturbed`, `ListsCoherent` |
| `NameServer_refinement` | `ServerImplementsDirectory` |
| `MessageServer_proofs` | `TypeCorrect`, `MutexCorrect`, `ThreadsCorrect`, `SendersAreUnique`, `NodesAreOwned`, `SendersLive`, `LinesInOrder` |
| `MessageServer_refinement` | `MailboxImplemented` |
| `UserList_proofs` | `TypeCorrect`, `ListWellLinked`, `SearchIsComplete`, `ListImplementsDirectory` |
| `PeerSession_proofs` | `TypeCorrect`, `AnswersAreInStep` |
| `PeerLinks_proofs` | `TypeCorrect`, `UsersHaveOneVoice` |
| `CommandStream_proofs` | `TypeCorrect`, `ObjectsFit`, `HasNextIsRight`, `ReadingLosesNothing`, `NothingIsSkipped`, `NumbersAreKept`, `MessagesAreKept` |

Each rests on an inductive invariant.  None of the properties is inductive alone,
and what has to be added says why the code is right.

**NameServer.**  `IInv` is `TypeOK`, `ArgNamed`, `MutexInv`, `UniqueNames`,
`RegistryOwned`, `Snapshot`, `ListCoherent`.  That `createUser` keeps names unique
needs the registry to be exactly the threads in a session, so that the connection
that registers has no node yet, and needs a name in hand (`ArgNamed`).  That
`deleteUser` frees no node somebody reads needs the mutex invariant: whoever
walks the list owns the mutex, so the step that unlinks cannot happen.  That a
list is coherent after the unlock needs what was written so far to be a prefix of
the list (`Walked` in `Snapshot`) up to the moment of the unlock, and names to be
unique then.  `CursorLive` says the same of the node in hand
alone, and follows from `Snapshot`.

The refinement uses `IInv` in both states: `createUser` is `Register` when the
name is free and a stutter otherwise, `deleteUser` is `Release`, `ReadCommand` is
`Ask`, `ListUnlock` is `TellAll` (the lines of the finished walk are the entries
of the directory, `LinesAreEntries`), `FindSend` is `TellOne`; every other step
leaves the list and the answers alone.

**MessageServer.**  `IInv` adds to the properties of `ms_safety`: the name and the
connection main has in hand are such (`NamesInHand`, `Dialled`); messages are of
lines read, and of earlier ones than the line being stored (`LinesRead`), without
which their order is lost at the next `storeMessage`; and a thread between
`flushMessageFrom` and the unlinking has no message in the array (`FlushedFirst`),
without which the free would leave one behind.  `FlushedFirst` itself holds because
`deleteSender` keeps `messagelist_mutex` from the one to the other, and a thread
stores nothing once it deletes.  The refinement needs that a
thread that adds a sender has read one line (`FirstLine`): a user whose node main
dialled joins with none heard, one who called with one, its connect line.

**UserList.**  The invariant says that there is a sequence of which the pointers
are the links (`Linked`), that no name is in it twice, and that a search has come
to some place of it and passed the name nowhere (`Searched`).  The sequence is not in
the variables; each insertion and deletion gives the next one.

**PeerSession.**  Main is in step because what is unread is always the rest of one
answer to the one question open, cut off perhaps by a lost connection, between two
lines or within one (`LeftOf`, `OneRequest`), and because a session that has not begun
has no answer (`SessionsBegin`), so that a login starts with nothing left over.  A
line cut off is the last of what is unread, and the server's thread has ended: that
is what keeps a line main does not understand from being followed by another one.

**PeerLinks.**  What a user said comes in order because it is in order on every wire
and nothing that was received is later than what is still on the wire
(`WireInOrder`, `MessagesInOrder`), and because a line is written at an end only
while the number of what was said is its own (`Written`, `Dialled`).  It comes
over one connection because messages go when their node goes, and the nodes of a
peer are of different users (`NodesOwned`, `ReadersLinked`).

**CommandStream.**  `IInv` is `TypeOK`, that the line being read is not over
(`LineUnfinished`), that not more was allocated than asked for
(`AllocatedByGets`), and that a caller stands at a word or the terminator
(`AtAWord`), which is what lets `commandHasNext` look at one character.  Every
operation takes what stands between two places and leaves the caller behind
white space (`Taken`), from which `NothingSkipped` follows by `SkipInv`.
`ReadsLines` is proved step by step: each step leaves the line, the buffer and the
input together as they were, or cuts the first line off them.

What recursive functions compute is proved by induction in the form of a least
counterexample: `LeastOf` is the well-ordering of the naturals, a consequence of
`WFMin` and `NatLessThanWellFounded` of the library, which unlike its induction
rules are about sets.  By it `valueOf`, `Visible` and `rio_writei` are functions
that satisfy their definitions (`FoldExists`, `WriteExists`), `Visible` of two texts
behind each other is that of the one and then that of the other (`VisibleConcat`), and
reading what `rio_writei` wrote gives the number (`WrittenIsRead`).  `FoldLeft`,
`SelectSeq` and the like are not visible to the provers, so these operators are
written as recursive functions, and two actions of `PeerLinks` and `Mailbox`
(`Forget`) say by its indices what is left of an array that is filtered.

Only model-checked: the liveness properties (`GoneIsForgotten`, `RepliesEnd`,
`CommandsReturn`, `ThreadsEnd`, `LogoutFreesName`, `LogoutStopsListening`,
`HalfMadeEnds`, `LinesAreRead`, `SayReturns`), which depend on fairness and on
`ENABLED` and are beyond this prover; and the three findings, which are
counterexamples.

## Not modelled

* Memory that is never freed (the password, address and port of a duplicate
  login, the message that did not fit, the `peer_info` of finding 3), and failures
  of `malloc` and of thread creation.
* More than `MAX_THREADS` receiver threads: `messageThreads` is then written past
  its end (`ThreadsFit` excludes it).
* The conversations of a peer across a logout and a second login in one model:
  `MessageServer` has them with one receiver thread at a time, `PeerSession` has the
  receiver threads of both logins without the conversations.
* A peer that restarts under another name, and lines of other peers that are not
  what `peer.c` sends, in `PeerLinks` (`MessageServer` has any line).
* The text of messages, and the wording of what is printed.
* The parts of `csapp.c` that neither program calls, and the `Makefile`.

## Plan

1. `PeerSession` is a user of `Directory`: the theorem that it implements it, each of
   its steps being one of `Directory` or a stutter.
2. The safety in the liveness properties: that a name a session has lost, and a
   port it has closed, are never its own again, which `LogoutFreesName` and
   `LogoutStopsListening` promise after their `~>`; and the invariants that fix what
   an abandoned connection of `HalfMadeEnds` looks like.
3. What `Mailbox` and `Directory` promise of themselves: that a name has one holder
   and the box keeps the order of each talker, so that both need only be read once.

Liveness stays with TLC throughout.
