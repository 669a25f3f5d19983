------------------------------ MODULE PeerSession ------------------------------
(***************************************************************************)
(* The sessions of one peer process with the name server: /login, /lookup, *)
(* /logout and /exit of peer.c, the receiverThread that a login starts and *)
(* a logout cancels, and the server's side of it, where Directory is what  *)
(* the server promises (NameServer implements it).                         *)
(*                                                                         *)
(* The session k is the k-th login: the connection to the server, the      *)
(* receiverThread and the listening socket that belong to it.  What comes  *)
(* in on that socket is the subject of MessageServer, and so are the       *)
(* connections to other peers, which may get a number of a closed          *)
(* descriptor as well.                                                     *)
(***************************************************************************)
EXTENDS Naturals, Sequences, FiniteSets

CONSTANTS
  MaxLogins,  \* bound: the logins of the process
  Other,      \* another client of the name server
  Names,
  OtherNames, \* those that others log in under
  Ports,
  NoSession,
  NoName,
  NoPort,
  Typed,      \* Typed[k]: the names and ports the user may log in with at the k-th time
  MaxAsked    \* MaxAsked[k], a bound: look-ups of the session k

Sessions == 1 .. MaxLogins

ASSUME SessionConstants ==
  /\ MaxLogins \in Nat
  /\ IsFiniteSet(Names)
  /\ OtherNames \subseteq Names
  /\ Other \notin Sessions
  /\ NoSession \notin Sessions \cup {Other}
  /\ NoName \notin Names
  /\ NoPort \notin Ports
  /\ Typed \in [Sessions -> SUBSET (Names \X Ports)]
  /\ MaxAsked \in [Sessions -> Nat]

VARIABLES
  ended,       \* the process has ended
  loggedIn,
  cur,         \* the session of clientfd, client_in and tid
  mpc,         \* main: "idle", or the line it waits for: "online", "users", "user"
  sought,      \* the argument of /lookup
  portString,  \* the session whose port argument is still allocated
  uname, told, \* the name and the port of the login line of a session
  thread,      \* its receiverThread: "none", "starting", "accepting", "ended"
  cancelled,   \* the sessions whose receiverThread was cancelled
  bound,       \* bound[k]: the port its listening socket is open on, or NoPort
  server_fd,   \* the session that set the global of this name last
  reused,      \* the socket of server_fd is closed, and its number that of clientfd now
  link,        \* the peer's end of a connection: "none", "open", "closed"
  served,      \* the server's thread: "none", "login", "loop", "asked", "done"
  request,     \* what is sent and not answered: "none", "list", "find"
  reply,       \* the lines written and not read, and whether they came whole
  asked,       \* how many requests a session has sent
  dir, answer  \* Directory

D == INSTANCE Directory WITH Conns <- Sessions \cup {Other}, NoConn <- NoSession

mainVars == <<loggedIn, cur, mpc, sought, portString>>
loginVars == <<uname, told>>
threadVars == <<thread, cancelled, bound, server_fd, reused>>
serverVars == <<served, reply, dir, answer>>
vars == <<ended, mainVars, loginVars, threadVars, link, serverVars, request, asked>>

--------------------------------------------------------------------------------
Set(f, k, x) == [f EXCEPT ![k] = x]

\* The process ends: its memory is gone, and the kernel closes what it had open.
Die ==
  /\ ~ended
  /\ ended' = TRUE
  /\ loggedIn' = FALSE
  /\ cur' = NoSession
  /\ mpc' = "idle"
  /\ sought' = NoName
  /\ portString' = NoSession
  /\ told' = [k \in Sessions |-> NoPort]
  /\ thread' = [k \in Sessions |-> "none"]
  /\ cancelled' = {}
  /\ bound' = [k \in Sessions |-> NoPort]
  /\ server_fd' = NoSession
  /\ reused' = FALSE
  /\ asked' = [k \in Sessions |-> 0]
  /\ link' = [k \in Sessions |-> IF link[k] = "open" THEN "closed" ELSE link[k]]
  /\ UNCHANGED <<uname, serverVars, request>>

\* Main reads a line of the user, which frees the words of the line before.
Command ==
  /\ ~ended
  /\ mpc = "idle"
  /\ portString' = NoSession
  /\ UNCHANGED ended

--------------------------------------------------------------------------------
\* The commands.

\* connectClient, and openServer, which gives the thread the port as it stands in
\* the memory of the command line.  A new descriptor may get the number of any
\* closed one.
Login(k, n, p) ==
  /\ ~ended /\ mpc = "idle"
  /\ ~loggedIn
  /\ {j \in Sessions : link[j] = "none"} = k .. MaxLogins
  /\ <<n, p>> \in Typed[k]
  /\ loggedIn' = TRUE
  /\ cur' = k
  /\ uname' = Set(uname, k, n)
  /\ told' = Set(told, k, p)
  /\ portString' = k
  /\ thread' = Set(thread, k, "starting")
  /\ link' = Set(link, k, "open")
  /\ served' = Set(served, k, "login")
  /\ reused' \in IF server_fd # NoSession /\ bound[server_fd] = NoPort THEN BOOLEAN ELSE {FALSE}
  /\ UNCHANGED <<ended, mpc, sought, cancelled, bound, server_fd, reply, dir, answer, request, asked>>

\* Open_clientfd and Rio_writen end the process when they fail.
LoginFails == mpc = "idle" /\ ~loggedIn /\ Die

\* A line that is no command, or one refused: "Not logged in", "Already logged in".
OtherLine ==
  /\ Command
  /\ UNCHANGED <<loggedIn, cur, mpc, sought, loginVars, threadVars, link, serverVars, request, asked>>

\* close(clientfd).  When destroyThreads has closed that descriptor, its number may
\* be that of a listening socket by now.
closeClient ==
  /\ link' = Set(link, cur, "closed")
  /\ bound' \in {bound} \cup {Set(bound, j, NoPort) : j \in {i \in Sessions : link[cur] = "closed"}}
  /\ reused' = FALSE

\* Mutant: the receiverThread is not cancelled.
logoutKeepsThread ==
  /\ loggedIn' = FALSE
  /\ closeClient
  /\ UNCHANGED cancelled

\* Mutant: the connection to the server stays open.
logoutKeepsLink ==
  /\ loggedIn' = FALSE
  /\ cancelled' = cancelled \cup {cur}
  /\ UNCHANGED <<link, bound, reused>>

\* logoutUser, when its "exit" could be written or its failure was reported.
logoutUser ==
  /\ loggedIn' = FALSE
  /\ cancelled' = cancelled \cup {cur}
  /\ closeClient

\* A write to a connection that the server has closed may raise SIGPIPE, and so may
\* one to a socket that has the number of clientfd and is not connected.
PipeBroken == loggedIn /\ (served[cur] = "done" \/ link[cur] = "closed") /\ Die

\* /logout, or a question that cannot be written, as clientfd was closed.
Logout ==
  /\ Command
  /\ loggedIn
  /\ logoutUser
  /\ UNCHANGED <<cur, mpc, sought, loginVars, thread, server_fd, serverVars, request, asked>>

\* /exit, or the end of the input.
Exit == mpc = "idle" /\ Die

\* findAllUsers and findUser write their line, and wait.
Ask(what, n) ==
  /\ Command
  /\ loggedIn /\ link[cur] = "open"
  /\ asked[cur] < MaxAsked[cur]
  /\ asked' = Set(asked, cur, asked[cur] + 1)
  /\ request' = Set(request, cur, what)
  /\ mpc' = IF what = "list" THEN "online" ELSE "user"
  /\ sought' = n
  /\ UNCHANGED <<loggedIn, cur, loginVars, threadVars, link, serverVars>>

\* Mutant: the list is taken to end with its first user.
AfterOneUser(expected, kind) ==
  CASE expected = "online" /\ kind = "online" -> "users"
    [] expected = "users" /\ kind \in {"user", "end"} -> "idle"
    [] expected = "user" /\ kind \in {"user", "no_user_found"} -> "idle"
    [] OTHER -> "error"

\* What main makes of a line of the server: the next line it waits for, "idle"
\* after the last, or "error".
After(expected, kind) ==
  CASE expected = "online" /\ kind = "online" -> "users"
    [] expected = "users" /\ kind = "user" -> "users"
    [] expected = "users" /\ kind = "end" -> "idle"
    [] expected = "user" /\ kind \in {"user", "no_user_found"} -> "idle"
    [] OTHER -> "error"

ReadLine ==
  /\ ~ended
  /\ mpc # "idle"
  /\ reply[cur] # <<>>
  /\ reply' = Set(reply, cur, Tail(reply[cur]))
  /\ LET to == After(mpc, Head(reply[cur]).is) IN
       /\ mpc' = IF to = "error" THEN "idle" ELSE to
       /\ IF to = "error" THEN logoutUser ELSE UNCHANGED <<loggedIn, cancelled, link, bound, reused>>
       /\ sought' = IF mpc' = "idle" THEN NoName ELSE sought
  /\ UNCHANGED <<ended, cur, portString, loginVars, thread, server_fd, served, dir, answer, request,
                 asked>>

\* "Lost connection to server.": the server has closed it, or destroyThreads has.
LostServer ==
  /\ ~ended
  /\ mpc # "idle"
  /\ (reply[cur] = <<>> /\ served[cur] = "done") \/ link[cur] = "closed"
  /\ mpc' = "idle"
  /\ sought' = NoName
  /\ logoutUser
  /\ UNCHANGED <<ended, cur, portString, loginVars, thread, server_fd, serverVars, request, asked>>

--------------------------------------------------------------------------------
\* receiverThread.

\* The port is read from memory that may have been freed: then it is any port.
Listen(k) ==
  /\ ~ended
  /\ thread[k] = "starting"
  /\ \E p \in IF portString = k THEN {told[k]} ELSE Ports :
       /\ \A j \in Sessions : bound[j] # p
       /\ bound' = Set(bound, k, p)
  /\ thread' = Set(thread, k, "accepting")
  /\ server_fd' = k
  /\ reused' = FALSE
  /\ UNCHANGED <<ended, mainVars, loginVars, cancelled, link, serverVars, request, asked>>

\* The port is no number, or is in use, in this process or outside.
ListenFails(k) == thread[k] = "starting" /\ Die

\* Cancelled in getaddrinfo, before destroyThreads is pushed.
CancelledEarly(k) ==
  /\ ~ended
  /\ thread[k] = "starting" /\ k \in cancelled
  /\ thread' = Set(thread, k, "ended")
  /\ UNCHANGED <<ended, mainVars, loginVars, cancelled, bound, server_fd, reused, link, serverVars,
                 request, asked>>

\* Cancelled in Accept: destroyThreads closes what has the number server_fd now: the
\* socket of the thread that set it last or, after a thread before it has closed that
\* one, nothing or what got the number since.
destroyThreads(k) ==
  /\ ~ended
  /\ thread[k] = "accepting" /\ k \in cancelled
  /\ thread' = Set(thread, k, "ended")
  /\ bound' = Set(bound, server_fd, NoPort)
  /\ link' = IF reused THEN Set(link, cur, "closed") ELSE link
  /\ reused' = FALSE
  /\ UNCHANGED <<ended, mainVars, loginVars, cancelled, server_fd, serverVars, request, asked>>

\* Accept on a descriptor that was closed, or is connected, ends the process.
AcceptFails(k) == thread[k] = "accepting" /\ bound[server_fd] = NoPort /\ Die

--------------------------------------------------------------------------------
\* The name server, which does not answer a login.

ServeLogin(k) ==
  /\ served[k] = "login"
  /\ IF dir[uname[k]] = NoSession
     THEN D!Register(k, uname[k]) /\ served' = Set(served, k, "loop")
     ELSE served' = Set(served, k, "done") /\ UNCHANGED <<dir, answer>>
  /\ UNCHANGED <<ended, mainVars, loginVars, threadVars, link, request, reply, asked>>

ServeRead(k) ==
  /\ served[k] = "loop" /\ request[k] # "none"
  /\ served' = Set(served, k, "asked")
  /\ D!Ask(k)
  /\ UNCHANGED <<ended, mainVars, loginVars, threadVars, link, request, reply, asked>>

\* A line, and what the reader gets of it when the connection ends within it: a line
\* that is not understood or, when only its newline or the end of its number or of
\* its port is missing, one that is.
Line(kind) == [is |-> kind, whole |-> TRUE]
Cut(line) == {[is |-> kind, whole |-> FALSE] : kind \in {line.is, "part"}}

\* The lines of an answer.
Lines(told_) ==
  LET users == [i \in 1 .. Cardinality(told_.users) |-> Line("user")]
  IN  IF told_.about = "all" THEN <<Line("online")>> \o users \o <<Line("end")>>
      ELSE IF told_.users = {} THEN <<Line("no_user_found")>> ELSE users

\* Mutant: the request is answered again.
ServeAnswerAgain(k) ==
  /\ served[k] = "asked" /\ loggedIn /\ k = cur
  /\ served' = Set(served, k, "loop")
  /\ IF request[k] = "list" THEN D!TellAll(k) ELSE D!TellOne(k, sought)
  /\ reply' = Set(reply, k, reply[k] \o Lines(answer'[k]))
  /\ UNCHANGED <<ended, mainVars, loginVars, threadVars, link, request, asked>>

\* An answer to a session that main has left goes nowhere: there ServeEnd follows.
ServeAnswer(k) ==
  /\ served[k] = "asked" /\ loggedIn /\ k = cur
  /\ served' = Set(served, k, "loop")
  /\ IF request[k] = "list" THEN D!TellAll(k) ELSE D!TellOne(k, sought)
  /\ reply' = Set(reply, k, reply[k] \o Lines(answer'[k]))
  /\ request' = Set(request, k, "none")
  /\ UNCHANGED <<ended, mainVars, loginVars, threadVars, link, asked>>

\* Its thread ends when the peer has closed its end.
ServeEnd(k) ==
  /\ served[k] \in {"loop", "asked"}
  /\ link[k] = "closed"
  /\ D!Release(k)
  /\ served' = Set(served, k, "done")
  /\ UNCHANGED <<ended, mainVars, loginVars, threadVars, link, request, reply, asked>>

\* The server ends the session, or ends, be it in the middle of a line: it writes
\* one in pieces, and rio_readlineb hands over what there is of the last one.  When
\* it ends while it writes an answer, that is ServeAnswer and then this.
ServerDrops(k) ==
  /\ served[k] \in {"login", "loop", "asked"}
  /\ served' = Set(served, k, "done")
  /\ IF D!Holds(k) THEN D!Release(k) ELSE UNCHANGED <<dir, answer>>
  /\ \E n \in 0 .. Len(reply[k]) :
       \/ reply' = Set(reply, k, SubSeq(reply[k], 1, n))
       \/ /\ n < Len(reply[k])
          /\ \E part \in Cut(reply[k][n + 1]) :
               reply' = Set(reply, k, Append(SubSeq(reply[k], 1, n), part))
  /\ UNCHANGED <<ended, mainVars, loginVars, threadVars, link, request, asked>>

\* Others come and go.
OtherClient ==
  /\ D!Release(Other) \/ \E n \in OtherNames : D!Register(Other, n)
  /\ UNCHANGED <<ended, mainVars, loginVars, threadVars, link, served, request, reply, asked>>

--------------------------------------------------------------------------------
Init ==
  /\ ended = FALSE
  /\ loggedIn = FALSE
  /\ cur = NoSession
  /\ mpc = "idle"
  /\ sought = NoName
  /\ portString = NoSession
  /\ told = [k \in Sessions |-> NoPort]
  /\ thread = [k \in Sessions |-> "none"]
  /\ cancelled = {}
  /\ bound = [k \in Sessions |-> NoPort]
  /\ server_fd = NoSession
  /\ reused = FALSE
  /\ asked = [k \in Sessions |-> 0]
  /\ uname = [k \in Sessions |-> NoName]
  /\ link = [k \in Sessions |-> "none"]
  /\ served = [k \in Sessions |-> "none"]
  /\ request = [k \in Sessions |-> "none"]
  /\ reply = [k \in Sessions |-> <<>>]
  /\ D!Init

User ==
  \/ LoginFails \/ OtherLine \/ Logout \/ Exit \/ Ask("list", NoName)
  \/ \E n \in Names : Ask("find", n) \/ \E k \in Sessions, p \in Ports : Login(k, n, p)
Receiver(k) == Listen(k) \/ ListenFails(k) \/ CancelledEarly(k) \/ destroyThreads(k)
Server(k) == ServeLogin(k) \/ ServeRead(k) \/ ServeAnswer(k) \/ ServeEnd(k)

Next ==
  \/ User \/ PipeBroken \/ ReadLine \/ LostServer \/ OtherClient
  \/ \E k \in Sessions : Receiver(k) \/ AcceptFails(k) \/ Server(k) \/ ServerDrops(k)

Spec == Init /\ [][Next]_vars

\* The threads of the peer run, and those of the server, whose replies end
\* (NameServer's RepliesEnd).  As each takes a few steps only, it is enough that one
\* of those that can run does.  Nothing is assumed of the user and of others, nor that
\* a thread that waits in Accept finds its descriptor closed.
FairSpec ==
  /\ Spec
  /\ WF_vars(ReadLine \/ LostServer)
  /\ WF_vars(\E k \in Sessions : Receiver(k))
  /\ WF_vars(\E k \in Sessions : Server(k))

--------------------------------------------------------------------------------
\* Every variable has its type, and the server writes no more than one answer ahead.
TypeOK ==
  /\ ended \in BOOLEAN
  /\ loggedIn \in BOOLEAN
  /\ cur \in Sessions \cup {NoSession}
  /\ mpc \in {"idle", "online", "users", "user"}
  /\ sought \in Names \cup {NoName}
  /\ portString \in Sessions \cup {NoSession}
  /\ uname \in [Sessions -> Names \cup {NoName}]
  /\ told \in [Sessions -> Ports \cup {NoPort}]
  /\ thread \in [Sessions -> {"none", "starting", "accepting", "ended"}]
  /\ cancelled \subseteq Sessions
  /\ bound \in [Sessions -> Ports \cup {NoPort}]
  /\ server_fd \in Sessions \cup {NoSession}
  /\ reused \in BOOLEAN
  /\ link \in [Sessions -> {"none", "open", "closed"}]
  /\ served \in [Sessions -> {"none", "login", "loop", "asked", "done"}]
  /\ request \in [Sessions -> {"none", "list", "find"}]
  /\ reply \in [Sessions -> Seq([is : {"online", "user", "end", "no_user_found", "part"}, whole : BOOLEAN])]
  /\ \A k \in Sessions : Len(reply[k]) <= Cardinality(Names) + 2
  /\ asked \in [Sessions -> Nat] /\ \A k \in Sessions : asked[k] <= MaxAsked[k]
  /\ dir \in [Names -> Sessions \cup {Other, NoSession}]

\* Main and the server keep step through logouts, lost connections and new
\* sessions: every line main reads is from the answer to the question it asked, and
\* with the last line nothing is left over for the next.  Each is one main waits for,
\* unless the server was cut off in the middle of it: then it is the last.
AnswersInStep ==
  loggedIn =>
    /\ mpc = "idle" => reply[cur] = <<>> /\ (served[cur] # "done" => request[cur] = "none")
    /\ reply[cur] # <<>> => /\ IF Head(reply[cur]).whole THEN After(mpc, Head(reply[cur]).is) # "error"
                               ELSE Len(reply[cur]) = 1 /\ served[cur] = "done"
                            /\ answer[cur].about = IF mpc = "user" THEN "one" ELSE "all"
                            /\ mpc = "user" => \A e \in answer[cur].users : e[1] = sought

\* The name of a session is free for others, for good, after its logout.
LogoutFreesName ==
  \A k \in Sessions : (link[k] # "none" /\ (cur # k \/ ~loggedIn)) ~> []~D!Holds(k)

\* The socket of k is no longer the one server_fd names: the thread of a later login
\* came in between, and destroyThreads of k closed, or will close, that one's.
Lost(k) == server_fd # k

\* "You are now logged out.": unless it logs in again, the peer stops listening on
\* every port but those of sockets that are lost.
LogoutStopsListening ==
  ~loggedIn ~> (loggedIn \/ \A k \in Sessions : bound[k] = NoPort \/ Lost(k))
================================================================================
