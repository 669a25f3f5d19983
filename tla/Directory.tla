------------------------------- MODULE Directory -------------------------------
(***************************************************************************)
(* What the name server promises its clients: a directory that maps a      *)
(* username to at most one connection, in which a connection holds at most *)
(* one name, and whose answers are snapshots of one moment.  Locks, lists, *)
(* replies written line by line and failing sockets belong to NameServer,  *)
(* which implements this specification.                                    *)
(***************************************************************************)
CONSTANTS Conns, Names, NoConn

VARIABLES
  dir,      \* dir[n]: the connection registered under name n, or NoConn
  answer    \* answer[c]: what c was told since its last request

vars == <<dir, answer>>

Holds(c) == \E n \in Names : dir[n] = c

NoAnswer == [about |-> "nothing", users |-> {}]
OneUser(found) == [about |-> "one", users |-> found]
AllUsers(found) == [about |-> "all", users |-> found]

\* The registrations of the names in S, as pairs of a name and its holder.
Entries(S) == {<<n, dir[n]>> : n \in {m \in S : dir[m] # NoConn}}

Init ==
  /\ dir = [n \in Names |-> NoConn]
  /\ answer = [c \in Conns |-> NoAnswer]

\* A login takes a free name, for a connection that holds none.
Register(c, n) ==
  /\ dir[n] = NoConn
  /\ ~Holds(c)
  /\ dir' = [dir EXCEPT ![n] = c]
  /\ UNCHANGED answer

\* A connection gives its name back.
Release(c) ==
  /\ Holds(c)
  /\ dir' = [n \in Names |-> IF dir[n] = c THEN NoConn ELSE dir[n]]
  /\ UNCHANGED answer

\* A registered connection makes a request ...
Ask(c) ==
  /\ Holds(c)
  /\ answer' = [answer EXCEPT ![c] = NoAnswer]
  /\ UNCHANGED dir

\* ... and is told about one name, or about all of them, as they are now.
TellOne(c, n) ==
  /\ Holds(c)
  /\ answer' = [answer EXCEPT ![c] = OneUser(Entries({n}))]
  /\ UNCHANGED dir

TellAll(c) ==
  /\ Holds(c)
  /\ answer' = [answer EXCEPT ![c] = AllUsers(Entries(Names))]
  /\ UNCHANGED dir

Next ==
  \E c \in Conns :
    \/ Release(c)
    \/ Ask(c)
    \/ TellAll(c)
    \/ \E n \in Names : Register(c, n) \/ TellOne(c, n)

Spec == Init /\ [][Next]_vars
================================================================================
