-------------------------------- MODULE UserList --------------------------------
(***************************************************************************)
(* The doubly linked list that name_server.c keeps of its users and        *)
(* message_server.c of its senders, down to its pointers.  Every operation *)
(* holds the mutex of the list, so that operations come one after another, *)
(* and a deletion, which only writes, is one step.  The other modules see  *)
(* this list as a sequence; here it is shown to be one, and to be a        *)
(* directory of the names in it.                                           *)
(***************************************************************************)
EXTENDS Naturals, Sequences, FiniteSets

CONSTANTS
  Nodes,    \* the memory nodes are allocated from
  Names,
  NULL

ASSUME ListConstants == IsFiniteSet(Nodes) /\ NULL \notin Nodes

Pointers == Nodes \cup {NULL}

VARIABLES
  users,      \* the head
  next,       \* the fields of the nodes; those of a node that is not
  previous,   \*   allocated hold whatever they held before
  username,
  allocated,  \* the nodes between their malloc and their free
  op,         \* what holds the mutex: "none", "create" or "find"
  sought,     \* the name findUser was called with
  cursor      \* where its loop is

fields == <<users, next, previous, username, allocated>>
vars == <<fields, op, sought, cursor>>

--------------------------------------------------------------------------------
\* Mutant: the loop compares from the second node on.
CallSecond(caller, n) ==
  /\ op = "none"
  /\ op' = caller
  /\ sought' = n
  /\ cursor' = IF users = NULL THEN NULL ELSE next[users]
  /\ UNCHANGED fields

\* findUser: called by itself, or by createUser for a name it is to insert.
Call(caller, n) ==
  /\ op = "none"
  /\ op' = caller
  /\ sought' = n
  /\ cursor' = users
  /\ UNCHANGED fields

Follow ==
  /\ op # "none"
  /\ cursor # NULL
  /\ username[cursor] # sought
  /\ cursor' = next[cursor]
  /\ UNCHANGED <<fields, op, sought>>

\* The caller unlocks: with the result of find, or with a name already there.
Return ==
  /\ IF cursor = NULL THEN op = "find"
                      ELSE op # "none" /\ username[cursor] = sought
  /\ op' = "none"
  /\ UNCHANGED <<fields, sought, cursor>>

\* Mutant: the old head does not learn of the new one.
InsertHalf(x) ==
  /\ op = "create" /\ cursor = NULL
  /\ x \notin allocated
  /\ allocated' = allocated \cup {x}
  /\ username' = [username EXCEPT ![x] = sought]
  /\ next' = [next EXCEPT ![x] = users]
  /\ previous' = [previous EXCEPT ![x] = NULL]
  /\ users' = x
  /\ op' = "none"
  /\ UNCHANGED <<sought, cursor>>

\* createUser, addSender: the name was not found.
Insert(x) ==
  /\ op = "create" /\ cursor = NULL
  /\ x \notin allocated
  /\ allocated' = allocated \cup {x}
  /\ username' = [username EXCEPT ![x] = sought]
  /\ next' = [next EXCEPT ![x] = users]
  /\ previous' = [y \in Nodes |-> CASE y = x -> NULL [] y = users -> x [] OTHER -> previous[y]]
  /\ users' = x
  /\ op' = "none"
  /\ UNCHANGED <<sought, cursor>>

\* Mutant: the head is left where it was.
DeleteKeepsHead(x) ==
  /\ op = "none"
  /\ x \in allocated
  /\ next' = [y \in Nodes |-> IF y = previous[x] THEN next[x] ELSE next[y]]
  /\ previous' = [y \in Nodes |-> IF y = next[x] THEN previous[x] ELSE previous[y]]
  /\ allocated' = allocated \ {x}
  /\ UNCHANGED <<users, username, op, sought, cursor>>

\* deleteUser, deleteSender, of a node whose thread ends.
Delete(x) ==
  /\ op = "none"
  /\ x \in allocated
  /\ users' = IF x = users THEN next[x] ELSE users
  /\ next' = [y \in Nodes |-> IF y = previous[x] THEN next[x] ELSE next[y]]
  /\ previous' = [y \in Nodes |-> IF y = next[x] THEN previous[x] ELSE previous[y]]
  /\ allocated' = allocated \ {x}
  /\ UNCHANGED <<username, op, sought, cursor>>

\* Unallocated memory holds anything.
Init ==
  /\ users = NULL
  /\ next \in [Nodes -> Pointers]
  /\ previous \in [Nodes -> Pointers]
  /\ username \in [Nodes -> Names]
  /\ allocated = {}
  /\ op = "none"
  /\ sought \in Names
  /\ cursor = NULL

Next ==
  \/ \E caller \in {"create", "find"}, n \in Names : Call(caller, n)
  \/ Follow \/ Return
  \/ \E x \in Nodes : Insert(x) \/ Delete(x)

Spec == Init /\ [][Next]_vars

--------------------------------------------------------------------------------
\* s is what the pointers say: the allocated nodes, each once, linked both ways.
Represents(s) ==
  /\ \A i, j \in DOMAIN s : s[i] = s[j] => i = j
  /\ {s[i] : i \in DOMAIN s} = allocated
  /\ users = IF s = <<>> THEN NULL ELSE s[1]
  /\ \A i \in DOMAIN s : next[s[i]] = IF i = Len(s) THEN NULL ELSE s[i + 1]
  /\ \A i \in DOMAIN s : previous[s[i]] = IF i = 1 THEN NULL ELSE s[i - 1]

\* Every pointer points into the memory of the nodes, and the head to one in use.
TypeOK ==
  /\ users \in allocated \cup {NULL}
  /\ cursor \in Pointers
  /\ next \in [Nodes -> Pointers]
  /\ previous \in [Nodes -> Pointers]
  /\ username \in [Nodes -> Names]
  /\ allocated \subseteq Nodes
  /\ op \in {"none", "create", "find"}
  /\ sought \in Names

\* The list is a sequence of the nodes that were inserted and not yet deleted,
\* whichever of them goes: the only one, the first, the last, one in the middle.
WellLinked ==
  \E s \in UNION {[1 .. k -> Nodes] : k \in 0 .. Cardinality(Nodes)} : Represents(s)

\* A search never steps on freed memory, and one that comes to the end of the
\* list has passed every node of it: the name it did not find is not there.
SearchComplete ==
  op # "none" => IF cursor = NULL THEN \A x \in allocated : username[x] # sought
                                  ELSE cursor \in allocated

\* The list is a directory: a name belongs to one node, from its insertion to its
\* deletion.
Holder(n) ==
  IF \E x \in allocated : username[x] = n
  THEN CHOOSE x \in allocated : username[x] = n
  ELSE NULL
Dir == INSTANCE Directory WITH
  Conns <- Nodes,
  NoConn <- NULL,
  dir <- [n \in Names |-> Holder(n)],
  answer <- [x \in Nodes |-> [about |-> "nothing", users |-> {}]]
ImplementsDirectory == Dir!Spec
================================================================================
