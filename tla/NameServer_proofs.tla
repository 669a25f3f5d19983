--------------------------- MODULE NameServer_proofs ---------------------------
(***************************************************************************)
(* Theorems about NameServer, for any connections, names and bounds.       *)
(***************************************************************************)
EXTENDS NameServer, SequenceTheorems, TLAPS

\* A thread about to register or to find has read a username.
ArgNamed ==
  \A c \in Conns : pc[c] \in {"create", "findLock", "findSend"} => arg[c] \in Names

\* The inductive invariant.  UniqueNames needs the registry to be the sessions, so
\* that a thread about to create has no node; that needs the names in hand, and
\* ListCoherent needs the walk that led to it.
IInv ==
  /\ TypeOK
  /\ ArgNamed
  /\ MutexInv
  /\ UniqueNames
  /\ RegistryOwned
  /\ Snapshot
  /\ ListCoherent

--------------------------------------------------------------------------------
\* Lemmas about the list.

\* Each node is linked once: the list has no cycle.
LEMMA NodesDistinct ==
  ASSUME TypeOK, UniqueNames
  PROVE  \A i, j \in DOMAIN users : users[i] = users[j] => i = j
BY DEF TypeOK, UniqueNames

\* A sequence without its element at k.
Less(s, k) == SubSeq(s, 1, k - 1) \o SubSeq(s, k + 1, Len(s))

\* The elements after the one at k are one place further left.
LEMMA RemoveProperties ==
  ASSUME NEW S, NEW s \in Seq(S), NEW k \in 1 .. Len(s),
         NEW r, r = Less(s, k)
  PROVE  /\ r \in Seq(S)
         /\ Len(r) = Len(s) - 1
         /\ \A i \in 1 .. Len(s) - 1 : r[i] = IF i < k THEN s[i] ELSE s[i + 1]
<1>1. Len(s) \in Nat /\ \A i \in 1 .. Len(s) : s[i] \in S
  BY LenProperties, ElementOfSeq
<1>2. PICK a : a = SubSeq(s, 1, k - 1)
  OBVIOUS
<1>3. PICK b : b = SubSeq(s, k + 1, Len(s))
  OBVIOUS
<1>4. /\ a \in Seq(S)
      /\ Len(a) = k - 1
      /\ \A i \in 1 .. k - 1 : a[i] = s[i]
  <2>1. \A i \in 1 .. k - 1 : s[i] \in S
    BY <1>1
  <2>2. /\ a \in Seq(S)
        /\ Len(a) = IF 1 <= k - 1 THEN (k - 1) - 1 + 1 ELSE 0
        /\ \A i \in 1 .. (k - 1) - 1 + 1 : a[i] = s[1 + i - 1]
    BY <1>1, <1>2, <2>1, SubSeqProperties
  <2> QED
    BY <1>1, <2>2
<1>5. /\ b \in Seq(S)
      /\ Len(b) = Len(s) - k
      /\ \A i \in 1 .. Len(s) - k : b[i] = s[k + i]
  <2>1. \A i \in k + 1 .. Len(s) : s[i] \in S
    BY <1>1
  <2>2. /\ b \in Seq(S)
        /\ Len(b) = IF k + 1 <= Len(s) THEN Len(s) - (k + 1) + 1 ELSE 0
        /\ \A i \in 1 .. Len(s) - (k + 1) + 1 : b[i] = s[(k + 1) + i - 1]
    BY <1>1, <1>3, <2>1, SubSeqProperties
  <2>3. \A i \in 1 .. Len(s) - k :
          i \in 1 .. Len(s) - (k + 1) + 1 /\ (k + 1) + i - 1 = k + i
    BY <1>1
  <2> QED
    BY <1>1, <2>2, <2>3
<1>6. /\ r \in Seq(S)
      /\ Len(r) = Len(a) + Len(b)
      /\ \A i \in 1 .. Len(a) + Len(b) :
           r[i] = IF i <= Len(a) THEN a[i] ELSE b[i - Len(a)]
  <2>1. r = a \o b
    BY <1>2, <1>3 DEF Less
  <2>2. /\ a \o b \in Seq(S)
        /\ Len(a \o b) = Len(a) + Len(b)
        /\ \A i \in 1 .. Len(a) + Len(b) :
             (a \o b)[i] = IF i <= Len(a) THEN a[i] ELSE b[i - Len(a)]
    BY <1>4, <1>5, ConcatProperties
  <2> QED
    BY <2>1, <2>2
<1>7. ASSUME NEW i \in 1 .. Len(s) - 1
      PROVE  r[i] = IF i < k THEN s[i] ELSE s[i + 1]
  <2>1. CASE i < k
    <3>1. i \in 1 .. Len(a) + Len(b) /\ i <= Len(a) /\ i \in 1 .. k - 1
      BY <1>1, <1>4, <1>5, <2>1
    <3>2. r[i] = a[i] /\ a[i] = s[i]
      BY <1>4, <1>6, <3>1
    <3> QED
      BY <2>1, <3>2
  <2>2. CASE ~(i < k)
    <3>1. PICK m : m = i - Len(a)
      OBVIOUS
    <3>2. /\ i \in 1 .. Len(a) + Len(b) /\ ~(i <= Len(a))
          /\ m \in 1 .. Len(s) - k /\ k + m = i + 1
      BY <1>1, <1>4, <1>5, <2>2, <3>1
    <3>3. r[i] = b[m]
      BY <1>6, <3>1, <3>2
    <3>4. b[m] = s[k + m]
      BY <1>5, <3>2
    <3> QED
      BY <2>2, <3>2, <3>3, <3>4
  <2> QED
    BY <2>1, <2>2
<1>8. Len(r) = Len(s) - 1
  <2>1. Len(r) = Len(a) + Len(b) /\ Len(a) = k - 1 /\ Len(b) = Len(s) - k
    BY <1>4, <1>5, <1>6
  <2>2. k \in Int /\ Len(s) \in Int
    BY <1>1
  <2>3. (k - 1) + (Len(s) - k) = Len(s) - 1
    BY <2>2
  <2> QED
    BY <2>1, <2>3
<1> QED
  BY <1>6, <1>7, <1>8

\* What unlink leaves of the list.
LEMMA UnlinkProperties ==
  ASSUME TypeOK, NEW c \in Registered
  PROVE  \E k \in 1 .. Len(users) :
           /\ users[k] = c
           /\ unlink(c) \in Seq(Conns)
           /\ Len(unlink(c)) = Len(users) - 1
           /\ \A i \in 1 .. Len(users) - 1 :
                unlink(c)[i] = IF i < k THEN users[i] ELSE users[i + 1]
<1>1. users \in Seq(Conns) /\ Len(users) \in Nat /\ DOMAIN users = 1 .. Len(users)
  BY LenProperties DEF TypeOK
<1>2. PICK k : k = CHOOSE j \in DOMAIN users : users[j] = c
  OBVIOUS
<1>3. k \in 1 .. Len(users) /\ users[k] = c
  BY <1>1, <1>2 DEF Registered
<1>4. unlink(c) = Less(users, k)
  BY <1>2 DEF unlink, Less
<1>5. /\ unlink(c) \in Seq(Conns)
      /\ Len(unlink(c)) = Len(users) - 1
      /\ \A i \in 1 .. Len(users) - 1 :
           unlink(c)[i] = IF i < k THEN users[i] ELSE users[i + 1]
  <2>1. PICK r : r = unlink(c)
    OBVIOUS
  <2>2. r = Less(users, k)
    BY <1>4, <2>1
  <2>3. PICK u : u = users
    OBVIOUS
  <2>4. u \in Seq(Conns) /\ k \in 1 .. Len(u)
    BY <1>1, <1>3, <2>3
  <2>5. r = Less(u, k)
    BY <2>2, <2>3
  <2>6. /\ r \in Seq(Conns)
        /\ Len(r) = Len(u) - 1
        /\ \A i \in 1 .. Len(u) - 1 : r[i] = IF i < k THEN u[i] ELSE u[i + 1]
    BY <2>4, <2>5, RemoveProperties
  <2> QED
    BY <2>1, <2>3, <2>6
<1> QED
  BY <1>3, <1>5

\* What linking a node at the head makes of the list.
LEMMA LinkProperties ==
  ASSUME TypeOK, NEW c \in Conns
  PROVE  /\ <<c>> \o users \in Seq(Conns)
         /\ Len(<<c>> \o users) = Len(users) + 1
         /\ \A i \in 1 .. Len(users) + 1 :
              (<<c>> \o users)[i] = IF i = 1 THEN c ELSE users[i - 1]
<1>1. users \in Seq(Conns) /\ Len(users) \in Nat
  BY LenProperties DEF TypeOK
<1>2. <<c>> \in Seq(Conns) /\ Len(<<c>>) = 1 /\ <<c>>[1] = c
  OBVIOUS
<1> QED
  BY <1>1, <1>2, ConcatProperties

\* head is a node of the list, or NULL.
LEMMA HeadProperties ==
  ASSUME TypeOK
  PROVE  head = IF Len(users) = 0 THEN NoConn ELSE users[1]
<1>1. Len(users) = 0 <=> users = <<>>
  BY EmptySeq DEF TypeOK
<1> QED
  BY <1>1 DEF head

\* next is the node after, or NULL.
LEMMA NextProperties ==
  ASSUME TypeOK, UniqueNames, NEW i \in 1 .. Len(users)
  PROVE  next(users[i]) = IF i = Len(users) THEN NoConn ELSE users[i + 1]
<1>1. DOMAIN users = 1 .. Len(users) /\ Len(users) \in Nat
  BY LenProperties DEF TypeOK
<1>2. \A j \in DOMAIN users : users[j] = users[i] => j = i
  BY <1>1, NodesDistinct
<1>3. PICK k : k = CHOOSE j \in DOMAIN users : users[j] = users[i]
  OBVIOUS
<1>4. k = i
  BY <1>1, <1>2, <1>3
<1>5. next(users[i]) = IF k = Len(users) THEN NoConn ELSE users[k + 1]
  BY <1>3 DEF next
<1> QED
  BY <1>4, <1>5

\* What findUser returns, when names are unique.
LEMMA FindUserProperties ==
  ASSUME TypeOK, UniqueNames, NEW n
  PROVE  /\ findUser(n) = NoConn \/ findUser(n) \in Registered
         /\ (\E c \in Registered : uname[c] = n) => 
              findUser(n) \in Registered /\ uname[findUser(n)] = n
         /\ \A c \in Registered : uname[c] = n => findUser(n) = c
         /\ (\A c \in Registered : uname[c] # n) => findUser(n) = NoConn
<1>1. users \in Seq(Conns) /\ Len(users) \in Nat /\ DOMAIN users = 1 .. Len(users)
  BY LenProperties DEF TypeOK
<1> DEFINE hits == {i \in DOMAIN users : uname[users[i]] = n}
<1>2. \A i, j \in hits : i = j
  BY DEF UniqueNames
<1>3. CASE hits = {}
  <2>1. findUser(n) = NoConn
    BY <1>3 DEF findUser
  <2>2. \A c \in Registered : uname[c] # n
    BY <1>3 DEF Registered
  <2> QED
    BY <2>1, <2>2
<1>4. CASE hits # {}
  <2>1. PICK i \in hits : hits = {i}
    BY <1>2, <1>4
  <2>2. \A j \in hits : i <= j
    BY <2>1, <1>1
  <2> DEFINE m == CHOOSE j \in hits : \A l \in hits : j <= l
  <2>3. m = i
    BY <2>1, <2>2
  <2>4. findUser(n) = users[i]
    BY <2>3, <1>4 DEF findUser
  <2>5. \A c \in Registered : uname[c] = n => c = users[i]
    BY <2>1 DEF Registered
  <2>6. users[i] \in Registered /\ uname[users[i]] = n
    BY <2>1 DEF Registered
  <2> QED
    BY <2>4, <2>5, <2>6
<1> QED
  BY <1>3, <1>4
--------------------------------------------------------------------------------
\* The inductive invariant.

\* Before the first connection the list is empty and nothing is told.
LEMMA InitIInv == Init => IInv
<1> SUFFICES ASSUME Init PROVE IInv
  OBVIOUS
<1> USE DEF Init
<1>1. TypeOK
  BY ConstantsOK, EmptySeq DEF TypeOK, Locations, Session, Locked, NoLine, Line
<1>2. MutexInv
  BY ConstantsOK DEF MutexInv, Locked
<1>3. UniqueNames /\ RegistryOwned
  BY EmptySeq DEF UniqueNames, RegistryOwned, Registered, Session, Locked
<1>4. Snapshot /\ ListCoherent /\ ArgNamed
  BY DEF Snapshot, ListCoherent, ArgNamed
<1> QED
  BY <1>1, <1>2, <1>3, <1>4 DEF IInv

\* What the reply lines are made of.
LEMMA LineTypes ==
  ASSUME TypeOK
  PROVE  /\ \A n \in Nat : OnlineLine(n) \in ReplyLine
         /\ \A c \in Conns : UserLine(c) \in ReplyLine
         /\ NoUserLine \in ReplyLine
         /\ EndLine \in ReplyLine
         /\ \A line \in Line : line.op = "login" => line.name \in Names
         /\ \A line \in Line : line.op = "find" => line.name \in Names
BY DEF TypeOK, ReplyLine, OnlineLine, UserLine, NoUserLine, EndLine, Line

\* A written line keeps the types of what Write changes.
LEMMA WriteTypes ==
  ASSUME TypeOK, NEW c \in Conns, NEW line \in ReplyLine, NEW err,
         Write(c, line, err)
  PROVE  /\ reply' \in [Conns -> Seq(ReplyLine)]
         /\ reply' = [reply EXCEPT ![c] = Append(@, line)]
         /\ writefailed' \in [Conns -> BOOLEAN]
         /\ \A d \in Conns \ {c} : writefailed'[d] = writefailed[d]
         /\ unread' \in [Conns -> 0 .. SockBuf]
<1>1. reply[c] \in Seq(ReplyLine)
  BY DEF TypeOK
<1>2. Append(reply[c], line) \in Seq(ReplyLine)
  BY <1>1, AppendProperties
<1>3. reply' \in [Conns -> Seq(ReplyLine)]
  BY <1>2 DEF Write, TypeOK
<1>4. unread' \in [Conns -> 0 .. SockBuf]
  BY ConstantsOK DEF Write, TypeOK
<1>5. PICK e \in BOOLEAN :
        writefailed' = [writefailed EXCEPT ![c] = @ \/ e \/ err]
  BY DEF Write
<1>6. /\ writefailed' \in [Conns -> BOOLEAN]
      /\ \A d \in Conns \ {c} : writefailed'[d] = writefailed[d]
  BY <1>5 DEF TypeOK
<1> QED
  BY <1>3, <1>4, <1>6 DEF Write

\* The nodes are connections.
LEMMA RegisteredAreConns ==
  ASSUME TypeOK
  PROVE  Registered \subseteq Conns /\ \A i \in 1 .. Len(users) : users[i] \in Registered
<1>1. users \in Seq(Conns)
  BY DEF TypeOK
<1>2. DOMAIN users = 1 .. Len(users) /\ \A i \in 1 .. Len(users) : users[i] \in Conns
  BY <1>1, LenProperties, ElementOfSeq
<1> QED
  BY <1>2 DEF Registered

\* The node in hand is in the list.
LEMMA CursorInList ==
  ASSUME TypeOK, UniqueNames, Snapshot, NEW c \in Conns,
         pc[c] \in {"listUser", "findSend"}
  PROVE  cursor[c] \in Registered \cup {NoConn}
<1>1. CASE pc[c] = "listUser"
  <2>1. Len(reply[c]) \in 1 .. Len(users) + 1 /\ Len(users) \in Nat
    BY <1>1, LenProperties DEF Snapshot, Walked, TypeOK
  <2>2. Len(reply[c]) <= Len(users) => Len(reply[c]) \in 1 .. Len(users)
    BY <2>1
  <2>3. cursor[c] = IF Len(reply[c]) <= Len(users) THEN users[Len(reply[c])] ELSE NoConn
    BY <1>1 DEF Snapshot, Walked
  <2> QED
    BY <2>2, <2>3, RegisteredAreConns
<1>2. CASE pc[c] = "findSend"
  BY <1>2, FindUserProperties DEF Snapshot
<1> QED
  BY <1>1, <1>2

\* Every line of thread() keeps the types; unread stays within the buffer.
LEMMA TypeStep == IInv /\ [Next]_vars => TypeOK'
<1> SUFFICES ASSUME IInv, [Next]_vars PROVE TypeOK'
  OBVIOUS
<1>0. TypeOK /\ UniqueNames /\ RegistryOwned /\ Snapshot
  BY DEF IInv
<1> USE DEF Goto, Locations, Session, Locked, threadVars, listVars, clientVars
<1>1. ASSUME NEW c \in Conns, Connect(c) PROVE TypeOK'
  BY <1>1, <1>0, LineTypes, WriteTypes DEF Connect, TypeOK
<1>2. ASSUME NEW c \in Conns, NEW line \in Line, Send(c, line) PROVE TypeOK'
  <2>1. sent' \in [Conns -> 0 .. MaxLines]
    <3>1. sent \in [Conns -> 0 .. MaxLines] /\ MaxLines \in Nat
      BY <1>0, ConstantsOK DEF TypeOK
    <3>2. sent[c] < MaxLines /\ sent' = [sent EXCEPT ![c] = sent[c] + 1]
      BY <1>2 DEF Send
    <3>3. sent[c] + 1 \in 0 .. MaxLines
      BY <3>1, <3>2
    <3> QED
      BY <3>1, <3>2, <3>3
  <2>2. inbox' \in [Conns -> Line \cup {NoLine}]
    BY <1>2, <1>0 DEF Send, TypeOK
  <2>3. UNCHANGED <<alive, mutex, threadVars, listVars, cend, unread>>
    BY <1>2 DEF Send
  <2> QED
    BY <1>0, <2>1, <2>2, <2>3 DEF TypeOK
<1>3. ASSUME NEW c \in Conns, Receive(c) PROVE TypeOK'
  <2>1. unread' \in [Conns -> 0 .. SockBuf]
    <3>1. unread \in [Conns -> 0 .. SockBuf] /\ SockBuf \in Nat
      BY <1>0, ConstantsOK DEF TypeOK
    <3>2. unread[c] > 0 /\ unread' = [unread EXCEPT ![c] = unread[c] - 1]
      BY <1>3 DEF Receive
    <3>3. unread[c] - 1 \in 0 .. SockBuf
      BY <3>1, <3>2
    <3> QED
      BY <3>1, <3>2, <3>3
  <2>2. UNCHANGED <<alive, mutex, threadVars, listVars, cend, inbox, sent>>
    BY <1>3 DEF Receive
  <2> QED
    BY <1>0, <2>1, <2>2 DEF TypeOK
<1>4. ASSUME NEW c \in Conns, HangUp(c) PROVE TypeOK'
  BY <1>4, <1>0, ConstantsOK DEF HangUp, TypeOK
<1>5. ASSUME NEW c \in Conns, Accept(c) PROVE TypeOK'
  BY <1>5, <1>0, LineTypes, WriteTypes DEF Accept, TypeOK
<1>6. ASSUME NEW c \in Conns, AcceptFails(c) PROVE TypeOK'
  BY <1>6, <1>0, LineTypes, WriteTypes DEF AcceptFails, TypeOK
<1>7. ASSUME NEW c \in Conns, ReadLogin(c) PROVE TypeOK'
  <2>1. PICK line \in IF inbox[c] # NoLine THEN {inbox[c]} ELSE Line :
          /\ arg' = [arg EXCEPT ![c] = IF line.op = "login" THEN line.name ELSE NoName]
          /\ pc' = [pc EXCEPT ![c] = IF line.op = "login" THEN "create" ELSE "close"]
    BY <1>7 DEF ReadLogin
  <2>2. line \in Line
    BY <1>0, <2>1 DEF TypeOK
  <2>3. (IF line.op = "login" THEN line.name ELSE NoName) \in Names \cup {NoName}
    BY <1>0, <2>2, LineTypes
  <2> QED
    BY <1>7, <1>0, <2>1, <2>3 DEF ReadLogin, TypeOK
<1>8. ASSUME NEW c \in Conns, createUser(c) PROVE TypeOK'
  <2>1. users' \in Seq(Conns)
    <3>1. users' = users \/ users' = <<c>> \o users
      BY <1>8 DEF createUser
    <3>2. users \in Seq(Conns)
      BY <1>0 DEF TypeOK
    <3>3. <<c>> \o users \in Seq(Conns)
      BY <1>0, LinkProperties
    <3> QED
      BY <3>1, <3>2, <3>3
  <2>2. users_count' \in Nat
    BY <1>8, <1>0 DEF createUser, TypeOK
  <2>4. uname' \in [Conns -> Names \cup {NoName}]
    <3>1. uname' = uname \/ uname' = [uname EXCEPT ![c] = arg[c]]
      BY <1>8 DEF createUser
    <3> QED
      BY <1>0, <3>1 DEF TypeOK
  <2>3. pc' \in [Conns -> Locations] /\ arg' \in [Conns -> Names \cup {NoName}]
    BY <1>8, <1>0 DEF createUser, TypeOK
  <2> QED
    BY <1>8, <1>0, <2>1, <2>2, <2>3, <2>4 DEF createUser, TypeOK
<1>9. ASSUME NEW c \in Conns, ReadCommand(c) PROVE TypeOK'
  BY <1>9, <1>0, LineTypes, WriteTypes DEF ReadCommand, TypeOK
<1>10. ASSUME NEW c \in Conns, EndOfFile(c) PROVE TypeOK'
  BY <1>10, <1>0, LineTypes, WriteTypes DEF EndOfFile, TypeOK
<1>11. ASSUME NEW c \in Conns, ListLock(c) PROVE TypeOK'
  BY <1>11, <1>0, LineTypes, WriteTypes DEF ListLock, TypeOK
<1>12. ASSUME NEW c \in Conns, ListHead(c) PROVE TypeOK'
  <2>1. users_count \in Nat
    BY <1>0 DEF TypeOK
  <2>2. /\ reply' \in [Conns -> Seq(ReplyLine)]
        /\ writefailed' \in [Conns -> BOOLEAN]
        /\ unread' \in [Conns -> 0 .. SockBuf]
    BY <1>12, <1>0, <2>1, LineTypes, WriteTypes DEF ListHead
  <2>3. pc' \in [Conns -> Locations] /\ cursor' \in [Conns -> Conns \cup {NoConn}]
    <3>1. head \in Conns \cup {NoConn}
      <4>1. users \in Seq(Conns) /\ Len(users) \in Nat
        BY <1>0, LenProperties DEF TypeOK
      <4>2. Len(users) # 0 => users[1] \in Conns
        BY <4>1, ElementOfSeq
      <4> QED
        BY <1>0, <4>2, HeadProperties
    <3> QED
      BY <1>12, <1>0, <3>1 DEF ListHead, TypeOK
  <2> QED
    BY <1>12, <1>0, <2>2, <2>3 DEF ListHead, TypeOK
<1>13. ASSUME NEW c \in Conns, ListUser(c) PROVE TypeOK'
  <2>1. cursor[c] \in Registered /\ cursor[c] \in Conns
    BY <1>13, <1>0, CursorInList, RegisteredAreConns DEF ListUser
  <2>2. /\ reply' \in [Conns -> Seq(ReplyLine)]
        /\ writefailed' \in [Conns -> BOOLEAN]
        /\ unread' \in [Conns -> 0 .. SockBuf]
    BY <1>13, <1>0, <2>1, LineTypes, WriteTypes DEF ListUser
  <2>3. next(cursor[c]) \in Conns \cup {NoConn}
    <3>1. PICK i \in 1 .. Len(users) : cursor[c] = users[i]
      BY <1>0, <2>1, LenProperties DEF Registered, TypeOK
    <3>2. Len(users) \in Nat /\ (i # Len(users) => i + 1 \in 1 .. Len(users))
      BY <1>0, LenProperties DEF TypeOK
    <3> QED
      BY <1>0, <3>1, <3>2, NextProperties, RegisteredAreConns
  <2> QED
    BY <1>13, <1>0, <2>2, <2>3 DEF ListUser, TypeOK
<1>14. ASSUME NEW c \in Conns, ListUnlock(c) PROVE TypeOK'
  BY <1>14, <1>0, LineTypes, WriteTypes DEF ListUnlock, TypeOK
<1>15. ASSUME NEW c \in Conns, ListEnd(c) PROVE TypeOK'
  <2>1. /\ reply' \in [Conns -> Seq(ReplyLine)]
        /\ writefailed' \in [Conns -> BOOLEAN]
        /\ unread' \in [Conns -> 0 .. SockBuf]
    BY <1>15, <1>0, LineTypes, WriteTypes DEF ListEnd
  <2>2. pc' \in [Conns -> Locations]
    BY <1>15, <1>0 DEF ListEnd, AfterReply, TypeOK
  <2> QED
    BY <1>15, <1>0, <2>1, <2>2 DEF ListEnd, TypeOK
<1>16. ASSUME NEW c \in Conns, FindLock(c) PROVE TypeOK'
  <2>1. findUser(arg[c]) \in Conns \cup {NoConn}
    BY <1>0, FindUserProperties, RegisteredAreConns
  <2> QED
    BY <1>16, <1>0, <2>1 DEF FindLock, TypeOK
<1>17. ASSUME NEW c \in Conns, FindSend(c) PROVE TypeOK'
  <2>1. cursor[c] # NoConn => cursor[c] \in Conns
    BY <1>17, <1>0 DEF FindSend, TypeOK
  <2>2. /\ reply' \in [Conns -> Seq(ReplyLine)]
        /\ writefailed' \in [Conns -> BOOLEAN]
        /\ unread' \in [Conns -> 0 .. SockBuf]
    BY <1>17, <1>0, <2>1, LineTypes, WriteTypes DEF FindSend
  <2>3. pc' \in [Conns -> Locations]
    BY <1>17, <1>0 DEF FindSend, AfterReply, TypeOK
  <2> QED
    BY <1>17, <1>0, <2>2, <2>3 DEF FindSend, TypeOK
<1>18. ASSUME NEW c \in Conns, deleteUser(c) PROVE TypeOK'
  <2>1. c \in Registered
    BY <1>18, <1>0 DEF deleteUser, RegistryOwned
  <2>2. unlink(c) \in Seq(Conns) /\ users_count - 1 \in Nat
    BY <1>0, <2>1, UnlinkProperties, LenProperties DEF TypeOK, RegistryOwned
  <2> QED
    BY <1>18, <1>0, <2>2 DEF deleteUser, TypeOK
<1>19. ASSUME NEW c \in Conns, cleanThread(c) PROVE TypeOK'
  BY <1>19, <1>0, LineTypes, WriteTypes DEF cleanThread, TypeOK
<1>20. ASSUME NEW c \in Conns, Dies(c) PROVE TypeOK'
  BY <1>20, <1>0, LineTypes, WriteTypes DEF Dies, TypeOK
<1>s. CASE UNCHANGED vars
  BY <1>s, <1>0 DEF TypeOK, vars
<1> QED
  BY <1>1, <1>2, <1>3, <1>4, <1>5, <1>6, <1>7, <1>8, <1>9, <1>10, <1>11, <1>12, <1>13, <1>14, <1>15, <1>16, <1>17, <1>18, <1>19, <1>20, <1>s DEF Next, Client, Thread
\* The steps of clients and of a process that dies change nothing of the list,
\* the mutex and the threads.
Quiet == UNCHANGED <<pc, mutex, users, users_count, uname, arg, cursor, reply>>

\* The cases of a step: one that touches nothing the invariant reads, or one of
\* a thread's or of main's.
LEMMA Steps ==
  ASSUME [Next]_vars
  PROVE  \/ Quiet
         \/ \E c \in Conns :
              \/ Accept(c) \/ ReadLogin(c) \/ createUser(c) \/ ReadCommand(c)
              \/ EndOfFile(c) \/ ListLock(c) \/ ListHead(c) \/ ListUser(c)
              \/ ListUnlock(c) \/ ListEnd(c) \/ FindLock(c) \/ FindSend(c)
              \/ deleteUser(c) \/ cleanThread(c)
<1> USE DEF threadVars, listVars, clientVars
<1>1. ASSUME NEW c \in Conns, Client(c) PROVE Quiet
  BY <1>1 DEF Client, Connect, Send, Receive, HangUp, Quiet
<1>2. ASSUME NEW c \in Conns, AcceptFails(c) \/ Dies(c) PROVE Quiet
  BY <1>2 DEF AcceptFails, Dies, Quiet
<1>3. CASE UNCHANGED vars
  BY <1>3 DEF vars, Quiet
<1> QED
  BY <1>1, <1>2, <1>3 DEF Next, Thread

\* Locks and unlocks of userlist_mutex pair up on each path.
LEMMA MutexStep == IInv /\ [Next]_vars => MutexInv'
<1> SUFFICES ASSUME IInv, [Next]_vars PROVE MutexInv'
  OBVIOUS
<1>0. TypeOK /\ MutexInv
  BY DEF IInv
<1> USE DEF Goto, Locked, listVars, MutexInv, TypeOK
<1>1. CASE Quiet
  BY <1>1, <1>0 DEF Quiet, MutexInv, Locked
<1>2. ASSUME NEW c \in Conns, Accept(c) PROVE MutexInv'
  BY <1>2, <1>0, ConstantsOK DEF Accept
<1>3. ASSUME NEW c \in Conns, ReadLogin(c) PROVE MutexInv'
  BY <1>3, <1>0, ConstantsOK DEF ReadLogin
<1>4. ASSUME NEW c \in Conns, createUser(c) PROVE MutexInv'
  BY <1>4, <1>0, ConstantsOK DEF createUser
<1>5. ASSUME NEW c \in Conns, ReadCommand(c) PROVE MutexInv'
  BY <1>5, <1>0, ConstantsOK DEF ReadCommand
<1>6. ASSUME NEW c \in Conns, EndOfFile(c) PROVE MutexInv'
  BY <1>6, <1>0, ConstantsOK DEF EndOfFile
<1>7. ASSUME NEW c \in Conns, ListLock(c) PROVE MutexInv'
  BY <1>7, <1>0, ConstantsOK DEF ListLock
<1>8. ASSUME NEW c \in Conns, ListHead(c) PROVE MutexInv'
  BY <1>8, <1>0, ConstantsOK DEF ListHead
<1>9. ASSUME NEW c \in Conns, ListUser(c) PROVE MutexInv'
  BY <1>9, <1>0, ConstantsOK DEF ListUser
<1>10. ASSUME NEW c \in Conns, ListUnlock(c) PROVE MutexInv'
  BY <1>10, <1>0, ConstantsOK DEF ListUnlock
<1>11. ASSUME NEW c \in Conns, ListEnd(c) PROVE MutexInv'
  BY <1>11, <1>0, ConstantsOK DEF ListEnd, AfterReply
<1>12. ASSUME NEW c \in Conns, FindLock(c) PROVE MutexInv'
  BY <1>12, <1>0, ConstantsOK DEF FindLock
<1>13. ASSUME NEW c \in Conns, FindSend(c) PROVE MutexInv'
  BY <1>13, <1>0, ConstantsOK DEF FindSend, AfterReply
<1>14. ASSUME NEW c \in Conns, deleteUser(c) PROVE MutexInv'
  BY <1>14, <1>0, ConstantsOK DEF deleteUser
<1>15. ASSUME NEW c \in Conns, cleanThread(c) PROVE MutexInv'
  BY <1>15, <1>0, ConstantsOK DEF cleanThread
<1> QED
  BY Steps, <1>1, <1>2, <1>3, <1>4, <1>5, <1>6, <1>7, <1>8, <1>9, <1>10, <1>11, <1>12, <1>13, <1>14, <1>15

\* The list after createUser links a node.
LEMMA LinkEffect ==
  ASSUME IInv, NEW c \in Conns, createUser(c), findUser(arg[c]) = NoConn, TypeOK'
  PROVE  /\ c \notin Registered
         /\ users_count' = users_count + 1
         /\ DOMAIN users' = 1 .. Len(users) + 1
         /\ Len(users') = Len(users) + 1
         /\ \A i \in 1 .. Len(users) + 1 :
              users'[i] = IF i = 1 THEN c ELSE users[i - 1]
         /\ Registered' = Registered \cup {c}
         /\ uname'[c] = arg[c]
         /\ \A d \in Registered : uname'[d] = uname[d] /\ uname[d] # arg[c]
<1>1. TypeOK /\ UniqueNames /\ RegistryOwned
  BY DEF IInv
<1>2. c \notin Registered
  BY <1>1 DEF createUser, RegistryOwned, Session, Locked
<1>3. users' = <<c>> \o users
  BY DEF createUser
<1>4. /\ Len(users') = Len(users) + 1
      /\ \A i \in 1 .. Len(users) + 1 :
           users'[i] = IF i = 1 THEN c ELSE users[i - 1]
  BY <1>1, <1>3, LinkProperties
<1>5. DOMAIN users = 1 .. Len(users) /\ Len(users) \in Nat
  BY <1>1, LenProperties DEF TypeOK
<1>6. DOMAIN users' = 1 .. Len(users) + 1
  BY <1>4, LenProperties DEF TypeOK
<1>7. Registered' = Registered \cup {c}
  <2>1. Registered' = {users'[i] : i \in 1 .. Len(users) + 1}
    BY <1>6 DEF Registered
  <2>2. Registered = {users[i] : i \in 1 .. Len(users)}
    BY <1>5 DEF Registered
  <2>3. ASSUME NEW d \in Registered' PROVE d \in Registered \cup {c}
    <3>1. PICK i \in 1 .. Len(users) + 1 : d = users'[i]
      BY <2>1
    <3>2. i = 1 \/ i - 1 \in 1 .. Len(users)
      BY <1>5
    <3> QED
      BY <1>4, <2>2, <3>1, <3>2
  <2>4. ASSUME NEW d \in Registered \cup {c} PROVE d \in Registered'
    <3>1. CASE d = c
      <4>1. 1 \in 1 .. Len(users) + 1
        BY <1>5
      <4> QED
        BY <1>4, <2>1, <3>1, <4>1
    <3>2. CASE d \in Registered
      <4>1. PICK i \in 1 .. Len(users) : d = users[i]
        BY <2>2, <3>2
      <4>2. PICK j : j = i + 1
        OBVIOUS
      <4>3. j \in 1 .. Len(users) + 1 /\ j # 1 /\ j - 1 = i
        BY <1>5, <4>2
      <4>4. users'[j] = users[i]
        BY <1>4, <4>3
      <4> QED
        BY <2>1, <4>1, <4>3, <4>4
    <3> QED
      BY <3>1, <3>2
  <2> QED
    BY <2>3, <2>4
<1>8. \A d \in Registered : uname'[d] = uname[d] /\ uname[d] # arg[c]
  <2>1. uname' = [uname EXCEPT ![c] = arg[c]]
    BY DEF createUser
  <2>2. \A d \in Registered : uname[d] = arg[c] => findUser(arg[c]) = d
    BY <1>1, FindUserProperties
  <2>3. Registered \subseteq Conns /\ NoConn \notin Registered
    BY <1>1, RegisteredAreConns, ConstantsOK
  <2>4. \A d \in Registered : uname[d] # arg[c]
    BY <2>2, <2>3
  <2>5. \A d \in Registered : uname'[d] = uname[d]
    BY <1>1, <1>2, <2>1, <2>3 DEF TypeOK
  <2> QED
    BY <2>4, <2>5
<1>9. uname'[c] = arg[c] /\ users_count' = users_count + 1
  BY <1>1 DEF createUser, TypeOK
<1> QED
  BY <1>2, <1>4, <1>6, <1>7, <1>8, <1>9

\* The list after deleteUser unlinks a node.
LEMMA UnlinkEffect ==
  ASSUME IInv, NEW c \in Conns, deleteUser(c), TypeOK'
  PROVE  /\ c \in Registered
         /\ users_count' = users_count - 1
         /\ Len(users') = Len(users) - 1
         /\ \A i \in DOMAIN users' : \E j \in DOMAIN users :
              users'[i] = users[j] /\ users[j] # c
         /\ \A i, j \in DOMAIN users' : users'[i] = users'[j] => i = j
         /\ Registered' = Registered \ {c}
         /\ \A d \in Registered' : uname'[d] = uname[d]
<1>1. TypeOK /\ UniqueNames /\ RegistryOwned
  BY DEF IInv
<1>2. c \in Registered
  BY <1>1 DEF deleteUser, RegistryOwned, Session
<1>3. PICK k \in 1 .. Len(users) :
        /\ users[k] = c
        /\ Len(unlink(c)) = Len(users) - 1
        /\ \A i \in 1 .. Len(users) - 1 :
             unlink(c)[i] = IF i < k THEN users[i] ELSE users[i + 1]
  BY <1>1, <1>2, UnlinkProperties
<1>4. /\ Len(users') = Len(users) - 1
      /\ \A i \in 1 .. Len(users) - 1 :
           users'[i] = IF i < k THEN users[i] ELSE users[i + 1]
  <2>1. users' = unlink(c)
    BY DEF deleteUser
  <2> QED
    BY <1>3, <2>1
<1>5. DOMAIN users = 1 .. Len(users) /\ Len(users) \in Nat
  BY <1>1, LenProperties DEF TypeOK
<1>6. DOMAIN users' = 1 .. Len(users) - 1
  BY <1>4, LenProperties DEF TypeOK
<1>7. \A i, j \in 1 .. Len(users) : users[i] = users[j] => i = j
  BY <1>1, <1>5, NodesDistinct
<1>8. ASSUME NEW i \in 1 .. Len(users) - 1
      PROVE  \E j \in 1 .. Len(users) :
               /\ users'[i] = users[j]
               /\ j # k
               /\ j = IF i < k THEN i ELSE i + 1
  <2>1. CASE i < k
    BY <1>4, <1>5, <2>1
  <2>2. CASE ~(i < k)
    <3>1. i + 1 \in 1 .. Len(users) /\ i + 1 # k
      BY <1>5, <2>2
    <3> QED
      BY <1>4, <2>2, <3>1
  <2> QED
    BY <2>1, <2>2
<1>9. \A i \in DOMAIN users' : \E j \in DOMAIN users :
        users'[i] = users[j] /\ users[j] # c
  BY <1>3, <1>5, <1>6, <1>7, <1>8
<1>10. \A i, j \in DOMAIN users' : users'[i] = users'[j] => i = j
  <2> SUFFICES ASSUME NEW i \in 1 .. Len(users) - 1, NEW j \in 1 .. Len(users) - 1,
                      users'[i] = users'[j]
               PROVE  i = j
    BY <1>6
  <2>1. PICK a \in 1 .. Len(users) :
          users'[i] = users[a] /\ a = IF i < k THEN i ELSE i + 1
    BY <1>8
  <2>2. PICK b \in 1 .. Len(users) :
          users'[j] = users[b] /\ b = IF j < k THEN j ELSE j + 1
    BY <1>8
  <2>3. a = b
    BY <1>7, <2>1, <2>2
  <2>4. i \in Int /\ j \in Int /\ k \in Int
    BY <1>5
  <2>5. CASE i < k /\ j < k
    BY <2>1, <2>2, <2>3, <2>5
  <2>6. CASE i < k /\ ~(j < k)
    BY <2>1, <2>2, <2>3, <2>4, <2>6
  <2>7. CASE ~(i < k) /\ j < k
    BY <2>1, <2>2, <2>3, <2>4, <2>7
  <2>8. CASE ~(i < k) /\ ~(j < k)
    BY <2>1, <2>2, <2>3, <2>4, <2>8
  <2> QED
    BY <2>5, <2>6, <2>7, <2>8
<1>11. Registered' = Registered \ {c}
  <2>1. Registered' \subseteq Registered \ {c}
    BY <1>9 DEF Registered
  <2>2. ASSUME NEW d \in Registered \ {c} PROVE d \in Registered'
    <3>1. PICK j \in 1 .. Len(users) : d = users[j]
      BY <1>5 DEF Registered
    <3>2. j # k
      BY <1>3, <3>1
    <3>3. CASE j < k
      <4>1. j \in 1 .. Len(users) - 1
        BY <1>5, <3>3
      <4>2. users'[j] = d
        BY <1>4, <3>1, <3>3, <4>1
      <4> QED
        BY <1>6, <4>1, <4>2 DEF Registered
    <3>4. CASE ~(j < k)
      <4>1. PICK i : i = j - 1
        OBVIOUS
      <4>2. i \in 1 .. Len(users) - 1 /\ ~(i < k) /\ i + 1 = j
        BY <1>5, <3>2, <3>4, <4>1
      <4>3. users'[i] = users[i + 1]
        BY <1>4, <4>2
      <4>4. users'[i] = d
        BY <3>1, <4>2, <4>3
      <4> QED
        BY <1>6, <4>2, <4>4 DEF Registered
    <3> QED
      BY <3>3, <3>4
  <2> QED
    BY <2>1, <2>2
<1>12. \A d \in Registered' : uname'[d] = uname[d]
  BY <1>1, <1>11, RegisteredAreConns DEF deleteUser, TypeOK
<1>13. users_count' = users_count - 1
  BY DEF deleteUser
<1> QED
  BY <1>2, <1>4, <1>9, <1>10, <1>11, <1>12, <1>13

\* createUser looks the name up in the same critical section that links it.
LEMMA UniqueStep == IInv /\ [Next]_vars => UniqueNames'
<1> SUFFICES ASSUME IInv, [Next]_vars PROVE UniqueNames'
  OBVIOUS
<1>0. TypeOK /\ UniqueNames /\ RegistryOwned /\ TypeOK'
  BY TypeStep DEF IInv
<1>1. ASSUME users' = users, uname' = uname PROVE UniqueNames'
  BY <1>0, <1>1 DEF UniqueNames
<1>2. ASSUME NEW c \in Conns, createUser(c) PROVE UniqueNames'
  <2>1. CASE findUser(arg[c]) # NoConn
    BY <1>1, <1>2, <2>1 DEF createUser, listVars
  <2>2. CASE findUser(arg[c]) = NoConn
    <3> SUFFICES ASSUME NEW i \in DOMAIN users', NEW j \in DOMAIN users', i # j
                 PROVE  uname'[users'[i]] # uname'[users'[j]]
      BY DEF UniqueNames
    <3>1. /\ DOMAIN users' = 1 .. Len(users) + 1
          /\ \A l \in 1 .. Len(users) + 1 :
               users'[l] = IF l = 1 THEN c ELSE users[l - 1]
          /\ uname'[c] = arg[c]
          /\ \A d \in Registered : uname'[d] = uname[d] /\ uname[d] # arg[c]
      BY <1>0, <1>2, <2>2, LinkEffect
    <3>2. DOMAIN users = 1 .. Len(users) /\ Len(users) \in Nat
      BY <1>0, LenProperties DEF TypeOK
    <3>3. ASSUME NEW l \in 1 .. Len(users) + 1, l # 1
          PROVE  l - 1 \in DOMAIN users /\ users'[l] = users[l - 1]
      BY <3>1, <3>2, <3>3
    <3>4. \A l \in DOMAIN users : users[l] \in Registered
      BY DEF Registered
    <3>5. CASE i = 1
      BY <3>1, <3>3, <3>4, <3>5
    <3>6. CASE j = 1
      BY <3>1, <3>3, <3>4, <3>6
    <3>7. CASE i # 1 /\ j # 1
      <4>1. i - 1 # j - 1
        BY <3>1, <3>2
      <4>2. uname[users[i - 1]] # uname[users[j - 1]]
        BY <1>0, <3>1, <3>3, <3>7, <4>1 DEF UniqueNames
      <4> QED
        BY <3>1, <3>3, <3>4, <3>7, <4>2
    <3> QED
      BY <3>5, <3>6, <3>7
  <2> QED
    BY <2>1, <2>2
<1>3. ASSUME NEW c \in Conns, deleteUser(c) PROVE UniqueNames'
  <2> SUFFICES ASSUME NEW i \in DOMAIN users', NEW j \in DOMAIN users', i # j
               PROVE  uname'[users'[i]] # uname'[users'[j]]
    BY DEF UniqueNames
  <2>1. /\ \A l \in DOMAIN users' : \E m \in DOMAIN users : users'[l] = users[m]
        /\ \A l, m \in DOMAIN users' : users'[l] = users'[m] => l = m
        /\ \A d \in Registered' : uname'[d] = uname[d]
    BY <1>0, <1>3, UnlinkEffect
  <2>2. uname'[users'[i]] = uname[users'[i]] /\ uname'[users'[j]] = uname[users'[j]]
    BY <2>1 DEF Registered
  <2>3. PICK a, b \in DOMAIN users : users'[i] = users[a] /\ users'[j] = users[b]
    BY <2>1
  <2>4. a # b
    BY <2>1, <2>3
  <2> QED
    BY <1>0, <2>2, <2>3, <2>4 DEF UniqueNames
<1>4. ASSUME NEW c \in Conns, ~createUser(c), ~deleteUser(c),
             \/ Accept(c) \/ ReadLogin(c) \/ ReadCommand(c) \/ EndOfFile(c)
             \/ ListLock(c) \/ ListHead(c) \/ ListUser(c) \/ ListUnlock(c)
             \/ ListEnd(c) \/ FindLock(c) \/ FindSend(c) \/ cleanThread(c)
      PROVE  users' = users /\ uname' = uname
  BY <1>4 DEF Accept, ReadLogin, ReadCommand, EndOfFile, ListLock, ListHead, ListUser,
     ListUnlock, ListEnd, FindLock, FindSend, cleanThread, listVars
<1>5. CASE Quiet
  BY <1>1, <1>5 DEF Quiet
<1> QED
  BY Steps, <1>1, <1>2, <1>3, <1>4, <1>5

\* Linking, counting, unlinking and freeing go together.
LEMMA RegistryStep == IInv /\ [Next]_vars => RegistryOwned'
<1> SUFFICES ASSUME IInv, [Next]_vars PROVE RegistryOwned'
  OBVIOUS
<1>0. IInv /\ TypeOK /\ UniqueNames /\ RegistryOwned /\ ArgNamed /\ TypeOK'
  BY TypeStep DEF IInv
<1>1. ASSUME users' = users, users_count' = users_count, uname' = uname,
             \A d \in Conns : pc'[d] \in Session <=> pc[d] \in Session
      PROVE  RegistryOwned'
  <2>1. Registered' = Registered /\ Len(users') = Len(users)
    BY <1>1 DEF Registered
  <2>2. {d \in Conns : pc'[d] \in Session} = {d \in Conns : pc[d] \in Session}
    BY <1>1
  <2> QED
    BY <1>0, <1>1, <2>1, <2>2 DEF RegistryOwned
<1>2. ASSUME NEW c \in Conns, NEW l, pc' = [pc EXCEPT ![c] = l],
             l \in Session <=> pc[c] \in Session
      PROVE  \A d \in Conns : pc'[d] \in Session <=> pc[d] \in Session
  BY <1>0, <1>2 DEF TypeOK
<1>3. ASSUME NEW c \in Conns, createUser(c) PROVE RegistryOwned'
  <2>1. CASE findUser(arg[c]) # NoConn
    <3>1. pc' = [pc EXCEPT ![c] = "close"] /\ pc[c] = "create" /\ UNCHANGED listVars
      BY <1>3, <2>1 DEF createUser, Goto
    <3> QED
      BY <1>1, <1>2, <3>1 DEF Session, Locked, listVars
  <2>2. CASE findUser(arg[c]) = NoConn
    <3>1. /\ c \notin Registered
          /\ users_count' = users_count + 1
          /\ Len(users') = Len(users) + 1
          /\ Registered' = Registered \cup {c}
          /\ uname'[c] = arg[c]
          /\ \A d \in Registered : uname'[d] = uname[d]
      BY <1>3, <1>0, <2>2, LinkEffect
    <3>2. arg[c] \in Names
      BY <1>3, <1>0 DEF createUser, ArgNamed
    <3>3. pc' = [pc EXCEPT ![c] = "loop"]
      BY <1>3, <2>2 DEF createUser, Goto
    <3>4. \A d \in Conns : pc'[d] \in Session <=> pc[d] \in Session \/ d = c
      BY <1>0, <3>3 DEF TypeOK, Session
    <3>5. {d \in Conns : pc'[d] \in Session} = {d \in Conns : pc[d] \in Session} \cup {c}
      BY <3>4
    <3>6. Registered' = {d \in Conns : pc'[d] \in Session}
      BY <1>0, <3>1, <3>5 DEF RegistryOwned
    <3>7. \A d \in Registered' : uname'[d] \in Names
      BY <1>0, <3>1, <3>2 DEF RegistryOwned
    <3> QED
      BY <1>0, <3>1, <3>6, <3>7 DEF RegistryOwned
  <2> QED
    BY <2>1, <2>2
<1>4. ASSUME NEW c \in Conns, deleteUser(c) PROVE RegistryOwned'
  <2>1. /\ c \in Registered
        /\ users_count' = users_count - 1
        /\ Len(users') = Len(users) - 1
        /\ Registered' = Registered \ {c}
        /\ \A d \in Registered' : uname'[d] = uname[d]
    BY <1>4, <1>0, UnlinkEffect
  <2>2. pc' = [pc EXCEPT ![c] = "close"]
    BY <1>4 DEF deleteUser, Goto
  <2>3. \A d \in Conns : pc'[d] \in Session <=> pc[d] \in Session /\ d # c
    BY <1>0, <2>2 DEF TypeOK, Session, Locked
  <2>4. {d \in Conns : pc'[d] \in Session} = {d \in Conns : pc[d] \in Session} \ {c}
    BY <2>3
  <2>5. Registered' = {d \in Conns : pc'[d] \in Session}
    BY <1>0, <2>1, <2>4 DEF RegistryOwned
  <2> QED
    BY <1>0, <2>1, <2>5 DEF RegistryOwned
<1>5. ASSUME NEW c \in Conns,
             \/ Accept(c) \/ ReadLogin(c) \/ ReadCommand(c) \/ EndOfFile(c)
             \/ ListLock(c) \/ ListHead(c) \/ ListUser(c) \/ ListUnlock(c)
             \/ ListEnd(c) \/ FindLock(c) \/ FindSend(c) \/ cleanThread(c)
      PROVE  RegistryOwned'
  <2>1. users' = users /\ users_count' = users_count /\ uname' = uname
    BY <1>5 DEF Accept, ReadLogin, ReadCommand, EndOfFile, ListLock, ListHead, ListUser,
       ListUnlock, ListEnd, FindLock, FindSend, cleanThread, listVars
  <2>2. CASE pc' = pc
    BY <1>1, <2>1, <2>2
  <2>3. CASE \E l : pc' = [pc EXCEPT ![c] = l] /\ (l \in Session <=> pc[c] \in Session)
    BY <1>1, <1>2, <2>1, <2>3
  <2> USE DEF Goto, Session, Locked
  <2>4. CASE Accept(c) \/ ReadLogin(c) \/ cleanThread(c)
    BY <2>3, <2>4 DEF Accept, ReadLogin, cleanThread
  <2>5. CASE ReadCommand(c) \/ EndOfFile(c)
    BY <2>3, <2>5 DEF ReadCommand, EndOfFile
  <2>6. CASE ListLock(c) \/ ListHead(c) \/ ListUnlock(c) \/ FindLock(c)
    BY <2>3, <2>6 DEF ListLock, ListHead, ListUnlock, FindLock
  <2>7. CASE ListUser(c)
    BY <2>2, <2>7 DEF ListUser
  <2>8. CASE ListEnd(c) \/ FindSend(c)
    BY <2>3, <2>8 DEF ListEnd, FindSend, AfterReply
  <2> QED
    BY <1>5, <2>4, <2>5, <2>6, <2>7, <2>8
<1>6. CASE Quiet
  BY <1>1, <1>6 DEF Quiet
<1> QED
  BY Steps, <1>3, <1>4, <1>5, <1>6

\* Only a login or a find with a username goes on to use one.
LEMMA ArgStep == IInv /\ [Next]_vars => ArgNamed'
<1> SUFFICES ASSUME IInv, [Next]_vars, NEW d \in Conns,
                    pc'[d] \in {"create", "findLock", "findSend"}
             PROVE  arg'[d] \in Names
  BY DEF ArgNamed
<1>0. TypeOK /\ ArgNamed
  BY DEF IInv
<1>1. CASE pc'[d] = pc[d] /\ arg'[d] = arg[d]
  BY <1>0, <1>1 DEF ArgNamed
<1>2. ASSUME NEW c \in Conns, ReadLogin(c) PROVE arg'[d] \in Names
  <2>1. CASE d = c
    <3>1. PICK line \in IF inbox[c] # NoLine THEN {inbox[c]} ELSE Line :
            /\ arg' = [arg EXCEPT ![c] = IF line.op = "login" THEN line.name ELSE NoName]
            /\ pc' = [pc EXCEPT ![c] = IF line.op = "login" THEN "create" ELSE "close"]
      BY <1>2 DEF ReadLogin, Goto
    <3>2. line \in Line /\ line.op = "login"
      BY <1>0, <2>1, <3>1 DEF TypeOK
    <3> QED
      BY <1>0, <2>1, <3>1, <3>2, LineTypes DEF TypeOK
  <2>2. CASE d # c
    <3>1. pc'[d] = pc[d] /\ arg'[d] = arg[d]
      BY <1>0, <1>2, <2>2 DEF ReadLogin, Goto, TypeOK
    <3> QED
      BY <1>1, <3>1
  <2> QED
    BY <2>1, <2>2
<1>3. ASSUME NEW c \in Conns, ReadCommand(c) PROVE arg'[d] \in Names
  <2>1. CASE d = c
    <3>1. /\ inbox[c] \in Line
          /\ arg'[c] = IF inbox[c].op = "find" THEN inbox[c].name ELSE NoName
          /\ pc'[c] = "findLock" => inbox[c].op = "find"
          /\ pc'[c] \in {"listLock", "findLock", "delete", "loop"}
      BY <1>0, <1>3 DEF ReadCommand, Goto, TypeOK
    <3> QED
      BY <1>0, <2>1, <3>1, LineTypes
  <2>2. CASE d # c
    <3>1. pc'[d] = pc[d] /\ arg'[d] = arg[d]
      BY <1>0, <1>3, <2>2 DEF ReadCommand, Goto, TypeOK
    <3> QED
      BY <1>1, <3>1
  <2> QED
    BY <2>1, <2>2
<1>4. ASSUME NEW c \in Conns, FindLock(c) PROVE arg'[d] \in Names
  <2>1. arg' = arg /\ (pc'[d] = pc[d] \/ pc[d] = "findLock")
    BY <1>0, <1>4 DEF FindLock, Goto, TypeOK
  <2> QED
    BY <1>0, <1>1, <2>1 DEF ArgNamed
<1>5. ASSUME NEW c \in Conns,
             \/ Accept(c) \/ createUser(c) \/ EndOfFile(c) \/ ListLock(c)
             \/ ListHead(c) \/ ListUser(c) \/ ListUnlock(c) \/ ListEnd(c)
             \/ FindSend(c) \/ deleteUser(c) \/ cleanThread(c)
      PROVE  pc'[d] = pc[d] /\ arg'[d] = arg[d]
  <2> USE <1>0 DEF Goto, TypeOK
  <2>1. CASE Accept(c) \/ EndOfFile(c) \/ cleanThread(c)
    BY <2>1 DEF Accept, EndOfFile, cleanThread
  <2>2. CASE createUser(c) \/ deleteUser(c)
    BY <2>2 DEF createUser, deleteUser
  <2>3. CASE ListLock(c) \/ ListHead(c) \/ ListUser(c) \/ ListUnlock(c)
    BY <2>3 DEF ListLock, ListHead, ListUser, ListUnlock
  <2>4. CASE ListEnd(c) \/ FindSend(c)
    BY <2>4 DEF ListEnd, FindSend, AfterReply
  <2> QED
    BY <1>5, <2>1, <2>2, <2>3, <2>4
<1>6. CASE Quiet
  BY <1>1, <1>6 DEF Quiet
<1> QED
  BY Steps, <1>1, <1>2, <1>3, <1>4, <1>5, <1>6

\* A step of c leaves what the thread of another connection holds alone.
LEMMA OthersUnchanged ==
  ASSUME TypeOK, NEW c \in Conns, NEW d \in Conns, d # c,
         \/ Accept(c) \/ ReadLogin(c) \/ createUser(c) \/ ReadCommand(c)
         \/ EndOfFile(c) \/ ListLock(c) \/ ListHead(c) \/ ListUser(c)
         \/ ListUnlock(c) \/ ListEnd(c) \/ FindLock(c) \/ FindSend(c)
         \/ deleteUser(c) \/ cleanThread(c)
  PROVE  /\ pc'[d] = pc[d]
         /\ arg'[d] = arg[d]
         /\ cursor'[d] = cursor[d]
         /\ reply'[d] = reply[d]
<1> USE DEF Goto, TypeOK
<1>1. CASE Accept(c) \/ ReadLogin(c) \/ EndOfFile(c) \/ cleanThread(c)
  BY <1>1 DEF Accept, ReadLogin, EndOfFile, cleanThread
<1>2. CASE createUser(c) \/ ReadCommand(c) \/ deleteUser(c)
  BY <1>2 DEF createUser, ReadCommand, deleteUser
<1>3. CASE ListLock(c) \/ ListUnlock(c) \/ FindLock(c)
  BY <1>3 DEF ListLock, ListUnlock, FindLock
<1>4. CASE ListHead(c) \/ ListUser(c)
  BY <1>4 DEF ListHead, ListUser, Write
<1>5. CASE ListEnd(c) \/ FindSend(c)
  BY <1>5 DEF ListEnd, FindSend, AfterReply, Write
<1> QED
  BY <1>1, <1>2, <1>3, <1>4, <1>5

\* One connection's part of Snapshot.
SnapshotOf(c) ==
  /\ pc[c] \in {"listLock", "listHead", "findLock", "findSend"} => reply[c] = <<>>
  /\ pc[c] = "listUser" => Walked(c)
  /\ pc[c] = "findSend" => cursor[c] = findUser(arg[c])

\* A walk is not disturbed while the list and its own state stay.
LEMMA WalkKept ==
  ASSUME NEW d, users' = users, uname' = uname,
         pc'[d] = pc[d], arg'[d] = arg[d], cursor'[d] = cursor[d], reply'[d] = reply[d],
         SnapshotOf(d)
  PROVE  SnapshotOf(d)'
<1>1. Walked(d)' <=> Walked(d)
  BY DEF Walked, OnlineLine, UserLine
<1>2. findUser(arg[d])' = findUser(arg[d])
  BY DEF findUser
<1> QED
  BY <1>1, <1>2 DEF SnapshotOf

\* Writing the count starts a walk at the head.
LEMMA WalkStarts ==
  ASSUME IInv, TypeOK', NEW c \in Conns, ListHead(c)
  PROVE  Walked(c)'
<1>0. TypeOK /\ RegistryOwned /\ Snapshot /\ users_count = Len(users) /\ Len(users) \in Nat
  BY LenProperties DEF IInv, RegistryOwned, TypeOK
<1>1. reply[c] = <<>>
  BY <1>0 DEF Snapshot, ListHead
<1>2. users' = users /\ cursor'[c] = head
  BY <1>0 DEF ListHead, listVars, TypeOK
<1>3. reply'[c] = Append(reply[c], OnlineLine(users_count))
  BY <1>0 DEF ListHead, Write, TypeOK
<1>4. reply'[c] = <<OnlineLine(Len(users))>>
  BY <1>0, <1>1, <1>3
<1>5. Len(reply'[c]) = 1 /\ reply'[c][1] = OnlineLine(Len(users))
  BY <1>4
<1>6. cursor'[c] = IF 1 <= Len(users) THEN users[1] ELSE NoConn
  BY <1>0, <1>2, HeadProperties
<1> QED
  BY <1>0, <1>2, <1>5, <1>6 DEF Walked, OnlineLine

\* Writing a user line takes the walk one node further.
LEMMA WalkGoesOn ==
  ASSUME IInv, TypeOK', NEW c \in Conns, ListUser(c)
  PROVE  Walked(c)'
<1>0. TypeOK /\ UniqueNames /\ Snapshot /\ Len(users) \in Nat /\ users \in Seq(Conns)
  BY LenProperties DEF IInv, TypeOK
<1>1. Walked(c) /\ cursor[c] # NoConn
  BY <1>0 DEF Snapshot, ListUser
<1>2. PICK k : k = Len(reply[c])
  OBVIOUS
<1>3. k \in 1 .. Len(users) /\ cursor[c] = users[k]
  BY <1>0, <1>1, <1>2 DEF Walked
<1>4. users' = users /\ uname' = uname
  BY DEF ListUser, listVars
<1>5. cursor'[c] = IF k = Len(users) THEN NoConn ELSE users[k + 1]
  <2>1. cursor'[c] = next(cursor[c])
    BY <1>0 DEF ListUser, TypeOK
  <2> QED
    BY <1>0, <1>3, <2>1, NextProperties
<1>6. /\ Len(reply'[c]) = k + 1
      /\ \A i \in 1 .. k : reply'[c][i] = reply[c][i]
      /\ reply'[c][k + 1] = UserLine(users[k])
  <2>1. reply'[c] = Append(reply[c], UserLine(users[k]))
    BY <1>0, <1>3 DEF ListUser, Write, TypeOK
  <2>2. reply[c] \in Seq(ReplyLine) /\ UserLine(users[k]) \in ReplyLine
    BY <1>0, <1>3, LineTypes, ElementOfSeq DEF TypeOK
  <2> QED
    BY <1>2, <2>1, <2>2, AppendProperties
<1>7. Len(reply'[c]) \in 1 .. Len(users) + 1
  BY <1>0, <1>3, <1>6
<1>8. reply'[c][1] = OnlineLine(Len(users))
  BY <1>0, <1>1, <1>3, <1>6 DEF Walked
<1>9. ASSUME NEW i \in 2 .. k + 1 PROVE reply'[c][i] = UserLine(users[i - 1])
  <2>1. CASE i = k + 1
    <3>1. i - 1 = k
      BY <1>3, <2>1
    <3> QED
      BY <1>6, <2>1, <3>1
  <2>2. CASE i # k + 1
    <3>1. i \in 2 .. k /\ i \in 1 .. k
      BY <1>3, <2>2
    <3> QED
      BY <1>1, <1>2, <1>6, <3>1 DEF Walked
  <2> QED
    BY <2>1, <2>2
<1>10. cursor'[c] = IF k + 1 <= Len(users) THEN users[k + 1] ELSE NoConn
  BY <1>0, <1>3, <1>5
<1> QED
  BY <1>4, <1>6, <1>7, <1>8, <1>9, <1>10 DEF Walked, OnlineLine, UserLine

\* The list changes only when no thread is in the critical section.
LEMMA ListLockedSteps ==
  ASSUME IInv, NEW c \in Conns,
         \/ Accept(c) \/ ReadLogin(c) \/ createUser(c) \/ ReadCommand(c)
         \/ EndOfFile(c) \/ ListLock(c) \/ ListHead(c) \/ ListUser(c)
         \/ ListUnlock(c) \/ ListEnd(c) \/ FindLock(c) \/ FindSend(c)
         \/ deleteUser(c) \/ cleanThread(c)
  PROVE  \/ users' = users /\ uname' = uname /\ users_count' = users_count
         \/ \A d \in Conns : pc[d] \notin Locked
<1>0. MutexInv
  BY DEF IInv
<1>1. CASE createUser(c) \/ deleteUser(c)
  BY <1>0, <1>1, ConstantsOK DEF createUser, deleteUser, MutexInv
<1>2. CASE \/ Accept(c) \/ ReadLogin(c) \/ ReadCommand(c) \/ EndOfFile(c)
           \/ ListLock(c) \/ ListHead(c) \/ ListUser(c) \/ ListUnlock(c)
           \/ ListEnd(c) \/ FindLock(c) \/ FindSend(c) \/ cleanThread(c)
  BY <1>2 DEF Accept, ReadLogin, ReadCommand, EndOfFile, ListLock, ListHead, ListUser,
     ListUnlock, ListEnd, FindLock, FindSend, cleanThread, listVars
<1> QED
  BY <1>1, <1>2

\* Whoever changes the list does so with the lock, so not while d walks it.
LEMMA SnapshotStep == IInv /\ [Next]_vars => Snapshot'
<1> SUFFICES ASSUME IInv, [Next]_vars, NEW d \in Conns PROVE SnapshotOf(d)'
  BY DEF Snapshot, SnapshotOf
<1>0. TypeOK /\ TypeOK' /\ SnapshotOf(d)
  BY TypeStep DEF IInv, Snapshot, SnapshotOf
<1>1. CASE Quiet
  BY <1>0, <1>1, WalkKept DEF Quiet
<1>2. ASSUME NEW c \in Conns, c # d,
             \/ Accept(c) \/ ReadLogin(c) \/ createUser(c) \/ ReadCommand(c)
             \/ EndOfFile(c) \/ ListLock(c) \/ ListHead(c) \/ ListUser(c)
             \/ ListUnlock(c) \/ ListEnd(c) \/ FindLock(c) \/ FindSend(c)
             \/ deleteUser(c) \/ cleanThread(c)
      PROVE  SnapshotOf(d)'
  <2>1. pc'[d] = pc[d] /\ arg'[d] = arg[d] /\ cursor'[d] = cursor[d] /\ reply'[d] = reply[d]
    BY <1>0, <1>2, OthersUnchanged
  <2>2. CASE users' = users /\ uname' = uname
    BY <1>0, <2>1, <2>2, WalkKept
  <2>3. CASE \A e \in Conns : pc[e] \notin Locked
    BY <1>0, <2>1, <2>3 DEF SnapshotOf, Locked
  <2> QED
    BY <1>2, <2>2, <2>3, ListLockedSteps
<1> USE DEF Goto
<1>3. CASE Accept(d) \/ ReadLogin(d) \/ EndOfFile(d) \/ cleanThread(d)
  <2>1. pc'[d] \in {"first", "create", "close", "delete", "done"}
    BY <1>0, <1>3 DEF Accept, ReadLogin, EndOfFile, cleanThread, TypeOK
  <2> QED
    BY <2>1 DEF SnapshotOf
<1>4. CASE createUser(d) \/ deleteUser(d)
  <2>1. pc'[d] \in {"close", "loop"}
    BY <1>0, <1>4 DEF createUser, deleteUser, TypeOK
  <2> QED
    BY <2>1 DEF SnapshotOf
<1>5. CASE ReadCommand(d)
  <2>1. reply'[d] = <<>> /\ pc'[d] \in {"listLock", "findLock", "delete", "loop"}
    BY <1>0, <1>5 DEF ReadCommand, TypeOK
  <2> QED
    BY <2>1 DEF SnapshotOf
<1>6. CASE ListLock(d)
  <2>1. pc[d] = "listLock" /\ pc'[d] = "listHead" /\ reply'[d] = reply[d]
    BY <1>0, <1>6 DEF ListLock, TypeOK
  <2> QED
    BY <1>0, <2>1 DEF SnapshotOf
<1>7. CASE ListHead(d)
  <2>1. pc'[d] = "listUser"
    BY <1>0, <1>7 DEF ListHead, TypeOK
  <2> QED
    BY <1>0, <1>7, <2>1, WalkStarts DEF SnapshotOf
<1>8. CASE ListUser(d)
  <2>1. pc'[d] = "listUser"
    BY <1>0, <1>8 DEF ListUser, TypeOK
  <2> QED
    BY <1>0, <1>8, <2>1, WalkGoesOn DEF SnapshotOf
<1>9. CASE ListUnlock(d) \/ ListEnd(d) \/ FindSend(d)
  <2>1. pc'[d] \in {"listEnd", "loop", "delete"}
    BY <1>0, <1>9 DEF ListUnlock, ListEnd, FindSend, AfterReply, TypeOK
  <2> QED
    BY <2>1 DEF SnapshotOf
<1>10. CASE FindLock(d)
  <2>1. /\ pc[d] = "findLock" /\ pc'[d] = "findSend" /\ reply'[d] = reply[d]
        /\ cursor'[d] = findUser(arg[d]) /\ arg'[d] = arg[d]
        /\ users' = users /\ uname' = uname
    BY <1>0, <1>10 DEF FindLock, listVars, TypeOK
  <2>2. findUser(arg[d])' = findUser(arg[d])
    BY <2>1 DEF findUser
  <2> QED
    BY <1>0, <2>1, <2>2 DEF SnapshotOf
<1> QED
  BY Steps, <1>1, <1>2, <1>3, <1>4, <1>5, <1>6, <1>7, <1>8, <1>9, <1>10

\* One connection's part of ListCoherent.
CoherentOf(c) ==
  pc[c] = "listEnd" =>
    LET r == reply[c] IN
    /\ r # <<>>
    /\ r[1] = OnlineLine(Len(r) - 1)
    /\ \A i \in 2 .. Len(r) : r[i].tag = "user"
    /\ \A i, j \in 2 .. Len(r) : i # j => r[i].name # r[j].name
    /\ \E i \in 2 .. Len(r) : r[i].who = c

\* A walk that came to the end of the list gives a coherent reply.
LEMMA WalkEnds ==
  ASSUME IInv, NEW c \in Conns, ListUnlock(c)
  PROVE  CoherentOf(c)'
<1>0. /\ TypeOK /\ UniqueNames /\ RegistryOwned /\ Snapshot
      /\ Len(users) \in Nat /\ users \in Seq(Conns) /\ DOMAIN users = 1 .. Len(users)
  BY LenProperties DEF IInv, TypeOK
<1>1. Walked(c) /\ cursor[c] = NoConn /\ reply'[c] = reply[c]
  BY <1>0 DEF Snapshot, ListUnlock
<1>2. Len(reply[c]) = Len(users) + 1
  <2>1. \A i \in 1 .. Len(users) : users[i] # NoConn
    BY <1>0, ElementOfSeq, ConstantsOK
  <2> QED
    BY <1>0, <1>1, <2>1 DEF Walked
<1>3. PICK r : r = reply[c]
  OBVIOUS
<1>4. /\ Len(r) = Len(users) + 1
      /\ r[1] = OnlineLine(Len(users))
      /\ \A i \in 2 .. Len(r) : r[i] = UserLine(users[i - 1])
  BY <1>1, <1>2, <1>3 DEF Walked
<1>5. r # <<>> /\ r[1] = OnlineLine(Len(r) - 1)
  BY <1>0, <1>3, <1>4, EmptySeq DEF TypeOK
<1>6. ASSUME NEW i \in 2 .. Len(r)
      PROVE  /\ i - 1 \in DOMAIN users
             /\ r[i].tag = "user"
             /\ r[i].name = uname[users[i - 1]]
             /\ r[i].who = users[i - 1]
  <2>1. i - 1 \in DOMAIN users
    BY <1>0, <1>4
  <2>2. r[i] = UserLine(users[i - 1])
    BY <1>4
  <2> QED
    BY <2>1, <2>2 DEF UserLine
<1>7. ASSUME NEW i \in 2 .. Len(r), NEW j \in 2 .. Len(r), i # j
      PROVE  r[i].name # r[j].name
  <2>1. i - 1 # j - 1
    BY <1>0, <1>4, <1>7
  <2> QED
    BY <1>0, <1>6, <2>1 DEF UniqueNames
<1>8. \E i \in 2 .. Len(r) : r[i].who = c
  <2>1. c \in Registered
    BY <1>0 DEF ListUnlock, RegistryOwned, Session, Locked
  <2>2. PICK k \in 1 .. Len(users) : users[k] = c
    BY <1>0, <2>1 DEF Registered
  <2>3. PICK i : i = k + 1
    OBVIOUS
  <2>4. i \in 2 .. Len(r) /\ i - 1 = k
    BY <1>0, <1>4, <2>3
  <2> QED
    BY <1>6, <2>2, <2>4
<1> QED
  BY <1>1, <1>3, <1>5, <1>6, <1>7, <1>8 DEF CoherentOf, OnlineLine

\* A reply to be ended was a walk of the whole list, and nothing is added to it.
LEMMA CoherentStep == IInv /\ [Next]_vars => ListCoherent'
<1> SUFFICES ASSUME IInv, [Next]_vars, NEW d \in Conns PROVE CoherentOf(d)'
  BY DEF ListCoherent, CoherentOf
<1>0. TypeOK /\ CoherentOf(d)
  BY DEF IInv, ListCoherent, CoherentOf
<1>1. CASE pc'[d] = pc[d] /\ reply'[d] = reply[d]
  BY <1>0, <1>1 DEF CoherentOf, OnlineLine
<1>2. ASSUME NEW c \in Conns, c # d,
             \/ Accept(c) \/ ReadLogin(c) \/ createUser(c) \/ ReadCommand(c)
             \/ EndOfFile(c) \/ ListLock(c) \/ ListHead(c) \/ ListUser(c)
             \/ ListUnlock(c) \/ ListEnd(c) \/ FindLock(c) \/ FindSend(c)
             \/ deleteUser(c) \/ cleanThread(c)
      PROVE  CoherentOf(d)'
  BY <1>0, <1>1, <1>2, OthersUnchanged
<1>3. CASE ListUnlock(d)
  BY <1>3, WalkEnds
<1>4. CASE \/ Accept(d) \/ ReadLogin(d) \/ createUser(d) \/ ReadCommand(d)
           \/ EndOfFile(d) \/ ListLock(d) \/ ListHead(d) \/ ListUser(d)
           \/ ListEnd(d) \/ FindLock(d) \/ FindSend(d) \/ deleteUser(d)
           \/ cleanThread(d)
  <2> SUFFICES pc'[d] # "listEnd"
    BY DEF CoherentOf
  <2> USE <1>0 DEF Goto, TypeOK
  <2>1. CASE Accept(d) \/ ReadLogin(d) \/ EndOfFile(d) \/ cleanThread(d)
    BY <2>1 DEF Accept, ReadLogin, EndOfFile, cleanThread
  <2>2. CASE createUser(d) \/ ReadCommand(d) \/ deleteUser(d)
    BY <2>2 DEF createUser, ReadCommand, deleteUser
  <2>3. CASE ListLock(d) \/ ListHead(d) \/ ListUser(d) \/ FindLock(d)
    BY <2>3 DEF ListLock, ListHead, ListUser, FindLock
  <2>4. CASE ListEnd(d) \/ FindSend(d)
    BY <2>4 DEF ListEnd, FindSend, AfterReply
  <2> QED
    BY <1>4, <2>1, <2>2, <2>3, <2>4
<1>5. CASE Quiet
  BY <1>1, <1>5 DEF Quiet
<1> QED
  BY Steps, <1>2, <1>3, <1>4, <1>5

\* Every step keeps the inductive invariant.
LEMMA IInvStep == IInv /\ [Next]_vars => IInv'
BY TypeStep, ArgStep, MutexStep, UniqueStep, RegistryStep, SnapshotStep, CoherentStep
   DEF IInv

\* The inductive invariant holds in every reachable state.
LEMMA Inductive == Spec => []IInv
BY InitIInv, IInvStep, PTL DEF Spec

--------------------------------------------------------------------------------
\* Theorems.

\* Every reachable state is well typed.
THEOREM TypeCorrect == Spec => []TypeOK
<1>1. IInv => TypeOK
  BY DEF IInv
<1> QED
  BY <1>1, Inductive, PTL

\* userlist_mutex is owned exactly while its owner is inside list or find.
THEOREM MutexCorrect == Spec => []MutexInv
<1>1. IInv => MutexInv
  BY DEF IInv
<1> QED
  BY <1>1, Inductive, PTL

\* The list never holds a name twice.
THEOREM NamesUnique == Spec => []UniqueNames
<1>1. IInv => UniqueNames
  BY DEF IInv
<1> QED
  BY <1>1, Inductive, PTL

\* The list holds exactly the users whose threads are in their session, and
\* users_count counts them.
THEOREM RegistryCorrect == Spec => []RegistryOwned
<1>1. IInv => RegistryOwned
  BY DEF IInv
<1> QED
  BY <1>1, Inductive, PTL

\* No thread has a freed node in hand.
THEOREM NoUseAfterFree == Spec => []CursorLive
<1>1. IInv => CursorLive
  BY CursorInList DEF IInv, CursorLive
<1> QED
  BY <1>1, Inductive, PTL

\* Nothing changes the list under a thread that walks it.
THEOREM WalkUndisturbed == Spec => []Snapshot
<1>1. IInv => Snapshot
  BY DEF IInv
<1> QED
  BY <1>1, Inductive, PTL

\* A complete list has as many distinct users as it announced, its reader among
\* them.
THEOREM ListsCoherent == Spec => []ListCoherent
<1>1. IInv => ListCoherent
  BY DEF IInv
<1> QED
  BY <1>1, Inductive, PTL
================================================================================
