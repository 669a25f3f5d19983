------------------------- MODULE NameServer_refinement -------------------------
(***************************************************************************)
(* The name server implements Directory, for any connections, names and    *)
(* bounds.  Logins and logouts take effect at their step of the list, a    *)
(* list when its last line was composed and the mutex is released, a find  *)
(* when its line is written.                                               *)
(***************************************************************************)
EXTENDS NameServer_proofs

\* The list is the directory: what findUser returns for each name.
DirectoryIsList ==
  /\ \A n \in Names : findUser(n) = NoConn \/ (findUser(n) \in Registered /\ uname[findUser(n)] = n)
  /\ \A c \in Registered : uname[c] \in Names /\ findUser(uname[c]) = c
  /\ Registered \subseteq Conns
  /\ NoConn \notin Registered

\* In the list each connection is found under its own name and no other.
LEMMA ListIsDirectory == IInv => DirectoryIsList
<1> SUFFICES ASSUME IInv PROVE DirectoryIsList
  OBVIOUS
<1>0. TypeOK /\ UniqueNames /\ RegistryOwned
  BY DEF IInv
<1>1. ASSUME NEW n \in Names
      PROVE  findUser(n) = NoConn \/ (findUser(n) \in Registered /\ uname[findUser(n)] = n)
  BY <1>0, FindUserProperties
<1>2. ASSUME NEW c \in Registered PROVE uname[c] \in Names /\ findUser(uname[c]) = c
  BY <1>0, FindUserProperties DEF RegistryOwned
<1>3. Registered \subseteq Conns /\ NoConn \notin Registered
  BY <1>0, RegisteredAreConns, ConstantsOK
<1> QED
  BY <1>1, <1>2, <1>3 DEF DirectoryIsList

\* The directory does not change with the list and the names as they are.
LEMMA DirectoryKept ==
  ASSUME users' = users, uname' = uname
  PROVE  [n \in Names |-> findUser(n)]' = [n \in Names |-> findUser(n)]
BY DEF findUser

\* An empty list is an empty directory.
LEMMA RefineInit == Init => Dir!Init
<1> SUFFICES ASSUME Init PROVE Dir!Init
  OBVIOUS
<1>1. \A n \in Names : findUser(n) = NoConn
  BY DEF Init, findUser
<1>2. \A c \in Conns : Told(c) = Dir!NoAnswer
  BY DEF Init, Told, Dir!NoAnswer
<1> QED
  BY <1>1, <1>2 DEF Dir!Init

\* What an answer is read from.
LEMMA ToldKept ==
  ASSUME NEW c, reply'[c] = reply[c],
         pc'[c] = pc[c] \/
           (pc[c] \notin {"listLock", "listHead", "listUser", "findLock", "findSend"} /\
            pc'[c] \notin {"listLock", "listHead", "listUser", "findLock", "findSend"})
  PROVE  Told(c)' = Told(c)
BY DEF Told

\* As long as a reply may depend on the list it tells nothing yet.
LEMMA ToldPending ==
  ASSUME NEW c, pc[c] \in {"listLock", "listHead", "listUser", "findLock", "findSend"}
  PROVE  Told(c) = Dir!NoAnswer
BY DEF Told, Dir!NoAnswer

Pending == {"listLock", "listHead", "listUser", "findLock", "findSend"}

\* A step that changes neither the list nor any answer is a stutter.
LEMMA Stutter ==
  ASSUME users' = users, uname' = uname, \A d \in Conns : Told(d)' = Told(d)
  PROVE  UNCHANGED Dir!vars
<1>1. [n \in Names |-> findUser(n)]' = [n \in Names |-> findUser(n)]
  BY DirectoryKept
<1>2. [c \in Conns |-> Told(c)]' = [c \in Conns |-> Told(c)]
  OBVIOUS
<1> QED
  BY <1>1, <1>2 DEF Dir!vars

\* Linking a node registers its connection.
LEMMA RefineRegister ==
  ASSUME IInv, IInv', NEW c \in Conns, createUser(c)
  PROVE  [Dir!Next]_(Dir!vars)
<1>0. TypeOK /\ TypeOK' /\ ArgNamed /\ DirectoryIsList /\ DirectoryIsList'
  <2>1. DirectoryIsList /\ DirectoryIsList'
    BY ListIsDirectory, PTL
  <2> QED
    BY <2>1 DEF IInv
<1>1. \A d \in Conns : Told(d)' = Told(d)
  <2>1. reply' = reply
    BY DEF createUser
  <2>2. \A d \in Conns : d # c => pc'[d] = pc[d]
    BY <1>0 DEF createUser, Goto, TypeOK
  <2>3. pc[c] \notin Pending /\ pc'[c] \notin Pending
    <3>1. pc[c] = "create" /\ (Goto(c, "close") \/ Goto(c, "loop"))
      BY DEF createUser
    <3>2. pc'[c] \in {"close", "loop"}
      BY <1>0, <3>1 DEF Goto, TypeOK
    <3> QED
      BY <3>1, <3>2 DEF Pending
  <2> QED
    BY <2>1, <2>2, <2>3, ToldKept DEF Pending
<1>2. CASE findUser(arg[c]) # NoConn
  <2>1. users' = users /\ uname' = uname
    BY <1>2 DEF createUser, listVars
  <2> QED
    BY <1>1, <2>1, Stutter
<1>3. CASE findUser(arg[c]) = NoConn
  <2>1. /\ c \notin Registered
        /\ Registered' = Registered \cup {c}
        /\ uname'[c] = arg[c]
        /\ \A d \in Registered : uname'[d] = uname[d] /\ uname[d] # arg[c]
    BY <1>0, <1>3, LinkEffect
  <2>2. arg[c] \in Names
    BY <1>0 DEF ArgNamed, createUser
  <2>3. ASSUME NEW n \in Names
        PROVE  findUser(n)' = IF n = arg[c] THEN c ELSE findUser(n)
    <3>1. CASE n = arg[c]
      BY <1>0, <2>1, <3>1 DEF DirectoryIsList
    <3>2. CASE n # arg[c] /\ findUser(n) = NoConn
      <4>1. \A d \in Registered : uname[d] # n
        BY <1>0, <3>2 DEF DirectoryIsList
      <4>2. \A d \in Registered' : uname'[d] # n
        BY <2>1, <3>2, <4>1
      <4> QED
        BY <1>0, <3>2, <4>2 DEF DirectoryIsList
    <3>3. CASE n # arg[c] /\ findUser(n) # NoConn
      <4>1. findUser(n) \in Registered /\ uname[findUser(n)] = n
        BY <1>0, <3>3 DEF DirectoryIsList
      <4>2. findUser(n) \in Registered' /\ uname'[findUser(n)] = n
        BY <2>1, <4>1
      <4> QED
        BY <1>0, <3>3, <4>2 DEF DirectoryIsList
    <3> QED
      BY <3>1, <3>2, <3>3
  <2> DEFINE dir == [n \in Names |-> findUser(n)]
  <2>4. dir[arg[c]] = NoConn
    BY <1>3, <2>2
  <2>5. \A n \in Names : dir[n] # c
    BY <1>0, <2>1, ConstantsOK DEF DirectoryIsList
  <2>6. dir' = [dir EXCEPT ![arg[c]] = c]
    BY <2>3
  <2>7. [d \in Conns |-> Told(d)]' = [d \in Conns |-> Told(d)]
    BY <1>1
  <2>8. Dir!Register(c, arg[c])
    BY <2>2, <2>4, <2>5, <2>6, <2>7 DEF Dir!Register, Dir!Holds
  <2> QED
    BY <2>2, <2>8 DEF Dir!Next
<1> QED
  BY <1>2, <1>3

\* Unlinking its node releases the name.
LEMMA RefineRelease ==
  ASSUME IInv, IInv', NEW c \in Conns, deleteUser(c)
  PROVE  Dir!Release(c)
<1>0. TypeOK /\ TypeOK' /\ DirectoryIsList /\ DirectoryIsList'
  <2>1. DirectoryIsList /\ DirectoryIsList'
    BY ListIsDirectory, PTL
  <2> QED
    BY <2>1 DEF IInv
<1>1. \A d \in Conns : Told(d)' = Told(d)
  <2>1. reply' = reply
    BY DEF deleteUser
  <2>2. \A d \in Conns : d # c => pc'[d] = pc[d]
    BY <1>0 DEF deleteUser, Goto, TypeOK
  <2>3. pc[c] \notin Pending /\ pc'[c] \notin Pending
    BY <1>0 DEF deleteUser, Goto, TypeOK, Pending
  <2> QED
    BY <2>1, <2>2, <2>3, ToldKept DEF Pending
<1>2. /\ c \in Registered
      /\ Registered' = Registered \ {c}
      /\ \A d \in Registered' : uname'[d] = uname[d]
  BY <1>0, UnlinkEffect
<1>3. ASSUME NEW n \in Names
      PROVE  findUser(n)' = IF findUser(n) = c THEN NoConn ELSE findUser(n)
  <2>1. CASE findUser(n) = c \/ findUser(n) = NoConn
    <3>1. \A d \in Registered' : uname[d] # n
      BY <1>0, <1>2, <2>1 DEF DirectoryIsList
    <3>2. \A d \in Registered' : uname'[d] # n
      BY <1>2, <3>1
    <3> QED
      BY <1>0, <2>1, <3>2 DEF DirectoryIsList
  <2>2. CASE findUser(n) # c /\ findUser(n) # NoConn
    <3>1. findUser(n) \in Registered' /\ uname[findUser(n)] = n
      BY <1>0, <1>2, <2>2 DEF DirectoryIsList
    <3>2. uname'[findUser(n)] = n
      BY <1>2, <3>1
    <3> QED
      BY <1>0, <2>2, <3>1, <3>2 DEF DirectoryIsList
  <2> QED
    BY <2>1, <2>2
<1> DEFINE dir == [n \in Names |-> findUser(n)]
<1>4. uname[c] \in Names /\ dir[uname[c]] = c
  BY <1>0, <1>2 DEF DirectoryIsList
<1>5. dir' = [n \in Names |-> IF dir[n] = c THEN NoConn ELSE dir[n]]
  BY <1>3
<1>6. [d \in Conns |-> Told(d)]' = [d \in Conns |-> Told(d)]
  BY <1>1
<1> QED
  BY <1>4, <1>5, <1>6 DEF Dir!Release, Dir!Holds

\* A registered connection holds its name in the directory.
LEMMA SessionHolds ==
  ASSUME IInv, NEW c \in Conns, pc[c] \in Session
  PROVE  Dir!Holds(c)
<1>1. c \in Registered
  BY DEF IInv, RegistryOwned
<1>2. uname[c] \in Names /\ findUser(uname[c]) = c
  BY <1>1, ListIsDirectory DEF DirectoryIsList
<1> QED
  BY <1>2 DEF Dir!Holds

\* What a step tells c changes only c's answer.
LEMMA AnswerOne ==
  ASSUME TypeOK, NEW c \in Conns, NEW a, Told(c)' = a,
         \A d \in Conns : d # c => pc'[d] = pc[d] /\ reply'[d] = reply[d]
  PROVE  [d \in Conns |-> Told(d)]' = [[d \in Conns |-> Told(d)] EXCEPT ![c] = a]
<1>1. \A d \in Conns : d # c => Told(d)' = Told(d)
  BY ToldKept
<1> QED
  BY <1>1

\* Reading a command is asking.
LEMMA RefineAsk ==
  ASSUME IInv, NEW c \in Conns, ReadCommand(c)
  PROVE  Dir!Ask(c)
<1>0. TypeOK
  BY DEF IInv
<1>1. Dir!Holds(c)
  BY SessionHolds DEF ReadCommand, Session
<1>2. reply'[c] = <<>>
  BY <1>0 DEF ReadCommand, TypeOK
<1>3. Told(c)' = Dir!NoAnswer
  BY <1>2 DEF Told, Dir!NoAnswer
<1>4. \A d \in Conns : d # c => pc'[d] = pc[d] /\ reply'[d] = reply[d]
  BY <1>0, OthersUnchanged
<1>5. users' = users /\ uname' = uname
  BY DEF ReadCommand, listVars
<1>6. [n \in Names |-> findUser(n)]' = [n \in Names |-> findUser(n)]
  BY <1>5, DirectoryKept
<1>7. [d \in Conns |-> Told(d)]' = [[d \in Conns |-> Told(d)] EXCEPT ![c] = Dir!NoAnswer]
  BY <1>0, <1>3, <1>4, AnswerOne
<1> QED
  BY <1>1, <1>6, <1>7 DEF Dir!Ask

\* The user lines of a finished walk are the entries of the directory.
LEMMA LinesAreEntries ==
  ASSUME IInv, NEW c \in Conns, ListUnlock(c), NEW r, r = reply[c]
  PROVE  /\ r # <<>>
         /\ r[1].tag = "online"
         /\ {<<r[i].name, r[i].who>> : i \in {j \in DOMAIN r : r[j].tag = "user"}}
              = Dir!Entries(Names)
<1>0. /\ TypeOK /\ Snapshot /\ DirectoryIsList
      /\ users \in Seq(Conns) /\ Len(users) \in Nat /\ DOMAIN users = 1 .. Len(users)
      /\ reply[c] \in Seq(ReplyLine)
  BY LenProperties, ListIsDirectory DEF IInv, TypeOK
<1>1. Walked(c) /\ cursor[c] = NoConn
  BY <1>0 DEF Snapshot, ListUnlock
<1>2. \A i \in 1 .. Len(users) : users[i] \in Registered /\ users[i] # NoConn
  BY <1>0, RegisteredAreConns, ConstantsOK
<1>3. /\ Len(r) = Len(users) + 1
      /\ r[1] = OnlineLine(Len(users))
      /\ \A i \in 2 .. Len(r) : r[i] = UserLine(users[i - 1])
      /\ DOMAIN r = 1 .. Len(r)
  <2>1. Len(r) = Len(users) + 1
    BY <1>0, <1>1, <1>2 DEF Walked
  <2>2. DOMAIN r = 1 .. Len(r)
    BY <1>0, LenProperties
  <2> QED
    BY <1>1, <2>1, <2>2 DEF Walked
<1>4. r[1].tag = "online"
  BY <1>3 DEF OnlineLine
<1>5. ASSUME NEW i \in 2 .. Len(r)
      PROVE  /\ i - 1 \in 1 .. Len(users)
             /\ r[i].tag = "user"
             /\ r[i].name = uname[users[i - 1]]
             /\ r[i].who = users[i - 1]
  <2>1. i - 1 \in 1 .. Len(users)
    BY <1>0, <1>3
  <2>2. r[i] = UserLine(users[i - 1])
    BY <1>3
  <2> QED
    BY <2>1, <2>2 DEF UserLine
<1>6. {j \in DOMAIN r : r[j].tag = "user"} = 2 .. Len(r)
  <2>1. ASSUME NEW j \in DOMAIN r, r[j].tag = "user" PROVE j \in 2 .. Len(r)
    BY <1>3, <1>4, <2>1
  <2>2. ASSUME NEW j \in 2 .. Len(r) PROVE j \in DOMAIN r /\ r[j].tag = "user"
    BY <1>3, <1>5
  <2> QED
    BY <2>1, <2>2
<1> DEFINE dir == [n \in Names |-> findUser(n)]
           told == {<<r[i].name, r[i].who>> : i \in 2 .. Len(r)}
           all == {<<n, dir[n]>> : n \in {m \in Names : dir[m] # NoConn}}
<1>7. ASSUME NEW e \in told PROVE e \in all
  <2>1. PICK i \in 2 .. Len(r) : e = <<r[i].name, r[i].who>>
    OBVIOUS
  <2>2. PICK d \in Registered : e = <<uname[d], d>>
    BY <1>2, <1>5, <2>1
  <2>3. uname[d] \in Names /\ dir[uname[d]] = d /\ d # NoConn
    BY <1>0 DEF DirectoryIsList
  <2> QED
    BY <2>2, <2>3
<1>8. ASSUME NEW e \in all PROVE e \in told
  <2>1. PICK n \in Names : e = <<n, dir[n]>> /\ dir[n] # NoConn
    OBVIOUS
  <2>2. dir[n] \in Registered /\ uname[dir[n]] = n
    BY <1>0, <2>1 DEF DirectoryIsList
  <2>3. PICK k \in 1 .. Len(users) : users[k] = dir[n]
    BY <1>0, <2>2 DEF Registered
  <2>4. PICK i : i = k + 1
    OBVIOUS
  <2>5. i \in 2 .. Len(r) /\ i - 1 = k
    BY <1>0, <1>3, <2>4
  <2>6. r[i].name = n /\ r[i].who = dir[n]
    BY <1>5, <2>2, <2>3, <2>5
  <2> QED
    BY <2>1, <2>5, <2>6
<1>9. told = all
  BY <1>7, <1>8
<1>10. Dir!Entries(Names) = all
  BY DEF Dir!Entries
<1>11. r # <<>>
  BY <1>0, <1>3, EmptySeq
<1> QED
  BY <1>4, <1>6, <1>9, <1>10, <1>11

\* Unlocking after the walk tells all.
LEMMA RefineTellAll ==
  ASSUME IInv, NEW c \in Conns, ListUnlock(c)
  PROVE  Dir!TellAll(c)
<1>0. TypeOK
  BY DEF IInv
<1>1. Dir!Holds(c)
  BY SessionHolds DEF ListUnlock, Session, Locked
<1>2. reply' = reply /\ pc'[c] = "listEnd" /\ users' = users /\ uname' = uname
  BY <1>0 DEF ListUnlock, Goto, listVars, TypeOK
<1>3. PICK r : r = reply[c]
  OBVIOUS
<1>4. /\ r # <<>>
      /\ r[1].tag = "online"
      /\ {<<r[i].name, r[i].who>> : i \in {j \in DOMAIN r : r[j].tag = "user"}}
           = Dir!Entries(Names)
  BY <1>3, LinesAreEntries
<1>5. Told(c)' = Dir!AllUsers(Dir!Entries(Names))
  BY <1>2, <1>3, <1>4 DEF Told, Dir!AllUsers
<1>6. \A d \in Conns : d # c => pc'[d] = pc[d] /\ reply'[d] = reply[d]
  BY <1>0, OthersUnchanged
<1>7. [n \in Names |-> findUser(n)]' = [n \in Names |-> findUser(n)]
  BY <1>2, DirectoryKept
<1>8. [d \in Conns |-> Told(d)]'
        = [[d \in Conns |-> Told(d)] EXCEPT ![c] = Dir!AllUsers(Dir!Entries(Names))]
  BY <1>0, <1>5, <1>6, AnswerOne
<1> QED
  BY <1>1, <1>7, <1>8 DEF Dir!TellAll

\* Writing the line of a find tells one.
LEMMA RefineTellOne ==
  ASSUME IInv, NEW c \in Conns, FindSend(c)
  PROVE  \E n \in Names : Dir!TellOne(c, n)
<1>0. TypeOK /\ Snapshot /\ ArgNamed /\ DirectoryIsList
  BY ListIsDirectory DEF IInv
<1>1. Dir!Holds(c)
  BY SessionHolds DEF FindSend, Session, Locked
<1>2. PICK n \in Names : n = arg[c]
  BY <1>0 DEF ArgNamed, FindSend
<1>3. cursor[c] = findUser(n) /\ reply[c] = <<>>
  BY <1>0, <1>2 DEF Snapshot, FindSend
<1>4. /\ users' = users /\ uname' = uname
      /\ pc'[c] \in {"loop", "delete"}
  BY <1>0 DEF FindSend, AfterReply, Goto, listVars, TypeOK
<1>5. PICK line : line = IF findUser(n) = NoConn THEN NoUserLine ELSE UserLine(findUser(n))
  OBVIOUS
<1>6. reply'[c] = <<line>>
  <2>1. reply'[c] = Append(reply[c], line)
    BY <1>0, <1>3, <1>5 DEF FindSend, Write, TypeOK
  <2> QED
    BY <1>3, <2>1
<1> DEFINE dir == [m \in Names |-> findUser(m)]
           r == <<line>>
           found == {<<r[i].name, r[i].who>> : i \in {j \in DOMAIN r : r[j].tag = "user"}}
<1>7. r # <<>> /\ r[1] = line /\ DOMAIN r = {1} /\ line.tag # "online"
  BY <1>5 DEF NoUserLine, UserLine
<1>8. found = Dir!Entries({n})
  <2>1. Dir!Entries({n}) = {<<m, dir[m]>> : m \in {l \in {n} : dir[l] # NoConn}}
    BY DEF Dir!Entries
  <2>2. CASE findUser(n) = NoConn
    <3>1. {j \in DOMAIN r : r[j].tag = "user"} = {}
      BY <1>5, <1>7, <2>2 DEF NoUserLine
    <3> QED
      BY <2>1, <2>2, <3>1
  <2>3. CASE findUser(n) # NoConn
    <3>1. line.tag = "user" /\ line.name = n /\ line.who = findUser(n)
      BY <1>0, <1>5, <2>3 DEF UserLine, DirectoryIsList
    <3>2. {j \in DOMAIN r : r[j].tag = "user"} = {1}
      BY <1>7, <3>1
    <3>3. found = {<<n, findUser(n)>>}
      BY <1>7, <3>1, <3>2
    <3>4. {l \in {n} : dir[l] # NoConn} = {n}
      BY <2>3
    <3> QED
      BY <2>1, <3>3, <3>4
  <2> QED
    BY <2>2, <2>3
<1>9. Told(c)' = Dir!OneUser(Dir!Entries({n}))
  BY <1>4, <1>6, <1>7, <1>8 DEF Told, Dir!OneUser
<1>10. \A d \in Conns : d # c => pc'[d] = pc[d] /\ reply'[d] = reply[d]
  BY <1>0, OthersUnchanged
<1>11. [m \in Names |-> findUser(m)]' = [m \in Names |-> findUser(m)]
  BY <1>4, DirectoryKept
<1>12. [d \in Conns |-> Told(d)]'
         = [[d \in Conns |-> Told(d)] EXCEPT ![c] = Dir!OneUser(Dir!Entries({n}))]
  BY <1>0, <1>9, <1>10, AnswerOne
<1>13. Dir!TellOne(c, n)
  BY <1>1, <1>11, <1>12 DEF Dir!TellOne
<1> QED
  BY <1>13

\* The line that ends a list is not part of the answer.
LEMMA RefineListEnd ==
  ASSUME IInv, NEW c \in Conns, ListEnd(c)
  PROVE  UNCHANGED Dir!vars
<1>0. TypeOK /\ ListCoherent
  BY DEF IInv
<1>1. /\ pc[c] = "listEnd" /\ pc'[c] \in {"loop", "delete"}
      /\ users' = users /\ uname' = uname
      /\ reply'[c] = Append(reply[c], EndLine)
  BY <1>0 DEF ListEnd, AfterReply, Write, Goto, listVars, TypeOK
<1>2. PICK r : r = reply[c]
  OBVIOUS
<1>3. PICK s : s = reply'[c]
  OBVIOUS
<1>4. r \in Seq(ReplyLine) /\ r # <<>> /\ Len(r) \in Nat \ {0} /\ DOMAIN r = 1 .. Len(r)
  BY <1>0, <1>1, <1>2, EmptySeq, LenProperties DEF TypeOK, ListCoherent
<1>5. EndLine \in ReplyLine /\ EndLine.tag = "end"
  BY DEF EndLine, ReplyLine
<1>6. /\ s # <<>>
      /\ DOMAIN s = 1 .. Len(r) + 1
      /\ \A i \in 1 .. Len(r) : s[i] = r[i]
      /\ s[Len(r) + 1] = EndLine
  <2>1. s = Append(r, EndLine)
    BY <1>1, <1>2, <1>3
  <2>2. /\ s \in Seq(ReplyLine) /\ s # <<>> /\ Len(s) = Len(r) + 1
        /\ \A i \in 1 .. Len(r) : s[i] = r[i]
        /\ s[Len(r) + 1] = EndLine
    BY <1>4, <1>5, <2>1, AppendProperties
  <2> QED
    BY <2>2, LenProperties
<1>7. s[1] = r[1]
  BY <1>4, <1>6
<1>8. {j \in DOMAIN s : s[j].tag = "user"} = {j \in DOMAIN r : r[j].tag = "user"}
  BY <1>4, <1>5, <1>6
<1>9. {<<s[i].name, s[i].who>> : i \in {j \in DOMAIN s : s[j].tag = "user"}}
        = {<<r[i].name, r[i].who>> : i \in {j \in DOMAIN r : r[j].tag = "user"}}
  BY <1>4, <1>6, <1>8
<1>10. Told(c)' = Told(c)
  <2>1. PICK found :
          found = {<<r[i].name, r[i].who>> : i \in {j \in DOMAIN r : r[j].tag = "user"}}
    OBVIOUS
  <2>2. found = {<<s[i].name, s[i].who>> : i \in {j \in DOMAIN s : s[j].tag = "user"}}
    BY <1>9, <2>1
  <2>3. Told(c) = [about |-> IF r[1].tag = "online" THEN "all" ELSE "one", users |-> found]
    BY <1>1, <1>2, <1>4, <2>1 DEF Told
  <2>4. Told(c)' = [about |-> IF s[1].tag = "online" THEN "all" ELSE "one", users |-> found]
    BY <1>1, <1>3, <1>6, <2>2 DEF Told
  <2> QED
    BY <1>7, <2>3, <2>4
<1>11. \A d \in Conns : d # c => Told(d)' = Told(d)
  BY <1>0, OthersUnchanged, ToldKept
<1> QED
  BY <1>1, <1>10, <1>11, Stutter

\* The other steps of a thread change neither the list nor an answer.
LEMMA RefineOther ==
  ASSUME IInv, NEW c \in Conns,
         \/ Accept(c) \/ ReadLogin(c) \/ EndOfFile(c) \/ ListLock(c)
         \/ ListHead(c) \/ ListUser(c) \/ FindLock(c) \/ cleanThread(c)
  PROVE  UNCHANGED Dir!vars
<1>0. TypeOK
  BY DEF IInv
<1> USE DEF Goto, listVars, TypeOK
<1>1. users' = users /\ uname' = uname
  BY DEF Accept, ReadLogin, EndOfFile, ListLock, ListHead, ListUser, FindLock, cleanThread
<1>2. \A d \in Conns : d # c => Told(d)' = Told(d)
  BY <1>0, OthersUnchanged, ToldKept
<1>3. CASE Accept(c) \/ ReadLogin(c) \/ EndOfFile(c) \/ cleanThread(c)
  <2>1. /\ reply' = reply
        /\ pc[c] \notin Pending /\ pc'[c] \notin Pending
    BY <1>0, <1>3 DEF Accept, ReadLogin, EndOfFile, cleanThread, Pending
  <2>2. Told(c)' = Told(c)
    BY <2>1, ToldKept DEF Pending
  <2> QED
    BY <1>1, <1>2, <2>2, Stutter
<1>4. CASE ListLock(c) \/ ListHead(c) \/ ListUser(c) \/ FindLock(c)
  <2>1. pc[c] \in Pending /\ pc'[c] \in Pending
    BY <1>0, <1>4 DEF ListLock, ListHead, ListUser, FindLock, Pending
  <2>2. Told(c) = Dir!NoAnswer
    BY <2>1, ToldPending DEF Pending
  <2>3. Told(c)' = Dir!NoAnswer
    BY <2>1 DEF Told, Dir!NoAnswer, Pending
  <2> QED
    BY <1>1, <1>2, <2>2, <2>3, Stutter
<1> QED
  BY <1>3, <1>4

\* Every step of the server is a step of the directory or a stutter.
LEMMA RefineStep == IInv /\ IInv' /\ [Next]_vars => [Dir!Next]_(Dir!vars)
<1> SUFFICES ASSUME IInv, IInv', [Next]_vars PROVE [Dir!Next]_(Dir!vars)
  OBVIOUS
<1>1. CASE Quiet
  <2>1. UNCHANGED Dir!vars
    BY <1>1, ToldKept, Stutter DEF Quiet
  <2> QED
    BY <2>1
<1>2. ASSUME NEW c \in Conns, createUser(c) PROVE [Dir!Next]_(Dir!vars)
  BY <1>2, RefineRegister
<1>3. ASSUME NEW c \in Conns, deleteUser(c) PROVE [Dir!Next]_(Dir!vars)
  BY <1>3, RefineRelease DEF Dir!Next
<1>4. ASSUME NEW c \in Conns, ReadCommand(c) PROVE [Dir!Next]_(Dir!vars)
  BY <1>4, RefineAsk DEF Dir!Next
<1>5. ASSUME NEW c \in Conns, ListUnlock(c) PROVE [Dir!Next]_(Dir!vars)
  BY <1>5, RefineTellAll DEF Dir!Next
<1>6. ASSUME NEW c \in Conns, FindSend(c) PROVE [Dir!Next]_(Dir!vars)
  BY <1>6, RefineTellOne DEF Dir!Next
<1>7. ASSUME NEW c \in Conns, ListEnd(c) PROVE [Dir!Next]_(Dir!vars)
  BY <1>7, RefineListEnd
<1>8. ASSUME NEW c \in Conns,
             \/ Accept(c) \/ ReadLogin(c) \/ EndOfFile(c) \/ ListLock(c)
             \/ ListHead(c) \/ ListUser(c) \/ FindLock(c) \/ cleanThread(c)
      PROVE  [Dir!Next]_(Dir!vars)
  BY <1>8, RefineOther
<1> QED
  BY Steps, <1>1, <1>2, <1>3, <1>4, <1>5, <1>6, <1>7, <1>8

\* The name server implements Directory: what it tells a client is the directory
\* at one moment, and a name belongs to one connection from login to logout.
THEOREM ServerImplementsDirectory == Spec => ImplementsDirectory
<1>1. Init => Dir!Init
  BY RefineInit
<1>2. IInv /\ IInv' /\ [Next]_vars => [Dir!Next]_(Dir!vars)
  BY RefineStep
<1> QED
  BY <1>1, <1>2, Inductive, PTL DEF Spec, ImplementsDirectory, Dir!Spec
================================================================================
