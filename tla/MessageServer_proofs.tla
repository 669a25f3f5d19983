-------------------------- MODULE MessageServer_proofs --------------------------
(***************************************************************************)
(* Theorems about MessageServer, for any connections, names and bounds.    *)
(***************************************************************************)
EXTENDS MessageServer, SequenceTheorems, TLAPS

\* A thread about to add a user has read a name, main has one until getUser has
\* returned, and a node is linked with a name.
NamesInHand ==
  /\ \A c \in Conns : tpc[c] = "add" => arg[c] \in Names
  /\ mpc \in {"lookup", "find", "dial", "add"} => mname \in Names
  /\ \A c \in Linked : uname[c] \in Names

\* The connection main is about to add is its own, and no thread's yet.
Dialled == mpc = "add" => mconn \in Conns /\ tpc[mconn] = "dialled"

\* What is stored of a sender are lines its thread has read, and not the one it is
\* about to store.
LinesRead ==
  /\ \A c \in Conns : tpc[c] = "store" => nread[c] >= 1
  /\ \A i \in DOMAIN messages :
       /\ messages[i].line <= nread[messages[i].sender]
       /\ tpc[messages[i].sender] = "store" => messages[i].line < nread[messages[i].sender]

\* deleteSender has flushed the node it is about to unlink.
FlushedFirst == \A m \in Stored : tpc[m.sender] # "unlink"

\* The inductive invariant.  MessagesInOrder needs LinesRead, so that what is
\* stored is the newest line; MessageSenderLive needs FlushedFirst when the node
\* is unlinked; and NodesOwned needs Dialled when main links the node it made.
IInv ==
  /\ TypeOK
  /\ NamesInHand
  /\ Dialled
  /\ MutexInv
  /\ ThreadsRegistered
  /\ SendersUnique
  /\ NodesOwned
  /\ MessageSenderLive
  /\ FlushedFirst
  /\ LinesRead
  /\ MessagesInOrder

--------------------------------------------------------------------------------
\* Lemmas about the list and the arrays.

\* A sequence without its element at k.
Less(s, k) == SubSeq(s, 1, k - 1) \o SubSeq(s, k + 1, Len(s))

\* The elements after the one at k are one place further left.
LEMMA LessProperties ==
  ASSUME NEW S, NEW s \in Seq(S), NEW k \in 1 .. Len(s)
  PROVE  /\ Less(s, k) \in Seq(S)
         /\ Len(Less(s, k)) = Len(s) - 1
         /\ \A i \in 1 .. Len(s) - 1 : Less(s, k)[i] = IF i < k THEN s[i] ELSE s[i + 1]
<1>0. PICK r : r = Less(s, k)
  OBVIOUS
<1>1. Len(s) \in Nat /\ \A i \in 1 .. Len(s) : s[i] \in S
  BY LenProperties, ElementOfSeq
<1>2. PICK a : a = SubSeq(s, 1, k - 1)
  OBVIOUS
<1>3. PICK b : b = SubSeq(s, k + 1, Len(s))
  OBVIOUS
<1>4. /\ a \in Seq(S)
      /\ Len(a) = k - 1
      /\ \A i \in 1 .. k - 1 : a[i] = s[i]
  <2>1. \A i \in 1 .. k - 1 : s[i] \in S
    BY <1>1
  <2>2. /\ a \in Seq(S)
        /\ Len(a) = IF 1 <= k - 1 THEN (k - 1) - 1 + 1 ELSE 0
        /\ \A i \in 1 .. (k - 1) - 1 + 1 : a[i] = s[1 + i - 1]
    BY <1>1, <1>2, <2>1, SubSeqProperties
  <2> QED
    BY <1>1, <2>2
<1>5. /\ b \in Seq(S)
      /\ Len(b) = Len(s) - k
      /\ \A i \in 1 .. Len(s) - k : b[i] = s[k + i]
  <2>1. \A i \in k + 1 .. Len(s) : s[i] \in S
    BY <1>1
  <2>2. /\ b \in Seq(S)
        /\ Len(b) = IF k + 1 <= Len(s) THEN Len(s) - (k + 1) + 1 ELSE 0
        /\ \A i \in 1 .. Len(s) - (k + 1) + 1 : b[i] = s[(k + 1) + i - 1]
    BY <1>1, <1>3, <2>1, SubSeqProperties
  <2>3. \A i \in 1 .. Len(s) - k :
          i \in 1 .. Len(s) - (k + 1) + 1 /\ (k + 1) + i - 1 = k + i
    BY <1>1
  <2> QED
    BY <1>1, <2>2, <2>3
<1>6. /\ r \in Seq(S)
      /\ Len(r) = Len(a) + Len(b)
      /\ \A i \in 1 .. Len(a) + Len(b) :
           r[i] = IF i <= Len(a) THEN a[i] ELSE b[i - Len(a)]
  <2>1. r = a \o b
    BY <1>0, <1>2, <1>3 DEF Less
  <2>2. /\ a \o b \in Seq(S)
        /\ Len(a \o b) = Len(a) + Len(b)
        /\ \A i \in 1 .. Len(a) + Len(b) :
             (a \o b)[i] = IF i <= Len(a) THEN a[i] ELSE b[i - Len(a)]
    BY <1>4, <1>5, ConcatProperties
  <2> QED
    BY <2>1, <2>2
<1>7. ASSUME NEW i \in 1 .. Len(s) - 1
      PROVE  r[i] = IF i < k THEN s[i] ELSE s[i + 1]
  <2>1. CASE i < k
    <3>1. i \in 1 .. Len(a) + Len(b) /\ i <= Len(a) /\ i \in 1 .. k - 1
      BY <1>1, <1>4, <1>5, <2>1
    <3>2. r[i] = a[i] /\ a[i] = s[i]
      BY <1>4, <1>6, <3>1
    <3> QED
      BY <2>1, <3>2
  <2>2. CASE ~(i < k)
    <3>1. PICK m : m = i - Len(a)
      OBVIOUS
    <3>2. /\ i \in 1 .. Len(a) + Len(b) /\ ~(i <= Len(a))
          /\ m \in 1 .. Len(s) - k /\ k + m = i + 1
      BY <1>1, <1>4, <1>5, <2>2, <3>1
    <3>3. r[i] = b[m]
      BY <1>6, <3>1, <3>2
    <3>4. b[m] = s[k + m]
      BY <1>5, <3>2
    <3> QED
      BY <2>2, <3>2, <3>3, <3>4
  <2> QED
    BY <2>1, <2>2
<1>8. Len(r) = Len(s) - 1
  <2>1. Len(r) = Len(a) + Len(b) /\ Len(a) = k - 1 /\ Len(b) = Len(s) - k
    BY <1>4, <1>5, <1>6
  <2>2. k \in Int /\ Len(s) \in Int
    BY <1>1
  <2>3. (k - 1) + (Len(s) - k) = Len(s) - 1
    BY <2>2
  <2> QED
    BY <2>1, <2>3
<1> QED
  BY <1>0, <1>6, <1>7, <1>8

\* A sequence that holds nothing twice, without its element c.
LEMMA WithoutProperties ==
  ASSUME NEW S, NEW s \in Seq(S),
         \A i, j \in DOMAIN s : s[i] = s[j] => i = j,
         NEW k \in DOMAIN s, NEW c, s[k] = c
  PROVE  /\ Without(s, c) \in Seq(S)
         /\ \A i, j \in DOMAIN Without(s, c) : Without(s, c)[i] = Without(s, c)[j] => i = j
         /\ \A i \in DOMAIN Without(s, c) :
              \E j \in DOMAIN s : Without(s, c)[i] = s[j] /\ s[j] # c
         /\ \A j \in DOMAIN s :
              s[j] # c => \E i \in DOMAIN Without(s, c) : Without(s, c)[i] = s[j]
<1>1. Len(s) \in Nat /\ DOMAIN s = 1 .. Len(s)
  BY LenProperties
<1>2. k = CHOOSE j \in DOMAIN s : s[j] = c
  OBVIOUS
<1>3. k \in 1 .. Len(s)
  BY <1>1
<1>4. PICK r : r = Less(s, k)
  OBVIOUS
<1>5. /\ r \in Seq(S)
      /\ Len(r) = Len(s) - 1
      /\ \A i \in 1 .. Len(s) - 1 : r[i] = IF i < k THEN s[i] ELSE s[i + 1]
  BY <1>3, <1>4, LessProperties
<1>6. DOMAIN r = 1 .. Len(s) - 1
  BY <1>5, LenProperties
<1>7. ASSUME NEW i \in DOMAIN r, NEW j \in DOMAIN r, r[i] = r[j] PROVE i = j
  <2> DEFINE at(m) == IF m < k THEN m ELSE m + 1
  <2>1. at(i) \in DOMAIN s /\ at(j) \in DOMAIN s /\ r[i] = s[at(i)] /\ r[j] = s[at(j)]
    BY <1>1, <1>5, <1>6
  <2>2. at(i) = at(j)
    BY <1>7, <2>1
  <2> QED
    BY <1>1, <1>6, <2>2
<1>8. ASSUME NEW i \in DOMAIN r PROVE \E j \in DOMAIN s : r[i] = s[j] /\ s[j] # c
  <2> DEFINE j == IF i < k THEN i ELSE i + 1
  <2>1. j \in DOMAIN s /\ j # k /\ r[i] = s[j]
    BY <1>1, <1>5, <1>6
  <2> QED
    BY <2>1
<1>9. ASSUME NEW j \in DOMAIN s, s[j] # c PROVE \E i \in DOMAIN r : r[i] = s[j]
  <2>1. j # k
    BY <1>9
  <2> DEFINE i == IF j < k THEN j ELSE j - 1
  <2>2. i \in DOMAIN r /\ r[i] = s[j]
    <3>1. CASE j < k
      BY <1>1, <1>5, <1>6, <3>1
    <3>2. CASE k < j
      <4>1. i = j - 1 /\ i \in 1 .. Len(s) - 1 /\ ~(i < k) /\ i + 1 = j
        BY <1>1, <3>2
      <4> QED
        BY <1>5, <1>6, <4>1
    <3> QED
      BY <1>1, <2>1, <3>1, <3>2
  <2> QED
    BY <2>2
<1>10. r = Without(s, c)
  BY <1>2, <1>4 DEF Without, Less
<1> QED
  BY <1>5, <1>7, <1>8, <1>9, <1>10

\* Each node is linked once.
LEMMA NodesDistinct ==
  ASSUME SendersUnique
  PROVE  \A i, j \in DOMAIN senders : senders[i] = senders[j] => i = j
BY DEF SendersUnique

\* What linking a node at the head makes of the list.
LEMMA LinkProperties ==
  ASSUME TypeOK, SendersUnique, NEW c \in Conns, c \notin Linked,
         NEW n \in Names \cup {NoName}, \A d \in Linked : uname[d] # n, Link(c, n)
  PROVE  /\ senders' \in Seq(Conns)
         /\ uname' \in [Conns -> Names \cup {NoName}]
         /\ Linked' = Linked \cup {c}
         /\ uname'[c] = n
         /\ \A d \in Linked : uname'[d] = uname[d]
         /\ SendersUnique'
<1>1. senders \in Seq(Conns) /\ Len(senders) \in Nat /\ DOMAIN senders = 1 .. Len(senders)
  BY LenProperties DEF TypeOK
<1>2. /\ senders' \in Seq(Conns)
      /\ Len(senders') = Len(senders) + 1
      /\ \A i \in 1 .. Len(senders) + 1 : senders'[i] = IF i = 1 THEN c ELSE senders[i - 1]
  <2>1. <<c>> \in Seq(Conns) /\ Len(<<c>>) = 1 /\ <<c>>[1] = c
    OBVIOUS
  <2>2. senders' = <<c>> \o senders
    BY DEF Link
  <2> QED
    BY <1>1, <2>1, <2>2, ConcatProperties
<1>3. DOMAIN senders' = 1 .. Len(senders) + 1
  BY <1>2, LenProperties
<1>4. /\ uname' \in [Conns -> Names \cup {NoName}]
      /\ uname'[c] = n
      /\ \A d \in Conns \ {c} : uname'[d] = uname[d]
  BY DEF Link, TypeOK
<1>5. \A i \in DOMAIN senders : senders[i] \in Linked /\ senders[i] \in Conns \ {c}
  BY <1>1, ElementOfSeq DEF Linked
<1>6. ASSUME NEW i \in DOMAIN senders', i # 1
      PROVE  i - 1 \in DOMAIN senders /\ senders'[i] = senders[i - 1]
  BY <1>1, <1>2, <1>3, <1>6
<1>7. Linked' = Linked \cup {c}
  <2>1. ASSUME NEW d \in Linked' PROVE d \in Linked \cup {c}
    <3>1. PICK i \in DOMAIN senders' : d = senders'[i]
      BY DEF Linked
    <3> QED
      BY <1>2, <1>3, <1>5, <1>6, <3>1
  <2>2. ASSUME NEW d \in Linked PROVE d \in Linked'
    <3>1. PICK i \in DOMAIN senders : d = senders[i]
      BY DEF Linked
    <3>2. PICK j : j = i + 1
      OBVIOUS
    <3>3. j \in DOMAIN senders' /\ j # 1 /\ j - 1 = i
      BY <1>1, <1>3, <3>2
    <3>4. senders'[j] = d
      BY <1>6, <3>1, <3>3
    <3> QED
      BY <3>3, <3>4 DEF Linked
  <2>3. c \in Linked'
    <3>1. 1 \in DOMAIN senders' /\ senders'[1] = c
      BY <1>1, <1>2, <1>3
    <3> QED
      BY <3>1 DEF Linked
  <2> QED
    BY <2>1, <2>2, <2>3
<1>8. \A d \in Linked : uname'[d] = uname[d]
  BY <1>4, <1>5 DEF Linked
<1>9. ASSUME NEW i \in DOMAIN senders', NEW j \in DOMAIN senders', i # j
      PROVE  uname'[senders'[i]] # uname'[senders'[j]]
  <2>0. senders'[1] = c
    BY <1>1, <1>2
  <2>1. CASE i = 1
    <3>1. j # 1
      BY <1>9, <2>1
    <3>2. senders'[j] \in Linked
      BY <1>5, <1>6, <3>1
    <3> QED
      BY <1>4, <1>8, <2>0, <2>1, <3>2
  <2>2. CASE j = 1
    <3>1. i # 1
      BY <1>9, <2>2
    <3>2. senders'[i] \in Linked
      BY <1>5, <1>6, <3>1
    <3> QED
      BY <1>4, <1>8, <2>0, <2>2, <3>2
  <2>3. CASE i # 1 /\ j # 1
    <3>1. /\ i - 1 \in DOMAIN senders /\ senders'[i] = senders[i - 1]
          /\ j - 1 \in DOMAIN senders /\ senders'[j] = senders[j - 1]
      BY <1>6, <2>3
    <3>2. i - 1 # j - 1
      BY <1>3, <1>9, <1>1
    <3>3. uname[senders[i - 1]] # uname[senders[j - 1]]
      BY <3>1, <3>2 DEF SendersUnique
    <3> QED
      BY <1>5, <1>8, <3>1, <3>3
  <2> QED
    BY <2>1, <2>2, <2>3
<1> QED
  BY <1>2, <1>4, <1>7, <1>8, <1>9 DEF SendersUnique

\* What unlinking a node makes of it.
LEMMA UnlinkProperties ==
  ASSUME TypeOK, SendersUnique, NEW c \in Linked,
         senders' = Without(senders, c), uname' = [uname EXCEPT ![c] = NoName]
  PROVE  /\ senders' \in Seq(Conns)
         /\ uname' \in [Conns -> Names \cup {NoName}]
         /\ Linked' = Linked \ {c}
         /\ \A d \in Conns \ {c} : uname'[d] = uname[d]
         /\ SendersUnique'
<1>1. senders \in Seq(Conns)
  BY DEF TypeOK
<1>2. PICK k \in DOMAIN senders : senders[k] = c
  BY DEF Linked
<1>3. /\ senders' \in Seq(Conns)
      /\ \A i, j \in DOMAIN senders' : senders'[i] = senders'[j] => i = j
      /\ \A i \in DOMAIN senders' :
           \E j \in DOMAIN senders : senders'[i] = senders[j] /\ senders[j] # c
      /\ \A j \in DOMAIN senders :
           senders[j] # c => \E i \in DOMAIN senders' : senders'[i] = senders[j]
  BY <1>1, <1>2, NodesDistinct, WithoutProperties
<1>4. Linked' = Linked \ {c}
  BY <1>3 DEF Linked
<1>5. uname' \in [Conns -> Names \cup {NoName}] /\ \A d \in Conns \ {c} : uname'[d] = uname[d]
  BY DEF TypeOK
<1>6. ASSUME NEW i \in DOMAIN senders', NEW j \in DOMAIN senders', i # j
      PROVE  uname'[senders'[i]] # uname'[senders'[j]]
  <2>1. PICK k1 \in DOMAIN senders : senders'[i] = senders[k1] /\ senders[k1] # c
    BY <1>3
  <2>2. PICK k2 \in DOMAIN senders : senders'[j] = senders[k2] /\ senders[k2] # c
    BY <1>3
  <2>3. k1 # k2
    BY <1>3, <1>6, <2>1, <2>2
  <2>4. uname[senders[k1]] # uname[senders[k2]]
    BY <2>3 DEF SendersUnique
  <2>5. senders[k1] \in Conns /\ senders[k2] \in Conns
    BY <1>1, LenProperties, ElementOfSeq
  <2> QED
    BY <1>5, <2>1, <2>2, <2>4, <2>5
<1> QED
  BY <1>3, <1>4, <1>5, <1>6 DEF SendersUnique

\* lookupUser finds the node of a name, and nothing only when there is none.
LEMMA LookupProperties ==
  ASSUME TypeOK, SendersUnique, NEW n
  PROVE  /\ lookupUser(n) = NoConn => \A c \in Linked : uname[c] # n
         /\ lookupUser(n) # NoConn => lookupUser(n) \in Linked /\ uname[lookupUser(n)] = n
<1>1. senders \in Seq(Conns) /\ Len(senders) \in Nat /\ DOMAIN senders = 1 .. Len(senders)
  BY LenProperties DEF TypeOK
<1> DEFINE hits == {i \in DOMAIN senders : uname[senders[i]] = n}
<1>2. CASE hits = {}
  <2>1. lookupUser(n) = NoConn
    BY <1>2 DEF lookupUser
  <2>2. \A c \in Linked : uname[c] # n
    BY <1>2 DEF Linked
  <2> QED
    BY <2>1, <2>2
<1>3. CASE hits # {}
  <2>1. PICK i \in hits : hits = {i}
    BY <1>3 DEF SendersUnique
  <2>2. i \in DOMAIN senders /\ uname[senders[i]] = n
    OBVIOUS
  <2> DEFINE m == CHOOSE j \in hits : \A l \in hits : j <= l
  <2>3. \A j \in hits : i <= j
    BY <1>1, <2>1
  <2>4. m = i
    BY <2>1, <2>3
  <2>5. lookupUser(n) = senders[i]
    BY <1>3, <2>4 DEF lookupUser
  <2>6. senders[i] \in Conns /\ senders[i] \in Linked
    BY <1>1, <2>2, ElementOfSeq DEF Linked
  <2> QED
    BY <2>2, <2>5, <2>6, ConstantsOK
<1> QED
  BY <1>2, <1>3

\* The nodes, the threads and the senders of messages are connections.
LEMMA AreConns ==
  ASSUME TypeOK
  PROVE  /\ Linked \subseteq Conns
         /\ Running \subseteq Conns
         /\ \A i \in DOMAIN messages :
              /\ messages[i] \in Message
              /\ messages[i].sender \in Conns
              /\ messages[i].line \in 1 .. MaxLines
<1>1. /\ \A i \in DOMAIN senders : senders[i] \in Conns
      /\ \A i \in DOMAIN messageThreads : messageThreads[i] \in Conns
      /\ \A i \in DOMAIN messages : messages[i] \in Message
  BY LenProperties, ElementOfSeq DEF TypeOK
<1> QED
  BY <1>1 DEF Linked, Running, Message

\* A flush keeps messages of others only, in their order, and all of those: index
\* j of the new array was index at[j] of the old one.
LEMMA FlushProperties ==
  ASSUME TypeOK, NEW node, flushMessageFrom(node)
  PROVE  /\ messages' \in Seq(Message)
         /\ Len(messages') <= Len(messages)
         /\ \E at \in [DOMAIN messages' -> DOMAIN messages] :
              /\ \A j \in DOMAIN messages' :
                   /\ messages'[j] = messages[at[j]]
                   /\ node # NoConn /\ messages[at[j]].sender # node
              /\ \A j, k \in DOMAIN messages' : j < k => at[j] < at[k]
              /\ \A i \in DOMAIN messages :
                   node # NoConn /\ messages[i].sender # node =>
                     \E j \in DOMAIN messages' : at[j] = i
<1> DEFINE keep == {i \in DOMAIN messages : node # NoConn /\ messages[i].sender # node}
<1>0. PICK n \in 0 .. Len(messages) : \E at \in [1 .. n -> keep] :
        /\ \A j, k \in 1 .. n : j < k => at[j] < at[k]
        /\ \A i \in keep : \E j \in 1 .. n : at[j] = i
        /\ messages' = [j \in 1 .. n |-> messages[at[j]]]
  BY DEF flushMessageFrom
<1>1. PICK at \in [1 .. n -> keep] :
        /\ \A j, k \in 1 .. n : j < k => at[j] < at[k]
        /\ \A i \in keep : \E j \in 1 .. n : at[j] = i
        /\ messages' = [j \in 1 .. n |-> messages[at[j]]]
  BY <1>0
<1>2. Len(messages) \in Nat /\ DOMAIN messages = 1 .. Len(messages)
  BY LenProperties DEF TypeOK
<1>3. \A j \in 1 .. n : at[j] \in DOMAIN messages /\ messages[at[j]] \in Message
  BY <1>1, AreConns
<1>4. messages' \in Seq(Message) /\ Len(messages') = n /\ DOMAIN messages' = 1 .. n
  <2>1. messages' \in Seq(Message)
    BY <1>1, <1>2, <1>3, SeqDef
  <2> QED
    BY <1>1, <1>2, <2>1, LenProperties
<1>5. at \in [DOMAIN messages' -> DOMAIN messages]
  BY <1>1, <1>4
<1>6. /\ \A j \in DOMAIN messages' :
           /\ messages'[j] = messages[at[j]]
           /\ node # NoConn /\ messages[at[j]].sender # node
      /\ \A j, k \in DOMAIN messages' : j < k => at[j] < at[k]
      /\ \A i \in DOMAIN messages :
           node # NoConn /\ messages[i].sender # node =>
             \E j \in DOMAIN messages' : at[j] = i
  BY <1>1, <1>4
<1>7. Len(messages') <= Len(messages)
  BY <1>2, <1>4
<1> QED
  BY <1>4, <1>5, <1>6, <1>7

--------------------------------------------------------------------------------
\* The inductive invariant.

\* Before the first command there is no thread, no node and no message.
LEMMA InitIInv == Init => IInv
<1> SUFFICES ASSUME Init PROVE IInv
  OBVIOUS
<1> USE DEF Init
<1>1. TypeOK
  <2>1. 0 \in 0 .. MaxLines /\ MAX_MESSAGE_COUNT \in Nat
    BY ConstantsOK
  <2>2. /\ messageThreads \in Seq(Conns)
        /\ senders \in Seq(Conns)
        /\ messages \in Seq(Message)
        /\ Len(messages) <= MAX_MESSAGE_COUNT
    BY <2>1, EmptySeq
  <2> QED
    BY <2>1, <2>2 DEF TypeOK, Locations, MainLocations
<1>2. Linked = {} /\ Stored = {} /\ Running = {} /\ DOMAIN messages = {}
  BY EmptySeq DEF Linked, Stored, Running
<1>3. MutexInv /\ NodesOwned /\ NamesInHand /\ Dialled
  BY <1>2, ConstantsOK DEF MutexInv, NodesOwned, NamesInHand, Dialled
<1>4. ThreadsRegistered /\ SendersUnique
  BY <1>2, EmptySeq DEF ThreadsRegistered, SendersUnique, Registered
<1>5. MessageSenderLive /\ FlushedFirst /\ LinesRead /\ MessagesInOrder
  BY <1>2 DEF MessageSenderLive, FlushedFirst, LinesRead, MessagesInOrder
<1> QED
  BY <1>1, <1>3, <1>4, <1>5 DEF IInv

\* What the process, the other ends and receiverThread do beside the lists.
Quiet ==
  UNCHANGED <<mpc, mname, mconn, tpc, arg, messageThreads, senders, uname, messages,
              senderlist, messagelist, nread>>

\* A step of main that changes neither a thread nor the list nor the array.
MainOnly ==
  /\ \/ ShowAll \/ Lookup \/ Find \/ SayLock \/ Say \/ FlushLock
     \/ \E goal \in {"msg", "show"}, n \in Names : Command(goal, n)
  /\ UNCHANGED <<tpc, arg, messageThreads, senders, uname, messages, nread>>

\* cleanReceiverThread of a thread that finds itself.
Unregister(c) ==
  /\ c \in Running
  /\ Goto(c, "clean", IF c \in Linked THEN "delete" ELSE "close")
  /\ messageThreads' = Without(messageThreads, c)
  /\ UNCHANGED <<ownVars, listVars, messages, senderlist, messagelist, peerVars>>

\* A step of the thread of c: on the list, on the array, or on neither.
Moves(c) ==
  \/ Accept(c) \/ Register(c) \/ ReadConnect(c) \/ ReadMessage(c) \/ EndOfFile(c)
  \/ Cancelled(c) \/ Unregister(c) \/ DeleteLock(c) \/ CloseThread(c)
Works(c) == addSender(c) \/ storeMessage(c) \/ DeleteFlush(c) \/ DeleteUnlink(c)

\* The steps by what they change.
LEMMA Steps ==
  ASSUME [Next]_vars
  PROVE  \/ Quiet
         \/ MainOnly
         \/ AddSender
         \/ Flush
         \/ \E c \in Conns : Dial(c) \/ Moves(c) \/ Works(c)
<1> USE DEF sessionVars, askedVars, commandVars, ownVars, listVars, peerVars
<1>1. ASSUME Die PROVE Quiet
  BY <1>1 DEF Die, Quiet
<1>2. CASE User
  <2>1. CASE Login
    BY <2>1 DEF Login, GotoMain, Quiet
  <2>2. CASE Logout
    BY <2>2 DEF Logout, GotoMain, Quiet
  <2>3. CASE LoginFails \/ Exit
    BY <1>1, <2>3 DEF LoginFails, Exit
  <2>4. CASE ShowAll
    BY <2>4 DEF ShowAll, GotoMain, MainOnly
  <2>5. ASSUME NEW goal \in {"msg", "show"}, NEW n \in Names, Command(goal, n) PROVE MainOnly
    <3>1. UNCHANGED <<tpc, arg, messageThreads, senders, uname, messages, nread>>
      BY <2>5 DEF Command, GotoMain
    <3> QED
      BY <2>5, <3>1 DEF MainOnly
  <2> QED
    BY <1>2, <2>1, <2>2, <2>3, <2>4, <2>5 DEF User
<1>3. CASE MainStep
  <2>1. CASE Lookup \/ Find
    <3>1. UNCHANGED <<tpc, arg, messageThreads, senders, uname, messages, nread>>
      BY <2>1 DEF Lookup, Find, Got, GotoMain
    <3> QED
      BY <2>1, <3>1 DEF MainOnly
  <2>2. CASE SayLock \/ Say \/ FlushLock
    <3>1. UNCHANGED <<tpc, arg, messageThreads, senders, uname, messages, nread>>
      BY <2>2 DEF SayLock, Say, FlushLock, GotoMain
    <3> QED
      BY <2>2, <3>1 DEF MainOnly
  <2>3. CASE FindFails \/ DialFails \/ SayFails
    BY <1>1, <2>3 DEF FindFails, DialFails, SayFails
  <2> QED
    BY <1>3, <2>1, <2>2, <2>3 DEF MainStep
<1>4. CASE destroyThreads
  BY <1>4 DEF destroyThreads, Quiet
<1>5. ASSUME NEW c \in Conns, HangUp(c) PROVE Quiet
  BY <1>5 DEF HangUp, Quiet
<1>6. ASSUME NEW c \in Conns, Reads(c) PROVE Quiet \/ Moves(c)
  BY <1>1, <1>6 DEF Reads, ReadBareWord, Moves
<1>7. ASSUME NEW c \in Conns, Thread(c) PROVE Quiet \/ Moves(c) \/ Works(c)
  <2>1. CASE cleanReceiverThread(c)
    BY <1>1, <2>1 DEF cleanReceiverThread, Unregister, Moves
  <2>2. CASE ReadNothing(c)
    BY <1>1, <2>2 DEF ReadNothing
  <2> QED
    BY <1>7, <2>1, <2>2 DEF Thread, Moves, Works
<1>8. CASE UNCHANGED vars
  BY <1>8 DEF vars, Quiet
<1>9. ASSUME NEW c \in Conns, Accept(c) PROVE Moves(c)
  BY <1>9 DEF Moves
<1> QED
  BY <1>2, <1>3, <1>4, <1>5, <1>6, <1>7, <1>8, <1>9 DEF Next

\* A step of c moves no other thread.
LEMMA OthersUnmoved ==
  ASSUME TypeOK, NEW c \in Conns, Dial(c) \/ Moves(c) \/ Works(c), NEW d \in Conns, d # c
  PROVE  tpc'[d] = tpc[d] /\ arg'[d] = arg[d] /\ nread'[d] = nread[d]
<1> USE DEF Goto, Advance, Consume, TypeOK, ownVars, peerVars
<1>1. CASE Dial(c)
  BY <1>1 DEF Dial, GotoMain
<1>2. CASE Accept(c) \/ Register(c) \/ EndOfFile(c) \/ Cancelled(c)
  BY <1>2 DEF Accept, Register, EndOfFile, Cancelled
<1>3. CASE ReadConnect(c) \/ ReadMessage(c)
  BY <1>3 DEF ReadConnect, ReadMessage
<1>4. CASE Unregister(c) \/ DeleteLock(c) \/ CloseThread(c)
  BY <1>4 DEF Unregister, DeleteLock, CloseThread
<1>5. CASE addSender(c) \/ storeMessage(c)
  BY <1>5 DEF addSender, storeMessage
<1>6. CASE DeleteFlush(c) \/ DeleteUnlink(c)
  BY <1>6 DEF DeleteFlush, DeleteUnlink
<1> QED
  BY <1>1, <1>2, <1>3, <1>4, <1>5, <1>6 DEF Moves, Works

\* Where the thread of c goes.
LEMMA MovesTo ==
  ASSUME TypeOK, NEW c \in Conns
  PROVE  /\ Dial(c) => tpc[c] = "none" /\ tpc'[c] = "dialled"
         /\ Accept(c) => tpc[c] = "none" /\ tpc'[c] = "start"
         /\ Register(c) => tpc[c] = "start" /\ tpc'[c] = IF c \in Linked THEN "loop" ELSE "first"
         /\ ReadConnect(c) => tpc[c] = "first" /\ tpc'[c] \in {"add", "clean"}
         /\ addSender(c) => tpc[c] = "add" /\ tpc'[c] \in {"loop", "clean"}
         /\ ReadMessage(c) => tpc[c] = "loop" /\ tpc'[c] \in {"store", "clean"}
         /\ storeMessage(c) => tpc[c] = "store" /\ tpc'[c] = "loop"
         /\ EndOfFile(c) => tpc[c] = "loop" /\ tpc'[c] = "clean"
         /\ Cancelled(c) => tpc[c] \in {"first", "loop"} /\ tpc'[c] = "clean"
         /\ Unregister(c) => tpc[c] = "clean" /\ tpc'[c] = IF c \in Linked THEN "delete" ELSE "close"
         /\ DeleteLock(c) => tpc[c] = "delete" /\ tpc'[c] = "flush"
         /\ DeleteFlush(c) => tpc[c] = "flush" /\ tpc'[c] = "unlink"
         /\ DeleteUnlink(c) => tpc[c] = "unlink" /\ tpc'[c] = "close"
         /\ CloseThread(c) => tpc[c] = "close" /\ tpc'[c] = "done"
<1> USE DEF Goto, Advance, TypeOK
<1>1. Dial(c) => tpc[c] = "none" /\ tpc'[c] = "dialled"
  BY DEF Dial
<1>2. /\ Accept(c) => tpc[c] = "none" /\ tpc'[c] = "start"
      /\ Register(c) => tpc[c] = "start" /\ tpc'[c] = IF c \in Linked THEN "loop" ELSE "first"
  BY DEF Accept, Register
<1>3. /\ ReadConnect(c) => tpc[c] = "first" /\ tpc'[c] \in {"add", "clean"}
      /\ addSender(c) => tpc[c] = "add" /\ tpc'[c] \in {"loop", "clean"}
  BY DEF ReadConnect, addSender
<1>4. /\ ReadMessage(c) => tpc[c] = "loop" /\ tpc'[c] \in {"store", "clean"}
      /\ storeMessage(c) => tpc[c] = "store" /\ tpc'[c] = "loop"
  BY DEF ReadMessage, storeMessage
<1>5. /\ EndOfFile(c) => tpc[c] = "loop" /\ tpc'[c] = "clean"
      /\ Cancelled(c) => tpc[c] \in {"first", "loop"} /\ tpc'[c] = "clean"
      /\ Unregister(c) =>
           tpc[c] = "clean" /\ tpc'[c] = IF c \in Linked THEN "delete" ELSE "close"
  BY DEF EndOfFile, Cancelled, Unregister
<1>6. /\ DeleteLock(c) => tpc[c] = "delete" /\ tpc'[c] = "flush"
      /\ DeleteFlush(c) => tpc[c] = "flush" /\ tpc'[c] = "unlink"
  BY DEF DeleteLock, DeleteFlush
<1>7. /\ DeleteUnlink(c) => tpc[c] = "unlink" /\ tpc'[c] = "close"
      /\ CloseThread(c) => tpc[c] = "close" /\ tpc'[c] = "done"
  BY DEF DeleteUnlink, CloseThread
<1> QED
  BY <1>1, <1>2, <1>3, <1>4, <1>5, <1>6, <1>7

\* A thread that only moves leaves the list and the array.
LEMMA MovesKeep ==
  ASSUME NEW c \in Conns, Moves(c)
  PROVE  UNCHANGED <<mpc, mname, mconn, senders, uname, messages, messagelist>>
<1> USE DEF Goto, Advance, askedVars, listVars
<1>1. CASE Accept(c) \/ Register(c) \/ EndOfFile(c) \/ Cancelled(c)
  BY <1>1 DEF Accept, Register, EndOfFile, Cancelled
<1>2. CASE ReadConnect(c) \/ ReadMessage(c)
  BY <1>2 DEF ReadConnect, ReadMessage
<1>3. CASE Unregister(c) \/ DeleteLock(c) \/ CloseThread(c)
  BY <1>3 DEF Unregister, DeleteLock, CloseThread
<1> QED
  BY <1>1, <1>2, <1>3 DEF Moves

\* Every step keeps the types, and a full array full.
LEMMA TypeStep == IInv /\ [Next]_vars => TypeOK'
<1> SUFFICES ASSUME IInv, [Next]_vars PROVE TypeOK'
  OBVIOUS
<1>0. TypeOK /\ SendersUnique /\ NodesOwned /\ Dialled /\ LinesRead /\ NamesInHand
  BY DEF IInv
<1>c. MaxLines \in Nat /\ MAX_MESSAGE_COUNT \in Nat
  BY ConstantsOK
<1>t. TypeOK
  BY DEF IInv
<1> USE DEF sessionVars, askedVars, commandVars, ownVars, listVars, peerVars
<1>1. ASSUME Die PROVE TypeOK'
  <2>1. /\ alive' = FALSE
        /\ UNCHANGED <<loggedIn, listener, mpc, commandVars, tpc, ownVars, messageThreads, listVars,
                       messages, senderlist, messagelist, peerVars>>
    BY <1>1 DEF Die
  <2>2. alive' \in BOOLEAN
    BY <2>1
  <2> QED
    BY <1>t, <2>1, <2>2 DEF TypeOK
<1> USE DEF Goto, GotoMain, Advance, Consume, Locations, Registered, MainLocations
<1>2. ASSUME NEW n
      PROVE  lookupUser(n) \in Conns \cup {NoConn}
  <2>1. Linked \subseteq Conns
    BY <1>0, AreConns
  <2> QED
    BY <1>0, <2>1, LookupProperties
<1>3. CASE User
  <2>1. CASE Login \/ Logout
    BY <1>0, <2>1 DEF Login, Logout, logoutUser, TypeOK
  <2>2. CASE LoginFails \/ Exit
    BY <1>1, <2>2 DEF LoginFails, Exit
  <2>3. CASE ShowAll
    BY <1>0, <2>3 DEF ShowAll, TypeOK
  <2>4. ASSUME NEW goal \in {"msg", "show"}, NEW n \in Names, Command(goal, n) PROVE TypeOK'
    BY <1>0, <2>4 DEF Command, TypeOK
  <2> QED
    BY <1>3, <2>1, <2>2, <2>3, <2>4 DEF User
<1>4. CASE MainStep
  <2>1. CASE Lookup
    <3>1. lookupUser(mname) \in Conns \cup {NoConn}
      BY <1>2
    <3> QED
      BY <1>0, <2>1, <3>1 DEF Lookup, Got, TypeOK
  <2>2. CASE Find
    <3>1. mpc' \in MainLocations
      BY <2>2 DEF Find, Got
    <3>2. mname' \in Names \cup {NoName} /\ mgoal' \in {"none", "msg", "show"}
      BY <1>t, <2>2 DEF Find, Got, TypeOK
    <3>3. mnode' \in Conns \cup {NoConn}
      BY <1>t, <2>2 DEF Find, Got, TypeOK
    <3>4. loggedIn' \in BOOLEAN /\ listener' \in {"off", "accepting", "cancelled"}
      BY <1>t, <2>2 DEF Find, Got, logoutUser, TypeOK
    <3>5. UNCHANGED <<alive, mconn, tpc, ownVars, messageThreads, listVars, messages,
                      senderlist, messagelist, peerVars>>
      BY <2>2 DEF Find, Got
    <3> QED
      BY <1>t, <3>1, <3>2, <3>3, <3>4, <3>5 DEF TypeOK
  <2>3. CASE FindFails \/ DialFails \/ SayFails
    BY <1>1, <2>3 DEF FindFails, DialFails, SayFails
  <2>4. CASE AddSender
    <3>1. mconn \in Conns /\ tpc[mconn] = "dialled" /\ mconn \notin Linked
      <4>1. mpc = "add"
        BY <2>4 DEF AddSender, Got
      <4>2. mconn \in Conns /\ tpc[mconn] = "dialled"
        BY <1>0, <4>1 DEF Dialled
      <4> QED
        BY <1>0, <4>2 DEF NodesOwned
    <3>2. CASE lookupUser(mname) # NoConn
      BY <1>0, <2>4, <3>2 DEF AddSender, Got, TypeOK
    <3>3. CASE lookupUser(mname) = NoConn
      <4>1. Link(mconn, mname)
        BY <2>4, <3>3 DEF AddSender
      <4>2. mname \in Names \cup {NoName} /\ \A d \in Linked : uname[d] # mname
        BY <1>0, <3>3, LookupProperties DEF TypeOK
      <4>3. senders' \in Seq(Conns) /\ uname' \in [Conns -> Names \cup {NoName}]
        BY <1>0, <3>1, <4>1, <4>2, LinkProperties
      <4>4. Got("add", mconn) /\ tpc' = [tpc EXCEPT ![mconn] = "start"]
        BY <2>4, <3>3 DEF AddSender
      <4> QED
        BY <1>0, <2>4, <3>1, <4>3, <4>4 DEF AddSender, Got, TypeOK
    <3> QED
      BY <3>2, <3>3
  <2>5. CASE SayLock \/ Say \/ FlushLock
    BY <1>0, <2>5 DEF SayLock, Say, FlushLock, EndCommand, TypeOK
  <2>6. CASE Flush
    <3>1. flushMessageFrom(mnode)
      BY <2>6 DEF Flush
    <3>2. messages' \in Seq(Message) /\ Len(messages') <= Len(messages)
      BY <1>0, <3>1, FlushProperties
    <3>3. Len(messages') <= MAX_MESSAGE_COUNT
      BY <1>0, <1>c, <3>2, LenProperties DEF TypeOK
    <3> QED
      BY <1>0, <2>6, <3>2, <3>3 DEF Flush, EndCommand, TypeOK
  <2>7. ASSUME NEW c \in Conns, Dial(c) PROVE TypeOK'
    BY <1>0, <2>7 DEF Dial, TypeOK
  <2> QED
    BY <1>4, <2>1, <2>2, <2>3, <2>4, <2>5, <2>6, <2>7 DEF MainStep
<1>5. CASE destroyThreads
  <2>1. Running \subseteq Conns
    BY <1>0, AreConns
  <2> QED
    BY <1>0, <1>5, <2>1 DEF destroyThreads, TypeOK
<1>6. ASSUME NEW c \in Conns, HangUp(c) \/ Accept(c) PROVE TypeOK'
  <2>1. cend' \in [Conns -> {"new", "open", "gone"}]
    BY <1>t, <1>6 DEF HangUp, Accept, TypeOK
  <2>2. tpc' \in [Conns -> Locations]
    BY <1>t, <1>6 DEF HangUp, Accept, TypeOK
  <2>3. UNCHANGED <<sessionVars, mpc, commandVars, ownVars, messageThreads, listVars, messages,
                    senderlist, messagelist, nread>>
    BY <1>6 DEF HangUp, Accept
  <2> QED
    BY <1>t, <2>1, <2>2, <2>3 DEF TypeOK
<1>7. ASSUME NEW c \in Conns, Reads(c) PROVE TypeOK'
  <2>1. CASE ReadConnect(c)
    <3>1. nread' \in [Conns -> 0 .. MaxLines]
      BY <1>t, <1>c, <2>1 DEF ReadConnect, TypeOK
    <3>2. tpc' \in [Conns -> Locations] /\ arg' \in [Conns -> Names \cup {NoName}]
      <4>1. /\ tpc' = [tpc EXCEPT ![c] = "add"] \/ tpc' = [tpc EXCEPT ![c] = "clean"]
            /\ arg' = arg \/ \E n \in Names : arg' = [arg EXCEPT ![c] = n]
        BY <2>1 DEF ReadConnect
      <4>2. tpc \in [Conns -> Locations] /\ arg \in [Conns -> Names \cup {NoName}]
        BY <1>t DEF TypeOK
      <4> QED
        BY <4>1, <4>2
    <3>3. UNCHANGED <<sessionVars, mpc, commandVars, cancelled, messageThreads, listVars,
                      messages, senderlist, messagelist, cend>>
      BY <2>1 DEF ReadConnect
    <3>4. messages' = messages /\ messageThreads' = messageThreads
      BY <3>3
    <3> QED
      BY <1>t, <3>1, <3>2, <3>3, <3>4 DEF TypeOK
  <2>2. CASE ReadMessage(c)
    <3>1. nread' \in [Conns -> 0 .. MaxLines]
      BY <1>t, <1>c, <2>2 DEF ReadMessage, TypeOK
    <3>2. tpc' \in [Conns -> Locations]
      BY <1>t, <2>2 DEF ReadMessage, TypeOK
    <3>3. UNCHANGED <<sessionVars, mpc, commandVars, ownVars, messageThreads, listVars,
                      messages, senderlist, messagelist, cend>>
      BY <2>2 DEF ReadMessage
    <3>4. messages' = messages /\ messageThreads' = messageThreads
      BY <3>3
    <3> QED
      BY <1>t, <3>1, <3>2, <3>3, <3>4 DEF TypeOK
  <2> QED
    BY <1>1, <1>7, <2>1, <2>2 DEF Reads, ReadBareWord
<1>8. ASSUME NEW c \in Conns, Thread(c) PROVE TypeOK'
  <2>1. CASE Register(c)
    <3>1. Append(messageThreads, c) \in Seq(Conns)
      BY <1>0, AppendProperties DEF TypeOK
    <3> QED
      BY <1>0, <2>1, <3>1 DEF Register, TypeOK
  <2>2. CASE addSender(c)
    <3>1. CASE lookupUser(arg[c]) # NoConn
      <4>1. tpc' \in [Conns -> Locations]
        BY <1>t, <2>2, <3>1 DEF addSender, TypeOK
      <4>2. UNCHANGED <<sessionVars, mpc, commandVars, messageThreads, listVars,
                        messages, senderlist, messagelist, peerVars>>
        BY <2>2, <3>1 DEF addSender
      <4>3. arg' \in [Conns -> Names \cup {NoName}] /\ UNCHANGED cancelled
        BY <1>t, <2>2, <3>1 DEF addSender, TypeOK
      <4> QED
        BY <1>t, <4>1, <4>2, <4>3 DEF TypeOK
    <3>2. CASE lookupUser(arg[c]) = NoConn
      <4>1. Link(c, arg[c]) /\ MayRecycle(c) /\ Advance(c, "add", "loop")
        BY <2>2, <3>2 DEF addSender
      <4>2. arg[c] \in Names \cup {NoName} /\ \A d \in Linked : uname[d] # arg[c]
        BY <1>0, <3>2, LookupProperties DEF TypeOK
      <4>3. c \notin Linked
        BY <1>0, <2>2 DEF addSender, NodesOwned
      <4>4. senders' \in Seq(Conns) /\ uname' \in [Conns -> Names \cup {NoName}]
        BY <1>0, <4>1, <4>2, <4>3, LinkProperties
      <4>5. /\ tpc' \in [Conns -> Locations]
            /\ arg' \in [Conns -> Names \cup {NoName}]
            /\ mnode' \in Conns \cup {NoConn}
        BY <1>t, <2>2, <4>1 DEF addSender, MayRecycle, TypeOK
      <4>6. UNCHANGED <<sessionVars, mpc, askedVars, cancelled, messageThreads, messages,
                        senderlist, messagelist, peerVars>>
        BY <2>2, <4>1 DEF addSender
      <4> QED
        BY <1>t, <4>4, <4>5, <4>6 DEF TypeOK
    <3> QED
      BY <3>1, <3>2
  <2>3. CASE storeMessage(c)
    <3>1. nread[c] \in 1 .. MaxLines
      BY <1>0, <1>c, <2>3 DEF storeMessage, LinesRead, TypeOK
    <3> DEFINE m == [sender |-> c, line |-> nread[c]]
    <3>2. m \in Message
      BY <3>1 DEF Message
    <3>3. /\ Append(messages, m) \in Seq(Message)
          /\ Len(Append(messages, m)) = Len(messages) + 1
      BY <1>0, <3>2, AppendProperties DEF TypeOK
    <3>4. Len(messages) \in Nat
      BY <1>0, LenProperties DEF TypeOK
    <3>5. messages' \in Seq(Message) /\ Len(messages') <= MAX_MESSAGE_COUNT
      <4>1. CASE Len(messages) >= MAX_MESSAGE_COUNT
        BY <1>0, <2>3, <4>1 DEF storeMessage, TypeOK
      <4>2. CASE ~(Len(messages) >= MAX_MESSAGE_COUNT)
        <5>1. messages' = Append(messages, m)
          BY <2>3, <4>2 DEF storeMessage
        <5> QED
          BY <1>c, <3>3, <3>4, <4>2, <5>1
      <4> QED
        BY <4>1, <4>2
    <3> QED
      BY <1>0, <2>3, <3>5 DEF storeMessage, TypeOK
  <2>4. CASE EndOfFile(c) \/ Cancelled(c)
    <3>1. tpc' \in [Conns -> Locations]
      BY <1>t, <2>4 DEF EndOfFile, Cancelled, TypeOK
    <3>2. UNCHANGED <<sessionVars, mpc, commandVars, ownVars, messageThreads, listVars,
                      messages, senderlist, messagelist, peerVars>>
      BY <2>4 DEF EndOfFile, Cancelled
    <3> QED
      BY <1>t, <3>1, <3>2 DEF TypeOK
  <2>5. CASE cleanReceiverThread(c) /\ c \in Running
    <3>1. /\ messageThreads' = Without(messageThreads, c)
          /\ Goto(c, "clean", IF c \in Linked THEN "delete" ELSE "close")
          /\ UNCHANGED <<ownVars, listVars, messages, senderlist, messagelist, peerVars>>
      BY <2>5 DEF cleanReceiverThread
    <3>2. Without(messageThreads, c) \in Seq(Conns)
      <4>1. PICK k \in DOMAIN messageThreads : messageThreads[k] = c
        BY <2>5 DEF Running
      <4>2. \A i, j \in DOMAIN messageThreads : messageThreads[i] = messageThreads[j] => i = j
        BY DEF IInv, ThreadsRegistered
      <4>3. messageThreads \in Seq(Conns)
        BY <1>0 DEF TypeOK
      <4> QED
        BY <4>1, <4>2, <4>3, WithoutProperties
    <3> QED
      BY <1>0, <3>1, <3>2 DEF TypeOK
  <2>6. CASE DeleteLock(c)
    BY <1>t, <2>6 DEF DeleteLock, TypeOK
  <2>7. CASE CloseThread(c)
    BY <1>t, <1>c, <2>7 DEF CloseThread, TypeOK
  <2>8. CASE DeleteFlush(c)
    <3>1. flushMessageFrom(c)
      BY <2>8 DEF DeleteFlush
    <3>2. messages' \in Seq(Message) /\ Len(messages') <= Len(messages)
      BY <1>0, <3>1, FlushProperties
    <3>3. Len(messages') <= MAX_MESSAGE_COUNT
      BY <1>0, <1>c, <3>2, LenProperties DEF TypeOK
    <3> QED
      BY <1>0, <2>8, <3>2, <3>3 DEF DeleteFlush, TypeOK
  <2>9. CASE DeleteUnlink(c)
    <3>1. c \in Linked
      BY <1>0, <2>9 DEF DeleteUnlink, NodesOwned
    <3>2. senders' = Without(senders, c) /\ uname' = [uname EXCEPT ![c] = NoName]
      BY <2>9 DEF DeleteUnlink
    <3>3. senders' \in Seq(Conns) /\ uname' \in [Conns -> Names \cup {NoName}]
      BY <1>0, <3>1, <3>2, UnlinkProperties
    <3> QED
      BY <1>0, <2>9, <3>3 DEF DeleteUnlink, TypeOK
  <2> QED
    BY <1>1, <1>8, <2>1, <2>2, <2>3, <2>4, <2>5, <2>6, <2>7, <2>8, <2>9
       DEF Thread, ReadNothing, cleanReceiverThread
<1>9. CASE UNCHANGED vars
  BY <1>0, <1>9 DEF vars, TypeOK
<1> QED
  BY <1>3, <1>4, <1>5, <1>6, <1>7, <1>8, <1>9 DEF Next

--------------------------------------------------------------------------------
\* What the steps do to the list and to the array.

\* Only addSender and deleteSender change the list.
LEMMA ListKept ==
  ASSUME \/ Quiet \/ MainOnly \/ Flush
         \/ \E c \in Conns : Dial(c) \/ Moves(c) \/ storeMessage(c) \/ DeleteFlush(c)
  PROVE  UNCHANGED <<senders, uname>> /\ Linked' = Linked
<1>1. UNCHANGED <<senders, uname>>
  <2>1. ASSUME NEW c \in Conns, Dial(c) \/ storeMessage(c) \/ DeleteFlush(c)
        PROVE  UNCHANGED <<senders, uname>>
    BY <2>1 DEF Dial, storeMessage, DeleteFlush, listVars
  <2> QED
    BY <2>1, MovesKeep DEF Quiet, MainOnly, Flush, listVars
<1> QED
  BY <1>1 DEF Linked

\* addSender links the node of c with a new name, or nothing.
LEMMA AddedByThread ==
  ASSUME IInv, NEW c \in Conns, addSender(c)
  PROVE  \/ /\ UNCHANGED <<senders, uname>>
            /\ tpc'[c] = "clean"
         \/ /\ tpc'[c] = "loop"
            /\ c \notin Linked
            /\ Linked' = Linked \cup {c}
            /\ uname'[c] = arg[c]
            /\ \A d \in Linked : uname'[d] = uname[d] /\ uname[d] # arg[c]
            /\ SendersUnique'
<1>0. TypeOK /\ SendersUnique /\ tpc[c] = "add" /\ c \notin Linked
  BY MovesTo DEF IInv, NodesOwned
<1>1. CASE lookupUser(arg[c]) # NoConn
  BY <1>0, <1>1 DEF addSender, Goto, Advance, listVars, TypeOK
<1>2. CASE lookupUser(arg[c]) = NoConn
  <2>1. Link(c, arg[c]) /\ tpc'[c] = "loop"
    BY <1>0, <1>2 DEF addSender, Advance, TypeOK
  <2>2. arg[c] \in Names \cup {NoName} /\ \A d \in Linked : uname[d] # arg[c]
    BY <1>0, <1>2, LookupProperties DEF TypeOK
  <2> QED
    BY <1>0, <2>1, <2>2, LinkProperties
<1> QED
  BY <1>1, <1>2

\* The same for the connection main has made.
LEMMA AddedByMain ==
  ASSUME IInv, AddSender
  PROVE  /\ mconn \in Conns
         /\ tpc[mconn] = "dialled"
         /\ \/ UNCHANGED <<senders, uname, tpc>>
            \/ /\ tpc' = [tpc EXCEPT ![mconn] = "start"]
               /\ mconn \notin Linked
               /\ Linked' = Linked \cup {mconn}
               /\ uname'[mconn] = mname
               /\ \A d \in Linked : uname'[d] = uname[d] /\ uname[d] # mname
               /\ SendersUnique'
<1>1. mpc = "add"
  BY DEF AddSender, Got, GotoMain
<1>2. mconn \in Conns /\ tpc[mconn] = "dialled"
  BY <1>1 DEF IInv, Dialled
<1>3. TypeOK /\ SendersUnique /\ mconn \notin Linked
  BY <1>2 DEF IInv, NodesOwned
<1>4. CASE lookupUser(mname) # NoConn
  BY <1>2, <1>4 DEF AddSender, listVars
<1>5. CASE lookupUser(mname) = NoConn
  <2>1. Link(mconn, mname) /\ tpc' = [tpc EXCEPT ![mconn] = "start"]
    BY <1>5 DEF AddSender
  <2>2. mname \in Names \cup {NoName} /\ \A d \in Linked : uname[d] # mname
    BY <1>3, <1>5, LookupProperties DEF TypeOK
  <2> QED
    BY <1>2, <1>3, <2>1, <2>2, LinkProperties
<1> QED
  BY <1>4, <1>5

\* deleteSender unlinks the node of c and no other.
LEMMA Unlinked ==
  ASSUME IInv, NEW c \in Conns, DeleteUnlink(c)
  PROVE  /\ c \in Linked
         /\ Linked' = Linked \ {c}
         /\ \A d \in Conns \ {c} : uname'[d] = uname[d]
         /\ SendersUnique'
<1>1. TypeOK /\ SendersUnique /\ c \in Linked
  BY MovesTo DEF IInv, NodesOwned
<1>2. senders' = Without(senders, c) /\ uname' = [uname EXCEPT ![c] = NoName]
  BY DEF DeleteUnlink
<1> QED
  BY <1>1, <1>2, UnlinkProperties

\* Only storeMessage and flushMessageFrom change the array.
LEMMA ArrayKept ==
  ASSUME \/ Quiet \/ MainOnly \/ AddSender
         \/ \E c \in Conns : Dial(c) \/ Moves(c) \/ addSender(c) \/ DeleteUnlink(c)
  PROVE  messages' = messages
<1>1. ASSUME NEW c \in Conns, Dial(c) \/ addSender(c) \/ DeleteUnlink(c)
      PROVE  messages' = messages
  BY <1>1 DEF Dial, addSender, DeleteUnlink
<1> QED
  BY <1>1, MovesKeep DEF Quiet, MainOnly, AddSender

\* storeMessage adds the line c has just read, behind all others, or nothing.
LEMMA StoreEffect ==
  ASSUME TypeOK, NEW c \in Conns, storeMessage(c), messages' # messages
  PROVE  /\ DOMAIN messages' = 1 .. Len(messages) + 1
         /\ \A i \in DOMAIN messages : messages'[i] = messages[i]
         /\ messages'[Len(messages) + 1].sender = c
         /\ messages'[Len(messages) + 1].line = nread[c]
         /\ Len(messages) \in Nat /\ DOMAIN messages = 1 .. Len(messages)
<1>1. messages' = Append(messages, [sender |-> c, line |-> nread[c]])
  BY DEF storeMessage
<1>2. Len(messages) \in Nat /\ DOMAIN messages = 1 .. Len(messages)
  BY LenProperties DEF TypeOK
<1>3. PICK m : m = [sender |-> c, line |-> nread[c]]
  OBVIOUS
<1>4. /\ DOMAIN Append(messages, m) = 1 .. Len(messages) + 1
      /\ \A i \in 1 .. Len(messages) : Append(messages, m)[i] = messages[i]
      /\ Append(messages, m)[Len(messages) + 1] = m
  BY <1>2
<1>5. m.sender = c /\ m.line = nread[c]
  BY <1>3
<1>6. messages' = Append(messages, m)
  BY <1>1, <1>3
<1> QED
  BY <1>2, <1>4, <1>5, <1>6

\* What a flush leaves was there and is of another sender, in the old order.
LEMMA FlushEffect ==
  ASSUME TypeOK, MessagesInOrder, NEW node, flushMessageFrom(node)
  PROVE  /\ \A i \in DOMAIN messages' :
              \E j \in DOMAIN messages : messages'[i] = messages[j] /\ messages[j].sender # node
         /\ MessagesInOrder'
<1>1. PICK at \in [DOMAIN messages' -> DOMAIN messages] :
        /\ \A j \in DOMAIN messages' :
             /\ messages'[j] = messages[at[j]]
             /\ node # NoConn /\ messages[at[j]].sender # node
        /\ \A j, k \in DOMAIN messages' : j < k => at[j] < at[k]
  BY FlushProperties
<1>2. \A j \in DOMAIN messages' : at[j] \in DOMAIN messages
  BY <1>1
<1>3. MessagesInOrder'
  BY <1>1, <1>2 DEF MessagesInOrder
<1> QED
  BY <1>1, <1>2, <1>3

--------------------------------------------------------------------------------
\* Every step keeps each part of the inductive invariant.

\* Where main goes, and with which name.
LEMMA MainGoes ==
  ASSUME NamesInHand, MainOnly \/ AddSender \/ Flush
  PROVE  /\ mpc' # "add"
         /\ mpc' \in {"lookup", "find", "dial"} => mname' \in Names
<1> USE DEF GotoMain, Got, NamesInHand
<1>1. CASE AddSender \/ Flush \/ ShowAll \/ SayLock \/ Say \/ FlushLock
  BY <1>1 DEF AddSender, Flush, ShowAll, SayLock, Say, FlushLock
<1>2. CASE Lookup \/ Find
  BY <1>2 DEF Lookup, Find
<1>3. ASSUME NEW goal \in {"msg", "show"}, NEW n \in Names, Command(goal, n)
      PROVE  mpc' = "lookup" /\ mname' \in Names
  BY <1>3 DEF Command
<1> QED
  BY <1>1, <1>2, <1>3 DEF MainOnly

\* addSender gets a name that was read or asked for.
LEMMA NamesStep == IInv /\ [Next]_vars => NamesInHand'
<1> SUFFICES ASSUME IInv, [Next]_vars PROVE NamesInHand'
  OBVIOUS
<1>0. TypeOK /\ NamesInHand /\ NodesOwned /\ Linked \subseteq Conns
  BY AreConns DEF IInv
<1>1. CASE Quiet
  BY <1>0, <1>1, ListKept DEF Quiet, NamesInHand
<1>2. CASE MainOnly \/ Flush
  <2>1. UNCHANGED <<tpc, arg, uname>> /\ Linked' = Linked
    BY <1>2, ListKept DEF MainOnly, Flush, GotoMain, ownVars
  <2> QED
    BY <1>0, <1>2, <2>1, MainGoes DEF NamesInHand
<1>3. CASE AddSender
  <2>1. arg' = arg /\ mname \in Names
    BY <1>0, <1>3 DEF AddSender, Got, GotoMain, ownVars, NamesInHand
  <2>2. \A c \in Conns : tpc'[c] = "add" => tpc[c] = "add"
    BY <1>0, <1>3, AddedByMain DEF TypeOK
  <2>3. \A c \in Linked' : uname'[c] \in Names
    <3>1. CASE UNCHANGED <<senders, uname>>
      BY <1>0, <3>1 DEF NamesInHand, Linked
    <3>2. CASE ~UNCHANGED <<senders, uname>>
      BY <1>0, <1>3, <2>1, <3>2, AddedByMain DEF NamesInHand
    <3> QED
      BY <3>1, <3>2
  <2> QED
    BY <1>0, <1>3, <2>1, <2>2, <2>3, MainGoes DEF NamesInHand
<1>4. ASSUME NEW c \in Conns, Dial(c) PROVE NamesInHand'
  <2>1. mname \in Names /\ mname' = mname /\ arg' = arg
    BY <1>0, <1>4 DEF Dial, GotoMain, ownVars, NamesInHand
  <2>2. \A d \in Conns : tpc'[d] = "add" => tpc[d] = "add"
    BY <1>0, <1>4, MovesTo, OthersUnmoved
  <2>3. uname' = uname /\ Linked' = Linked
    BY <1>4, ListKept
  <2> QED
    BY <1>0, <2>1, <2>2, <2>3 DEF NamesInHand
<1>5. ASSUME NEW c \in Conns, Moves(c) \/ Works(c) PROVE NamesInHand'
  <2>1. mpc' = mpc /\ mname' = mname
    <3>1. CASE Works(c)
      BY <3>1 DEF Works, addSender, storeMessage, DeleteFlush, DeleteUnlink, Goto, Advance,
         askedVars
    <3> QED
      BY <1>5, <3>1, MovesKeep
  <2>2. ASSUME NEW d \in Conns, tpc'[d] = "add" PROVE arg'[d] \in Names
    <3>1. CASE d # c
      BY <1>0, <1>5, <2>2, <3>1, OthersUnmoved DEF NamesInHand
    <3>2. CASE d = c
      <4>1. ReadConnect(c)
        BY <1>0, <1>5, <2>2, <3>2, MovesTo DEF Moves, Works
      <4>2. \/ tpc'[c] = "clean"
            \/ \E n \in Names : arg' = [arg EXCEPT ![c] = n]
        BY <1>0, <4>1 DEF ReadConnect, Goto, Advance, TypeOK
      <4> QED
        BY <1>0, <2>2, <3>2, <4>2 DEF TypeOK
    <3> QED
      BY <3>1, <3>2
  <2>3. \A d \in Linked' : uname'[d] \in Names
    <3>1. CASE UNCHANGED <<senders, uname>>
      BY <1>0, <3>1 DEF NamesInHand, Linked
    <3>2. CASE addSender(c)
      <4>1. arg[c] \in Names
        BY <1>0, <3>2, MovesTo DEF NamesInHand
      <4> QED
        BY <1>0, <3>1, <3>2, <4>1, AddedByThread DEF NamesInHand
    <3>3. CASE DeleteUnlink(c)
      BY <1>0, <3>3, Unlinked DEF NamesInHand
    <3> QED
      BY <1>5, <3>1, <3>2, <3>3, ListKept DEF Works
  <2> QED
    BY <1>0, <2>1, <2>2, <2>3 DEF NamesInHand
<1> QED
  BY Steps, <1>1, <1>2, <1>3, <1>4, <1>5

\* No thread runs for a connection main has made and not yet added.
LEMMA DialledStep == IInv /\ [Next]_vars => Dialled'
<1> SUFFICES ASSUME IInv, [Next]_vars PROVE Dialled'
  OBVIOUS
<1>0. TypeOK /\ Dialled /\ NamesInHand
  BY DEF IInv
<1>1. CASE Quiet
  BY <1>0, <1>1 DEF Quiet, Dialled
<1>2. CASE MainOnly \/ AddSender \/ Flush
  BY <1>0, <1>2, MainGoes DEF Dialled
<1>3. ASSUME NEW c \in Conns, Dial(c) PROVE Dialled'
  BY <1>0, <1>3, MovesTo DEF Dial, Dialled
<1>4. ASSUME NEW c \in Conns, Moves(c) \/ Works(c) PROVE Dialled'
  <2>1. mpc' = mpc /\ mconn' = mconn
    <3>1. CASE Works(c)
      BY <3>1 DEF Works, addSender, storeMessage, DeleteFlush, DeleteUnlink, Goto, Advance,
         askedVars
    <3> QED
      BY <1>4, <3>1, MovesKeep
  <2>2. tpc[c] # "dialled"
    BY <1>0, <1>4, MovesTo DEF Moves, Works
  <2> QED
    BY <1>0, <1>4, <2>1, <2>2, OthersUnmoved DEF Dialled
<1> QED
  BY Steps, <1>1, <1>2, <1>3, <1>4

\* The mutexes are taken free and given back by their owner.
LEMMA MutexStep == IInv /\ [Next]_vars => MutexInv'
<1> SUFFICES ASSUME IInv, [Next]_vars PROVE MutexInv'
  OBVIOUS
<1>0. TypeOK /\ MutexInv
  BY DEF IInv
<1>c. Main \notin Conns /\ NoConn \notin Conns /\ Main # NoConn
  BY ConstantsOK
<1>1. CASE Quiet
  BY <1>0, <1>1 DEF Quiet, MutexInv
<1>2. CASE MainOnly
  <2> USE DEF GotoMain, Got, MutexInv
  <2>1. CASE ShowAll \/ Lookup \/ Find
    BY <1>0, <1>2, <2>1 DEF ShowAll, Lookup, Find, MainOnly
  <2>2. CASE SayLock
    BY <1>0, <1>2, <1>c, <2>2 DEF SayLock, MainOnly
  <2>3. CASE Say
    BY <1>0, <1>2, <1>c, <2>3 DEF Say, MainOnly
  <2>4. CASE FlushLock
    BY <1>0, <1>2, <1>c, <2>4 DEF FlushLock, MainOnly
  <2>5. ASSUME NEW goal \in {"msg", "show"}, NEW n \in Names, Command(goal, n)
        PROVE  MutexInv'
    BY <1>0, <1>2, <2>5 DEF Command, MainOnly
  <2> QED
    BY <1>2, <2>1, <2>2, <2>3, <2>4, <2>5 DEF MainOnly
<1>3. CASE AddSender
  <2>1. \A d \in Conns : tpc'[d] = tpc[d] \/ (tpc[d] = "dialled" /\ tpc'[d] = "start")
    BY <1>0, <1>3, AddedByMain DEF TypeOK
  <2>2. /\ senderlist' = senderlist /\ messagelist' = messagelist
        /\ mpc = "add" /\ mpc' \in {"flushLock", "sayLock", "idle"}
    BY <1>3 DEF AddSender, Got, GotoMain
  <2> QED
    BY <1>0, <2>1, <2>2 DEF MutexInv
<1>4. CASE Flush
  BY <1>0, <1>4, <1>c DEF Flush, GotoMain, MutexInv
<1>5. ASSUME NEW c \in Conns, Dial(c) PROVE MutexInv'
  <2>1. /\ senderlist' = senderlist /\ messagelist' = messagelist
        /\ mpc = "dial" /\ mpc' = "add"
    BY <1>5 DEF Dial, GotoMain
  <2> QED
    BY <1>0, <1>5, <2>1, MovesTo, OthersUnmoved DEF MutexInv
<1>6. ASSUME NEW c \in Conns, Moves(c) \/ Works(c) PROVE MutexInv'
  <2>1. mpc' = mpc
    <3>1. CASE Works(c)
      BY <3>1 DEF Works, addSender, storeMessage, DeleteFlush, DeleteUnlink, Goto, Advance
    <3> QED
      BY <1>6, <3>1, MovesKeep
  <2>2. messagelist' = messagelist \/ (messagelist \in {NoConn, c} /\ messagelist' = c)
    <3>1. CASE Works(c)
      BY <3>1 DEF Works, addSender, storeMessage, DeleteFlush, DeleteUnlink, MessagesFree
    <3> QED
      BY <1>6, <3>1, MovesKeep
  <2>3. \A d \in Conns \ {c} : tpc'[d] = tpc[d]
    BY <1>0, <1>6, OthersUnmoved
  <2>4. CASE DeleteLock(c)
    <3>1. senderlist = NoConn /\ senderlist' = c /\ tpc'[c] = "flush"
      BY <1>0, <2>4, MovesTo DEF DeleteLock
    <3> QED
      BY <1>0, <1>c, <2>1, <2>2, <2>3, <3>1 DEF MutexInv
  <2>5. CASE DeleteUnlink(c)
    <3>1. senderlist' = NoConn /\ tpc[c] = "unlink" /\ tpc'[c] = "close"
      BY <1>0, <2>5, MovesTo DEF DeleteUnlink
    <3> QED
      BY <1>0, <1>c, <2>1, <2>2, <2>3, <3>1 DEF MutexInv
  <2>6. CASE ~DeleteLock(c) /\ ~DeleteUnlink(c)
    <3>1. senderlist' = senderlist
      BY <1>6, <2>6 DEF Moves, Works, Accept, Register, ReadConnect, ReadMessage, EndOfFile,
         Cancelled, Unregister, CloseThread, addSender, storeMessage, DeleteFlush
    <3>2. tpc[c] \in {"flush", "unlink"} <=> tpc'[c] \in {"flush", "unlink"}
      BY <1>0, <1>6, <2>6, MovesTo DEF Moves, Works
    <3> QED
      BY <1>0, <1>c, <2>1, <2>2, <2>3, <3>1, <3>2 DEF MutexInv
  <2> QED
    BY <2>4, <2>5, <2>6
<1> QED
  BY Steps, <1>1, <1>2, <1>3, <1>4, <1>5, <1>6

\* Register and cleanReceiverThread are the two ends of a thread's run.
LEMMA RegisteredStep == IInv /\ [Next]_vars => ThreadsRegistered'
<1> SUFFICES ASSUME IInv, [Next]_vars PROVE ThreadsRegistered'
  OBVIOUS
<1>0. TypeOK /\ ThreadsRegistered /\ messageThreads \in Seq(Conns)
  BY DEF IInv, TypeOK
<1>1. ASSUME messageThreads' = messageThreads,
             \A d \in Conns : tpc[d] \in Registered <=> tpc'[d] \in Registered
      PROVE  ThreadsRegistered'
  <2>1. Running' = Running
    BY <1>1 DEF Running
  <2> QED
    BY <1>0, <1>1, <2>1 DEF ThreadsRegistered
<1>2. CASE Quiet \/ MainOnly \/ Flush
  BY <1>1, <1>2 DEF Quiet, MainOnly, Flush, GotoMain
<1>3. CASE AddSender
  <2>1. \A d \in Conns : tpc'[d] = tpc[d] \/ (tpc[d] = "dialled" /\ tpc'[d] = "start")
    BY <1>0, <1>3, AddedByMain DEF IInv, TypeOK
  <2>2. messageThreads' = messageThreads
    BY <1>3 DEF AddSender, Got, GotoMain
  <2> QED
    BY <1>1, <2>1, <2>2 DEF Registered
<1>4. ASSUME NEW c \in Conns, Dial(c) \/ Moves(c) \/ Works(c), ~Register(c), ~Unregister(c)
      PROVE  ThreadsRegistered'
  <2>1. messageThreads' = messageThreads
    BY <1>4 DEF Dial, Moves, Works, Accept, ReadConnect, ReadMessage, EndOfFile, Cancelled,
       DeleteLock, CloseThread, addSender, storeMessage, DeleteFlush, DeleteUnlink, GotoMain
  <2>2. tpc[c] \in Registered <=> tpc'[c] \in Registered
    BY <1>0, <1>4, MovesTo DEF Moves, Works, Registered
  <2>3. \A d \in Conns \ {c} : tpc'[d] = tpc[d]
    BY <1>0, <1>4, OthersUnmoved
  <2> QED
    BY <1>1, <2>1, <2>2, <2>3
<1>5. ASSUME NEW c \in Conns, Register(c) PROVE ThreadsRegistered'
  <2>1. /\ Len(messageThreads) \in Nat
        /\ DOMAIN messageThreads = 1 .. Len(messageThreads)
    BY <1>0, LenProperties
  <2>2. messageThreads' = Append(messageThreads, c)
    BY <1>5 DEF Register
  <2>3. /\ DOMAIN messageThreads' = 1 .. Len(messageThreads) + 1
        /\ \A i \in DOMAIN messageThreads : messageThreads'[i] = messageThreads[i]
        /\ messageThreads'[Len(messageThreads) + 1] = c
    BY <1>0, <2>1, <2>2
  <2>4. c \notin Running /\ Running' = Running \cup {c}
    <3>1. c \notin Running
      BY <1>0, <1>5, MovesTo DEF ThreadsRegistered, Registered
    <3> QED
      BY <2>1, <2>3, <3>1 DEF Running
  <2>5. tpc'[c] \in Registered /\ \A d \in Conns \ {c} : tpc'[d] = tpc[d]
    BY <1>0, <1>5, MovesTo, OthersUnmoved DEF Moves, Registered
  <2>6. \A i \in DOMAIN messageThreads : messageThreads[i] # c
    BY <2>4 DEF Running
  <2>7. \A i, j \in DOMAIN messageThreads' : messageThreads'[i] = messageThreads'[j] => i = j
    BY <1>0, <2>1, <2>3, <2>6 DEF ThreadsRegistered
  <2> QED
    BY <1>0, <2>4, <2>5, <2>7 DEF ThreadsRegistered
<1>6. ASSUME NEW c \in Conns, Unregister(c) PROVE ThreadsRegistered'
  <2>1. PICK k \in DOMAIN messageThreads : messageThreads[k] = c
    BY <1>6 DEF Unregister, Running
  <2>2. messageThreads' = Without(messageThreads, c)
    BY <1>6 DEF Unregister
  <2>3. \A i, j \in DOMAIN messageThreads : messageThreads[i] = messageThreads[j] => i = j
    BY <1>0 DEF ThreadsRegistered
  <2>4. /\ \A i, j \in DOMAIN messageThreads' : messageThreads'[i] = messageThreads'[j] => i = j
        /\ \A i \in DOMAIN messageThreads' :
             \E j \in DOMAIN messageThreads :
               messageThreads'[i] = messageThreads[j] /\ messageThreads[j] # c
        /\ \A j \in DOMAIN messageThreads :
             messageThreads[j] # c =>
               \E i \in DOMAIN messageThreads' : messageThreads'[i] = messageThreads[j]
    BY <1>0, <2>1, <2>2, <2>3, WithoutProperties
  <2>5. Running' = Running \ {c}
    BY <2>4 DEF Running
  <2>6. tpc'[c] \notin Registered /\ \A d \in Conns \ {c} : tpc'[d] = tpc[d]
    BY <1>0, <1>6, MovesTo, OthersUnmoved DEF Moves, Registered
  <2> QED
    BY <1>0, <2>4, <2>5, <2>6 DEF ThreadsRegistered
<1> QED
  BY Steps, <1>2, <1>3, <1>4, <1>5, <1>6

\* A name is linked only where lookupUser did not find it, under the same lock.
LEMMA UniqueStep == IInv /\ [Next]_vars => SendersUnique'
<1> SUFFICES ASSUME IInv, [Next]_vars PROVE SendersUnique'
  OBVIOUS
<1>1. ASSUME UNCHANGED <<senders, uname>> PROVE SendersUnique'
  BY <1>1 DEF IInv, SendersUnique
<1>2. CASE AddSender
  BY <1>1, <1>2, AddedByMain
<1>3. ASSUME NEW c \in Conns, addSender(c) \/ DeleteUnlink(c) PROVE SendersUnique'
  BY <1>1, <1>3, AddedByThread, Unlinked
<1> QED
  BY Steps, ListKept, <1>1, <1>2, <1>3 DEF Works

\* A node comes with its thread's session and goes at its end.
LEMMA NodesStep == IInv /\ [Next]_vars => NodesOwned'
<1> SUFFICES ASSUME IInv, [Next]_vars PROVE NodesOwned'
  OBVIOUS
<1>0. TypeOK /\ NodesOwned
  BY DEF IInv
<1>1. CASE Quiet \/ MainOnly \/ Flush
  <2>1. tpc' = tpc /\ Linked' = Linked
    BY <1>1, ListKept DEF Quiet, MainOnly, Flush
  <2> QED
    BY <1>0, <2>1 DEF NodesOwned
<1>2. CASE AddSender
  <2>1. CASE UNCHANGED <<senders, uname, tpc>>
    BY <1>0, <2>1 DEF NodesOwned, Linked
  <2>2. CASE ~UNCHANGED <<senders, uname, tpc>>
    <3>1. /\ mconn \in Conns
          /\ tpc' = [tpc EXCEPT ![mconn] = "start"]
          /\ Linked' = Linked \cup {mconn}
      BY <1>2, <2>2, AddedByMain
    <3> QED
      BY <1>0, <3>1 DEF NodesOwned, TypeOK
  <2> QED
    BY <2>1, <2>2
<1>3. ASSUME NEW c \in Conns, Dial(c) \/ Moves(c) \/ Works(c),
             UNCHANGED <<senders, uname>>
      PROVE  NodesOwned'
  <2>1. Linked' = Linked
    BY <1>3 DEF Linked
  <2>2. \A d \in Conns \ {c} : tpc'[d] = tpc[d]
    BY <1>0, <1>3, OthersUnmoved
  <2>3. CASE DeleteUnlink(c)
    <3>1. c \in Linked /\ Linked' = Linked \ {c}
      BY <2>3, Unlinked
    <3> QED
      BY <2>1, <3>1
  <2>4. CASE addSender(c)
    <3>1. tpc'[c] = "clean"
      BY <1>0, <2>1, <2>4, AddedByThread
    <3> QED
      BY <1>0, <2>1, <2>2, <3>1 DEF NodesOwned
  <2>5. CASE Unregister(c) \/ Register(c)
    <3>1. \/ c \in Linked /\ tpc'[c] \in {"loop", "delete"}
          \/ c \notin Linked /\ tpc'[c] \in {"first", "close"}
      BY <1>0, <2>5, MovesTo
    <3> QED
      BY <1>0, <2>1, <2>2, <3>1 DEF NodesOwned
  <2>6. CASE Dial(c) \/ Accept(c) \/ ReadConnect(c) \/ CloseThread(c)
    <3>1. /\ tpc[c] \in {"none", "first", "close"}
          /\ tpc'[c] \in {"dialled", "start", "add", "clean", "done"}
      BY <1>0, <2>6, MovesTo
    <3>2. c \notin Linked
      BY <1>0, <3>1 DEF NodesOwned
    <3> QED
      BY <1>0, <2>1, <2>2, <3>1, <3>2 DEF NodesOwned
  <2>7. CASE Cancelled(c)
    <3>1. tpc'[c] = "clean"
      BY <1>0, <2>7, MovesTo
    <3> QED
      BY <1>0, <2>1, <2>2, <3>1 DEF NodesOwned
  <2>8. CASE \/ ReadMessage(c) \/ EndOfFile(c) \/ DeleteLock(c) \/ storeMessage(c)
             \/ DeleteFlush(c)
    <3>1. /\ tpc[c] \in {"loop", "delete", "store", "flush"}
          /\ tpc'[c] \in {"store", "clean", "flush", "loop", "unlink"}
      BY <1>0, <2>8, MovesTo
    <3>2. c \in Linked
      BY <1>0, <3>1 DEF NodesOwned
    <3> QED
      BY <1>0, <2>1, <2>2, <3>1, <3>2 DEF NodesOwned
  <2> QED
    BY <1>3, <2>3, <2>4, <2>5, <2>6, <2>7, <2>8 DEF Moves, Works
<1>4. ASSUME NEW c \in Conns, addSender(c), ~UNCHANGED <<senders, uname>> PROVE NodesOwned'
  <2>1. tpc'[c] = "loop" /\ Linked' = Linked \cup {c}
    BY <1>4, AddedByThread
  <2>2. \A d \in Conns \ {c} : tpc'[d] = tpc[d]
    BY <1>0, <1>4, OthersUnmoved DEF Works
  <2> QED
    BY <1>0, <2>1, <2>2 DEF NodesOwned
<1>5. ASSUME NEW c \in Conns, DeleteUnlink(c) PROVE NodesOwned'
  <2>1. tpc'[c] = "close" /\ Linked' = Linked \ {c}
    BY <1>0, <1>5, MovesTo, Unlinked
  <2>2. \A d \in Conns \ {c} : tpc'[d] = tpc[d]
    BY <1>0, <1>5, OthersUnmoved DEF Works
  <2> QED
    BY <1>0, <2>1, <2>2 DEF NodesOwned
<1> QED
  BY Steps, ListKept, <1>1, <1>2, <1>3, <1>4, <1>5 DEF Works

\* Every message a step leaves is one that was stored, or the line just read.
LEMMA WhereFrom ==
  ASSUME IInv, [Next]_vars, NEW i \in DOMAIN messages'
  PROVE  \/ /\ \E j \in DOMAIN messages : messages'[i] = messages[j]
            /\ \A c \in Conns : DeleteFlush(c) => messages'[i].sender # c
         \/ \E c \in Conns : /\ storeMessage(c)
                             /\ messages'[i].sender = c
                             /\ messages'[i].line = nread[c]
<1>0. TypeOK /\ MessagesInOrder
  BY DEF IInv
<1>1. CASE messages' = messages /\ ~\E c \in Conns : DeleteFlush(c)
  BY <1>1
<1>2. CASE Flush
  <2>1. /\ \E j \in DOMAIN messages : messages'[i] = messages[j]
        /\ \A c \in Conns : ~DeleteFlush(c)
    <3>1. flushMessageFrom(mnode) /\ mpc' # mpc
      BY <1>2 DEF Flush, GotoMain
    <3>2. \A c \in Conns : ~DeleteFlush(c)
      BY <3>1 DEF DeleteFlush, Goto, Advance
    <3> QED
      BY <1>0, <3>1, <3>2, FlushEffect
  <2> QED
    BY <2>1
<1>3. ASSUME NEW c \in Conns, DeleteFlush(c)
      PROVE  \/ /\ \E j \in DOMAIN messages : messages'[i] = messages[j]
                /\ \A d \in Conns : DeleteFlush(d) => messages'[i].sender # d
             \/ FALSE
  <2>1. \A d \in Conns : DeleteFlush(d) => flushMessageFrom(d)
    BY DEF DeleteFlush
  <2> QED
    BY <1>0, <1>3, <2>1, FlushEffect
<1>4. ASSUME NEW c \in Conns, storeMessage(c), messages' # messages
      PROVE  \/ /\ \E j \in DOMAIN messages : messages'[i] = messages[j]
                /\ \A d \in Conns : DeleteFlush(d) => messages'[i].sender # d
             \/ messages'[i].sender = c /\ messages'[i].line = nread[c]
  <2>1. CASE i \in DOMAIN messages
    <3>1. messages'[i] = messages[i]
      BY <1>0, <1>4, <2>1, StoreEffect
    <3>2. \A d \in Conns : ~DeleteFlush(d)
      <4>1. ASSUME NEW d \in Conns, DeleteFlush(d) PROVE FALSE
        <5>1. tpc[d] = "flush" /\ tpc'[d] = "unlink" /\ tpc[c] = "store"
          BY <1>0, <1>4, <4>1, MovesTo
        <5> QED
          BY <1>0, <1>4, <5>1, OthersUnmoved DEF Works
      <4> QED
        BY <4>1
    <3> QED
      BY <2>1, <3>1, <3>2
  <2>2. CASE i \notin DOMAIN messages
    <3>1. i = Len(messages) + 1
      BY <1>0, <1>4, <2>2, StoreEffect
    <3> QED
      BY <1>0, <1>4, <3>1, StoreEffect
  <2> QED
    BY <2>1, <2>2
<1> QED
  BY Steps, ArrayKept, <1>1, <1>2, <1>3, <1>4 DEF Works

\* A message is stored while its sender is linked and flushed before it is not.
LEMMA SenderLiveStep == IInv /\ [Next]_vars => MessageSenderLive'
<1> SUFFICES ASSUME IInv, [Next]_vars, NEW i \in DOMAIN messages'
             PROVE  messages'[i].sender \in Linked'
  BY DEF MessageSenderLive, Stored
<1>0. TypeOK /\ NodesOwned /\ MessageSenderLive /\ FlushedFirst
  BY DEF IInv
<1> DEFINE c == messages'[i].sender
<1>1. c \in Linked
  <2>1. CASE \E j \in DOMAIN messages : messages'[i] = messages[j]
    BY <1>0, <2>1 DEF MessageSenderLive, Stored
  <2>2. ASSUME NEW d \in Conns, storeMessage(d), c = d PROVE c \in Linked
    BY <1>0, <2>2, MovesTo DEF NodesOwned
  <2> QED
    BY <2>1, <2>2, WhereFrom
<1>2. ASSUME NEW d \in Conns, DeleteUnlink(d) PROVE c # d /\ Linked' = Linked \ {d}
  <2>1. messages' = messages /\ tpc[d] = "unlink"
    BY <1>0, <1>2, ArrayKept, MovesTo
  <2> QED
    BY <1>0, <1>2, <2>1, Unlinked DEF FlushedFirst, Stored
<1>3. CASE ~\E d \in Conns : DeleteUnlink(d)
  <2>1. Linked \subseteq Linked'
    <3>1. UNCHANGED <<senders, uname>> => Linked' = Linked
      BY DEF Linked
    <3> QED
      BY <1>3, <3>1, Steps, ListKept, AddedByMain, AddedByThread DEF Works
  <2> QED
    BY <1>1, <2>1
<1> QED
  BY <1>1, <1>2, <1>3

\* A flushed sender stores nothing any more.
LEMMA FlushedStep == IInv /\ [Next]_vars => FlushedFirst'
<1> SUFFICES ASSUME IInv, [Next]_vars, NEW i \in DOMAIN messages',
                    tpc'[messages'[i].sender] = "unlink"
             PROVE  FALSE
  BY DEF FlushedFirst, Stored
<1>0. TypeOK /\ FlushedFirst
  BY DEF IInv
<1> DEFINE c == messages'[i].sender
<1>1. CASE \E j \in DOMAIN messages : messages'[i] = messages[j]
  <2>1. tpc[c] # "unlink" /\ c \in Conns
    BY <1>0, <1>1, AreConns DEF FlushedFirst, Stored
  <2>2. ~DeleteFlush(c)
    <3>1. ~storeMessage(c)
      BY <1>0, <2>1, MovesTo
    <3> QED
      BY <1>0, <2>1, <3>1, WhereFrom
  <2>3. ASSUME NEW d \in Conns, Dial(d) \/ Moves(d) \/ Works(d) PROVE FALSE
    <3>1. d = c
      BY <1>0, <2>1, <2>3, OthersUnmoved
    <3> QED
      BY <1>0, <2>2, <2>3, <3>1, MovesTo DEF Moves, Works
  <2>4. CASE Quiet \/ MainOnly \/ Flush
    BY <2>1, <2>4 DEF Quiet, MainOnly, Flush
  <2>5. CASE AddSender
    BY <1>0, <2>1, <2>5, AddedByMain DEF TypeOK
  <2> QED
    BY Steps, <2>3, <2>4, <2>5
<1>2. ASSUME NEW d \in Conns, storeMessage(d), c = d PROVE FALSE
  BY <1>0, <1>2, MovesTo
<1> QED
  BY <1>1, <1>2, WhereFrom

\* When a connection's count of lines changes.
LEMMA CountChanges ==
  ASSUME TypeOK, NEW c \in Conns, Dial(c) \/ Moves(c) \/ Works(c)
  PROVE  /\ ReadConnect(c) \/ ReadMessage(c) => nread'[c] = nread[c] + 1
         /\ ~ReadConnect(c) /\ ~ReadMessage(c) /\ ~CloseThread(c) => nread'[c] = nread[c]
<1>1. ReadConnect(c) \/ ReadMessage(c) => nread'[c] = nread[c] + 1
  BY DEF ReadConnect, ReadMessage, Consume, TypeOK
<1>2. CASE Dial(c) \/ Works(c)
  BY <1>1, <1>2 DEF Dial, Works, addSender, storeMessage, DeleteFlush, DeleteUnlink, peerVars
<1>3. CASE Moves(c)
  BY <1>1, <1>3 DEF Moves, Accept, Register, EndOfFile, Cancelled, Unregister, DeleteLock, peerVars
<1> QED
  BY <1>2, <1>3

\* A thread reads the next line only when it has stored the one before.
LEMMA LinesStep == IInv /\ [Next]_vars => LinesRead'
<1> SUFFICES ASSUME IInv, [Next]_vars PROVE LinesRead'
  OBVIOUS
<1>0. TypeOK /\ LinesRead /\ NodesOwned /\ MessageSenderLive /\ nread \in [Conns -> 0 .. MaxLines]
  BY DEF IInv, TypeOK
<1>c. MaxLines \in Nat
  BY ConstantsOK
<1>1. ASSUME NEW c \in Conns
      PROVE  \/ tpc'[c] = "store" /\ ReadMessage(c) /\ nread'[c] = nread[c] + 1
             \/ tpc'[c] = tpc[c] /\ nread'[c] = nread[c]
             \/ tpc'[c] # "store" /\ nread'[c] \in {nread[c], nread[c] + 1}
             \/ tpc'[c] # "store" /\ CloseThread(c)
  <2>1. CASE Quiet \/ MainOnly \/ Flush
    BY <2>1 DEF Quiet, MainOnly, Flush, peerVars
  <2>2. CASE AddSender
    <3>1. nread' = nread
      BY <2>2 DEF AddSender, peerVars
    <3> QED
      BY <1>0, <2>2, <3>1, AddedByMain DEF TypeOK
  <2>3. ASSUME NEW d \in Conns, Dial(d) \/ Moves(d) \/ Works(d), d # c
        PROVE  tpc'[c] = tpc[c] /\ nread'[c] = nread[c]
    BY <1>0, <2>3, OthersUnmoved
  <2>4. CASE Dial(c) \/ Moves(c) \/ Works(c)
    BY <1>0, <2>4, MovesTo, CountChanges DEF Moves, Works
  <2> QED
    BY Steps, <2>1, <2>2, <2>3, <2>4
<1>2. ASSUME NEW c \in Conns, tpc'[c] = "store" PROVE nread'[c] >= 1
  <2>1. nread[c] \in Nat
    BY <1>0, <1>c
  <2> QED
    BY <1>0, <1>1, <1>2, <2>1 DEF LinesRead
<1>3. ASSUME NEW i \in DOMAIN messages'
      PROVE  /\ messages'[i].line <= nread'[messages'[i].sender]
             /\ tpc'[messages'[i].sender] = "store" =>
                  messages'[i].line < nread'[messages'[i].sender]
  <2> DEFINE c == messages'[i].sender
  <2>1. ASSUME NEW j \in DOMAIN messages, messages'[i] = messages[j]
        PROVE  /\ messages'[i].line <= nread'[c]
               /\ tpc'[c] = "store" => messages'[i].line < nread'[c]
    <3>1. /\ c \in Conns
          /\ messages[j].line \in 1 .. MaxLines
          /\ messages[j].line <= nread[c]
          /\ tpc[c] = "store" => messages[j].line < nread[c]
      BY <1>0, <2>1, AreConns DEF LinesRead
    <3>2. ~CloseThread(c)
      <4>1. c \in Linked
        BY <1>0, <2>1 DEF MessageSenderLive, Stored
      <4> QED
        BY <1>0, <3>1, <4>1, MovesTo DEF NodesOwned
    <3>3. nread[c] \in Nat /\ messages[j].line \in Nat
      BY <1>0, <1>c, <3>1
    <3> QED
      BY <1>1, <2>1, <3>1, <3>2, <3>3
  <2>2. ASSUME NEW d \in Conns, storeMessage(d), c = d, messages'[i].line = nread[d]
        PROVE  /\ messages'[i].line <= nread'[c]
               /\ tpc'[c] = "store" => messages'[i].line < nread'[c]
    <3>1. tpc[d] = "store" /\ tpc'[d] = "loop"
      BY <1>0, <2>2, MovesTo
    <3>2. nread'[d] = nread[d] /\ nread[d] \in Nat
      BY <1>0, <1>c, <2>2 DEF storeMessage, peerVars
    <3> QED
      BY <2>2, <3>1, <3>2
  <2> QED
    BY <2>1, <2>2, WhereFrom
<1> QED
  BY <1>2, <1>3 DEF LinesRead

\* A new line is newer than those of its sender that are stored.
LEMMA OrderStep == IInv /\ [Next]_vars => MessagesInOrder'
<1> SUFFICES ASSUME IInv, [Next]_vars PROVE MessagesInOrder'
  OBVIOUS
<1>0. TypeOK /\ MessagesInOrder /\ LinesRead
  BY DEF IInv
<1>1. CASE messages' = messages
  BY <1>0, <1>1 DEF MessagesInOrder
<1>2. CASE Flush
  BY <1>0, <1>2, FlushEffect DEF Flush
<1>3. ASSUME NEW c \in Conns, DeleteFlush(c) PROVE MessagesInOrder'
  BY <1>0, <1>3, FlushEffect DEF DeleteFlush
<1>4. ASSUME NEW c \in Conns, storeMessage(c), messages' # messages PROVE MessagesInOrder'
  <2>1. tpc[c] = "store"
    BY <1>0, <1>4, MovesTo
  <2>2. \A j \in DOMAIN messages : messages[j].sender = c => messages[j].line < nread[c]
    BY <1>0, <2>1 DEF LinesRead
  <2>3. ASSUME NEW i \in DOMAIN messages', NEW j \in DOMAIN messages',
               i < j, messages'[i].sender = messages'[j].sender
        PROVE  messages'[i].line < messages'[j].line
    <3>1. i \in DOMAIN messages /\ messages'[i] = messages[i]
      BY <1>0, <1>4, <2>3, StoreEffect
    <3>2. CASE j \in DOMAIN messages
      BY <1>0, <1>4, <2>3, <3>1, <3>2, StoreEffect DEF MessagesInOrder
    <3>3. CASE j \notin DOMAIN messages
      <4>1. messages'[j].sender = c /\ messages'[j].line = nread[c]
        BY <1>0, <1>4, <3>3, StoreEffect
      <4> QED
        BY <2>2, <2>3, <3>1, <4>1
    <3> QED
      BY <3>2, <3>3
  <2> QED
    BY <2>3 DEF MessagesInOrder
<1> QED
  BY Steps, ArrayKept, <1>1, <1>2, <1>3, <1>4 DEF Works

\* Every step keeps the inductive invariant.
LEMMA IInvStep == IInv /\ [Next]_vars => IInv'
BY TypeStep, NamesStep, DialledStep, MutexStep, RegisteredStep, UniqueStep, NodesStep,
   SenderLiveStep, FlushedStep, LinesStep, OrderStep
   DEF IInv

\* The inductive invariant holds in every reachable state.
LEMMA Inductive == Spec => []IInv
BY InitIInv, IInvStep, PTL DEF Spec

--------------------------------------------------------------------------------
\* Theorems.

\* Every reachable state is well typed, and the array never longer than it is.
THEOREM TypeCorrect == Spec => []TypeOK
<1>1. IInv => TypeOK
  BY DEF IInv
<1> QED
  BY <1>1, Inductive, PTL

\* Each mutex is owned by a thread in the section it guards, and by nobody else.
THEOREM MutexCorrect == Spec => []MutexInv
<1>1. IInv => MutexInv
  BY DEF IInv
<1> QED
  BY <1>1, Inductive, PTL

\* messageThreads holds the running threads, once each.
THEOREM ThreadsCorrect == Spec => []ThreadsRegistered
<1>1. IInv => ThreadsRegistered
  BY DEF IInv
<1> QED
  BY <1>1, Inductive, PTL

\* The list never holds a user twice.
THEOREM SendersAreUnique == Spec => []SendersUnique
<1>1. IInv => SendersUnique
  BY DEF IInv
<1> QED
  BY <1>1, Inductive, PTL

\* A node is linked while its thread is in its session, and not after.
THEOREM NodesAreOwned == Spec => []NodesOwned
<1>1. IInv => NodesOwned
  BY DEF IInv
<1> QED
  BY <1>1, Inductive, PTL

\* No stored message has a freed sender.
THEOREM SendersLive == Spec => []MessageSenderLive
<1>1. IInv => MessageSenderLive
  BY DEF IInv
<1> QED
  BY <1>1, Inductive, PTL

\* A sender's messages are stored in the order of its lines, each once.
THEOREM LinesInOrder == Spec => []MessagesInOrder
<1>1. IInv => MessagesInOrder
  BY DEF IInv
<1> QED
  BY <1>1, Inductive, PTL
=============================================================================
