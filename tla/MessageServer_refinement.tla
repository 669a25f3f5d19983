------------------------ MODULE MessageServer_refinement ------------------------
(***************************************************************************)
(* The message server implements Mailbox, for any connections, names and   *)
(* bounds.  A user joins when its node is linked; its line is heard when   *)
(* storeMessage has had it; it leaves when deleteSender has flushed it;    *)
(* and a show happens when main flushes the array.                         *)
(***************************************************************************)
EXTENDS MessageServer_proofs

\* Before a thread has read its first line nothing has been read, and between the
\* first line and addSender just that.
FirstLine ==
  \A c \in Conns :
    /\ tpc[c] \in {"none", "dialled", "start", "first"} => nread[c] = 0
    /\ tpc[c] = "add" => nread[c] = 1

\* The inductive invariant with what a joining user may have been asked for.
RInv == IInv /\ FirstLine

\* Nothing is read at the start, and a thread that has read is past its start.
LEMMA FirstLineStep == RInv /\ [Next]_vars => FirstLine'
<1> SUFFICES ASSUME RInv, [Next]_vars, NEW c \in Conns
             PROVE  /\ tpc'[c] \in {"none", "dialled", "start", "first"} => nread'[c] = 0
                    /\ tpc'[c] = "add" => nread'[c] = 1
  BY DEF FirstLine
<1>0. IInv /\ TypeOK /\ FirstLine
  BY DEF RInv, IInv
<1>1. CASE Quiet \/ MainOnly \/ Flush
  BY <1>0, <1>1 DEF Quiet, MainOnly, Flush, peerVars, FirstLine
<1>2. CASE AddSender
  <2>1. nread' = nread
    BY <1>2 DEF AddSender, peerVars
  <2>2. tpc'[c] = tpc[c] \/ (tpc[c] = "dialled" /\ tpc'[c] = "start")
    BY <1>0, <1>2, AddedByMain DEF TypeOK
  <2> QED
    BY <1>0, <2>1, <2>2 DEF FirstLine
<1>3. ASSUME NEW d \in Conns, Dial(d) \/ Moves(d) \/ Works(d), d # c
      PROVE  tpc'[c] = tpc[c] /\ nread'[c] = nread[c]
  BY <1>0, <1>3, OthersUnmoved
<1>4. CASE Dial(c) \/ Moves(c) \/ Works(c)
  <2>1. CASE ReadConnect(c)
    <3>1. tpc[c] = "first" /\ tpc'[c] \in {"add", "clean"} /\ nread'[c] = nread[c] + 1
      BY <1>0, <2>1, MovesTo, CountChanges DEF Moves
    <3>2. nread[c] = 0
      BY <1>0, <3>1 DEF FirstLine
    <3> QED
      BY <3>1, <3>2
  <2>2. CASE Dial(c) \/ Accept(c) \/ Register(c)
    <3>1. tpc[c] \in {"none", "start"} /\ tpc'[c] # "add" /\ nread'[c] = nread[c]
      BY <1>0, <2>2, MovesTo, CountChanges DEF Moves
    <3>2. nread[c] = 0
      BY <1>0, <3>1 DEF FirstLine
    <3> QED
      BY <3>1, <3>2
  <2>3. CASE ~(ReadConnect(c) \/ Dial(c) \/ Accept(c) \/ Register(c))
    <3>1. tpc'[c] \notin {"none", "dialled", "start", "first", "add"}
      BY <1>0, <1>4, <2>3, MovesTo DEF Moves, Works
    <3> QED
      BY <3>1
  <2> QED
    BY <2>1, <2>2, <2>3
<1> QED
  BY <1>0, Steps, <1>1, <1>2, <1>3, <1>4 DEF FirstLine

\* The invariant holds in every reachable state.
LEMMA RInductive == Spec => []RInv
<1>1. Init => RInv
  <2>1. Init => FirstLine
    BY DEF Init, FirstLine
  <2> QED
    BY <2>1, InitIInv DEF RInv
<1>2. RInv /\ [Next]_vars => RInv'
  BY FirstLineStep, IInvStep DEF RInv
<1> QED
  BY <1>1, <1>2, PTL DEF Spec

--------------------------------------------------------------------------------
\* The mailbox the message server shows, one connection at a time.

TalkerOf(c) == IF Talking(c) THEN uname[c] ELSE NoName
Leaving(c) == tpc[c] \in {"delete", "flush"} \/ (tpc[c] = "clean" /\ Talking(c))
HeardOf(c) == CASE ~Talking(c) -> 0
                [] tpc[c] = "store" -> nread[c] - 1
                [] OTHER -> nread[c]

\* The view of a connection stays with its location, its count and its node.
Kept(c) == TalkerOf(c)' = TalkerOf(c) /\ (Leaving(c)' <=> Leaving(c)) /\ HeardOf(c)' = HeardOf(c)

\* What nobody touched is seen as before.
LEMMA ViewKept ==
  ASSUME NEW c, tpc'[c] = tpc[c], nread'[c] = nread[c],
         c \in Linked' <=> c \in Linked, c \in Linked => uname'[c] = uname[c]
  PROVE  Kept(c)
<1>1. Talking(c)' <=> Talking(c)
  BY DEF Talking
<1>2. TalkerOf(c)' = TalkerOf(c)
  BY <1>1 DEF TalkerOf, Talking
<1>3. HeardOf(c)' = HeardOf(c) /\ (Leaving(c)' <=> Leaving(c))
  BY <1>1 DEF HeardOf, Leaving
<1> QED
  BY <1>2, <1>3 DEF Kept

\* What nobody sees changed is no change.
LEMMA Stutter ==
  ASSUME \A c \in Conns : Kept(c), messages' = messages
  PROVE  UNCHANGED Mail!vars
<1>1. \A c \in Conns :
        /\ (IF Talking(c) THEN uname[c] ELSE NoName)'
             = IF Talking(c) THEN uname[c] ELSE NoName
        /\ (tpc[c] \in {"delete", "flush"} \/ (tpc[c] = "clean" /\ Talking(c)))'
             <=> tpc[c] \in {"delete", "flush"} \/ (tpc[c] = "clean" /\ Talking(c))
        /\ (CASE ~Talking(c) -> 0 [] tpc[c] = "store" -> nread[c] - 1 [] OTHER -> nread[c])'
             = CASE ~Talking(c) -> 0 [] tpc[c] = "store" -> nread[c] - 1 [] OTHER -> nread[c]
  BY DEF Kept, TalkerOf, Leaving, HeardOf
<1> QED
  BY <1>1 DEF Mail!vars

\* The view as the variables of Mailbox.
talkerNow == [c \in Conns |-> TalkerOf(c)]
leavingNow == {c \in Conns : Leaving(c)}
heardNow == [c \in Conns |-> HeardOf(c)]

\* A step of one connection changes the view of that connection.
LEMMA ViewChanges ==
  ASSUME NEW c \in Conns, \A d \in Conns \ {c} : Kept(d)
  PROVE  /\ talkerNow' = [talkerNow EXCEPT ![c] = TalkerOf(c)']
         /\ leavingNow' = IF Leaving(c)' THEN leavingNow \cup {c} ELSE leavingNow \ {c}
         /\ heardNow' = [heardNow EXCEPT ![c] = HeardOf(c)']
BY DEF talkerNow, leavingNow, heardNow, Kept

\* The threads of other connections are not seen to change.
LEMMA OthersKept ==
  ASSUME IInv, NEW c \in Conns, Dial(c) \/ Moves(c) \/ Works(c)
  PROVE  \A d \in Conns \ {c} : Kept(d)
<1> SUFFICES ASSUME NEW d \in Conns, d # c PROVE Kept(d)
  OBVIOUS
<1>1. tpc'[d] = tpc[d] /\ nread'[d] = nread[d]
  BY OthersUnmoved DEF IInv
<1>2. (d \in Linked' <=> d \in Linked) /\ (d \in Linked => uname'[d] = uname[d])
  <2>1. CASE UNCHANGED <<senders, uname>>
    BY <2>1 DEF Linked
  <2>2. CASE addSender(c)
    BY <2>1, <2>2, AddedByThread
  <2>3. CASE DeleteUnlink(c)
    BY <2>3, Unlinked
  <2> QED
    BY <2>1, <2>2, <2>3, ListKept DEF Works
<1> QED
  BY <1>1, <1>2, ViewKept

\* No thread, no node, no message: nobody talks.
LEMMA RefineInit == Init => Mail!Init
<1> SUFFICES ASSUME Init PROVE Mail!Init
  OBVIOUS
<1>1. Linked = {}
  BY EmptySeq DEF Init, Linked
<1>2. \A c \in Conns : ~Talking(c)
  BY <1>1 DEF Talking
<1>3. \A c \in Conns : tpc[c] = "none"
  BY DEF Init
<1> QED
  BY <1>2, <1>3 DEF Init, Mail!Init

\* Forgetting one connection, or all, is flushMessageFrom of its node, or of NULL.
LEMMA RefineForget ==
  ASSUME TypeOK, NEW node \in Conns \cup {NoConn}, flushMessageFrom(node)
  PROVE  Mail!Forget(IF node = NoConn THEN Conns ELSE {node})
<1> DEFINE S == IF node = NoConn THEN Conns ELSE {node}
<1>1. PICK keep : keep = {i \in DOMAIN messages : node # NoConn /\ messages[i].sender # node}
  OBVIOUS
<1>2. keep = {i \in DOMAIN messages : messages[i].sender \notin S}
  BY <1>1, AreConns
<1>3. \E n \in 0 .. Len(messages) : \E at \in [1 .. n -> keep] :
        /\ \A j, k \in 1 .. n : j < k => at[j] < at[k]
        /\ \A i \in keep : \E j \in 1 .. n : at[j] = i
        /\ messages' = [j \in 1 .. n |-> messages[at[j]]]
  BY <1>1 DEF flushMessageFrom
<1> HIDE DEF S
<1>4. Mail!Forget(S)
  BY <1>2, <1>3 DEF Mail!Forget
<1> QED
  BY <1>4 DEF S

\* A linked node is a user who joins.
LEMMA RefineJoin ==
  ASSUME NEW c \in Conns, NEW n \in Names, NEW first \in {0, 1},
         \A d \in Conns \ {c} : Kept(d), messages' = messages,
         c \notin Linked, \A d \in Linked : uname[d] # n,
         TalkerOf(c)' = n, (Leaving(c)' <=> Leaving(c)), HeardOf(c)' = first
  PROVE  Mail!Next
<1>1. talkerNow[c] = NoName
  BY DEF talkerNow, TalkerOf, Talking
<1>2. \A d \in Conns : talkerNow[d] # n
  BY ConstantsOK DEF talkerNow, TalkerOf, Talking
<1>3. /\ talkerNow' = [talkerNow EXCEPT ![c] = n]
      /\ heardNow' = [heardNow EXCEPT ![c] = first]
  BY ViewChanges
<1>4. leavingNow' = leavingNow
  BY DEF leavingNow, Kept
<1>5. Mail!Join(c, n, first)
  BY <1>1, <1>2, <1>3, <1>4
     DEF Mail!Join, talkerNow, TalkerOf, leavingNow, Leaving, heardNow, HeardOf
<1> QED
  BY <1>5 DEF Mail!Next

\* A user whose node main links has been asked for nothing yet.
LEMMA RefineAddSender ==
  ASSUME RInv, RInv', AddSender
  PROVE  [Mail!Next]_(Mail!vars)
<1>0. TypeOK /\ NamesInHand /\ NodesOwned /\ FirstLine
  BY DEF RInv, IInv
<1>1. /\ messages' = messages /\ nread' = nread /\ mname \in Names
      /\ mconn \in Conns /\ tpc[mconn] = "dialled" /\ mconn \notin Linked
  BY <1>0, AddedByMain
     DEF RInv, AddSender, peerVars, Got, GotoMain, NamesInHand, NodesOwned
<1>2. CASE UNCHANGED <<senders, uname, tpc>>
  <2>1. Linked' = Linked
    BY <1>2 DEF Linked
  <2> QED
    BY <1>1, <1>2, <2>1, ViewKept, Stutter
<1>3. CASE ~UNCHANGED <<senders, uname, tpc>>
  <2>1. /\ tpc' = [tpc EXCEPT ![mconn] = "start"]
        /\ Linked' = Linked \cup {mconn}
        /\ uname'[mconn] = mname
        /\ \A d \in Linked : uname'[d] = uname[d] /\ uname[d] # mname
    BY <1>3, AddedByMain DEF RInv
  <2>2. \A d \in Conns \ {mconn} : tpc'[d] = tpc[d]
    BY <1>0, <2>1 DEF TypeOK
  <2>3. \A d \in Conns \ {mconn} : Kept(d)
    BY <1>1, <2>1, <2>2, ViewKept
  <2>4. tpc'[mconn] = "start" /\ nread'[mconn] = 0
    BY <1>0, <1>1, <2>1 DEF FirstLine, TypeOK
  <2>c. PICK c : c = mconn
    OBVIOUS
  <2>5. tpc[c] = "dialled" /\ tpc'[c] = "start" /\ c \in Linked' /\ uname'[c] = mname
    BY <1>1, <2>1, <2>4, <2>c
  <2>6. /\ TalkerOf(c)' = mname
        /\ (Leaving(c)' <=> Leaving(c))
        /\ HeardOf(c)' = 0
    BY <2>4, <2>5, <2>c DEF TalkerOf, Leaving, HeardOf, Talking
  <2> QED
    BY <1>1, <2>1, <2>3, <2>6, <2>c, RefineJoin
<1> QED
  BY <1>2, <1>3

\* A user who connects has said who it is.
LEMMA RefineaddSender ==
  ASSUME RInv, RInv', NEW c \in Conns, addSender(c)
  PROVE  [Mail!Next]_(Mail!vars)
<1>0. TypeOK /\ NamesInHand /\ NodesOwned /\ FirstLine /\ tpc[c] = "add"
  BY MovesTo DEF RInv, IInv
<1>1. messages' = messages /\ nread' = nread /\ arg[c] \in Names /\ nread[c] = 1
  BY <1>0 DEF addSender, peerVars, NamesInHand, FirstLine
<1>2. c \notin Linked
  BY <1>0 DEF NodesOwned
<1>3. \A d \in Conns \ {c} : Kept(d)
  BY OthersKept DEF Works, RInv
<1>4. CASE UNCHANGED <<senders, uname>>
  <2>1. Linked' = Linked
    BY <1>4 DEF Linked
  <2>2. Kept(c)
    <3>1. tpc'[c] = "clean"
      BY <1>2, <1>4, <2>1, AddedByThread DEF RInv
    <3> QED
      BY <1>0, <1>2, <2>1, <3>1 DEF Kept, TalkerOf, Leaving, HeardOf, Talking
  <2> QED
    BY <1>1, <1>3, <2>2, Stutter
<1>5. CASE ~UNCHANGED <<senders, uname>>
  <2>1. /\ tpc'[c] = "loop"
        /\ Linked' = Linked \cup {c}
        /\ uname'[c] = arg[c]
        /\ \A d \in Linked : uname[d] # arg[c]
    BY <1>5, AddedByThread DEF RInv
  <2>2. /\ TalkerOf(c)' = arg[c]
        /\ (Leaving(c)' <=> Leaving(c))
        /\ HeardOf(c)' = 1
    BY <1>0, <1>1, <2>1 DEF TalkerOf, Leaving, HeardOf, Talking
  <2> QED
    BY <1>1, <1>2, <1>3, <2>1, <2>2, RefineJoin
<1> QED
  BY <1>4, <1>5

\* A user in its session talks, and is not leaving.
LEMMA SessionTalks ==
  ASSUME IInv, NEW c \in Conns, tpc[c] \in {"loop", "store"}
  PROVE  Mail!Talks(c) /\ Talking(c) /\ ~Leaving(c)
<1>1. c \in Linked
  BY DEF IInv, NodesOwned
<1>2. uname[c] \in Names
  BY <1>1 DEF IInv, NamesInHand
<1>3. Talking(c)
  BY <1>1 DEF Talking
<1> QED
  BY <1>2, <1>3, ConstantsOK DEF Mail!Talks, Leaving

\* A line is heard when storeMessage returns, stored or dropped.
LEMMA RefineHear ==
  ASSUME RInv, RInv', NEW c \in Conns, storeMessage(c)
  PROVE  [Mail!Next]_(Mail!vars)
<1>0. TypeOK /\ IInv /\ tpc[c] = "store" /\ tpc'[c] = "loop"
  BY MovesTo DEF RInv, IInv
<1>1. Mail!Talks(c) /\ Talking(c) /\ ~Leaving(c)
  BY <1>0, SessionTalks
<1>2. UNCHANGED <<senders, uname>> /\ Linked' = Linked /\ nread' = nread
  BY ListKept DEF storeMessage, peerVars
<1>3. \A d \in Conns \ {c} : Kept(d)
  BY <1>0, OthersKept DEF Works
<1>4. TalkerOf(c)' = TalkerOf(c) /\ (Leaving(c)' <=> Leaving(c))
  BY <1>0, <1>1, <1>2 DEF TalkerOf, Leaving, Talking
<1>5. HeardOf(c) = nread[c] - 1 /\ HeardOf(c)' = nread[c] /\ nread[c] \in Int
  <2>1. nread[c] \in Int
    BY <1>0, ConstantsOK DEF TypeOK
  <2> QED
    BY <1>0, <1>1, <1>2, <2>1 DEF HeardOf, Talking
<1>6. HeardOf(c)' = HeardOf(c) + 1
  BY <1>5
<1>7. heardNow' = [heardNow EXCEPT ![c] = @ + 1]
  <2>1. heardNow' = [heardNow EXCEPT ![c] = HeardOf(c)']
    BY <1>3, ViewChanges
  <2>2. heardNow[c] = HeardOf(c)
    BY DEF heardNow
  <2> QED
    BY <1>6, <2>1, <2>2
<1>8. talkerNow' = talkerNow /\ leavingNow' = leavingNow
  BY <1>3, <1>4 DEF talkerNow, leavingNow, Kept
<1>9. messages' = IF Len(messages) < MAX_MESSAGE_COUNT
                  THEN Append(messages, [sender |-> c, line |-> heardNow[c] + 1])
                  ELSE messages
  <2>1. Len(messages) \in Nat /\ MAX_MESSAGE_COUNT \in Nat
    BY <1>0, LenProperties, ConstantsOK DEF TypeOK
  <2>2. heardNow[c] + 1 = nread[c]
    BY <1>5 DEF heardNow
  <2> QED
    BY <2>1, <2>2 DEF storeMessage
<1>10. Mail!Hear(c)
  BY <1>1, <1>7, <1>8, <1>9
     DEF Mail!Hear, talkerNow, TalkerOf, leavingNow, Leaving, heardNow, HeardOf
<1> QED
  BY <1>10 DEF Mail!Next

\* A user leaves with a line that is no message, or by hanging up, or is made to.
LEMMA RefineBye ==
  ASSUME RInv, RInv', NEW c \in Conns, ReadMessage(c) \/ EndOfFile(c) \/ Cancelled(c),
         tpc[c] = "loop", tpc'[c] = "clean"
  PROVE  [Mail!Next]_(Mail!vars)
<1>0. TypeOK /\ IInv /\ Moves(c)
  BY DEF RInv, IInv, Moves
<1>1. Mail!Talks(c) /\ Talking(c) /\ ~Leaving(c)
  BY <1>0, SessionTalks
<1>2. UNCHANGED <<senders, uname, messages>> /\ Linked' = Linked
  BY <1>0, MovesKeep, ListKept
<1>3. \A d \in Conns \ {c} : Kept(d)
  BY <1>0, OthersKept
<1>4. Talking(c)' /\ TalkerOf(c)' = TalkerOf(c) /\ Leaving(c)'
  BY <1>1, <1>2 DEF TalkerOf, Leaving, Talking
<1>5. nread'[c] = nread[c] + 1 \/ nread'[c] = nread[c]
  BY <1>0, MovesTo, CountChanges
<1>6. HeardOf(c)' = HeardOf(c) + 1 \/ HeardOf(c)' = HeardOf(c)
  BY <1>1, <1>4, <1>5 DEF HeardOf
<1>7. talkerNow' = talkerNow
  BY <1>3, <1>4 DEF talkerNow, Kept
<1>8. leavingNow' = leavingNow \cup {c}
  BY <1>3, <1>4, ViewChanges
<1>9. heardNow' = [heardNow EXCEPT ![c] = @ + 1] \/ heardNow' = heardNow
  <2>1. heardNow' = [heardNow EXCEPT ![c] = HeardOf(c)']
    BY <1>3, ViewChanges
  <2>2. heardNow[c] = HeardOf(c)
    BY DEF heardNow
  <2>3. [heardNow EXCEPT ![c] = heardNow[c]] = heardNow
    BY DEF heardNow
  <2> QED
    BY <1>6, <2>1, <2>2, <2>3
<1>10. Mail!Bye(c)
  BY <1>1, <1>2, <1>7, <1>8, <1>9
     DEF Mail!Bye, talkerNow, TalkerOf, leavingNow, Leaving, heardNow, HeardOf
<1> QED
  BY <1>10 DEF Mail!Next

\* With its messages the user is gone, though its node is still linked.
LEMMA RefineLeave ==
  ASSUME RInv, RInv', NEW c \in Conns, DeleteFlush(c)
  PROVE  [Mail!Next]_(Mail!vars)
<1>0. TypeOK /\ IInv /\ tpc[c] = "flush" /\ tpc'[c] = "unlink" /\ c # NoConn
  BY MovesTo, ConstantsOK DEF RInv, IInv
<1>1. \A d \in Conns \ {c} : Kept(d)
  BY <1>0, OthersKept DEF Works
<1>2. TalkerOf(c)' = NoName /\ ~Leaving(c)' /\ HeardOf(c)' = 0 /\ Leaving(c)
  BY <1>0 DEF TalkerOf, Leaving, HeardOf, Talking
<1>3. /\ talkerNow' = [talkerNow EXCEPT ![c] = NoName]
      /\ leavingNow' = leavingNow \ {c}
      /\ heardNow' = [heardNow EXCEPT ![c] = 0]
  BY <1>1, <1>2, ViewChanges
<1>4. c \in leavingNow
  BY <1>2 DEF leavingNow
<1>5. Mail!Forget({c})
  BY <1>0, RefineForget DEF DeleteFlush
<1>6. Mail!Leave(c)
  BY <1>3, <1>4, <1>5
     DEF Mail!Leave, talkerNow, TalkerOf, leavingNow, Leaving, heardNow, HeardOf
<1> QED
  BY <1>6 DEF Mail!Next

\* A show of a user, or of all.
LEMMA RefineShow ==
  ASSUME RInv, Flush
  PROVE  [Mail!Next]_(Mail!vars)
<1>0. TypeOK /\ mnode \in Conns \cup {NoConn} /\ flushMessageFrom(mnode)
  BY DEF RInv, IInv, TypeOK, Flush
<1>1. UNCHANGED <<senders, uname, tpc, nread>> /\ Linked' = Linked
  BY ListKept DEF Flush, peerVars
<1>2. \A c \in Conns : Kept(c)
  BY <1>1, ViewKept
<1>3. talkerNow' = talkerNow /\ leavingNow' = leavingNow /\ heardNow' = heardNow
  BY <1>2 DEF talkerNow, leavingNow, heardNow, Kept
<1>4. ASSUME NEW S, Mail!Forget(S) PROVE Mail!Show(S)
  BY <1>3, <1>4
     DEF Mail!Show, talkerNow, TalkerOf, leavingNow, Leaving, heardNow, HeardOf
<1>5. Mail!Show(IF mnode = NoConn THEN Conns ELSE {mnode})
  BY <1>0, <1>4, RefineForget
<1>6. CASE mnode = NoConn
  BY <1>5, <1>6 DEF Mail!Next
<1>7. CASE mnode \in Conns
  <2>1. Mail!Show({mnode})
    BY <1>5, <1>7, ConstantsOK
  <2> QED
    BY <1>7, <2>1 DEF Mail!Next
<1> QED
  BY <1>0, <1>6, <1>7

\* The other moves of a thread are its own business.
LEMMA RefineMove ==
  ASSUME RInv, NEW c \in Conns, Dial(c) \/ Moves(c) \/ DeleteUnlink(c),
         ~(tpc[c] = "loop" /\ tpc'[c] = "clean")
  PROVE  UNCHANGED Mail!vars
<1>0. TypeOK /\ IInv /\ NodesOwned /\ nread[c] \in Int
  BY ConstantsOK DEF RInv, IInv, TypeOK
<1>1. messages' = messages
  BY ArrayKept
<1>2. \A d \in Conns \ {c} : Kept(d)
  BY <1>0, OthersKept DEF Works
<1>3. ASSUME ~Talking(c), ~Talking(c)', tpc[c] \notin {"store", "delete", "flush"},
             tpc'[c] \notin {"store", "delete", "flush"}
      PROVE  Kept(c)
  <2>1. ~Leaving(c) /\ ~Leaving(c)'
    BY <1>3 DEF Leaving
  <2>2. TalkerOf(c)' = TalkerOf(c) /\ HeardOf(c)' = HeardOf(c)
    BY <1>3 DEF TalkerOf, HeardOf
  <2> QED
    BY <2>1, <2>2 DEF Kept
<1>4. CASE DeleteUnlink(c)
  <2>1. tpc[c] = "unlink" /\ tpc'[c] = "close" /\ c \notin Linked'
    BY <1>0, <1>4, MovesTo, Unlinked
  <2> QED
    BY <1>1, <1>2, <1>3, <2>1, Stutter DEF Talking
<1>5. CASE Dial(c) \/ Moves(c)
  <2>1. UNCHANGED <<senders, uname>> /\ Linked' = Linked
    BY <1>5, ListKept
  <2>2. CASE c \notin Linked
    <3>1. tpc[c] \notin {"loop", "store", "delete", "flush"}
      BY <1>0, <2>2 DEF NodesOwned
    <3>2. tpc'[c] \notin {"store", "delete", "flush"}
      BY <1>0, <1>5, <2>2, <3>1, MovesTo DEF Moves
    <3> QED
      BY <1>1, <1>2, <1>3, <2>1, <2>2, <3>1, <3>2, Stutter DEF Talking
  <2>3. CASE c \in Linked
    <3>1. /\ Register(c) \/ ReadMessage(c) \/ Unregister(c) \/ DeleteLock(c)
          /\ tpc[c] # "unlink" /\ tpc'[c] # "unlink"
      BY <1>0, <1>5, <2>3, MovesTo DEF NodesOwned, Moves
    <3>2. Talking(c) /\ Talking(c)' /\ TalkerOf(c)' = TalkerOf(c)
      BY <2>1, <2>3, <3>1 DEF Talking, TalkerOf
    <3>3. (Leaving(c)' <=> Leaving(c))
      BY <1>0, <2>3, <3>1, <3>2, MovesTo DEF Leaving
    <3>4. CASE ReadMessage(c)
      <4>1. tpc[c] = "loop" /\ tpc'[c] = "store" /\ nread'[c] = nread[c] + 1
        BY <1>0, <3>4, MovesTo, CountChanges DEF Moves
      <4>2. HeardOf(c)' = HeardOf(c)
        BY <1>0, <3>2, <4>1 DEF HeardOf
      <4> QED
        BY <1>1, <1>2, <3>2, <3>3, <4>2, Stutter DEF Kept
    <3>5. CASE ~ReadMessage(c)
      <4>1. tpc[c] # "store" /\ tpc'[c] # "store" /\ nread'[c] = nread[c]
        BY <1>0, <2>3, <3>1, <3>5, MovesTo, CountChanges DEF Moves
      <4>2. HeardOf(c)' = HeardOf(c)
        BY <3>2, <4>1 DEF HeardOf
      <4> QED
        BY <1>1, <1>2, <3>2, <3>3, <4>2, Stutter DEF Kept
    <3> QED
      BY <3>4, <3>5
  <2> QED
    BY <2>2, <2>3
<1> QED
  BY <1>4, <1>5

\* Every step is one of Mailbox or changes nothing there.
LEMMA RefineNext == RInv /\ RInv' /\ [Next]_vars => [Mail!Next]_(Mail!vars)
<1> SUFFICES ASSUME RInv, RInv', [Next]_vars PROVE [Mail!Next]_(Mail!vars)
  OBVIOUS
<1>0. TypeOK
  BY DEF RInv, IInv
<1>1. CASE Quiet \/ MainOnly
  <2>1. UNCHANGED <<senders, uname, tpc, nread, messages>> /\ Linked' = Linked
    BY <1>1, ListKept DEF Quiet, MainOnly
  <2> QED
    BY <2>1, ViewKept, Stutter
<1>2. CASE AddSender \/ Flush
  BY <1>2, RefineAddSender, RefineShow
<1>3. ASSUME NEW c \in Conns, Works(c), ~DeleteUnlink(c) PROVE [Mail!Next]_(Mail!vars)
  BY <1>3, RefineaddSender, RefineHear, RefineLeave DEF Works
<1>4. ASSUME NEW c \in Conns, Dial(c) \/ Moves(c) \/ DeleteUnlink(c)
      PROVE  [Mail!Next]_(Mail!vars)
  <2>1. CASE tpc[c] = "loop" /\ tpc'[c] = "clean"
    <3>1. ReadMessage(c) \/ EndOfFile(c) \/ Cancelled(c)
      BY <1>0, <1>4, <2>1, MovesTo DEF Moves
    <3> QED
      BY <2>1, <3>1, RefineBye
  <2>2. CASE ~(tpc[c] = "loop" /\ tpc'[c] = "clean")
    BY <1>4, <2>2, RefineMove
  <2> QED
    BY <2>1, <2>2
<1> QED
  BY Steps, <1>1, <1>2, <1>3, <1>4

\* However the threads of the message server interleave, it is a mailbox.
THEOREM MailboxImplemented == Spec => ImplementsMailbox
<1>1. Init => Mail!Init
  BY RefineInit
<1>2. RInv /\ RInv' /\ [Next]_vars => [Mail!Next]_(Mail!vars)
  BY RefineNext
<1>3. Spec => []RInv
  BY RInductive
<1> QED
  BY <1>1, <1>2, <1>3, PTL DEF Spec, ImplementsMailbox, Mail!Spec
=============================================================================
