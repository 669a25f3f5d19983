---------------------------- MODULE PeerLinks_proofs ----------------------------
(***************************************************************************)
(* Theorems about PeerLinks, for any peers, however many connections they  *)
(* make, messages they send and restarts they go through.                  *)
(***************************************************************************)
EXTENDS PeerLinks, SequenceTheorems, TLAPS

\* Both ends of a connection get their owners when it is made, and nothing
\* happens at an end before.
EndsMade ==
  /\ \A e \in Ends : e \notin Made => owner[e] = NoPeer /\ thread[e] = "none" /\ wire[e] = <<>>
  /\ \A e \in Made : owner[e] \in Peers

\* A node belongs to an end of the peer, and no two of them to the same user.
NodesOwned ==
  /\ \A p \in Peers : \A e \in senders[p] : owner[e] = p
  /\ \A p \in Peers : \A e, f \in senders[p] : Name(e) = Name(f) => e = f

\* A thread that reads messages has its node.
ReadersLinked ==
  \A e \in Ends : thread[e] \in {"loop", "delete"} => owner[e] \in Peers /\ e \in senders[owner[e]]

\* The connection main is about to add is one it dialled to the user it is to write
\* to; and a command has said something.
Dialled ==
  \A p \in Peers :
    /\ mpc[p] = "add" =>
         /\ mnode[p] \in Made /\ mnode[p].side = "dialled"
         /\ owner[mnode[p]] = p /\ Name(mnode[p]) = mwho[p]
    /\ mpc[p] # "idle" => said[p] >= 1

\* The line is one that p has written, not the one its command is about to write.
Written(p, line) == line <= said[p] /\ (mpc[p] # "idle" => line < said[p])

\* The lines on the wire are in the order they were said in; a connect line is for
\* a thread that has not read one yet.
WireInOrder ==
  \A e \in Ends :
    /\ \A i, j \in DOMAIN wire[e] : i < j => wire[e][i] < wire[e][j]
    /\ \A i \in DOMAIN wire[e] : Written(owner[e], wire[e][i])
    /\ \A i \in DOMAIN wire[e] :
         wire[e][i] = 0 => e.side = "dialled" /\ thread[Mate(e)] \in {"none", "first", "done"}

\* A message came over a node of the peer, from the one at its other end, after
\* those stored before it and before those still on the wire.
MessagesInOrder ==
  \A p \in Peers : \A i \in DOMAIN messages[p] :
    LET m == messages[p][i] IN
    /\ m.over \in senders[p] /\ m.from = Name(m.over)
    /\ Written(m.from, m.line)
    /\ \A k \in DOMAIN wire[Mate(m.over)] : m.line < wire[Mate(m.over)][k]
    /\ \A j \in DOMAIN messages[p] :
         i < j /\ messages[p][j].over = m.over => m.line < messages[p][j].line

\* The inductive invariant.  OneVoice is about what was received; that it came in
\* order needs what is on its way and what was said (WireInOrder, Written), that it
\* came over one node needs who has which connection in hand (Dialled).
IInv ==
  /\ TypeOK
  /\ EndsMade
  /\ NodesOwned
  /\ ReadersLinked
  /\ Dialled
  /\ WireInOrder
  /\ MessagesInOrder
--------------------------------------------------------------------------------
\* Lemmas about connections and sequences.

\* A connection has two ends.
LEMMA MateProperties ==
  ASSUME NEW e \in Ends
  PROVE  /\ Mate(e) \in Ends /\ Mate(Mate(e)) = e /\ Mate(e) # e
         /\ e \in Made <=> Mate(e) \in Made
         /\ e.side = "dialled" => Mate(e).side # "dialled"
<1>1. /\ e.link \in Links /\ e.side \in {"dialled", "accepted"}
      /\ e = [link |-> e.link, side |-> e.side]
  BY DEF Ends
<1>2. Mate(e) = [link |-> e.link, side |-> IF e.side = "dialled" THEN "accepted" ELSE "dialled"]
  BY DEF Mate, Ends
<1>3. Mate(e) \in Ends
  BY <1>1, <1>2 DEF Ends
<1>4. /\ Mate(e).link = e.link
      /\ Mate(e).side = IF e.side = "dialled" THEN "accepted" ELSE "dialled"
  BY <1>2
<1>5. Mate(Mate(e)) =
        [link |-> Mate(e).link, side |-> IF Mate(e).side = "dialled" THEN "accepted" ELSE "dialled"]
  BY <1>3 DEF Mate, Ends
<1>6. Mate(Mate(e)) = e
  BY <1>1, <1>4, <1>5
<1>7. e \in Made <=> Mate(e) \in Made
  BY <1>3, <1>4 DEF Made
<1> QED
  BY <1>1, <1>3, <1>4, <1>6, <1>7

\* What main finds out about its senders before it dials.
LEMMA LookupProperties ==
  ASSUME TypeOK, NEW p \in Peers, NEW q
  PROVE  /\ lookupUser(p, q) \in Ends \cup {NoEnd}
         /\ lookupUser(p, q) = NoEnd => \A e \in senders[p] : Name(e) # q
<1> DEFINE hits == {e \in senders[p] : Name(e) = q}
<1>1. senders[p] \subseteq Ends
  BY DEF TypeOK
<1>2. hits \subseteq Ends /\ NoEnd \notin hits
  BY <1>1, NoEndIsNoEnd
<1>3. ASSUME hits = {}
      PROVE  lookupUser(p, q) = NoEnd /\ \A e \in senders[p] : Name(e) # q
  BY <1>3 DEF lookupUser
<1>4. ASSUME hits # {}
      PROVE  lookupUser(p, q) \in Ends /\ lookupUser(p, q) # NoEnd
  <2>1. PICK x : x = CHOOSE e \in hits : TRUE
    OBVIOUS
  <2>2. x \in hits
    BY <1>4, <2>1
  <2>3. lookupUser(p, q) = x
    BY <1>4, <2>1 DEF lookupUser
  <2> QED
    BY <1>2, <2>2, <2>3
<1> HIDE DEF hits
<1> QED
  BY <1>3, <1>4

Message == [from : Peers, over : Ends, line : Nat \ {0}]

\* What is in the array are messages.
LEMMA MessageFields ==
  ASSUME TypeOK, NEW p \in Peers
  PROVE  /\ messages[p] \in Seq(Message)
         /\ \A i \in DOMAIN messages[p] :
              /\ messages[p][i] \in Message
              /\ messages[p][i].from \in Peers
              /\ messages[p][i].over \in Ends
              /\ messages[p][i].line \in Nat
<1>1. messages[p] \in Seq(Message)
  BY DEF TypeOK, Message
<1>2. \A i \in DOMAIN messages[p] : messages[p][i] \in Message
  BY <1>1
<1>3. \A m \in Message : m.from \in Peers /\ m.over \in Ends /\ m.line \in Nat
  BY DEF Message
<1>4. ASSUME NEW i \in DOMAIN messages[p]
      PROVE  /\ messages[p][i] \in Message
             /\ messages[p][i].from \in Peers
             /\ messages[p][i].over \in Ends
             /\ messages[p][i].line \in Nat
  <2>1. messages[p][i] \in Message
    BY <1>2
  <2> QED
    BY <1>3, <2>1
<1> QED
  BY <1>1, <1>4

\* The last element of a sequence it was appended to, and the others.
LEMMA AppendElements ==
  ASSUME NEW S, NEW s \in Seq(S), NEW x \in S, NEW r, r = Append(s, x)
  PROVE  /\ r \in Seq(S) /\ Len(r) = Len(s) + 1
         /\ \A i \in DOMAIN r : (i \in DOMAIN s /\ r[i] = s[i]) \/ (i = Len(s) + 1 /\ r[i] = x)
         /\ \A i \in DOMAIN s : i < Len(s) + 1
OBVIOUS

\* What is left of a sequence without its first element.
LEMMA TailElements ==
  ASSUME NEW S, NEW s \in Seq(S), s # <<>>, NEW r, r = Tail(s)
  PROVE  /\ r \in Seq(S) /\ Len(r) = Len(s) - 1
         /\ \A i \in DOMAIN r : i + 1 \in DOMAIN s /\ r[i] = s[i + 1]
         /\ 1 \in DOMAIN s /\ Head(s) = s[1] /\ Head(s) \in S
         /\ \A i \in DOMAIN r : i \in Nat /\ 1 < i + 1
OBVIOUS

--------------------------------------------------------------------------------
\* Nothing is connected at the start.
LEMMA InitIInv == Init => IInv
<1> SUFFICES ASSUME Init PROVE IInv
  OBVIOUS
<1>1. Made = {}
  BY LinkConstants DEF Init, Made, Ends, Links
<1>2. \A p \in Peers : MaxStarts[p] \in Nat /\ MaxSaid[p] \in Nat
  BY LinkConstants
<1>3. TypeOK
  BY <1>2, LinkConstants DEF Init, TypeOK
<1> QED
  BY <1>1, <1>3 DEF Init, IInv, EndsMade, NodesOwned, ReadersLinked, Dialled, WireInOrder, MessagesInOrder

\* What the steps have in common that neither make connections nor write, read or
\* forget lines: no thread starts to read, no command begins, and main has no new
\* connection in hand.
Calm ==
  /\ UNCHANGED <<made, owner, senders, wire, said, messages>>
  /\ \A p \in Peers :
       /\ mpc'[p] # "idle" => mpc[p] # "idle"
       /\ mpc'[p] = "add" => mpc[p] = "add" /\ mnode'[p] = mnode[p] /\ mwho'[p] = mwho[p]
  /\ \A e \in Ends :
       /\ thread'[e] \in {"loop", "delete"} => thread[e] \in {"loop", "delete"}
       /\ thread[e] \in {"none", "first", "done"} => thread'[e] \in {"none", "first", "done"}
       /\ e \notin Made => thread'[e] = thread[e]

\* The invariants without the types.
Rest == EndsMade /\ NodesOwned /\ ReadersLinked /\ Dialled /\ WireInOrder /\ MessagesInOrder

\* Such steps disturb nothing.
LEMMA CalmStep ==
  ASSUME IInv, Calm
  PROVE  Rest'
<1>1. \A q, n : q \in Peers /\ Written(q, n) => Written(q, n)'
  BY DEF Written, Calm
<1>2. \A e : Name(e)' = Name(e)
  BY DEF Name, Calm
<1>3. \A e \in Ends : Mate(e) \in Ends
  BY MateProperties
<1>4. EndsMade'
  BY DEF IInv, EndsMade, Calm, Made
<1>5. NodesOwned'
  BY <1>2 DEF IInv, NodesOwned, Calm
<1>6. ReadersLinked'
  BY DEF IInv, ReadersLinked, Calm
<1>7. Dialled'
  BY <1>2 DEF IInv, Dialled, Calm, Made
<1>8. WireInOrder'
  <2> SUFFICES ASSUME NEW e \in Ends
               PROVE  /\ \A i, j \in DOMAIN wire[e] : i < j => wire[e][i] < wire[e][j]
                      /\ \A i \in DOMAIN wire[e] : Written(owner[e], wire[e][i])'
                      /\ \A i \in DOMAIN wire[e] :
                           wire[e][i] = 0 => e.side = "dialled" /\ thread'[Mate(e)] \in {"none", "first", "done"}
    BY DEF WireInOrder, Calm
  <2>1. wire[e] # <<>> => owner[e] \in Peers
    BY DEF IInv, EndsMade
  <2> QED
    BY <1>1, <1>3, <2>1 DEF IInv, WireInOrder, Calm
<1>9. MessagesInOrder'
  <2>1. \A p \in Peers : \A i \in DOMAIN messages[p] : messages[p][i].from \in Peers
    BY MessageFields DEF IInv
  <2> QED
    BY <1>1, <1>2, <2>1 DEF IInv, MessagesInOrder, Calm
<1> QED
  BY <1>4, <1>5, <1>6, <1>7, <1>8, <1>9 DEF Rest

\* The commands that do not reach a connection.
LEMMA CalmMain ==
  ASSUME IInv, NEW p \in Peers,
         \/ Find(p) \/ SayLock(p) \/ Restart(p)
         \/ \E from \in {"find", "add", "say"} : Over(p, from) /\ UNCHANGED wire
  PROVE  Calm
<1>1. /\ mpc \in [Peers -> {"idle", "find", "dial", "add", "sayLock", "say"}]
      /\ mnode \in [Peers -> Ends \cup {NoEnd}] /\ mwho \in [Peers -> Peers \cup {NoPeer}]
  BY DEF IInv, TypeOK
<1>2. CASE Find(p)
  BY <1>1, <1>2 DEF Find, Over, GotoMain, Calm, peerVars
<1>3. CASE SayLock(p)
  BY <1>1, <1>3 DEF SayLock, GotoMain, Calm, peerVars
<1>4. CASE Restart(p)
  BY <1>4 DEF Restart, Calm, mainVars
<1>5. CASE \E from \in {"find", "add", "say"} : Over(p, from) /\ UNCHANGED wire
  BY <1>1, <1>5 DEF Over, GotoMain, Calm, peerVars
<1> QED
  BY <1>2, <1>3, <1>4, <1>5

\* A step of a thread.
LEMMA GotoProperties ==
  ASSUME IInv, NEW e \in Ends, NEW from, NEW to, Goto(e, from, to)
  PROVE  /\ UNCHANGED <<made, owner, said, mpc, mnode, mwho, up, starts>>
         /\ thread[e] = from /\ thread'[e] = to
         /\ \A f \in Ends : f # e => thread'[f] = thread[f]
BY DEF Goto, IInv, TypeOK, peerVars, mainVars

\* The order of the messages, where none is added and none is shown.
LEMMA InOrderIf ==
  ASSUME messages' = messages,
         \A x \in Peers : \A i \in DOMAIN messages[x] : \A m : m = messages[x][i] =>
           /\ m.over \in senders'[x] /\ m.from = Name(m.over)'
           /\ Written(m.from, m.line)'
           /\ \A k \in DOMAIN wire'[Mate(m.over)] : m.line < wire'[Mate(m.over)][k]
           /\ \A j \in DOMAIN messages[x] :
                i < j /\ messages[x][j].over = m.over => m.line < messages[x][j].line
  PROVE  MessagesInOrder'
<1> SUFFICES ASSUME NEW x \in Peers, NEW i \in DOMAIN messages'[x], NEW m, m = messages'[x][i]
             PROVE  /\ m.over \in senders'[x] /\ m.from = Name(m.over)'
                    /\ Written(m.from, m.line)'
                    /\ \A k \in DOMAIN wire'[Mate(m.over)] : m.line < wire'[Mate(m.over)][k]
                    /\ \A j \in DOMAIN messages'[x] :
                         i < j /\ messages'[x][j].over = m.over => m.line < messages'[x][j].line
  BY DEF MessagesInOrder
<1> QED
  OBVIOUS

\* The steps of the threads that only move.
LEMMA CalmThread ==
  ASSUME IInv, NEW e \in Ends,
         \/ Accept(e) \/ EndOfFile(e) \/ CloseThread(e)
         \/ addSender(e) /\ lookupUser(owner[e], Name(e)) # NoEnd
  PROVE  Calm
<1>1. PICK from, to :
        /\ Goto(e, from, to)
        /\ UNCHANGED <<senders, wire, messages>>
        /\ \/ from = "none" /\ to = "first" /\ e \in Made
           \/ from = "loop" /\ to = "delete"
           \/ from = "close" /\ to = "done"
           \/ from = "add" /\ to = "close"
  <2>1. CASE Accept(e)
    BY <2>1 DEF Accept
  <2>2. CASE EndOfFile(e)
    BY <2>2 DEF EndOfFile
  <2>3. CASE CloseThread(e)
    BY <2>3 DEF CloseThread
  <2>4. CASE addSender(e) /\ lookupUser(owner[e], Name(e)) # NoEnd
    BY <2>4 DEF addSender
  <2> QED
    BY <2>1, <2>2, <2>3, <2>4
<1>2. /\ UNCHANGED <<made, owner, said, mpc, mnode, mwho>>
      /\ thread[e] = from /\ thread'[e] = to
      /\ \A f \in Ends : f # e => thread'[f] = thread[f]
  BY <1>1, GotoProperties
<1>3. e \notin Made => thread[e] = "none"
  BY DEF IInv, EndsMade
<1> QED
  BY <1>1, <1>2, <1>3 DEF Calm

\* The user says one thing more.
LEMMA CommandStep ==
  ASSUME IInv, NEW p \in Peers, NEW q \in Peers, Command(p, q)
  PROVE  Rest'
<1>1. /\ UNCHANGED <<made, owner, senders, wire, messages, thread>>
      /\ mpc[p] = "idle" /\ mpc'[p] \in {"find", "sayLock"}
      /\ \A x \in Peers \ {p} : mpc'[x] = mpc[x] /\ mnode'[x] = mnode[x] /\ mwho'[x] = mwho[x]
      /\ said[p] \in Nat /\ said'[p] = said[p] + 1
      /\ \A x \in Peers \ {p} : said'[x] = said[x]
  BY DEF Command, GotoMain, IInv, TypeOK, peerVars
<1>2. \A x \in Peers, n \in Nat : Written(x, n) => Written(x, n)'
  BY <1>1 DEF Written
<1>3. \A e : Name(e)' = Name(e)
  BY <1>1 DEF Name
<1>4. EndsMade' /\ ReadersLinked'
  BY <1>1 DEF IInv, EndsMade, ReadersLinked, Made
<1>5. NodesOwned'
  BY <1>1, <1>3 DEF IInv, NodesOwned
<1>6. Dialled'
  BY <1>1, <1>3 DEF IInv, Dialled, Made
<1>7. WireInOrder'
  <2>1. ASSUME NEW e \in Ends, NEW i \in DOMAIN wire[e] PROVE Written(owner[e], wire[e][i])'
    <3>1. owner[e] \in Peers /\ wire[e][i] \in Nat
      BY DEF IInv, EndsMade, TypeOK
    <3>2. Written(owner[e], wire[e][i])
      BY DEF IInv, WireInOrder
    <3> QED
      BY <1>1, <1>2, <3>1, <3>2
  <2> QED
    BY <1>1, <2>1 DEF IInv, WireInOrder
<1>8. MessagesInOrder'
  <2>1. ASSUME NEW x \in Peers, NEW i \in DOMAIN messages[x]
        PROVE  Written(messages[x][i].from, messages[x][i].line)'
    <3>1. messages[x][i].from \in Peers /\ messages[x][i].line \in Nat
      BY MessageFields DEF IInv
    <3>2. Written(messages[x][i].from, messages[x][i].line)
      BY DEF IInv, MessagesInOrder
    <3> QED
      BY <1>1, <1>2, <3>1, <3>2
  <2> QED
    BY <1>1, <1>3, <2>1 DEF IInv, MessagesInOrder
<1> QED
  BY <1>4, <1>5, <1>6, <1>7, <1>8 DEF Rest

\* A connection is made, and its connect line written.
LEMMA DialStep ==
  ASSUME IInv, NEW p \in Peers, Dial(p)
  PROVE  Rest'
<1>1. PICK e : e = [link |-> made + 1, side |-> "dialled"]
  OBVIOUS
<1>2. PICK f : f = Mate(e)
  OBVIOUS
<1>3. e \in Ends /\ f \in Ends /\ e # f /\ Mate(f) = e
  <2>1. made + 1 \in Links
    BY LinkConstants DEF Dial, IInv, TypeOK, Links
  <2>2. e \in Ends
    BY <1>1, <2>1 DEF Ends
  <2> QED
    BY <1>2, <2>2, MateProperties
<1>4. /\ UNCHANGED <<senders, thread, said, messages, mwho>>
      /\ mpc[p] = "dial" /\ mpc'[p] = "add" /\ mnode'[p] = e
      /\ \A x \in Peers \ {p} : mpc'[x] = mpc[x] /\ mnode'[x] = mnode[x]
      /\ owner'[e] = p /\ owner'[f] = mwho[p] /\ mwho[p] \in Peers
      /\ \A x \in Ends \ {e, f} : owner'[x] = owner[x]
      /\ wire'[e] = <<0>> /\ \A x \in Ends \ {e} : wire'[x] = wire[x]
  <2>1. /\ owner' = [owner EXCEPT ![e] = p, ![f] = mwho[p]]
        /\ wire' = [wire EXCEPT ![e] = <<0>>]
        /\ mnode' = [mnode EXCEPT ![p] = e]
    BY <1>1, <1>2 DEF Dial
  <2>2. /\ owner \in [Ends -> Peers \cup {NoPeer}] /\ wire \in [Ends -> Seq(Nat)]
        /\ mnode \in [Peers -> Ends \cup {NoEnd}]
        /\ mpc \in [Peers -> {"idle", "find", "dial", "add", "sayLock", "say"}]
        /\ up \subseteq Peers
    BY DEF IInv, TypeOK
  <2>3. mpc[p] = "dial" /\ mpc' = [mpc EXCEPT ![p] = "add"] /\ mwho[p] \in up
    BY DEF Dial, GotoMain
  <2> QED
    BY <1>3, <2>1, <2>2, <2>3 DEF Dial
<1>5. e \notin Made /\ f \notin Made /\ Made' = Made \cup {e, f}
  <2>1. made \in Nat /\ made' = made + 1
    BY LinkConstants DEF Dial, IInv, TypeOK
  <2>2. e.link = made + 1 /\ f.link = made + 1
    BY <1>1, <1>2, <1>3 DEF Mate, Ends
  <2>3. ASSUME NEW x \in Ends, x.link = made + 1 PROVE x = e \/ x = f
    <3>1. x = [link |-> x.link, side |-> x.side] /\ x.side \in {"dialled", "accepted"}
      BY DEF Ends
    <3>2. f = [link |-> made + 1, side |-> "accepted"]
      BY <1>1, <1>2, <1>3 DEF Mate
    <3> QED
      BY <1>1, <2>3, <3>1, <3>2
  <2>4. \A x \in Ends : x.link \in Nat
    BY DEF Ends, Links
  <2> QED
    BY <1>3, <2>1, <2>2, <2>3, <2>4 DEF Made
<1>6. ASSUME NEW x \in Made PROVE /\ x \in Ends /\ x \notin {e, f} /\ Mate(x) \notin {e, f}
                                  /\ owner'[x] = owner[x] /\ Name(x)' = Name(x)
  <2>1. x \in Ends /\ Mate(x) \in Ends /\ Mate(x) \in Made
    BY MateProperties DEF Made
  <2> QED
    BY <1>4, <1>5, <2>1 DEF Name
<1>7. \A x \in Peers : \A y \in senders[x] : y \in Made
  <2>1. \A x \in Peers : senders[x] \subseteq Ends /\ x # NoPeer
    BY LinkConstants DEF IInv, TypeOK
  <2> QED
    BY <2>1 DEF IInv, NodesOwned, EndsMade
<1>8. EndsMade'
  BY <1>3, <1>4, <1>5, <1>6 DEF IInv, EndsMade
<1>9. NodesOwned'
  BY <1>4, <1>6, <1>7 DEF IInv, NodesOwned
<1>10. ReadersLinked'
  BY <1>3, <1>4, <1>5, <1>6 DEF IInv, ReadersLinked, EndsMade
<1>11. Dialled'
  <2>1. Name(e)' = mwho[p] /\ e.side = "dialled"
    BY <1>1, <1>2, <1>4 DEF Name
  <2> QED
    BY <1>3, <1>4, <1>5, <1>6, <2>1 DEF IInv, Dialled
<1>12. \A q \in Peers : \A n : Written(q, n) => Written(q, n)'
  BY <1>4 DEF Written
<1>13. WireInOrder'
  <2>1. ASSUME NEW x \in Ends \ {e}
        PROVE  /\ \A i, j \in DOMAIN wire'[x] : i < j => wire'[x][i] < wire'[x][j]
               /\ \A i \in DOMAIN wire'[x] : Written(owner[x], wire[x][i])'
               /\ \A i \in DOMAIN wire'[x] :
                    wire'[x][i] = 0 => x.side = "dialled" /\ thread'[Mate(x)] \in {"none", "first", "done"}
    <3>1. wire'[x] = wire[x]
      BY <1>4
    <3>2. CASE x \in Made
      BY <1>4, <1>6, <1>12, <3>1, <3>2 DEF IInv, EndsMade, WireInOrder
    <3>3. CASE x \notin Made
      BY <3>1, <3>3 DEF IInv, EndsMade
    <3> QED
      BY <3>2, <3>3
  <2>2. \A i \in DOMAIN wire'[e] : i = 1 /\ wire'[e][i] = 0
    BY <1>4
  <2>3. e.side = "dialled" /\ thread'[Mate(e)] = "none"
    BY <1>1, <1>2, <1>3, <1>4, <1>5 DEF IInv, EndsMade
  <2>4. Written(p, 0)'
    <3>1. said[p] \in Nat /\ said[p] >= 1
      BY <1>4 DEF IInv, TypeOK, Dialled
    <3> QED
      BY <1>4, <3>1 DEF Written
  <2>5. \A i \in DOMAIN wire'[e] : Written(owner[e], wire[e][i])'
    BY <1>4, <2>2, <2>4
  <2>6. \A x \in Ends : x = e \/ x \in Ends \ {e}
    OBVIOUS
  <2> QED
    BY <2>1, <2>2, <2>3, <2>5, <2>6 DEF WireInOrder
<1>14. MessagesInOrder'
  <2>0. messages' = messages /\ senders' = senders
    BY <1>4
  <2> SUFFICES ASSUME NEW x \in Peers, NEW i \in DOMAIN messages[x], NEW m, m = messages[x][i]
               PROVE  /\ m.over \in senders'[x] /\ m.from = Name(m.over)'
                      /\ Written(m.from, m.line)'
                      /\ \A k \in DOMAIN wire'[Mate(m.over)] : m.line < wire'[Mate(m.over)][k]
                      /\ \A j \in DOMAIN messages[x] :
                           i < j /\ messages[x][j].over = m.over => m.line < messages[x][j].line
    BY <2>0, InOrderIf
  <2>1. m.over \in Made /\ m.from \in Peers
    BY <1>7, MessageFields DEF IInv, MessagesInOrder
  <2>2. wire'[Mate(m.over)] = wire[Mate(m.over)]
    BY <1>4, <1>6, <2>1, MateProperties
  <2> QED
    BY <1>6, <1>12, <2>0, <2>1, <2>2 DEF IInv, MessagesInOrder
<1> QED
  BY <1>8, <1>9, <1>10, <1>11, <1>13, <1>14 DEF Rest

\* The node of a connection main has dialled, and its thread.
LEMMA AddSenderStep ==
  ASSUME IInv, NEW p \in Peers, AddSender(p), lookupUser(p, mwho[p]) = NoEnd
  PROVE  Rest'
<1>1. PICK e : e = mnode[p]
  OBVIOUS
<1>2. /\ e \in Made /\ e \in Ends /\ e.side = "dialled" /\ owner[e] = p /\ Name(e) = mwho[p]
      /\ \A f \in senders[p] : Name(f) # Name(e)
  BY <1>1, LookupProperties DEF IInv, Dialled, AddSender, GotoMain, Made
<1>3. /\ UNCHANGED <<made, owner, wire, said, messages, mnode, mwho>>
      /\ mpc[p] = "add" /\ mpc'[p] = "sayLock"
      /\ \A x \in Peers \ {p} : mpc'[x] = mpc[x] /\ senders'[x] = senders[x]
      /\ senders'[p] = senders[p] \cup {e}
      /\ thread'[e] = "loop"
      /\ \A x \in Ends \ {e} : thread'[x] = thread[x]
  BY <1>1, <1>2 DEF AddSender, GotoMain, IInv, TypeOK, peerVars
<1>4. \A e1 : Name(e1)' = Name(e1)
  BY <1>3 DEF Name
<1>5. EndsMade'
  BY <1>2, <1>3 DEF IInv, EndsMade, Made
<1>6. NodesOwned'
  BY <1>2, <1>3, <1>4 DEF IInv, NodesOwned
<1>7. ReadersLinked'
  BY <1>2, <1>3 DEF IInv, ReadersLinked
<1>8. Dialled'
  BY <1>3, <1>4 DEF IInv, Dialled, Made
<1>9. \A q \in Peers : \A n : Written(q, n) => Written(q, n)'
  BY <1>3 DEF Written
<1>10. WireInOrder'
  <2>1. ASSUME NEW x \in Ends, NEW i \in DOMAIN wire[x], wire[x][i] = 0
        PROVE  x.side = "dialled" /\ thread'[Mate(x)] \in {"none", "first", "done"}
    <3>1. x.side = "dialled" /\ thread[Mate(x)] \in {"none", "first", "done"} /\ Mate(x) \in Ends
      BY <2>1, MateProperties DEF IInv, WireInOrder
    <3>2. Mate(x) # e
      BY <1>2, <3>1, MateProperties
    <3> QED
      BY <1>3, <3>1, <3>2
  <2>2. ASSUME NEW x \in Ends, NEW i \in DOMAIN wire[x] PROVE Written(owner[x], wire[x][i])'
    <3>1. owner[x] \in Peers /\ Written(owner[x], wire[x][i])
      BY DEF IInv, EndsMade, WireInOrder
    <3> QED
      BY <1>3, <1>9, <3>1
  <2> QED
    BY <1>3, <2>1, <2>2 DEF IInv, WireInOrder
<1>11. MessagesInOrder'
  <2>0. messages' = messages /\ wire' = wire
    BY <1>3
  <2> SUFFICES ASSUME NEW x \in Peers, NEW i \in DOMAIN messages[x], NEW m, m = messages[x][i]
               PROVE  /\ m.over \in senders'[x] /\ m.from = Name(m.over)'
                      /\ Written(m.from, m.line)'
                      /\ \A k \in DOMAIN wire'[Mate(m.over)] : m.line < wire'[Mate(m.over)][k]
                      /\ \A j \in DOMAIN messages[x] :
                           i < j /\ messages[x][j].over = m.over => m.line < messages[x][j].line
    BY <2>0, InOrderIf
  <2>1. /\ m.over \in senders[x] /\ m.from = Name(m.over)
        /\ Written(m.from, m.line)
        /\ \A k \in DOMAIN wire[Mate(m.over)] : m.line < wire[Mate(m.over)][k]
        /\ \A j \in DOMAIN messages[x] :
             i < j /\ messages[x][j].over = m.over => m.line < messages[x][j].line
    BY DEF IInv, MessagesInOrder
  <2>2. m.over \in senders'[x]
    BY <1>3, <2>1
  <2>3. m.from \in Peers
    BY MessageFields DEF IInv
  <2> QED
    BY <1>4, <1>9, <2>0, <2>1, <2>2, <2>3
<1> QED
  BY <1>5, <1>6, <1>7, <1>8, <1>10, <1>11 DEF Rest

\* A line that is written comes after everything its writer has said.
LEMMA SayStep ==
  ASSUME IInv, NEW p \in Peers, Say(p)
  PROVE  Rest'
<1>1. PICK e \in Targets(p) : Len(wire[e]) < Capacity /\ wire' = [wire EXCEPT ![e] = Append(@, said[p])]
  BY DEF Say
<1>2. e \in Ends /\ owner[e] = p /\ e \in Made
  <2>1. e \in Ends /\ owner[e] = p
    BY <1>1 DEF Targets, IInv, TypeOK, NodesOwned
  <2>2. p # NoPeer
    BY LinkConstants
  <2> QED
    BY <2>1, <2>2 DEF IInv, EndsMade
<1>3. /\ UNCHANGED <<made, owner, senders, thread, said, messages>>
      /\ mpc[p] = "say" /\ mpc'[p] = "idle"
      /\ \A x \in Peers \ {p} : mpc'[x] = mpc[x] /\ mnode'[x] = mnode[x] /\ mwho'[x] = mwho[x]
      /\ wire[e] \in Seq(Nat) /\ wire'[e] = Append(wire[e], said[p])
      /\ \A x \in Ends \ {e} : wire'[x] = wire[x]
      /\ said[p] \in Nat /\ said[p] >= 1
  BY <1>1, <1>2 DEF Say, Over, GotoMain, IInv, TypeOK, Dialled, peerVars
<1>4. /\ \A i \in DOMAIN wire'[e] : \/ i \in DOMAIN wire[e] /\ wire'[e][i] = wire[e][i]
                                    \/ i = Len(wire[e]) + 1 /\ wire'[e][i] = said[p]
      /\ \A i \in DOMAIN wire[e] : i < Len(wire[e]) + 1 /\ i \in Nat
      /\ Len(wire[e]) \in Nat
  <2>1. \A i \in DOMAIN wire[e] : i \in Nat
    BY <1>3
  <2> QED
    BY <1>3, <2>1, AppendElements
<1>5. \A x : Name(x)' = Name(x)
  BY <1>3 DEF Name
<1>6. EndsMade' /\ NodesOwned' /\ ReadersLinked' /\ Dialled'
  <2>1. EndsMade'
    BY <1>2, <1>3 DEF IInv, EndsMade, Made
  <2>2. NodesOwned' /\ ReadersLinked'
    BY <1>3, <1>5 DEF IInv, NodesOwned, ReadersLinked
  <2>3. Dialled'
    BY <1>3, <1>5 DEF IInv, Dialled, Made
  <2> QED
    BY <2>1, <2>2, <2>3
<1>7. \A q \in Peers : \A n : Written(q, n) => Written(q, n)'
  BY <1>3 DEF Written
<1>8. \A n \in Nat : Written(p, n) => n < said[p]
  BY <1>3 DEF Written
<1>9. WireInOrder'
  <2>1. ASSUME NEW x \in Ends, NEW i \in DOMAIN wire[x], NEW n, n = wire[x][i]
        PROVE  Written(owner[x], n)' /\ (x = e => n < said[p])
    <3>1. owner[x] \in Peers /\ Written(owner[x], n) /\ n \in Nat
      BY <2>1 DEF IInv, EndsMade, WireInOrder, TypeOK
    <3>2. Written(owner[x], n)'
      BY <1>3, <1>7, <3>1
    <3>3. ASSUME x = e PROVE n < said[p]
      BY <1>2, <1>8, <3>1, <3>3
    <3> QED
      BY <3>1, <3>2, <3>3
  <2>2. Written(p, said[p])'
    BY <1>3 DEF Written
  <2>3. ASSUME NEW x \in Ends, NEW i \in DOMAIN wire'[x], NEW j \in DOMAIN wire'[x], i < j
        PROVE  wire'[x][i] < wire'[x][j]
    <3>1. CASE x # e
      BY <1>3, <2>3, <3>1 DEF IInv, WireInOrder
    <3>2. CASE x = e
      <4>1. i \in DOMAIN wire[e] /\ wire'[e][i] = wire[e][i]
        <5>1. \A k \in DOMAIN wire'[e] : k <= Len(wire[e]) + 1 /\ k \in Nat
          BY <1>4
        <5> QED
          BY <1>4, <2>3, <3>2, <5>1
      <4>2. CASE j \in DOMAIN wire[e] /\ wire'[e][j] = wire[e][j]
        BY <2>3, <3>2, <4>1, <4>2 DEF IInv, WireInOrder
      <4>3. CASE wire'[e][j] = said[p]
        BY <2>1, <3>2, <4>1, <4>3
      <4> QED
        BY <1>4, <2>3, <3>2, <4>2, <4>3
    <3> QED
      BY <3>1, <3>2
  <2>4. ASSUME NEW x \in Ends, NEW i \in DOMAIN wire'[x]
        PROVE  /\ Written(owner[x], wire[x][i])'
               /\ wire'[x][i] = 0 => x.side = "dialled" /\ thread'[Mate(x)] \in {"none", "first", "done"}
    <3>1. CASE i \in DOMAIN wire[x] /\ wire'[x][i] = wire[x][i]
      BY <1>3, <2>1, <3>1 DEF IInv, WireInOrder
    <3>2. CASE x = e /\ wire'[x][i] = said[p]
      BY <1>2, <1>3, <2>2, <3>2
    <3>3. \/ i \in DOMAIN wire[x] /\ wire'[x][i] = wire[x][i]
          \/ x = e /\ wire'[x][i] = said[p]
      <4>1. CASE x = e
        BY <1>4, <4>1
      <4>2. CASE x # e
        BY <1>3, <4>2
      <4> QED
        BY <4>1, <4>2
    <3> QED
      BY <3>1, <3>2, <3>3
  <2> QED
    BY <2>3, <2>4 DEF WireInOrder
<1>10. MessagesInOrder'
  <2>0. messages' = messages /\ senders' = senders
    BY <1>3
  <2> SUFFICES ASSUME NEW x \in Peers, NEW i \in DOMAIN messages[x], NEW m, m = messages[x][i]
               PROVE  /\ m.over \in senders'[x] /\ m.from = Name(m.over)'
                      /\ Written(m.from, m.line)'
                      /\ \A k \in DOMAIN wire'[Mate(m.over)] : m.line < wire'[Mate(m.over)][k]
                      /\ \A j \in DOMAIN messages[x] :
                           i < j /\ messages[x][j].over = m.over => m.line < messages[x][j].line
    BY <2>0, InOrderIf
  <2>1. m.over \in Ends /\ m.from \in Peers /\ m.line \in Nat /\ Mate(m.over) \in Ends
    BY MessageFields, MateProperties DEF IInv
  <2>2. /\ m.over \in senders[x] /\ m.from = Name(m.over)
        /\ Written(m.from, m.line)
        /\ \A k \in DOMAIN wire[Mate(m.over)] : m.line < wire[Mate(m.over)][k]
        /\ \A j \in DOMAIN messages[x] :
             i < j /\ messages[x][j].over = m.over => m.line < messages[x][j].line
    BY DEF IInv, MessagesInOrder
  <2>3. ASSUME NEW k \in DOMAIN wire'[Mate(m.over)] PROVE m.line < wire'[Mate(m.over)][k]
    <3>1. CASE Mate(m.over) # e
      BY <1>3, <2>1, <2>2, <2>3, <3>1
    <3>2. CASE Mate(m.over) = e
      <4>1. m.from = p
        BY <1>2, <2>2, <3>2 DEF Name
      <4>2. m.line < said[p]
        BY <1>8, <2>1, <2>2, <4>1
      <4> QED
        BY <1>4, <2>2, <2>3, <3>2, <4>2
    <3> QED
      BY <3>1, <3>2
  <2> QED
    BY <1>5, <1>7, <2>0, <2>1, <2>2, <2>3
<1> QED
  BY <1>6, <1>9, <1>10 DEF Rest

\* With a peer its nodes, its threads and its messages go; what it has written
\* stays on its way.
LEMMA DieStep ==
  ASSUME IInv, NEW p \in Peers, Die(p)
  PROVE  Rest'
<1>1. /\ UNCHANGED <<made, owner, wire, said>>
      /\ mpc'[p] = "idle"
      /\ \A x \in Peers \ {p} :
           /\ mpc'[x] = mpc[x] /\ mnode'[x] = mnode[x] /\ mwho'[x] = mwho[x]
           /\ senders'[x] = senders[x] /\ messages'[x] = messages[x]
      /\ senders'[p] = {} /\ messages'[p] = <<>>
      /\ \A e \in Ends : thread'[e] = IF owner[e] = p THEN "done" ELSE thread[e]
  BY DEF Die, IInv, TypeOK
<1>2. \A x : Name(x)' = Name(x)
  BY <1>1 DEF Name
<1>3. \A q \in Peers : \A n : Written(q, n) => Written(q, n)'
  BY <1>1 DEF Written
<1>4. p # NoPeer
  BY LinkConstants
<1>5. EndsMade'
  BY <1>1, <1>4 DEF IInv, EndsMade, Made
<1>6. NodesOwned'
  BY <1>1, <1>2 DEF IInv, NodesOwned
<1>7. ReadersLinked'
  BY <1>1 DEF IInv, ReadersLinked
<1>8. Dialled'
  BY <1>1, <1>2 DEF IInv, Dialled, Made
<1>9. WireInOrder'
  <2>1. ASSUME NEW x \in Ends, NEW i \in DOMAIN wire[x]
        PROVE  /\ Written(owner[x], wire[x][i])'
               /\ wire[x][i] = 0 => x.side = "dialled" /\ thread'[Mate(x)] \in {"none", "first", "done"}
    <3>1. owner[x] \in Peers /\ Written(owner[x], wire[x][i]) /\ Mate(x) \in Ends
      BY MateProperties DEF IInv, EndsMade, WireInOrder
    <3> QED
      BY <1>1, <1>3, <3>1 DEF IInv, WireInOrder
  <2> QED
    BY <1>1, <2>1 DEF IInv, WireInOrder
<1>10. MessagesInOrder'
  <2>1. \A x \in Peers : \A i \in DOMAIN messages[x] : messages[x][i].from \in Peers
    BY MessageFields DEF IInv
  <2>2. \A x \in Peers : \A i \in DOMAIN messages'[x] : x # p
    BY <1>1
  <2>3. ASSUME NEW x \in Peers, NEW i \in DOMAIN messages[x], x # p, NEW m, m = messages[x][i]
        PROVE  /\ m.over \in senders'[x] /\ m.from = Name(m.over)'
               /\ Written(m.from, m.line)'
               /\ \A k \in DOMAIN wire'[Mate(m.over)] : m.line < wire'[Mate(m.over)][k]
               /\ \A j \in DOMAIN messages[x] :
                    i < j /\ messages[x][j].over = m.over => m.line < messages[x][j].line
    BY <1>1, <1>2, <1>3, <2>1, <2>3 DEF IInv, MessagesInOrder
  <2>4. ASSUME NEW x \in Peers, NEW i \in DOMAIN messages'[x], NEW m, m = messages'[x][i]
        PROVE  /\ m.over \in senders'[x] /\ m.from = Name(m.over)'
               /\ Written(m.from, m.line)'
               /\ \A k \in DOMAIN wire'[Mate(m.over)] : m.line < wire'[Mate(m.over)][k]
               /\ \A j \in DOMAIN messages'[x] :
                    i < j /\ messages'[x][j].over = m.over => m.line < messages'[x][j].line
    <3>1. x # p
      BY <2>2, <2>4
    <3>2. messages'[x] = messages[x]
      BY <1>1, <3>1
    <3>3. i \in DOMAIN messages[x] /\ m = messages[x][i]
      BY <2>4, <3>2
    <3> QED
      BY <2>3, <3>1, <3>2, <3>3
  <2> QED
    BY <2>4 DEF MessagesInOrder
<1> QED
  BY <1>5, <1>6, <1>7, <1>8, <1>9, <1>10 DEF Rest

\* Lines are read of a connection that was made.
LEMMA TakenMade ==
  ASSUME IInv, NEW e \in Ends, wire[Mate(e)] # <<>>
  PROVE  /\ e \in Made /\ Mate(e) \in Ends /\ Mate(e) \in Made
         /\ Take(e) => \A x \in Ends \ {Mate(e)} : wire'[x] = wire[x]
<1>1. Mate(e) \in Ends /\ Mate(e) \in Made
  BY MateProperties DEF IInv, EndsMade
<1> QED
  BY <1>1, MateProperties DEF Take, IInv, TypeOK

\* A line that is read was written before those that stay on the wire.
LEMMA TakeProperties ==
  ASSUME IInv, NEW e \in Ends, NEW from, NEW to, Goto(e, from, to),
         wire[Mate(e)] # <<>>, Take(e)
  PROVE  /\ WireInOrder'
         /\ \A x \in Ends : \A k \in DOMAIN wire'[x] : \E l \in DOMAIN wire[x] : wire'[x][k] = wire[x][l]
         /\ \A k \in DOMAIN wire'[Mate(e)] : Head(wire[Mate(e)]) < wire'[Mate(e)][k]
         /\ \E l \in DOMAIN wire[Mate(e)] : Head(wire[Mate(e)]) = wire[Mate(e)][l]
         /\ Head(wire[Mate(e)]) \in Nat
<1>1. PICK f : f = Mate(e)
  OBVIOUS
<1>2. PICK s : s = wire[f]
  OBVIOUS
<1>3. PICK r : r = Tail(s)
  OBVIOUS
<1>4. f \in Ends /\ s \in Seq(Nat) /\ s # <<>>
  BY <1>1, <1>2, MateProperties DEF IInv, TypeOK
<1>5. /\ UNCHANGED <<owner, said, mpc, made>>
      /\ wire'[f] = r /\ \A x \in Ends \ {f} : wire'[x] = wire[x]
      /\ \A x \in Ends \ {e} : thread'[x] = thread[x]
  <2>1. wire' = [wire EXCEPT ![f] = r]
    BY <1>1, <1>2, <1>3 DEF Take
  <2>2. wire \in [Ends -> Seq(Nat)]
    BY DEF IInv, TypeOK
  <2>3. wire'[f] = r /\ \A x \in Ends \ {f} : wire'[x] = wire[x]
    BY <1>4, <2>1, <2>2
  <2> QED
    BY <2>3, GotoProperties
<1>6. /\ \A i \in DOMAIN r : i + 1 \in DOMAIN s /\ r[i] = s[i + 1] /\ i \in Nat /\ 1 < i + 1
      /\ 1 \in DOMAIN s /\ Head(s) = s[1] /\ Head(s) \in Nat
  BY <1>3, <1>4, TailElements
<1>7. \A i, j \in DOMAIN s : i < j => s[i] < s[j]
  BY <1>2, <1>4 DEF IInv, WireInOrder
<1>8. \A i, j \in DOMAIN r : i < j => r[i] < r[j]
  <2> SUFFICES ASSUME NEW i \in DOMAIN r, NEW j \in DOMAIN r, i < j PROVE r[i] < r[j]
    OBVIOUS
  <2>1. i + 1 \in DOMAIN s /\ j + 1 \in DOMAIN s /\ i + 1 < j + 1
    BY <1>6
  <2> QED
    BY <1>6, <1>7, <2>1
<1>9. \A k \in DOMAIN r : Head(s) < r[k] /\ r[k] # 0 /\ \E l \in DOMAIN s : r[k] = s[l]
  BY <1>6, <1>7
<1>10. \A q, n : Written(q, n) => Written(q, n)'
  BY <1>5 DEF Written
<1>11. WireInOrder'
  <2>1. ASSUME NEW x \in Ends, x # f
        PROVE  /\ \A i, j \in DOMAIN wire'[x] : i < j => wire'[x][i] < wire'[x][j]
               /\ \A i \in DOMAIN wire'[x] : Written(owner[x], wire[x][i])'
               /\ \A i \in DOMAIN wire'[x] :
                    wire'[x][i] = 0 => x.side = "dialled" /\ thread'[Mate(x)] \in {"none", "first", "done"}
    <3>1. wire'[x] = wire[x] /\ owner'[x] = owner[x]
      BY <1>5, <2>1
    <3>2. Mate(x) \in Ends /\ Mate(x) # e
      BY <1>1, <2>1, MateProperties
    <3> QED
      BY <1>5, <1>10, <3>1, <3>2 DEF IInv, WireInOrder
  <2>2. ASSUME NEW i \in DOMAIN wire'[f] PROVE Written(owner[f], wire[f][i])' /\ wire'[f][i] # 0
    <3>1. PICK l \in DOMAIN s : r[i] = s[l] /\ r[i] # 0
      BY <1>5, <1>9
    <3>2. Written(owner[f], s[l])
      BY <1>2, <1>4 DEF IInv, WireInOrder
    <3> QED
      BY <1>5, <1>10, <3>1, <3>2
  <2> QED
    BY <1>5, <1>8, <2>1, <2>2 DEF WireInOrder
<1>12. ASSUME NEW x \in Ends, NEW k \in DOMAIN wire'[x]
       PROVE  \E l \in DOMAIN wire[x] : wire'[x][k] = wire[x][l]
  <2>1. CASE x = f
    BY <1>2, <1>5, <1>9, <2>1
  <2>2. CASE x # f
    BY <1>5, <2>2
  <2> QED
    BY <2>1, <2>2
<1> QED
  BY <1>1, <1>2, <1>5, <1>6, <1>9, <1>11, <1>12

\* The connect line is read.
LEMMA ReadConnectStep ==
  ASSUME IInv, NEW e \in Ends, ReadConnect(e)
  PROVE  Rest'
<1>1. /\ Goto(e, "first", "add") /\ wire[Mate(e)] # <<>> /\ Take(e)
      /\ UNCHANGED <<senders, messages>>
  BY DEF ReadConnect
<1>2. /\ UNCHANGED <<made, owner, said, mpc, mnode, mwho>>
      /\ thread[e] = "first" /\ thread'[e] = "add"
      /\ \A x \in Ends : x # e => thread'[x] = thread[x]
  BY <1>1, GotoProperties
<1>3. /\ WireInOrder'
      /\ \A x \in Ends : \A k \in DOMAIN wire'[x] : \E l \in DOMAIN wire[x] : wire'[x][k] = wire[x][l]
  BY <1>1, TakeProperties
<1>4. \A x : Name(x)' = Name(x)
  BY <1>2 DEF Name
<1>5. EndsMade'
  BY <1>1, <1>2, TakenMade DEF IInv, EndsMade, Made
<1>6. NodesOwned' /\ ReadersLinked'
  BY <1>1, <1>2, <1>4 DEF IInv, NodesOwned, ReadersLinked
<1>7. Dialled'
  BY <1>2, <1>4 DEF IInv, Dialled, Made
<1>8. \A q, n : Written(q, n) => Written(q, n)'
  BY <1>2 DEF Written
<1>9. MessagesInOrder'
  <2>1. \A x \in Peers : \A i \in DOMAIN messages[x] : messages[x][i].over \in Ends
    BY MessageFields DEF IInv
  <2>2. ASSUME NEW x \in Peers, NEW i \in DOMAIN messages[x],
               NEW k \in DOMAIN wire'[Mate(messages[x][i].over)]
        PROVE  messages[x][i].line < wire'[Mate(messages[x][i].over)][k]
    BY <1>3, <2>1, MateProperties DEF IInv, MessagesInOrder
  <2> QED
    BY <1>1, <1>4, <1>8, <2>2 DEF IInv, MessagesInOrder
<1> QED
  BY <1>3, <1>5, <1>6, <1>7, <1>9 DEF Rest

\* A thread that was accepted adds its node.
LEMMA addSenderStep ==
  ASSUME IInv, NEW e \in Ends, addSender(e), lookupUser(owner[e], Name(e)) = NoEnd
  PROVE  Rest'
<1>1. Goto(e, "add", "loop") /\ UNCHANGED <<wire, messages>>
  BY DEF addSender
<1>2. /\ UNCHANGED <<made, owner, said, mpc, mnode, mwho>>
      /\ thread[e] = "add" /\ thread'[e] = "loop"
      /\ \A x \in Ends : x # e => thread'[x] = thread[x]
  BY <1>1, GotoProperties
<1>3. PICK q : q = owner[e]
  OBVIOUS
<1>4. q \in Peers /\ e \in Made /\ Name(e) \in Peers
  BY <1>2, <1>3, MateProperties DEF IInv, EndsMade, Name
<1>5. \A f \in senders[q] : Name(f) # Name(e)
  BY <1>3, <1>4, LookupProperties DEF IInv
<1>6. senders'[q] = senders[q] \cup {e} /\ \A x \in Peers \ {q} : senders'[x] = senders[x]
  BY <1>3, <1>4 DEF addSender, IInv, TypeOK
<1>7. \A x : Name(x)' = Name(x)
  BY <1>2 DEF Name
<1>8. EndsMade'
  BY <1>1, <1>2, <1>4 DEF IInv, EndsMade, Made
<1>9. NodesOwned'
  BY <1>2, <1>3, <1>5, <1>6, <1>7 DEF IInv, NodesOwned
<1>10. ReadersLinked'
  BY <1>2, <1>3, <1>4, <1>6 DEF IInv, ReadersLinked
<1>11. Dialled'
  BY <1>2, <1>7 DEF IInv, Dialled, Made
<1>12. \A y, n : Written(y, n) => Written(y, n)'
  BY <1>2 DEF Written
<1>13. WireInOrder'
  <2>1. ASSUME NEW x \in Ends, NEW i \in DOMAIN wire[x], wire[x][i] = 0
        PROVE  x.side = "dialled" /\ thread'[Mate(x)] \in {"none", "first", "done"}
    <3>1. x.side = "dialled" /\ thread[Mate(x)] \in {"none", "first", "done"} /\ Mate(x) \in Ends
      BY <2>1, MateProperties DEF IInv, WireInOrder
    <3> QED
      BY <1>2, <3>1
  <2> QED
    BY <1>1, <1>2, <1>12, <2>1 DEF IInv, WireInOrder
<1>14. MessagesInOrder'
  <2>0. messages' = messages /\ wire' = wire
    BY <1>1
  <2> SUFFICES ASSUME NEW x \in Peers, NEW i \in DOMAIN messages[x], NEW m, m = messages[x][i]
               PROVE  /\ m.over \in senders'[x] /\ m.from = Name(m.over)'
                      /\ Written(m.from, m.line)'
                      /\ \A k \in DOMAIN wire'[Mate(m.over)] : m.line < wire'[Mate(m.over)][k]
                      /\ \A j \in DOMAIN messages[x] :
                           i < j /\ messages[x][j].over = m.over => m.line < messages[x][j].line
    BY <2>0, InOrderIf
  <2>1. /\ m.over \in senders[x] /\ m.from = Name(m.over)
        /\ Written(m.from, m.line)
        /\ \A k \in DOMAIN wire[Mate(m.over)] : m.line < wire[Mate(m.over)][k]
        /\ \A j \in DOMAIN messages[x] :
             i < j /\ messages[x][j].over = m.over => m.line < messages[x][j].line
    BY DEF IInv, MessagesInOrder
  <2>2. m.over \in senders'[x]
    BY <1>6, <2>1
  <2> QED
    BY <1>7, <1>12, <2>0, <2>1, <2>2
<1> QED
  BY <1>8, <1>9, <1>10, <1>11, <1>13, <1>14 DEF Rest

\* A line that is read is a message, the last one from its sender.
LEMMA ReadMessageStep ==
  ASSUME IInv, NEW e \in Ends, ReadMessage(e)
  PROVE  Rest'
<1>1. PICK q : q = owner[e]
  OBVIOUS
<1>2. PICK new : new = [from |-> Name(e), over |-> e, line |-> Head(wire[Mate(e)])]
  OBVIOUS
<1>3. /\ Goto(e, "loop", "loop") /\ wire[Mate(e)] # <<>> /\ Take(e)
      /\ UNCHANGED senders
      /\ messages' = [messages EXCEPT ![q] = Append(messages[q], new)]
  BY <1>1, <1>2 DEF ReadMessage
<1>4. /\ UNCHANGED <<made, owner, said, mpc, mnode, mwho>>
      /\ thread[e] = "loop" /\ thread'[e] = "loop"
      /\ \A x \in Ends : x # e => thread'[x] = thread[x]
  BY <1>3, GotoProperties
<1>5. q \in Peers /\ e \in senders[q] /\ Name(e) \in Peers
  BY <1>1, <1>3, <1>4, TakenMade DEF IInv, ReadersLinked, EndsMade, Name
<1>6. /\ WireInOrder'
      /\ \A x \in Ends : \A k \in DOMAIN wire'[x] : \E l \in DOMAIN wire[x] : wire'[x][k] = wire[x][l]
      /\ \A k \in DOMAIN wire'[Mate(e)] : new.line < wire'[Mate(e)][k]
      /\ \E l \in DOMAIN wire[Mate(e)] : new.line = wire[Mate(e)][l]
      /\ new.line \in Nat
  BY <1>2, <1>3, TakeProperties
<1>7. new.line # 0 /\ Written(Name(e), new.line)
  <2>1. PICK l \in DOMAIN wire[Mate(e)] : new.line = wire[Mate(e)][l]
    BY <1>6
  <2>2. Mate(e) \in Ends /\ Mate(Mate(e)) = e
    BY MateProperties
  <2>3. new.line = 0 => thread[e] \in {"none", "first", "done"}
    BY <2>1, <2>2 DEF IInv, WireInOrder
  <2> QED
    BY <1>4, <2>1, <2>2, <2>3 DEF IInv, WireInOrder, Name
<1>8. /\ new \in Message /\ new.over = e /\ new.from = Name(e)
      /\ messages[q] \in Seq(Message)
  BY <1>2, <1>5, <1>6, <1>7, MessageFields DEF IInv, Message
<1>9. /\ messages'[q] = Append(messages[q], new)
      /\ \A x \in Peers \ {q} : messages'[x] = messages[x]
  BY <1>3, <1>5 DEF IInv, TypeOK
<1>10. /\ \A i \in DOMAIN messages'[q] :
            \/ i \in DOMAIN messages[q] /\ messages'[q][i] = messages[q][i]
            \/ i = Len(messages[q]) + 1 /\ messages'[q][i] = new
       /\ \A i \in DOMAIN messages[q] : i < Len(messages[q]) + 1
       /\ \A i \in DOMAIN messages'[q] : ~(Len(messages[q]) + 1 < i)
  <2>1. \A i \in DOMAIN messages[q] : ~(Len(messages[q]) + 1 < i) /\ Len(messages[q]) + 1 \in Nat
    BY <1>8
  <2>2. Len(messages[q]) + 1 \in Nat
    BY <1>8
  <2>3. /\ \A i \in DOMAIN messages'[q] :
            \/ i \in DOMAIN messages[q] /\ messages'[q][i] = messages[q][i]
            \/ i = Len(messages[q]) + 1 /\ messages'[q][i] = new
        /\ \A i \in DOMAIN messages[q] : i < Len(messages[q]) + 1
    BY <1>8, <1>9, AppendElements
  <2> QED
    BY <2>1, <2>2, <2>3
<1>11. \A x : Name(x)' = Name(x)
  BY <1>4 DEF Name
<1>12. EndsMade'
  BY <1>3, <1>4, TakenMade DEF IInv, EndsMade, Made
<1>13. NodesOwned' /\ ReadersLinked'
  BY <1>3, <1>4, <1>11 DEF IInv, NodesOwned, ReadersLinked
<1>14. Dialled'
  BY <1>4, <1>11 DEF IInv, Dialled, Made
<1>15. \A y, n : Written(y, n) => Written(y, n)'
  BY <1>4 DEF Written
<1>16. ASSUME NEW x \in Peers, NEW i \in DOMAIN messages[x], NEW m, m = messages[x][i]
       PROVE  /\ m.over \in senders'[x] /\ m.from = Name(m.over)'
              /\ Written(m.from, m.line)'
              /\ \A k \in DOMAIN wire'[Mate(m.over)] : m.line < wire'[Mate(m.over)][k]
              /\ \A j \in DOMAIN messages[x] :
                   i < j /\ messages[x][j].over = m.over => m.line < messages[x][j].line
              /\ m.over = e => m.line < new.line
  <2>1. m.over \in Ends /\ Mate(m.over) \in Ends
    BY <1>16, MessageFields, MateProperties DEF IInv
  <2>2. /\ m.over \in senders[x] /\ m.from = Name(m.over)
        /\ Written(m.from, m.line)
        /\ \A k \in DOMAIN wire[Mate(m.over)] : m.line < wire[Mate(m.over)][k]
        /\ \A j \in DOMAIN messages[x] :
             i < j /\ messages[x][j].over = m.over => m.line < messages[x][j].line
    BY <1>16 DEF IInv, MessagesInOrder
  <2> QED
    BY <1>3, <1>6, <1>11, <1>15, <2>1, <2>2
<1>17. MessagesInOrder'
  <2> SUFFICES ASSUME NEW x \in Peers, NEW i \in DOMAIN messages'[x], NEW m, m = messages'[x][i]
               PROVE  /\ m.over \in senders'[x] /\ m.from = Name(m.over)'
                      /\ Written(m.from, m.line)'
                      /\ \A k \in DOMAIN wire'[Mate(m.over)] : m.line < wire'[Mate(m.over)][k]
                      /\ \A j \in DOMAIN messages'[x] :
                           i < j /\ messages'[x][j].over = m.over => m.line < messages'[x][j].line
    BY DEF MessagesInOrder
  <2>1. CASE x # q
    BY <1>9, <1>16, <2>1
  <2>2. CASE x = q /\ i \in DOMAIN messages[q] /\ m = messages[q][i]
    <3>1. /\ m.over \in senders'[q] /\ m.from = Name(m.over)'
          /\ Written(m.from, m.line)'
          /\ \A k \in DOMAIN wire'[Mate(m.over)] : m.line < wire'[Mate(m.over)][k]
          /\ \A j \in DOMAIN messages[q] :
               i < j /\ messages[q][j].over = m.over => m.line < messages[q][j].line
          /\ m.over = e => m.line < new.line
      BY <1>10, <1>16, <2>2
    <3>2. ASSUME NEW j \in DOMAIN messages'[q], i < j, messages'[q][j].over = m.over
          PROVE  m.line < messages'[q][j].line
      <4>1. CASE j \in DOMAIN messages[q] /\ messages'[q][j] = messages[q][j]
        BY <3>1, <3>2, <4>1
      <4>2. CASE messages'[q][j] = new
        BY <1>8, <3>1, <3>2, <4>2
      <4> QED
        BY <1>10, <4>1, <4>2
    <3> QED
      BY <2>2, <3>1, <3>2
  <2>3. CASE x = q /\ i = Len(messages[q]) + 1 /\ m = new
    BY <1>3, <1>5, <1>6, <1>7, <1>8, <1>10, <1>11, <1>15, <2>3
  <2> QED
    BY <1>10, <2>1, <2>2, <2>3
<1> QED
  BY <1>6, <1>12, <1>13, <1>14, <1>17 DEF Rest

\* What flushMessageFrom leaves are messages of other nodes, in their order.
LEMMA ForgetProperties ==
  ASSUME TypeOK, NEW q \in Peers, NEW e, Forget(q, e)
  PROVE  /\ messages'[q] \in Seq(Message)
         /\ \A x \in Peers \ {q} : messages'[x] = messages[x]
         /\ \A i \in DOMAIN messages'[q] : \E k \in DOMAIN messages[q] :
              /\ messages'[q][i] = messages[q][k] /\ messages[q][k].over # e
              /\ \A j \in DOMAIN messages'[q] : i < j =>
                   \E l \in DOMAIN messages[q] : k < l /\ messages'[q][j] = messages[q][l]
<1> DEFINE others == {i \in DOMAIN messages[q] : messages[q][i].over # e}
<1>1. PICK n \in 0 .. Len(messages[q]) : \E at \in [1 .. n -> others] :
        /\ \A j, k \in 1 .. n : j < k => at[j] < at[k]
        /\ messages' = [messages EXCEPT ![q] = [j \in 1 .. n |-> messages[q][at[j]]]]
  BY DEF Forget
<1>2. PICK at \in [1 .. n -> others] :
        /\ \A j, k \in 1 .. n : j < k => at[j] < at[k]
        /\ messages' = [messages EXCEPT ![q] = [j \in 1 .. n |-> messages[q][at[j]]]]
  BY <1>1
<1>3. PICK r : r = [j \in 1 .. n |-> messages[q][at[j]]]
  OBVIOUS
<1>4. messages'[q] = r /\ \A x \in Peers \ {q} : messages'[x] = messages[x]
  BY <1>2, <1>3 DEF TypeOK
<1>5. \A j \in 1 .. n : at[j] \in DOMAIN messages[q] /\ messages[q][at[j]].over # e
  BY <1>2
<1>6. \A j \in 1 .. n : messages[q][at[j]] \in Message
  BY <1>5, MessageFields
<1>7. n \in Nat
  BY <1>1, MessageFields
<1>8. r \in Seq(Message) /\ DOMAIN r = 1 .. n
  BY <1>3, <1>6, <1>7
<1>9. ASSUME NEW i \in 1 .. n
      PROVE  \E k \in DOMAIN messages[q] :
               /\ r[i] = messages[q][k] /\ messages[q][k].over # e
               /\ \A j \in 1 .. n : i < j =>
                    \E l \in DOMAIN messages[q] : k < l /\ r[j] = messages[q][l]
  <2>1. \A j \in 1 .. n : i < j => at[i] < at[j] /\ r[j] = messages[q][at[j]]
    BY <1>2, <1>3
  <2>2. r[i] = messages[q][at[i]]
    BY <1>3
  <2> QED
    BY <1>5, <2>1, <2>2
<1> QED
  BY <1>4, <1>8, <1>9

\* With a node its messages go.
LEMMA deleteSenderStep ==
  ASSUME IInv, NEW e \in Ends, deleteSender(e)
  PROVE  Rest'
<1>1. PICK q : q = owner[e]
  OBVIOUS
<1>2. /\ Goto(e, "delete", "close") /\ UNCHANGED wire
      /\ senders' = [senders EXCEPT ![q] = @ \ {e}]
      /\ Forget(q, e)
  BY <1>1 DEF deleteSender
<1>3. /\ UNCHANGED <<made, owner, said, mpc, mnode, mwho>>
      /\ thread[e] = "delete" /\ thread'[e] = "close"
      /\ \A x \in Ends : x # e => thread'[x] = thread[x]
  BY <1>2, GotoProperties
<1>4. q \in Peers /\ e \in senders[q] /\ e \in Made
  BY <1>1, <1>3 DEF IInv, ReadersLinked, EndsMade
<1>5. senders'[q] = senders[q] \ {e} /\ \A x \in Peers \ {q} : senders'[x] = senders[x]
  BY <1>2, <1>4 DEF IInv, TypeOK
<1>6. \A x : Name(x)' = Name(x)
  BY <1>3 DEF Name
<1>7. EndsMade'
  BY <1>2, <1>3, <1>4 DEF IInv, EndsMade, Made
<1>8. NodesOwned'
  BY <1>3, <1>4, <1>5, <1>6 DEF IInv, NodesOwned
<1>9. ReadersLinked'
  BY <1>1, <1>3, <1>4, <1>5 DEF IInv, ReadersLinked
<1>10. Dialled'
  BY <1>3, <1>6 DEF IInv, Dialled, Made
<1>11. \A y, n : Written(y, n) => Written(y, n)'
  BY <1>3 DEF Written
<1>12. WireInOrder'
  <2>1. ASSUME NEW x \in Ends, NEW i \in DOMAIN wire[x], wire[x][i] = 0
        PROVE  x.side = "dialled" /\ thread'[Mate(x)] \in {"none", "first", "done"}
    <3>1. x.side = "dialled" /\ thread[Mate(x)] \in {"none", "first", "done"} /\ Mate(x) \in Ends
      BY <2>1, MateProperties DEF IInv, WireInOrder
    <3> QED
      BY <1>3, <3>1
  <2> QED
    BY <1>2, <1>3, <1>11, <2>1 DEF IInv, WireInOrder
<1>13. MessagesInOrder'
  <2> SUFFICES ASSUME NEW x \in Peers, NEW i \in DOMAIN messages'[x], NEW m, m = messages'[x][i]
               PROVE  /\ m.over \in senders'[x] /\ m.from = Name(m.over)
                      /\ Written(m.from, m.line)'
                      /\ \A k \in DOMAIN wire[Mate(m.over)] : m.line < wire[Mate(m.over)][k]
                      /\ \A j \in DOMAIN messages'[x] :
                           i < j /\ messages'[x][j].over = m.over => m.line < messages'[x][j].line
    BY <1>2, <1>6 DEF MessagesInOrder
  <2>1. PICK k \in DOMAIN messages[x] :
          /\ m = messages[x][k] /\ (x = q => m.over # e)
          /\ \A j \in DOMAIN messages'[x] : i < j =>
               \E l \in DOMAIN messages[x] : k < l /\ messages'[x][j] = messages[x][l]
    <3>1. CASE x = q
      BY <1>2, <3>1, ForgetProperties DEF IInv
    <3>2. CASE x # q
      BY <1>2, <1>4, <3>2, ForgetProperties DEF IInv
    <3> QED
      BY <3>1, <3>2
  <2>2. /\ m.over \in senders[x] /\ m.from = Name(m.over)
        /\ Written(m.from, m.line)
        /\ \A l \in DOMAIN wire[Mate(m.over)] : m.line < wire[Mate(m.over)][l]
        /\ \A l \in DOMAIN messages[x] :
             k < l /\ messages[x][l].over = m.over => m.line < messages[x][l].line
    BY <2>1 DEF IInv, MessagesInOrder
  <2>3. m.over \in senders'[x]
    BY <1>5, <2>1, <2>2
  <2> QED
    BY <1>11, <2>1, <2>2, <2>3
<1> QED
  BY <1>7, <1>8, <1>9, <1>10, <1>12, <1>13 DEF Rest

--------------------------------------------------------------------------------
\* The types.  Only the wires are bounded: a connection takes as many lines as its
\* capacity allows, as messageUser waits until it takes one more.
LEMMA TypeStep ==
  ASSUME IInv, [Next]_vars
  PROVE  TypeOK'
<1>0. /\ up \subseteq Peers
      /\ starts \in [Peers -> Nat] /\ said \in [Peers -> Nat]
      /\ mpc \in [Peers -> {"idle", "find", "dial", "add", "sayLock", "say"}]
      /\ mwho \in [Peers -> Peers \cup {NoPeer}]
      /\ mnode \in [Peers -> Ends \cup {NoEnd}]
      /\ made \in 0 .. MaxLinks
      /\ owner \in [Ends -> Peers \cup {NoPeer}]
      /\ senders \in [Peers -> SUBSET Ends]
      /\ thread \in [Ends -> {"none", "first", "add", "loop", "delete", "close", "done"}]
      /\ wire \in [Ends -> Seq(Nat)] /\ \A e \in Ends : Len(wire[e]) <= Capacity
      /\ closed \subseteq Ends
      /\ \A p \in Peers : starts[p] <= MaxStarts[p] /\ said[p] <= MaxSaid[p]
      /\ messages \in [Peers -> Seq(Message)]
      /\ TypeOK
  BY DEF IInv, TypeOK, Message
<1>1. ASSUME up' \subseteq Peers,
             starts' \in [Peers -> Nat], said' \in [Peers -> Nat],
             mpc' \in [Peers -> {"idle", "find", "dial", "add", "sayLock", "say"}],
             mwho' \in [Peers -> Peers \cup {NoPeer}],
             mnode' \in [Peers -> Ends \cup {NoEnd}],
             made' \in 0 .. MaxLinks,
             owner' \in [Ends -> Peers \cup {NoPeer}],
             senders' \in [Peers -> SUBSET Ends],
             thread' \in [Ends -> {"none", "first", "add", "loop", "delete", "close", "done"}],
             wire' \in [Ends -> Seq(Nat)], \A e \in Ends : Len(wire'[e]) <= Capacity,
             closed' \subseteq Ends,
             \A p \in Peers : starts'[p] <= MaxStarts[p] /\ said'[p] <= MaxSaid[p],
             messages' \in [Peers -> Seq(Message)]
      PROVE  TypeOK'
  BY <1>1 DEF TypeOK, Message
<1>2. CASE UNCHANGED vars
  BY <1>0, <1>1, <1>2 DEF vars, peerVars, mainVars
<1>3. ASSUME NEW p \in Peers, Die(p) PROVE TypeOK'
  <2>1. messages' \in [Peers -> Seq(Message)]
    BY <1>0, <1>3 DEF Die
  <2>2. closed' \subseteq Ends /\ up' \subseteq Peers /\ senders' \in [Peers -> SUBSET Ends]
    BY <1>0, <1>3 DEF Die
  <2>3. thread' \in [Ends -> {"none", "first", "add", "loop", "delete", "close", "done"}]
    BY <1>0, <1>3 DEF Die
  <2> QED
    BY <1>0, <1>1, <1>3, <2>1, <2>2, <2>3 DEF Die
<1>4. ASSUME NEW p \in Peers, Restart(p) PROVE TypeOK'
  <2>1. MaxStarts[p] \in Nat
    BY LinkConstants
  <2>2. starts' \in [Peers -> Nat] /\ \A q \in Peers : starts'[q] <= MaxStarts[q]
    BY <1>0, <1>4, <2>1 DEF Restart
  <2> QED
    BY <1>0, <1>1, <1>4, <2>2 DEF Restart, mainVars
<1>5. ASSUME NEW p \in Peers, NEW q \in Peers, Command(p, q) PROVE TypeOK'
  <2>1. MaxSaid[p] \in Nat /\ lookupUser(p, q) \in Ends \cup {NoEnd}
    BY <1>0, LinkConstants, LookupProperties
  <2>2. said' \in [Peers -> Nat] /\ \A x \in Peers : said'[x] <= MaxSaid[x]
    BY <1>0, <1>5, <2>1 DEF Command
  <2>3. mnode' \in [Peers -> Ends \cup {NoEnd}] /\ mwho' \in [Peers -> Peers \cup {NoPeer}]
    BY <1>0, <1>5, <2>1 DEF Command
  <2>4. mpc' \in [Peers -> {"idle", "find", "dial", "add", "sayLock", "say"}]
    BY <1>0, <1>5 DEF Command, GotoMain
  <2> QED
    BY <1>0, <1>1, <1>5, <2>2, <2>3, <2>4 DEF Command, peerVars
<1>6. ASSUME NEW p \in Peers, NEW from, Over(p, from),
             wire' \in [Ends -> Seq(Nat)], \A e \in Ends : Len(wire'[e]) <= Capacity
      PROVE  TypeOK'
  <2>1. /\ mpc' \in [Peers -> {"idle", "find", "dial", "add", "sayLock", "say"}]
        /\ mwho' \in [Peers -> Peers \cup {NoPeer}]
        /\ mnode' \in [Peers -> Ends \cup {NoEnd}]
    BY <1>0, <1>6 DEF Over, GotoMain
  <2> QED
    BY <1>0, <1>1, <1>6, <2>1 DEF Over, peerVars
<1>7. ASSUME NEW p \in Peers, NEW from, Over(p, from) /\ UNCHANGED wire PROVE TypeOK'
  BY <1>0, <1>6, <1>7
<1>8. ASSUME NEW p \in Peers, Find(p) \/ SayLock(p) PROVE TypeOK'
  <2>1. CASE Over(p, "find") /\ UNCHANGED wire
    BY <1>7, <2>1
  <2>2. CASE /\ UNCHANGED <<peerVars, mwho, mnode, senders, thread, wire, closed, said, messages>>
             /\ \E from, to : to \in {"dial", "say"} /\ GotoMain(p, from, to)
    <3>1. mpc' \in [Peers -> {"idle", "find", "dial", "add", "sayLock", "say"}]
      BY <1>0, <2>2 DEF GotoMain
    <3> QED
      BY <1>0, <1>1, <2>2, <3>1 DEF peerVars
  <2> QED
    BY <1>8, <2>1, <2>2 DEF Find, SayLock
<1>9. ASSUME NEW p \in Peers, Dial(p) PROVE TypeOK'
  <2>1. PICK e : e = [link |-> made + 1, side |-> "dialled"]
    OBVIOUS
  <2>2. e \in Ends /\ made + 1 \in 0 .. MaxLinks
    BY <1>0, <1>9, <2>1, LinkConstants DEF Dial, Ends, Links
  <2>3. /\ made' = made + 1
        /\ owner' = [owner EXCEPT ![e] = p, ![Mate(e)] = mwho[p]]
        /\ wire' = [wire EXCEPT ![e] = <<0>>]
        /\ mnode' = [mnode EXCEPT ![p] = e]
    BY <1>9, <2>1 DEF Dial
  <2>4. owner' \in [Ends -> Peers \cup {NoPeer}] /\ mnode' \in [Peers -> Ends \cup {NoEnd}]
    BY <1>0, <2>2, <2>3
  <2>5. <<0>> \in Seq(Nat) /\ Len(<<0>>) = 1 /\ 1 <= Capacity
    BY LinkConstants
  <2>6. wire' \in [Ends -> Seq(Nat)] /\ \A x \in Ends : Len(wire'[x]) <= Capacity
    BY <1>0, <2>3, <2>5
  <2>7. mpc' \in [Peers -> {"idle", "find", "dial", "add", "sayLock", "say"}]
    BY <1>0, <1>9 DEF Dial, GotoMain
  <2> QED
    BY <1>0, <1>1, <1>9, <2>2, <2>3, <2>4, <2>6, <2>7 DEF Dial
<1>10. ASSUME NEW p \in Peers, AddSender(p) PROVE TypeOK'
  <2>1. CASE lookupUser(p, mwho[p]) # NoEnd
    BY <1>7, <1>10, <2>1 DEF AddSender
  <2>2. CASE lookupUser(p, mwho[p]) = NoEnd
    <3>1. mnode[p] \in Ends
      BY <1>10, <2>2 DEF AddSender, GotoMain, IInv, Dialled, Made
    <3>2. mpc' \in [Peers -> {"idle", "find", "dial", "add", "sayLock", "say"}]
      <4>1. GotoMain(p, "add", "sayLock")
        BY <1>10, <2>2 DEF AddSender
      <4>2. mpc' = [mpc EXCEPT ![p] = "sayLock"]
        BY <4>1 DEF GotoMain
      <4> QED
        BY <1>0, <4>2
    <3>3. thread' \in [Ends -> {"none", "first", "add", "loop", "delete", "close", "done"}]
      <4>1. thread' = [thread EXCEPT ![mnode[p]] = "loop"]
        BY <1>10, <2>2 DEF AddSender
      <4> QED
        BY <1>0, <3>1, <4>1
    <3>4. senders[p] \cup {mnode[p]} \in SUBSET Ends
      BY <1>0, <3>1
    <3>5. senders' \in [Peers -> SUBSET Ends]
      <4>1. senders' = [senders EXCEPT ![p] = senders[p] \cup {mnode[p]}]
        BY <1>10, <2>2 DEF AddSender
      <4> QED
        BY <1>0, <3>4, <4>1
    <3> QED
      BY <1>0, <1>1, <1>10, <2>2, <3>2, <3>3, <3>5 DEF AddSender, peerVars
  <2> QED
    BY <2>1, <2>2
<1>11. ASSUME NEW p \in Peers, Say(p) PROVE TypeOK'
  <2>1. PICK e : Len(wire[e]) < Capacity /\ wire' = [wire EXCEPT ![e] = Append(@, said[p])]
    BY <1>11 DEF Say
  <2>2. ASSUME e \in Ends
        PROVE  Append(wire[e], said[p]) \in Seq(Nat) /\ Len(Append(wire[e], said[p])) <= Capacity
    <3>1. wire[e] \in Seq(Nat) /\ said[p] \in Nat /\ Capacity \in Nat
      BY <1>0, <2>2, LinkConstants
    <3>2. /\ Append(wire[e], said[p]) \in Seq(Nat)
          /\ Len(Append(wire[e], said[p])) = Len(wire[e]) + 1 /\ Len(wire[e]) \in Nat
      BY <3>1
    <3> QED
      BY <2>1, <3>1, <3>2
  <2>3. wire' \in [Ends -> Seq(Nat)] /\ \A x \in Ends : Len(wire'[x]) <= Capacity
    BY <1>0, <2>1, <2>2
  <2> QED
    BY <1>6, <1>11, <2>3 DEF Say
<1>12. ASSUME NEW e \in Ends, NEW from, NEW to, Goto(e, from, to),
              to \in {"first", "add", "loop", "delete", "close", "done"},
              senders' \in [Peers -> SUBSET Ends], closed' \subseteq Ends,
              wire' \in [Ends -> Seq(Nat)], \A x \in Ends : Len(wire'[x]) <= Capacity,
              messages' \in [Peers -> Seq(Message)]
       PROVE  TypeOK'
  <2>1. thread' \in [Ends -> {"none", "first", "add", "loop", "delete", "close", "done"}]
    BY <1>0, <1>12 DEF Goto
  <2>2. UNCHANGED <<peerVars, mainVars, said>>
    BY <1>12 DEF Goto
  <2> QED
    BY <1>0, <1>1, <1>12, <2>1, <2>2 DEF peerVars, mainVars
<1>13. ASSUME NEW e \in Ends, Accept(e) \/ EndOfFile(e) PROVE TypeOK'
  BY <1>0, <1>12, <1>13 DEF Accept, EndOfFile
<1>14. ASSUME NEW e \in Ends, CloseThread(e) PROVE TypeOK'
  BY <1>0, <1>12, <1>14 DEF CloseThread
<1>15. ASSUME NEW e \in Ends, wire[Mate(e)] # <<>>, Take(e)
       PROVE  /\ wire' \in [Ends -> Seq(Nat)] /\ \A x \in Ends : Len(wire'[x]) <= Capacity
              /\ Head(wire[Mate(e)]) \in Nat
  <2>1. PICK f : f = Mate(e)
    OBVIOUS
  <2>2. f \in Ends /\ wire[f] \in Seq(Nat) /\ wire[f] # <<>> /\ Len(wire[f]) <= Capacity
    BY <1>0, <1>15, <2>1, MateProperties
  <2>3. /\ Tail(wire[f]) \in Seq(Nat) /\ Len(Tail(wire[f])) = Len(wire[f]) - 1
        /\ Head(wire[f]) \in Nat /\ Len(wire[f]) \in Nat
    BY <2>2, TailElements
  <2>4. Len(Tail(wire[f])) <= Capacity
    BY <2>2, <2>3, LinkConstants
  <2>5. wire' = [wire EXCEPT ![f] = Tail(wire[f])]
    BY <1>15, <2>1 DEF Take
  <2>6. wire' \in [Ends -> Seq(Nat)]
    BY <1>0, <2>3, <2>5
  <2>7. \A x \in Ends : Len(wire'[x]) <= Capacity
    BY <1>0, <2>4, <2>5
  <2> QED
    BY <2>1, <2>3, <2>6, <2>7
<1>16. ASSUME NEW e \in Ends, ReadConnect(e) PROVE TypeOK'
  BY <1>0, <1>12, <1>15, <1>16 DEF ReadConnect
<1>17. ASSUME NEW e \in Ends, ReadMessage(e) PROVE TypeOK'
  <2>1. PICK q : q = owner[e]
    OBVIOUS
  <2>2. PICK new : new = [from |-> Name(e), over |-> e, line |-> Head(wire[Mate(e)])]
    OBVIOUS
  <2>3. /\ Goto(e, "loop", "loop") /\ wire[Mate(e)] # <<>> /\ Take(e) /\ UNCHANGED <<senders, closed>>
        /\ messages' = [messages EXCEPT ![q] = Append(messages[q], new)]
    BY <1>17, <2>1, <2>2 DEF ReadMessage
  <2>4. new \in Message
    <3>1. e \in Made /\ Mate(e) \in Made /\ Mate(e) \in Ends /\ Mate(Mate(e)) = e
      BY <2>3, TakenMade, MateProperties
    <3>2. Name(e) \in Peers /\ Head(wire[Mate(e)]) \in Nat
      BY <1>15, <2>3, <3>1 DEF IInv, EndsMade, Name
    <3>3. Head(wire[Mate(e)]) # 0
      <4>1. PICK l \in DOMAIN wire[Mate(e)] : Head(wire[Mate(e)]) = wire[Mate(e)][l]
        BY <2>3, TakeProperties
      <4>2. thread[e] = "loop"
        BY <2>3 DEF Goto
      <4> QED
        BY <3>1, <4>1, <4>2 DEF IInv, WireInOrder
    <3> QED
      BY <2>2, <3>2, <3>3 DEF Message
  <2>5. ASSUME q \in Peers PROVE Append(messages[q], new) \in Seq(Message)
    <3>1. messages[q] \in Seq(Message)
      BY <1>0, <2>5
    <3> QED
      BY <2>4, <3>1
  <2>6. messages' \in [Peers -> Seq(Message)]
    BY <1>0, <2>3, <2>5
  <2> QED
    BY <1>0, <1>12, <1>15, <2>3, <2>6
<1>18. ASSUME NEW e \in Ends, addSender(e) PROVE TypeOK'
  <2>1. PICK q : q = owner[e]
    OBVIOUS
  <2>2. PICK v : v = senders[q] \cup {e}
    OBVIOUS
  <2>3. senders' = senders \/ senders' = [senders EXCEPT ![q] = v]
    BY <1>18, <2>1, <2>2 DEF addSender
  <2>4. q \in Peers => v \in SUBSET Ends
    BY <1>0, <2>2
  <2>5. senders' \in [Peers -> SUBSET Ends]
    BY <1>0, <2>3, <2>4
  <2> QED
    BY <1>0, <1>12, <1>18, <2>5 DEF addSender
<1>19. ASSUME NEW e \in Ends, deleteSender(e) PROVE TypeOK'
  <2>1. owner[e] \in Peers
    BY <1>19 DEF deleteSender, Goto, IInv, ReadersLinked
  <2>2. senders' \in [Peers -> SUBSET Ends]
    BY <1>0, <1>19 DEF deleteSender
  <2>3. messages' \in [Peers -> Seq(Message)]
    <3>1. /\ messages'[owner[e]] \in Seq(Message)
          /\ \A x \in Peers \ {owner[e]} : messages'[x] = messages[x]
      BY <1>0, <1>19, <2>1, ForgetProperties DEF deleteSender
    <3>2. \A x \in Peers : messages'[x] \in Seq(Message)
      BY <1>0, <3>1
    <3>3. \E v : messages' = [messages EXCEPT ![owner[e]] = v]
      BY <1>19 DEF deleteSender, Forget
    <3> QED
      BY <1>0, <3>2, <3>3
  <2> QED
    BY <1>0, <1>12, <1>19, <2>2, <2>3 DEF deleteSender
<1>20. ASSUME NEW p \in Peers, DialFails(p) \/ SayFails(p) PROVE TypeOK'
  BY <1>3, <1>7, <1>20 DEF DialFails, SayFails
<1> QED
  BY <1>2, <1>3, <1>4, <1>5, <1>8, <1>9, <1>10, <1>11, <1>13, <1>14, <1>16, <1>17, <1>18, <1>19, <1>20
  DEF Next, Main, Thread

\* Every step preserves the invariant.
LEMMA IInvStep == IInv /\ [Next]_vars => IInv'
<1> SUFFICES ASSUME IInv, [Next]_vars PROVE IInv'
  OBVIOUS
<1>1. TypeOK'
  BY TypeStep
<1>2. Rest'
  <2>1. CASE UNCHANGED vars
    <3>1. Calm
      BY <2>1 DEF vars, peerVars, mainVars, Calm
    <3> QED
      BY <3>1, CalmStep
  <2>2. ASSUME NEW p \in Peers, Find(p) \/ SayLock(p) \/ Restart(p) PROVE Rest'
    BY <2>2, CalmMain, CalmStep
  <2>3. ASSUME NEW p \in Peers, NEW q \in Peers, Command(p, q) PROVE Rest'
    BY <2>3, CommandStep
  <2>4. ASSUME NEW p \in Peers, Dial(p) \/ Say(p) \/ Die(p) PROVE Rest'
    BY <2>4, DialStep, SayStep, DieStep
  <2>5. ASSUME NEW p \in Peers, AddSender(p) PROVE Rest'
    <3>1. CASE lookupUser(p, mwho[p]) # NoEnd
      BY <2>5, <3>1, CalmMain, CalmStep DEF AddSender
    <3>2. CASE lookupUser(p, mwho[p]) = NoEnd
      BY <2>5, <3>2, AddSenderStep
    <3> QED
      BY <3>1, <3>2
  <2>6. ASSUME NEW p \in Peers, DialFails(p) \/ SayFails(p) PROVE Rest'
    <3>1. CASE Die(p)
      BY <3>1, DieStep
    <3>2. CASE Over(p, "say") /\ UNCHANGED wire
      BY <3>2, CalmMain, CalmStep
    <3> QED
      BY <2>6, <3>1, <3>2 DEF DialFails, SayFails
  <2>7. ASSUME NEW e \in Ends, Accept(e) \/ EndOfFile(e) \/ CloseThread(e) PROVE Rest'
    BY <2>7, CalmThread, CalmStep
  <2>8. ASSUME NEW e \in Ends, addSender(e) PROVE Rest'
    <3>1. CASE lookupUser(owner[e], Name(e)) # NoEnd
      BY <2>8, <3>1, CalmThread, CalmStep
    <3>2. CASE lookupUser(owner[e], Name(e)) = NoEnd
      BY <2>8, <3>2, addSenderStep
    <3> QED
      BY <3>1, <3>2
  <2>9. ASSUME NEW e \in Ends, ReadConnect(e) \/ ReadMessage(e) \/ deleteSender(e) PROVE Rest'
    BY <2>9, ReadConnectStep, ReadMessageStep, deleteSenderStep
  <2> QED
    BY <2>1, <2>2, <2>3, <2>4, <2>5, <2>6, <2>7, <2>8, <2>9 DEF Next, Main, Thread
<1> QED
  BY <1>1, <1>2 DEF IInv, Rest

\* The invariant holds in every reachable state.
LEMMA Inductive == Spec => []IInv
BY InitIInv, IInvStep, PTL DEF Spec

--------------------------------------------------------------------------------
\* Every variable has its type: no connection ever holds more lines than it takes,
\* and what is stored are messages, never a connect line.
THEOREM TypeCorrect == Spec => []TypeOK
<1>1. IInv => TypeOK
  BY DEF IInv
<1> QED
  BY <1>1, Inductive, PTL

\* Through crossed calls, ends and restarts, what a peer has from a user came over
\* one connection, the one it answers on, and in the order the user sent it.
THEOREM UsersHaveOneVoice == Spec => []OneVoice
<1>1. ASSUME IInv PROVE OneVoice
  <2> SUFFICES ASSUME NEW p \in Peers, NEW i \in DOMAIN messages[p], NEW j \in DOMAIN messages[p],
                      NEW m, m = messages[p][i], NEW n, n = messages[p][j]
               PROVE  /\ m.over \in senders[p]
                      /\ m.from = n.from /\ i < j => m.over = n.over /\ m.line < n.line
    BY DEF OneVoice
  <2>1. m.over \in senders[p] /\ n.over \in senders[p] /\ m.from = Name(m.over) /\ n.from = Name(n.over)
    BY <1>1 DEF IInv, MessagesInOrder
  <2>2. m.from = n.from => m.over = n.over
    <3>1. \A e, f \in senders[p] : Name(e) = Name(f) => e = f
      BY <1>1 DEF IInv, NodesOwned
    <3> QED
      BY <2>1, <3>1
  <2>3. m.over = n.over /\ i < j => m.line < n.line
    BY <1>1 DEF IInv, MessagesInOrder
  <2> QED
    BY <2>1, <2>2, <2>3
<1> QED
  BY <1>1, Inductive, PTL
================================================================================
