------------------------------- MODULE PeerLinks -------------------------------
(***************************************************************************)
(* Peers that write to each other: /msg of one peer's main thread against  *)
(* the messageReceiverThreads and the main thread of the other, over the   *)
(* connections that either of them dials.  MessageServer looks into one    *)
(* peer; here each is reduced to what the other end can tell: its list of  *)
(* senders, where main and the threads are, what is on the wire.           *)
(*                                                                         *)
(* A connection has two ends, the dialled one and the accepted one.  Only  *)
(* messageUser keeps senderlist_mutex while it may block, so that the      *)
(* mutex of p is taken exactly while mpc[p] is "say".                      *)
(***************************************************************************)
EXTENDS Naturals, Sequences, FiniteSets

CONSTANTS
  Peers,     \* the logged-in peers, each known by its name
  NoPeer,
  NoEnd,
  Calls,     \* <<p, q>>: the user of p may write to q out of the blue
  MaxLinks,  \* bound: connections
  MaxSaid,   \* bound: MaxSaid[p], the messages of p
  MaxStarts, \* bound: MaxStarts[p], how often p is started again
  Capacity   \* the lines a connection holds in one direction

ASSUME LinkConstants ==
  /\ NoPeer \notin Peers
  /\ Calls \subseteq Peers \X Peers
  /\ MaxLinks \in Nat
  /\ {MaxSaid, MaxStarts} \subseteq [Peers -> Nat]
  /\ Capacity \in Nat \ {0}

Links == 1 .. MaxLinks
Ends == [link : Links, side : {"dialled", "accepted"}]
ASSUME NoEndIsNoEnd == NoEnd \notin Ends

VARIABLES
  up,       \* the peers that run
  starts,   \* how often a peer was started again
  mpc,      \* main: "idle", "find", "dial", "add", "sayLock", "say"
  mwho,     \* whom its command is about
  mnode,    \* the node, or the connection, it has in hand
  made,     \* how many connections were made
  owner,    \* owner[e]: the peer that has the end e
  senders,  \* senders[p]: the ends p has a peer_node for
  thread,   \* the thread that reads at an end
  wire,     \* wire[e]: the lines written at e and not read at the other end
  closed,   \* the ends that are closed
  said,     \* how many messages the user of a peer has sent
  messages  \* messages[p]

mainVars == <<mpc, mwho, mnode>>
peerVars == <<up, starts, made, owner>>
vars == <<peerVars, mainVars, senders, thread, wire, closed, said, messages>>

--------------------------------------------------------------------------------
Mate(e) == [e EXCEPT !.side = IF @ = "dialled" THEN "accepted" ELSE "dialled"]
Made == {e \in Ends : e.link <= made}

\* The name in the node for e: connections say the truth about their dialler.
Name(e) == owner[Mate(e)]

\* lookupUser.
lookupUser(p, q) ==
  LET hits == {e \in senders[p] : Name(e) = q} IN IF hits = {} THEN NoEnd ELSE CHOOSE e \in hits : TRUE

MutexFree(p) == mpc[p] # "say"

\* flushMessageFrom: what came over e goes, the rest stays in its order.
Forget(p, e) ==
  LET others == {i \in DOMAIN messages[p] : messages[p][i].over # e} IN
  \E n \in 0 .. Len(messages[p]) : \E at \in [1 .. n -> others] :
    /\ \A j, k \in 1 .. n : j < k => at[j] < at[k]
    /\ \A i \in others : \E j \in 1 .. n : at[j] = i
    /\ messages' = [messages EXCEPT ![p] = [j \in 1 .. n |-> messages[p][at[j]]]]

GotoMain(p, from, to) ==
  /\ p \in up
  /\ mpc[p] = from
  /\ mpc' = [mpc EXCEPT ![p] = to]

Goto(e, from, to) ==
  /\ owner[e] \in up
  /\ thread[e] = from
  /\ thread' = [thread EXCEPT ![e] = to]
  /\ UNCHANGED <<peerVars, mainVars, said>>

\* The process of p ends, and the kernel closes its connections.
Die(p) ==
  /\ p \in up
  /\ up' = up \ {p}
  /\ mpc' = [mpc EXCEPT ![p] = "idle"]
  /\ mwho' = [mwho EXCEPT ![p] = NoPeer]
  /\ mnode' = [mnode EXCEPT ![p] = NoEnd]
  /\ senders' = [senders EXCEPT ![p] = {}]
  /\ messages' = [messages EXCEPT ![p] = <<>>]
  /\ thread' = [e \in Ends |-> IF owner[e] = p THEN "done" ELSE thread[e]]
  /\ closed' = closed \cup {e \in Ends : owner[e] = p}
  /\ UNCHANGED <<starts, made, owner, wire, said>>

\* It is started again, and its user logs in under the same name and port.
Restart(p) ==
  /\ p \notin up
  /\ starts[p] < MaxStarts[p]
  /\ starts' = [starts EXCEPT ![p] = @ + 1]
  /\ up' = up \cup {p}
  /\ UNCHANGED <<made, owner, mainVars, senders, thread, wire, closed, said, messages>>

--------------------------------------------------------------------------------
\* The main thread.

\* /msg q, when the user of p may write to q first or p has a node for q.
Command(p, q) ==
  /\ said[p] < MaxSaid[p]
  /\ lookupUser(p, q) # NoEnd \/ <<p, q>> \in Calls
  /\ GotoMain(p, "idle", IF lookupUser(p, q) = NoEnd THEN "find" ELSE "sayLock")
  /\ mwho' = [mwho EXCEPT ![p] = q]
  /\ mnode' = [mnode EXCEPT ![p] = lookupUser(p, q)]
  /\ said' = [said EXCEPT ![p] = @ + 1]
  /\ UNCHANGED <<peerVars, senders, thread, wire, closed, messages>>

\* The command is over.
Over(p, from) ==
  /\ GotoMain(p, from, "idle")
  /\ mwho' = [mwho EXCEPT ![p] = NoPeer]
  /\ mnode' = [mnode EXCEPT ![p] = NoEnd]
  /\ UNCHANGED <<peerVars, senders, thread, closed, said, messages>>

\* The name server knows q, as it may of a q that has just left, or does not.
Find(p) ==
  \/ GotoMain(p, "find", "dial") /\ UNCHANGED <<peerVars, mwho, mnode, senders, thread, wire, closed, said, messages>>
  \/ Over(p, "find") /\ UNCHANGED wire

\* Open_clientfd and the "connect" line.
Dial(p) ==
  /\ GotoMain(p, "dial", "add")
  /\ mwho[p] \in up
  /\ made < MaxLinks
  /\ made' = made + 1
  /\ LET e == [link |-> made', side |-> "dialled"] IN
       /\ owner' = [owner EXCEPT ![e] = p, ![Mate(e)] = mwho[p]]
       /\ wire' = [wire EXCEPT ![e] = <<0>>]
       /\ mnode' = [mnode EXCEPT ![p] = e]
  /\ UNCHANGED <<up, starts, mwho, senders, thread, closed, said, messages>>

DialFails(p) == mpc[p] = "dial" /\ mwho[p] \notin up /\ Die(p)

\* Mutant: the node gets no thread.
AddNoThread(p) ==
  IF lookupUser(p, mwho[p]) # NoEnd
  THEN Over(p, "add") /\ UNCHANGED wire
  ELSE /\ GotoMain(p, "add", "sayLock")
       /\ senders' = [senders EXCEPT ![p] = @ \cup {mnode[p]}]
       /\ UNCHANGED <<peerVars, mwho, mnode, thread, wire, closed, said, messages>>

\* addSender and the thread of the new node.  If a node for the user has come up
\* since the look for it, the connection stays open and nobody reads it.
AddSender(p) ==
  IF lookupUser(p, mwho[p]) # NoEnd
  THEN Over(p, "add") /\ UNCHANGED wire
  ELSE /\ GotoMain(p, "add", "sayLock")
       /\ senders' = [senders EXCEPT ![p] = @ \cup {mnode[p]}]
       /\ thread' = [thread EXCEPT ![mnode[p]] = "loop"]
       /\ UNCHANGED <<peerVars, mwho, mnode, wire, closed, said, messages>>

SayLock(p) ==
  /\ GotoMain(p, "sayLock", "say")
  /\ UNCHANGED <<peerVars, mwho, mnode, senders, thread, wire, closed, said, messages>>

\* What messageUser writes to: a freed node may name any connection of p.
Targets(p) ==
  IF mnode[p] \in senders[p] THEN {mnode[p]} ELSE {e \in Ends : owner[e] = p /\ e \notin closed}

\* Mutant: messageUser does not wait.
SayAtOnce(p) ==
  /\ Over(p, "say")
  /\ \E e \in Targets(p) : wire' = [wire EXCEPT ![e] = Append(@, said[p])]

\* messageUser waits until the connection takes the line.
Say(p) ==
  /\ Over(p, "say")
  /\ \E e \in Targets(p) :
       /\ Len(wire[e]) < Capacity
       /\ wire' = [wire EXCEPT ![e] = Append(@, said[p])]

\* The other end is closed, or the node freed: the line is lost, or SIGPIPE or a
\* fault ends the process.
SayFails(p) ==
  /\ mpc[p] = "say"
  /\ mnode[p] \notin senders[p] \/ Mate(mnode[p]) \in closed
  /\ (Over(p, "say") /\ UNCHANGED wire) \/ Die(p)

--------------------------------------------------------------------------------
\* The threads.

Accept(e) ==
  /\ e \in Made /\ e.side = "accepted"
  /\ Goto(e, "none", "first")
  /\ UNCHANGED <<senders, wire, closed, messages>>

Take(e) == wire' = [wire EXCEPT ![Mate(e)] = Tail(@)]

ReadConnect(e) ==
  /\ wire[Mate(e)] # <<>>
  /\ Goto(e, "first", "add")
  /\ Take(e)
  /\ UNCHANGED <<senders, closed, messages>>

\* Mutant: a refused connection stays open.
addSenderKeepsOpen(e) ==
  /\ thread[e] = "add" /\ MutexFree(owner[e])
  /\ IF lookupUser(owner[e], Name(e)) # NoEnd
     THEN Goto(e, "add", "done") /\ UNCHANGED senders
     ELSE Goto(e, "add", "loop") /\ senders' = [senders EXCEPT ![owner[e]] = @ \cup {e}]
  /\ UNCHANGED <<wire, closed, messages>>

addSender(e) ==
  /\ thread[e] = "add" /\ MutexFree(owner[e])
  /\ IF lookupUser(owner[e], Name(e)) # NoEnd
     THEN Goto(e, "add", "close") /\ UNCHANGED senders
     ELSE Goto(e, "add", "loop") /\ senders' = [senders EXCEPT ![owner[e]] = @ \cup {e}]
  /\ UNCHANGED <<wire, closed, messages>>

ReadMessage(e) ==
  /\ wire[Mate(e)] # <<>>
  /\ Goto(e, "loop", "loop")
  /\ Take(e)
  /\ messages' = [messages EXCEPT ![owner[e]] =
                    Append(@, [from |-> Name(e), over |-> e, line |-> Head(wire[Mate(e)])])]
  /\ UNCHANGED <<senders, closed>>

\* The other end is closed, and what it wrote is read, or lost because it closed
\* with lines of this end unread.  The connect line is always read: nothing is
\* written the other way before it.
EndOfFile(e) ==
  /\ Mate(e) \in closed
  /\ wire[Mate(e)] = <<>> \/ wire[e] # <<>>
  /\ Goto(e, "loop", "delete")
  /\ UNCHANGED <<senders, wire, closed, messages>>

\* Mutant: deleteSender leaves the messages.
deleteUnflushed(e) ==
  /\ Goto(e, "delete", "close")
  /\ MutexFree(owner[e])
  /\ senders' = [senders EXCEPT ![owner[e]] = @ \ {e}]
  /\ UNCHANGED <<wire, closed, messages>>

deleteSender(e) ==
  /\ Goto(e, "delete", "close")
  /\ MutexFree(owner[e])
  /\ senders' = [senders EXCEPT ![owner[e]] = @ \ {e}]
  /\ Forget(owner[e], e)
  /\ UNCHANGED <<wire, closed>>

CloseThread(e) ==
  /\ Goto(e, "close", "done")
  /\ closed' = closed \cup {e}
  /\ UNCHANGED <<senders, wire, messages>>

--------------------------------------------------------------------------------
Init ==
  /\ up = Peers
  /\ starts = [p \in Peers |-> 0]
  /\ mpc = [p \in Peers |-> "idle"]
  /\ mwho = [p \in Peers |-> NoPeer]
  /\ mnode = [p \in Peers |-> NoEnd]
  /\ made = 0
  /\ owner = [e \in Ends |-> NoPeer]
  /\ senders = [p \in Peers |-> {}]
  /\ thread = [e \in Ends |-> "none"]
  /\ wire = [e \in Ends |-> <<>>]
  /\ closed = {}
  /\ said = [p \in Peers |-> 0]
  /\ messages = [p \in Peers |-> <<>>]

Main(p) == Find(p) \/ Dial(p) \/ DialFails(p) \/ AddSender(p) \/ SayLock(p) \/ Say(p) \/ SayFails(p)
Thread(e) ==
  \/ Accept(e) \/ ReadConnect(e) \/ addSender(e) \/ ReadMessage(e) \/ EndOfFile(e)
  \/ deleteSender(e) \/ CloseThread(e)

Next ==
  \/ \E p \in Peers : Main(p) \/ Die(p) \/ Restart(p) \/ \E q \in Peers : Command(p, q)
  \/ \E e \in Ends : Thread(e)

Spec == Init /\ [][Next]_vars

\* Every thread runs; users need not write, and processes need not end.
FairSpec == Spec /\ (\A p \in Peers : WF_vars(Main(p))) /\ (\A e \in Ends : WF_vars(Thread(e)))

--------------------------------------------------------------------------------
\* Every variable has its type.
TypeOK ==
  /\ up \subseteq Peers
  /\ starts \in [Peers -> Nat] /\ said \in [Peers -> Nat]
  /\ mpc \in [Peers -> {"idle", "find", "dial", "add", "sayLock", "say"}]
  /\ mwho \in [Peers -> Peers \cup {NoPeer}]
  /\ mnode \in [Peers -> Ends \cup {NoEnd}]
  /\ made \in 0 .. MaxLinks
  /\ owner \in [Ends -> Peers \cup {NoPeer}]
  /\ senders \in [Peers -> SUBSET Ends]
  /\ thread \in [Ends -> {"none", "first", "add", "loop", "delete", "close", "done"}]
  /\ wire \in [Ends -> Seq(Nat)] /\ \A e \in Ends : Len(wire[e]) <= Capacity
  /\ closed \subseteq Ends
  /\ \A p \in Peers : starts[p] <= MaxStarts[p] /\ said[p] <= MaxSaid[p]
  /\ messages \in [Peers -> Seq([from : Peers, over : Ends, line : Nat \ {0}])]

\* Through crossed calls, ends and restarts, what a peer has from a user came over
\* one connection, the one it answers on, and in the order the user sent it.
OneVoice ==
  \A p \in Peers : \A i, j \in DOMAIN messages[p] :
    LET m == messages[p][i]
        n == messages[p][j]
    IN  /\ m.over \in senders[p]
        /\ m.from = n.from /\ i < j => m.over = n.over /\ m.line < n.line

\* The owner of e has a node for it, and answers over it.
Answered(e) == \E p \in Peers : e \in senders[p]

\* An open connection that nobody at its dialled end will read: connectToUser found
\* that a node for the user had come up, and gave the new connection up unclosed.
Abandoned(e) ==
  /\ e \in Made \ closed /\ e.side = "dialled" /\ thread[e] = "none"
  /\ mnode[owner[e]] # e /\ ~Answered(e)

\* Main of p waits, with the mutex, on a full connection: nobody will read it, or
\* its reader waits for the mutex of a peer that hangs itself.
Hangs(p) ==
  \E S \in SUBSET Peers : p \in S /\ \A q \in S :
    LET e == Mate(mnode[q]) IN
      /\ mpc[q] = "say" /\ Len(wire[mnode[q]]) = Capacity
      /\ Abandoned(e) \/ (thread[e] = "add" /\ owner[e] \in S)

\* What "getUser will only return NULL, if a connection is already established"
\* says of addSender: a connection a peer answers on becomes one the other peer
\* answers on too, or comes to its end.
LinksAgree ==
  \A e \in Ends : Answered(e) ~> (~Answered(e) \/ Answered(Mate(e)))

\* Unless the dialler gave it up, or hangs, a connection does not stay half made.
HalfMadeEnds ==
  \A e \in Ends :
    Answered(e) ~> (~Answered(e) \/ Answered(Mate(e)) \/ Abandoned(Mate(e)) \/ Hangs(Name(e)))

\* A line that was sent is read, unless one of the two ends is closed, the dialler
\* gave the connection up, or the reader hangs.
LinesAreRead ==
  \A e \in Ends :
    wire[e] # <<>> ~> (\/ wire[e] = <<>> \/ {e, Mate(e)} \cap closed # {}
                      \/ Abandoned(Mate(e)) \/ Hangs(Name(e)))

\* /msg returns, but for two cases and what comes of them: an abandoned connection
\* is full, or peers that dialled each other have filled the connections before a
\* thread of theirs could add its node.
SayReturns == \A p \in Peers : mpc[p] = "say" ~> (mpc[p] # "say" \/ Hangs(p))
================================================================================
