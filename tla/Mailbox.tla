-------------------------------- MODULE Mailbox --------------------------------
(***************************************************************************)
(* What the message server of a peer promises its user: a bounded box of   *)
(* messages.  A user talks over one connection at a time; its lines come   *)
(* into the box in their order, each at most once; and they leave it only  *)
(* when they are shown or when their sender leaves, and never later than   *)
(* that.  Lists, arrays, mutexes and threads belong to MessageServer,      *)
(* which implements this specification.                                    *)
(***************************************************************************)
EXTENDS Naturals, Sequences

CONSTANTS Conns, Names, NoName, Capacity

VARIABLES
  talker,   \* talker[c]: the user who talks over c, or NoName
  leaving,  \* the connections of users who have said their last
  heard,    \* heard[c]: how many lines c has been asked for
  box       \* the messages: who sent it, and which of its lines it was

vars == <<talker, leaving, heard, box>>

Talks(c) == talker[c] # NoName /\ c \notin leaving

\* The messages of the connections in S go; the others stay, in their order.
Forget(S) ==
  LET others == {i \in DOMAIN box : box[i].sender \notin S} IN
  \E n \in 0 .. Len(box) : \E at \in [1 .. n -> others] :
    /\ \A j, k \in 1 .. n : j < k => at[j] < at[k]
    /\ \A i \in others : \E j \in 1 .. n : at[j] = i
    /\ box' = [j \in 1 .. n |-> box[at[j]]]

Init ==
  /\ talker = [c \in Conns |-> NoName]
  /\ leaving = {}
  /\ heard = [c \in Conns |-> 0]
  /\ box = <<>>

\* A user nobody talks for begins to; its first line may have said who it is.
Join(c, n, first) ==
  /\ talker[c] = NoName
  /\ \A d \in Conns : talker[d] # n
  /\ talker' = [talker EXCEPT ![c] = n]
  /\ heard' = [heard EXCEPT ![c] = first]
  /\ UNCHANGED <<leaving, box>>

\* The next line of a talking user is a message.  A full box drops it.
Hear(c) ==
  /\ Talks(c)
  /\ heard' = [heard EXCEPT ![c] = @ + 1]
  /\ box' = IF Len(box) < Capacity THEN Append(box, [sender |-> c, line |-> heard[c] + 1])
                                   ELSE box
  /\ UNCHANGED <<talker, leaving>>

\* A user says its last: with a line that is no message, or by hanging up.
Bye(c) ==
  /\ Talks(c)
  /\ leaving' = leaving \cup {c}
  /\ heard' = [heard EXCEPT ![c] = @ + 1] \/ UNCHANGED heard
  /\ UNCHANGED <<talker, box>>

\* It is gone, and with it what it said.
Leave(c) ==
  /\ c \in leaving
  /\ talker' = [talker EXCEPT ![c] = NoName]
  /\ leaving' = leaving \ {c}
  /\ heard' = [heard EXCEPT ![c] = 0]
  /\ Forget({c})

\* The user is shown the messages of one sender, or of all.
Show(S) ==
  /\ Forget(S)
  /\ UNCHANGED <<talker, leaving, heard>>

Next ==
  \/ Show(Conns)
  \/ \E c \in Conns :
       \/ Hear(c) \/ Bye(c) \/ Leave(c) \/ Show({c})
       \/ \E n \in Names, first \in {0, 1} : Join(c, n, first)

Spec == Init /\ [][Next]_vars
================================================================================
