--------------------------- MODULE PeerSession_proofs ---------------------------
(***************************************************************************)
(* Theorems about PeerSession, for any names, ports, number of logins and  *)
(* of requests.                                                            *)
(***************************************************************************)
EXTENDS PeerSession, SequenceTheorems, FiniteSetTheorems, TLAPS

AllLines == [is : {"online", "user", "end", "no_user_found", "part"}, whole : BOOLEAN]
Whole(r) == \A i \in DOMAIN r : r[i].whole

\* What a connection was told are registrations.
AnswersTyped ==
  answer \in [Sessions \cup {Other} ->
                [about : {"nothing", "one", "all"}, users : SUBSET (Names \X (Sessions \cup {Other, NoSession}))]]

\* Before its login nothing happens to a session, and the current one is connected.
SessionsBegin ==
  /\ \A k \in Sessions :
       link[k] = "none" => served[k] = "none" /\ request[k] = "none" /\ reply[k] = <<>>
  /\ loggedIn => cur \in Sessions /\ link[cur] # "none"
  /\ mpc # "idle" \/ reused => loggedIn

\* In every session, the current one or not, there are no lines of an answer while a
\* request is under way, and the server works on no other request.
OneRequest ==
  \A k \in Sessions :
    /\ reply[k] # <<>> => request[k] = "none"
    /\ served[k] = "asked" => request[k] # "none"

\* The lines r are what is left of an answer for a main thread that waits for the
\* line expected, or of an answer that was cut off, if need be within its last line.
LeftOf(expected, r) ==
  /\ \A i \in DOMAIN r : ~r[i].whole => i = Len(r)
  /\ expected = "idle" => r = <<>>
  /\ expected = "online" =>
       \A i \in DOMAIN r : /\ r[i].whole => r[i].is \in IF i = 1 THEN {"online"} ELSE {"user", "end"}
                           /\ r[i].is = "end" => i = Len(r)
  /\ expected = "users" =>
       \A i \in DOMAIN r : /\ r[i].whole => r[i].is \in {"user", "end"}
                           /\ r[i].is = "end" => i = Len(r)
  /\ expected = "user" =>
       \A i \in DOMAIN r : Len(r) = 1 /\ (r[i].whole => r[i].is \in {"user", "no_user_found"})

\* Main waits for what the server will write, or has written.
InStep ==
  loggedIn =>
    /\ mpc = "user" => sought \in Names
    /\ mpc = "idle" => request[cur] = "none"
    /\ request[cur] = "list" => mpc = "online"
    /\ request[cur] = "find" => mpc = "user"
    /\ LeftOf(mpc, reply[cur])
    /\ served[cur] # "done" => Whole(reply[cur])
    /\ reply[cur] # <<>> =>
         /\ answer[cur].about = IF mpc = "user" THEN "one" ELSE "all"
         /\ mpc = "user" => \A e \in answer[cur].users : e[1] = sought

\* The inductive invariant.  AnswersInStep looks at the next line only; that the
\* ones behind it will do, and that none is left behind the last, is LeftOf.
IInv ==
  /\ TypeOK
  /\ AnswersTyped
  /\ SessionsBegin
  /\ OneRequest
  /\ InStep

--------------------------------------------------------------------------------
\* What is told of a name is at most one registration, and of all names at most as
\* many as there are names.
LEMMA EntriesProperties ==
  ASSUME TypeOK
  PROVE  /\ \A S \in SUBSET Names : D!Entries(S) \in SUBSET (Names \X (Sessions \cup {Other, NoSession}))
         /\ IsFiniteSet(D!Entries(Names)) /\ Cardinality(D!Entries(Names)) <= Cardinality(Names)
         /\ \A n \in Names : D!Entries({n}) = {} \/ D!Entries({n}) = {<<n, dir[n]>>}
<1>1. dir \in [Names -> Sessions \cup {Other, NoSession}]
  BY DEF TypeOK
<1>2. ASSUME NEW S \in SUBSET Names
      PROVE  D!Entries(S) \in SUBSET (Names \X (Sessions \cup {Other, NoSession}))
  BY <1>1 DEF D!Entries
<1>3. IsFiniteSet(D!Entries(Names)) /\ Cardinality(D!Entries(Names)) <= Cardinality(Names)
  <2>1. PICK held : held = {m \in Names : dir[m] # NoSession}
    OBVIOUS
  <2>2. IsFiniteSet(held) /\ Cardinality(held) <= Cardinality(Names)
    BY <2>1, SessionConstants, FS_Subset
  <2>3. PICK f : f = [n \in held |-> <<n, dir[n]>>]
    OBVIOUS
  <2>4. D!Entries(Names) = {<<n, dir[n]>> : n \in held}
    BY <2>1 DEF D!Entries
  <2>5. f \in Surjection(held, D!Entries(Names))
    BY <2>3, <2>4 DEF Surjection
  <2>6. IsFiniteSet(D!Entries(Names)) /\ Cardinality(D!Entries(Names)) <= Cardinality(held)
    BY <2>2, <2>5, FS_Surjection
  <2>7. Cardinality(D!Entries(Names)) \in Nat /\ Cardinality(held) \in Nat /\ Cardinality(Names) \in Nat
    BY <2>2, <2>6, SessionConstants, FS_CardinalityType
  <2> QED
    BY <2>2, <2>6, <2>7
<1>4. ASSUME NEW n \in Names PROVE D!Entries({n}) = {} \/ D!Entries({n}) = {<<n, dir[n]>>}
  BY DEF D!Entries
<1> QED
  BY <1>2, <1>3, <1>4

\* The lines of a whole list: its head, a line for each user, its end.
LEMMA ListLines ==
  ASSUME NEW t, t.about = "all", IsFiniteSet(t.users)
  PROVE  /\ Lines(t) \in Seq(AllLines)
         /\ Len(Lines(t)) = Cardinality(t.users) + 2
         /\ LeftOf("online", Lines(t)) /\ Whole(Lines(t))
<1>0. PICK online, user, end : online = Line("online") /\ user = Line("user") /\ end = Line("end")
  OBVIOUS
<1>01. /\ online \in AllLines /\ online.is = "online" /\ online.whole
       /\ user \in AllLines /\ user.is = "user" /\ user.whole
       /\ end \in AllLines /\ end.is = "end" /\ end.whole
  BY <1>0 DEF Line, AllLines
<1>1. PICK c : c = Cardinality(t.users)
  OBVIOUS
<1>2. c \in Nat
  BY <1>1, FS_CardinalityType
<1>3. PICK users : users = [i \in 1 .. c |-> user]
  OBVIOUS
<1>4. users \in Seq(AllLines) /\ Len(users) = c /\ \A i \in 1 .. c : users[i] = user
  BY <1>01, <1>2, <1>3
<1>5. PICK a : a = <<online>> \o users
  OBVIOUS
<1>6. a \in Seq(AllLines) /\ Len(a) = c + 1 /\ a[1] = online /\ \A i \in 2 .. c + 1 : a[i] = user
  <2>1. <<online>> \in Seq(AllLines) /\ Len(<<online>>) = 1 /\ <<online>>[1] = online
    BY <1>01
  <2>2. /\ a \in Seq(AllLines) /\ Len(a) = 1 + c
        /\ \A i \in 1 .. 1 + c : a[i] = IF i <= 1 THEN <<online>>[i] ELSE users[i - 1]
    BY <1>4, <1>5, <2>1, ConcatProperties
  <2>3. \A i \in 2 .. c + 1 : i \in 1 .. 1 + c /\ ~(i <= 1) /\ i - 1 \in 1 .. c
    BY <1>2
  <2>4. 1 \in 1 .. 1 + c /\ 1 <= 1 /\ 1 + c = c + 1
    BY <1>2
  <2> QED
    BY <1>4, <2>1, <2>2, <2>3, <2>4
<1>7. PICK r : r = a \o <<end>>
  OBVIOUS
<1>8. /\ r \in Seq(AllLines) /\ Len(r) = c + 2
      /\ r[1] = online /\ r[c + 2] = end /\ \A i \in 2 .. c + 1 : r[i] = user
  <2>1. <<end>> \in Seq(AllLines) /\ Len(<<end>>) = 1 /\ <<end>>[1] = end
    BY <1>01
  <2>2. /\ r \in Seq(AllLines) /\ Len(r) = (c + 1) + 1
        /\ \A i \in 1 .. (c + 1) + 1 : r[i] = IF i <= c + 1 THEN a[i] ELSE <<end>>[i - (c + 1)]
    BY <1>6, <1>7, <2>1, ConcatProperties
  <2>3. \A i \in 2 .. c + 1 : i \in 1 .. (c + 1) + 1 /\ i <= c + 1
    BY <1>2
  <2>4. /\ 1 \in 1 .. (c + 1) + 1 /\ 1 <= c + 1
        /\ c + 2 \in 1 .. (c + 1) + 1 /\ ~(c + 2 <= c + 1) /\ (c + 2) - (c + 1) = 1
        /\ (c + 1) + 1 = c + 2
    BY <1>2
  <2> QED
    BY <1>6, <2>1, <2>2, <2>3, <2>4
<1>9. r = Lines(t)
  BY <1>0, <1>1, <1>3, <1>5, <1>7 DEF Lines
<1>10. ASSUME NEW i \in DOMAIN r
       PROVE  \/ i = 1 /\ r[i] = online
              \/ i # 1 /\ r[i] = user
              \/ i = c + 2 /\ i # 1 /\ r[i] = end
  <2>1. i \in 1 .. c + 2
    BY <1>8
  <2>2. i = 1 \/ i \in 2 .. c + 1 \/ i = c + 2
    BY <1>2, <2>1
  <2> QED
    BY <1>2, <1>8, <2>2
<1>11. \A i \in DOMAIN r : /\ r[i].whole
                           /\ r[i].is \in IF i = 1 THEN {"online"} ELSE {"user", "end"}
                           /\ r[i].is = "end" => i = c + 2
  BY <1>01, <1>10
<1>12. LeftOf("online", r) /\ Whole(r)
  BY <1>8, <1>11 DEF LeftOf, Whole
<1> QED
  BY <1>1, <1>8, <1>9, <1>12

\* The one line about a name.
LEMMA OneLine ==
  ASSUME NEW t, t.about = "one", NEW x, t.users = {} \/ t.users = {x}
  PROVE  /\ Lines(t) \in Seq(AllLines)
         /\ Len(Lines(t)) = 1
         /\ LeftOf("user", Lines(t)) /\ Whole(Lines(t))
<1>1. ASSUME NEW l \in {Line("user"), Line("no_user_found")}, NEW r, r = [i \in 1 .. 1 |-> l]
      PROVE  /\ r \in Seq(AllLines)
             /\ Len(r) = 1
             /\ LeftOf("user", r) /\ Whole(r)
  <2>1. l \in AllLines /\ l.whole /\ l.is \in {"user", "no_user_found"}
    <3>1. PICK kind \in {"user", "no_user_found"} : l = [is |-> kind, whole |-> TRUE]
      BY <1>1 DEF Line
    <3> QED
      BY <3>1 DEF AllLines
  <2>2. r \in Seq(AllLines) /\ Len(r) = 1 /\ \A i \in DOMAIN r : r[i] = l /\ i = 1
    BY <1>1, <2>1
  <2> QED
    BY <2>1, <2>2 DEF LeftOf, Whole
<1>2. CASE t.users = {}
  <2>1. Lines(t) = <<Line("no_user_found")>>
    BY <1>2 DEF Lines
  <2>2. PICK l : l = Line("no_user_found")
    OBVIOUS
  <2>3. <<l>> = [i \in 1 .. 1 |-> l]
    OBVIOUS
  <2> QED
    BY <1>1, <2>1, <2>2, <2>3
<1>3. CASE t.users = {x}
  <2>1. Cardinality(t.users) = 1
    BY <1>3, FS_Singleton
  <2>2. Lines(t) = [i \in 1 .. 1 |-> Line("user")]
    BY <1>3, <2>1 DEF Lines
  <2> QED
    BY <1>1, <2>2
<1> QED
  BY <1>2, <1>3

\* The first lines of a sequence.
LEMMA PrefixProperties ==
  ASSUME NEW S, NEW s \in Seq(S), NEW n \in 0 .. Len(s), NEW r, r = SubSeq(s, 1, n)
  PROVE  r \in Seq(S) /\ Len(r) = n /\ \A i \in 1 .. n : i \in DOMAIN s /\ r[i] = s[i]
<1>1. Len(s) \in Nat /\ \A i \in 1 .. Len(s) : s[i] \in S
  BY LenProperties, ElementOfSeq
<1>2. \A i \in 1 .. n : s[i] \in S
  BY <1>1
<1>3. /\ r \in Seq(S) /\ Len(r) = IF 1 <= n THEN n - 1 + 1 ELSE 0
      /\ \A i \in 1 .. n - 1 + 1 : r[i] = s[1 + i - 1]
  BY <1>1, <1>2, SubSeqProperties
<1>4. Len(r) = n
  BY <1>1, <1>3
<1>5. \A i \in 1 .. n : i \in 1 .. Len(s) /\ i \in 1 .. n - 1 + 1 /\ 1 + i - 1 = i
  BY <1>1
<1>6. \A i \in 1 .. n : r[i] = s[i]
  BY <1>3, <1>5
<1>7. DOMAIN s = 1 .. Len(s)
  BY LenProperties
<1> QED
  BY <1>3, <1>4, <1>5, <1>6, <1>7

\* What ServerDrops leaves of the lines s: n of them and perhaps a part of the next.
CutOff(s, n, r) ==
  \/ r = SubSeq(s, 1, n)
  \/ n < Len(s) /\ \E part \in Cut(s[n + 1]) : r = Append(SubSeq(s, 1, n), part)

\* Each of them is the line it was, or a part of one that comes last.
LEMMA CutOffProperties ==
  ASSUME NEW s \in Seq(AllLines), NEW n \in 0 .. Len(s), NEW r, CutOff(s, n, r)
  PROVE  /\ r \in Seq(AllLines) /\ Len(r) <= Len(s)
         /\ \A i \in DOMAIN r : i \in DOMAIN s /\ (r[i] = s[i] \/ (~r[i].whole /\ i = Len(r)))
<1>1. PICK p : p = SubSeq(s, 1, n)
  OBVIOUS
<1>2. /\ p \in Seq(AllLines) /\ Len(p) = n /\ Len(s) \in Nat /\ n \in Nat /\ n <= Len(s)
      /\ \A i \in 1 .. n : i \in DOMAIN s /\ p[i] = s[i]
      /\ DOMAIN p = 1 .. n /\ DOMAIN s = 1 .. Len(s)
  <2>1. p \in Seq(AllLines) /\ Len(p) = n /\ \A i \in 1 .. n : i \in DOMAIN s /\ p[i] = s[i]
    BY <1>1, PrefixProperties
  <2> QED
    BY <2>1, LenProperties
<1>3. CASE r = p
  BY <1>2, <1>3
<1>4. ASSUME n < Len(s), NEW part \in Cut(s[n + 1]), r = Append(p, part)
      PROVE  /\ r \in Seq(AllLines) /\ Len(r) <= Len(s)
             /\ \A i \in DOMAIN r : i \in DOMAIN s /\ (r[i] = s[i] \/ (~r[i].whole /\ i = Len(r)))
  <2>1. n + 1 \in 1 .. Len(s) /\ n + 1 \in DOMAIN s
    BY <1>2, <1>4
  <2>2. s[n + 1] \in AllLines
    BY <1>2, <2>1, ElementOfSeq
  <2>3. part \in AllLines /\ ~part.whole
    <3>1. PICK kind \in {s[n + 1].is, "part"} : part = [is |-> kind, whole |-> FALSE]
      BY <1>4 DEF Cut
    <3>2. kind \in {"online", "user", "end", "no_user_found", "part"}
      BY <2>2, <3>1 DEF AllLines
    <3> QED
      BY <3>1, <3>2 DEF AllLines
  <2>4. /\ r \in Seq(AllLines) /\ Len(r) = n + 1 /\ r[n + 1] = part
        /\ \A i \in 1 .. n : r[i] = p[i]
    BY <1>2, <1>4, <2>3, AppendProperties
  <2>5. \A i \in DOMAIN r : i \in 1 .. n \/ i = n + 1
    BY <1>2, <2>4
  <2> QED
    BY <1>2, <2>1, <2>3, <2>4, <2>5
<1> QED
  BY <1>1, <1>3, <1>4 DEF CutOff

\* An answer that is cut off is still the beginning of one.
LEMMA CutProperties ==
  ASSUME NEW s \in Seq(AllLines), NEW n \in 0 .. Len(s), NEW r, CutOff(s, n, r),
         NEW expected \in {"idle", "online", "users", "user"}, LeftOf(expected, s)
  PROVE  LeftOf(expected, r)
<1>1. /\ r \in Seq(AllLines) /\ Len(r) <= Len(s) /\ Len(r) \in Nat /\ Len(s) \in Nat
      /\ \A i \in DOMAIN r : /\ i \in DOMAIN s /\ i \in 1 .. Len(r)
                             /\ r[i] = s[i] \/ (~r[i].whole /\ i = Len(r))
  BY CutOffProperties
<1>2. ASSUME NEW i \in DOMAIN r, i = Len(s) PROVE i = Len(r)
  BY <1>1, <1>2
<1>3. \A i \in DOMAIN r : ~r[i].whole => i = Len(r)
  BY <1>1, <1>2 DEF LeftOf
<1>4. CASE expected = "idle"
  <2>1. Len(s) = 0
    BY <1>4 DEF LeftOf
  <2>2. r = <<>>
    BY <1>1, <2>1
  <2> QED
    BY <1>4, <2>2 DEF LeftOf
<1>5. CASE expected = "online"
  <2>1. ASSUME NEW i \in DOMAIN r
        PROVE  /\ r[i].whole => r[i].is \in IF i = 1 THEN {"online"} ELSE {"user", "end"}
               /\ r[i].is = "end" => i = Len(r)
    BY <1>1, <1>2, <1>5 DEF LeftOf
  <2> QED
    BY <1>3, <1>5, <2>1 DEF LeftOf
<1>6. CASE expected = "users"
  <2>1. ASSUME NEW i \in DOMAIN r
        PROVE  /\ r[i].whole => r[i].is \in {"user", "end"}
               /\ r[i].is = "end" => i = Len(r)
    BY <1>1, <1>2, <1>6 DEF LeftOf
  <2> QED
    BY <1>3, <1>6, <2>1 DEF LeftOf
<1>7. CASE expected = "user"
  <2>1. ASSUME NEW i \in DOMAIN r
        PROVE  Len(r) = 1 /\ (r[i].whole => r[i].is \in {"user", "no_user_found"})
    <3>1. Len(s) = 1 /\ (s[i].whole => s[i].is \in {"user", "no_user_found"})
      BY <1>1, <1>7 DEF LeftOf
    <3> QED
      BY <1>1, <3>1
  <2> QED
    BY <1>3, <1>7, <2>1 DEF LeftOf
<1> QED
  BY <1>4, <1>5, <1>6, <1>7

\* The next line is one main waits for, and the rest what it waits for then; unless
\* the line was cut off, which is then the last.
LEMMA ReadProperties ==
  ASSUME NEW s \in Seq(AllLines), s # <<>>, NEW expected \in {"online", "users", "user"},
         LeftOf(expected, s)
  PROVE  /\ Head(s).whole => After(expected, Head(s).is) # "error"
         /\ ~Head(s).whole => Len(s) = 1
         /\ After(expected, Head(s).is) # "error" =>
              /\ After(expected, Head(s).is) \in {"idle", "users"}
              /\ LeftOf(After(expected, Head(s).is), Tail(s))
         /\ expected = "user" => After(expected, Head(s).is) # "users"
<1>1. PICK r : r = Tail(s)
  OBVIOUS
<1>2. /\ r \in Seq(AllLines) /\ Len(r) = Len(s) - 1 /\ Len(s) \in Nat
      /\ \A i \in DOMAIN r : i + 1 \in DOMAIN s /\ r[i] = s[i + 1] /\ i \in Nat /\ i # 0
      /\ 1 \in DOMAIN s /\ Head(s) = s[1]
      /\ Len(s) = 1 => r = <<>>
  BY <1>1
<1>3. PICK h : h = Head(s)
  OBVIOUS
<1>4. PICK to : to = After(expected, h.is)
  OBVIOUS
<1>5. to \in {"users", "idle", "error"} /\ (expected = "user" => to # "users")
  BY <1>4 DEF After
<1>6. CASE ~h.whole
  <2>1. Len(s) = 1 /\ r = <<>>
    BY <1>2, <1>3, <1>6 DEF LeftOf
  <2>2. to # "error" => LeftOf(to, r)
    BY <1>5, <2>1 DEF LeftOf
  <2> QED
    BY <1>1, <1>3, <1>4, <1>5, <1>6, <2>1, <2>2
<1>7. ASSUME NEW i \in DOMAIN r PROVE ~r[i].whole => i = Len(r)
  <2>1. ~r[i].whole => i + 1 = Len(s)
    BY <1>2 DEF LeftOf
  <2> QED
    BY <1>2, <2>1
<1>8. CASE h.whole /\ expected = "online"
  <2>1. h.is = "online"
    BY <1>2, <1>3, <1>8 DEF LeftOf
  <2>2. to = "users"
    BY <1>4, <1>8, <2>1 DEF After
  <2>3. ASSUME NEW i \in DOMAIN r
        PROVE  (r[i].whole => r[i].is \in {"user", "end"}) /\ (r[i].is = "end" => i = Len(r))
    <3>1. i + 1 \in DOMAIN s /\ i + 1 # 1 /\ r[i] = s[i + 1]
      BY <1>2
    <3>2. (s[i + 1].whole => s[i + 1].is \in {"user", "end"}) /\ (s[i + 1].is = "end" => i + 1 = Len(s))
      BY <1>8, <3>1 DEF LeftOf
    <3> QED
      BY <1>2, <3>1, <3>2
  <2>4. LeftOf("users", r)
    BY <1>7, <2>3 DEF LeftOf
  <2> QED
    BY <1>1, <1>3, <1>4, <1>8, <2>2, <2>4
<1>9. CASE h.whole /\ expected = "users"
  <2>1. h.is \in {"user", "end"} /\ (h.is = "end" => Len(s) = 1)
    BY <1>2, <1>3, <1>9 DEF LeftOf
  <2>2. CASE h.is = "end"
    <3>1. to = "idle" /\ r = <<>>
      BY <1>2, <1>4, <1>9, <2>1, <2>2 DEF After
    <3>2. LeftOf("idle", r)
      BY <3>1 DEF LeftOf
    <3> QED
      BY <1>1, <1>3, <1>4, <1>9, <3>1, <3>2
  <2>3. CASE h.is = "user"
    <3>1. to = "users"
      BY <1>4, <1>9, <2>3 DEF After
    <3>2. ASSUME NEW i \in DOMAIN r
          PROVE  (r[i].whole => r[i].is \in {"user", "end"}) /\ (r[i].is = "end" => i = Len(r))
      <4>1. i + 1 \in DOMAIN s /\ r[i] = s[i + 1]
        BY <1>2
      <4>2. (s[i + 1].whole => s[i + 1].is \in {"user", "end"}) /\ (s[i + 1].is = "end" => i + 1 = Len(s))
        BY <1>9, <4>1 DEF LeftOf
      <4> QED
        BY <1>2, <4>1, <4>2
    <3>3. LeftOf("users", r)
      BY <1>7, <3>2 DEF LeftOf
    <3> QED
      BY <1>1, <1>3, <1>4, <1>9, <3>1, <3>3
  <2> QED
    BY <2>1, <2>2, <2>3
<1>10. CASE h.whole /\ expected = "user"
  <2>1. h.is \in {"user", "no_user_found"} /\ Len(s) = 1
    BY <1>2, <1>3, <1>10 DEF LeftOf
  <2>2. to = "idle" /\ r = <<>>
    BY <1>2, <1>4, <1>10, <2>1 DEF After
  <2>3. LeftOf("idle", r)
    BY <2>2 DEF LeftOf
  <2> QED
    BY <1>1, <1>3, <1>4, <1>10, <2>2, <2>3
<1> QED
  BY <1>6, <1>8, <1>9, <1>10

--------------------------------------------------------------------------------
\* The invariants of the exchange with the server.
Exchange == AnswersTyped /\ SessionsBegin /\ OneRequest /\ InStep

\* The directory at the start tells nobody anything.
LEMMA InitIInv == Init => IInv
<1> SUFFICES ASSUME Init PROVE IInv
  OBVIOUS
<1>1. Cardinality(Names) \in Nat
  BY SessionConstants, FS_CardinalityType
<1>2. TypeOK
  <2>1. reply \in [Sessions -> Seq(AllLines)]
    BY DEF Init
  <2>2. \A k \in Sessions : Len(reply[k]) <= Cardinality(Names) + 2
    BY <1>1 DEF Init
  <2>3. asked \in [Sessions -> Nat] /\ \A k \in Sessions : asked[k] <= MaxAsked[k]
    BY SessionConstants DEF Init
  <2>4. dir \in [Names -> Sessions \cup {Other, NoSession}]
    BY DEF Init, D!Init
  <2> QED
    BY <2>1, <2>2, <2>3, <2>4 DEF Init, TypeOK, AllLines
<1>3. AnswersTyped
  BY DEF Init, D!Init, D!NoAnswer, AnswersTyped
<1>4. SessionsBegin /\ OneRequest /\ InStep
  BY DEF Init, SessionsBegin, OneRequest, InStep
<1> QED
  BY <1>2, <1>3, <1>4 DEF IInv

\* What the steps outside the exchange leave alone; one may close the connection.
Apart ==
  /\ UNCHANGED <<loggedIn, cur, mpc, sought, served, request, reply, answer>>
  /\ \A k \in Sessions : link'[k] = "none" <=> link[k] = "none"
  /\ reused' => reused

\* The exchange is left as it is.
LEMMA ApartStep ==
  ASSUME IInv, Apart
  PROVE  Exchange'
<1>1. AnswersTyped' /\ SessionsBegin' /\ OneRequest'
  BY DEF IInv, Apart, AnswersTyped, SessionsBegin, OneRequest
<1>2. InStep'
  BY DEF IInv, Apart, InStep, LeftOf, Whole
<1> QED
  BY <1>1, <1>2 DEF Exchange

\* The threads that listen, refused commands, and others.
LEMMA ApartSteps ==
  ASSUME IInv,
         \/ UNCHANGED vars \/ OtherLine \/ OtherClient
         \/ \E k \in Sessions : Listen(k) \/ CancelledEarly(k) \/ destroyThreads(k)
  PROVE  Apart
<1>1. CASE UNCHANGED vars
  BY <1>1 DEF vars, mainVars, threadVars, serverVars, Apart
<1>2. CASE OtherLine
  BY <1>2 DEF OtherLine, threadVars, serverVars, Apart
<1>3. CASE OtherClient
  BY <1>3 DEF OtherClient, D!Release, D!Register, mainVars, threadVars, Apart
<1>4. ASSUME NEW k \in Sessions, Listen(k) \/ CancelledEarly(k) PROVE Apart
  BY <1>4 DEF Listen, CancelledEarly, mainVars, threadVars, serverVars, Apart
<1>5. ASSUME NEW k \in Sessions, destroyThreads(k) PROVE Apart
  <2>1. /\ link' = IF reused THEN Set(link, cur, "closed") ELSE link
        /\ ~reused'
        /\ UNCHANGED <<loggedIn, cur, mpc, sought, served, request, reply, answer>>
    BY <1>5 DEF destroyThreads, mainVars, serverVars
  <2>2. reused => cur \in Sessions /\ link[cur] # "none"
    BY DEF IInv, SessionsBegin
  <2>3. \A j \in Sessions : link'[j] = "none" <=> link[j] = "none"
    BY <2>1, <2>2 DEF Set, IInv, TypeOK
  <2> QED
    BY <2>1, <2>3 DEF Apart
<1> QED
  BY <1>1, <1>2, <1>3, <1>4, <1>5

\* Nothing is left of the process, and the server goes on.
LEMMA DieStep ==
  ASSUME IInv, Die
  PROVE  Exchange'
<1>1. /\ ~loggedIn' /\ mpc' = "idle" /\ ~reused'
      /\ link' = [k \in Sessions |-> IF link[k] = "open" THEN "closed" ELSE link[k]]
      /\ UNCHANGED <<served, request, reply, answer>>
  BY DEF Die, serverVars
<1>2. AnswersTyped' /\ SessionsBegin' /\ OneRequest'
  BY <1>1 DEF IInv, AnswersTyped, SessionsBegin, OneRequest
<1>3. InStep'
  BY <1>1 DEF InStep
<1> QED
  BY <1>2, <1>3 DEF Exchange

\* A new session begins with nothing asked and nothing answered.
LEMMA LoginStep ==
  ASSUME IInv, NEW k \in Sessions, NEW n, NEW p, Login(k, n, p)
  PROVE  Exchange'
<1>1. /\ mpc = "idle" /\ ~loggedIn /\ link[k] = "none"
      /\ loggedIn' /\ cur' = k
      /\ link' = Set(link, k, "open") /\ served' = Set(served, k, "login")
      /\ UNCHANGED <<mpc, sought, reply, answer, request>>
  <2>1. k \in k .. MaxLogins
    BY SessionConstants DEF Sessions
  <2> QED
    BY <2>1 DEF Login
<1>2. /\ link'[k] = "open" /\ \A j \in Sessions \ {k} : link'[j] = link[j]
      /\ served'[k] = "login" /\ \A j \in Sessions \ {k} : served'[j] = served[j]
  BY <1>1 DEF Set, IInv, TypeOK
<1>3. request[k] = "none" /\ reply[k] = <<>>
  BY <1>1 DEF IInv, SessionsBegin
<1>4. AnswersTyped'
  BY <1>1 DEF IInv, AnswersTyped
<1>5. SessionsBegin'
  BY <1>1, <1>2 DEF IInv, SessionsBegin
<1>6. OneRequest'
  BY <1>1, <1>2, <1>3 DEF IInv, OneRequest
<1>7. InStep'
  <2>1. LeftOf("idle", reply[k]) /\ Whole(reply[k])
    BY <1>3 DEF LeftOf, Whole
  <2> QED
    BY <1>1, <1>3, <2>1 DEF InStep
<1> QED
  BY <1>4, <1>5, <1>6, <1>7 DEF Exchange

\* A session is left, be it with a request under way.
LEMMA LogoutStep ==
  ASSUME IInv, logoutUser, loggedIn, mpc' = "idle",
         UNCHANGED <<cur, served, answer, request>>,
         \A k \in Sessions : reply'[k] # <<>> => reply[k] # <<>>
  PROVE  Exchange'
<1>1. cur \in Sessions /\ link[cur] # "none"
  BY DEF IInv, SessionsBegin
<1>2. ~loggedIn' /\ ~reused' /\ link'[cur] = "closed" /\ \A j \in Sessions \ {cur} : link'[j] = link[j]
  BY <1>1 DEF logoutUser, closeClient, Set, IInv, TypeOK
<1>3. AnswersTyped'
  BY DEF IInv, AnswersTyped
<1>4. SessionsBegin'
  BY <1>1, <1>2 DEF IInv, SessionsBegin
<1>5. OneRequest'
  BY <1>2 DEF IInv, OneRequest
<1>6. InStep'
  BY <1>2 DEF InStep
<1> QED
  BY <1>3, <1>4, <1>5, <1>6 DEF Exchange

\* A request is sent when the last answer was read.
LEMMA AskStep ==
  ASSUME IInv, NEW what, NEW n, Ask(what, n),
         (what = "list" /\ n = NoName) \/ (what = "find" /\ n \in Names)
  PROVE  Exchange'
<1>1. /\ mpc = "idle" /\ loggedIn /\ link[cur] = "open"
      /\ request' = Set(request, cur, what)
      /\ mpc' = IF what = "list" THEN "online" ELSE "user"
      /\ sought' = n
      /\ UNCHANGED <<loggedIn, cur, link, reused, served, reply, answer>>
  BY DEF Ask, Command, serverVars, threadVars
<1>2. cur \in Sessions /\ request[cur] = "none" /\ reply[cur] = <<>>
  BY <1>1 DEF IInv, SessionsBegin, InStep, LeftOf
<1>3. request'[cur] = what /\ \A j \in Sessions \ {cur} : request'[j] = request[j]
  BY <1>1, <1>2 DEF Set, IInv, TypeOK
<1>4. AnswersTyped' /\ SessionsBegin'
  BY <1>1, <1>2, <1>3 DEF IInv, AnswersTyped, SessionsBegin
<1>5. OneRequest'
  BY <1>1, <1>2, <1>3 DEF IInv, OneRequest
<1>6. InStep'
  <2>1. LeftOf(mpc', reply[cur]) /\ Whole(reply[cur])
    BY <1>1, <1>2 DEF LeftOf, Whole
  <2> QED
    BY <1>1, <1>2, <1>3, <2>1 DEF InStep
<1> QED
  BY <1>4, <1>5, <1>6 DEF Exchange

\* A line is read that main waits for, or the session ends.
LEMMA ReadLineStep ==
  ASSUME IInv, ReadLine
  PROVE  Exchange'
<1>1. PICK s : s = reply[cur]
  OBVIOUS
<1>2. PICK to : to = After(mpc, Head(s).is)
  OBVIOUS
<1>3. loggedIn /\ cur \in Sessions /\ mpc \in {"online", "users", "user"}
  BY DEF ReadLine, IInv, SessionsBegin, TypeOK
<1>4. /\ s \in Seq(AllLines) /\ s # <<>> /\ request[cur] = "none"
      /\ LeftOf(mpc, s)
  BY <1>1, <1>3 DEF ReadLine, IInv, InStep, OneRequest, TypeOK, AllLines
<1>5. /\ to # "error" => to \in {"idle", "users"} /\ LeftOf(to, Tail(s))
      /\ mpc = "user" => to # "users"
  BY <1>2, <1>3, <1>4, ReadProperties
<1>6. /\ reply' = Set(reply, cur, Tail(s)) /\ mpc' = IF to = "error" THEN "idle" ELSE to
      /\ IF to = "error" THEN logoutUser ELSE UNCHANGED <<loggedIn, link, reused>>
      /\ UNCHANGED <<cur, served, answer, request>>
  BY <1>1, <1>2 DEF ReadLine
<1>7. reply'[cur] = Tail(s) /\ \A j \in Sessions \ {cur} : reply'[j] = reply[j]
  BY <1>3, <1>6 DEF Set, IInv, TypeOK
<1>8. CASE to = "error"
  <2>1. \A k \in Sessions : reply'[k] # <<>> => reply[k] # <<>>
    BY <1>1, <1>4, <1>7
  <2> QED
    BY <1>3, <1>6, <1>8, <2>1, LogoutStep
<1>9. CASE to # "error"
  <2>1. AnswersTyped'
    BY <1>6 DEF IInv, AnswersTyped
  <2>2. SessionsBegin' /\ OneRequest'
    BY <1>3, <1>4, <1>5, <1>6, <1>7, <1>9 DEF IInv, SessionsBegin, OneRequest
  <2>3. to = "users" => answer[cur].about = "all"
    BY <1>1, <1>3, <1>4, <1>5 DEF IInv, InStep
  <2>4. to = "idle" => Tail(s) = <<>>
    BY <1>5, <1>9 DEF LeftOf
  <2>5. served[cur] # "done" => Whole(Tail(s))
    <3>1. served[cur] # "done" => Whole(s)
      BY <1>1, <1>3 DEF IInv, InStep
    <3>2. PICK r : r = Tail(s)
      OBVIOUS
    <3>3. \A i \in DOMAIN r : i + 1 \in DOMAIN s /\ r[i] = s[i + 1]
      BY <1>4, <3>2
    <3> QED
      BY <3>1, <3>2, <3>3 DEF Whole
  <2>6. mpc' = to /\ UNCHANGED <<loggedIn, link, reused>>
    BY <1>6, <1>9
  <2>7. InStep'
    BY <1>4, <1>5, <1>6, <1>7, <1>9, <2>3, <2>4, <2>5, <2>6 DEF InStep
  <2> QED
    BY <2>1, <2>2, <2>7 DEF Exchange
<1> QED
  BY <1>8, <1>9

\* A thread of the server begins or ends, or reads a request.
LEMMA ServerStep ==
  ASSUME IInv, NEW k \in Sessions, ServeLogin(k) \/ ServeRead(k) \/ ServeEnd(k)
  PROVE  Exchange'
<1>1. /\ UNCHANGED <<loggedIn, cur, mpc, sought, link, reused, request, reply>>
      /\ served[k] \in {"login", "loop", "asked"}
      /\ \/ served' = Set(served, k, "loop") /\ served[k] = "login" /\ UNCHANGED answer
         \/ served' = Set(served, k, "done") /\ UNCHANGED answer
         \/ /\ served' = Set(served, k, "asked") /\ request[k] # "none"
            /\ answer' = [answer EXCEPT ![k] = D!NoAnswer]
  <2>1. CASE ServeLogin(k)
    BY <2>1 DEF ServeLogin, D!Register, mainVars, threadVars
  <2>2. CASE ServeRead(k)
    BY <2>2 DEF ServeRead, D!Ask, mainVars, threadVars
  <2>3. CASE ServeEnd(k)
    BY <2>3 DEF ServeEnd, D!Release, mainVars, threadVars
  <2> QED
    BY <2>1, <2>2, <2>3
<1>2. /\ \A j \in Sessions \ {k} : served'[j] = served[j]
      /\ served'[k] \in {"loop", "done", "asked"}
      /\ served'[k] = "asked" => request[k] # "none"
  BY <1>1 DEF Set, IInv, TypeOK
<1>3. AnswersTyped'
  BY <1>1 DEF IInv, AnswersTyped, D!NoAnswer
<1>4. link[k] # "none"
  BY <1>1 DEF IInv, SessionsBegin
<1>5. SessionsBegin'
  BY <1>1, <1>2, <1>4 DEF IInv, SessionsBegin
<1>6. OneRequest'
  BY <1>1, <1>2 DEF IInv, OneRequest
<1>7. InStep'
  <2>1. ASSUME loggedIn, reply[cur] # <<>> PROVE answer'[cur] = answer[cur]
    <3>1. cur \in Sessions /\ request[cur] = "none"
      BY <2>1 DEF IInv, SessionsBegin, OneRequest
    <3>2. answer' = answer \/ (cur # k /\ answer' = [answer EXCEPT ![k] = D!NoAnswer])
      BY <1>1, <3>1
    <3> QED
      BY <3>1, <3>2 DEF IInv, AnswersTyped
  <2>2. ASSUME loggedIn, served'[cur] # "done" PROVE served[cur] # "done"
    <3>1. cur \in Sessions
      BY <2>2 DEF IInv, SessionsBegin
    <3> QED
      BY <1>1, <1>2, <2>2, <3>1
  <2> QED
    BY <1>1, <2>1, <2>2 DEF IInv, InStep
<1> QED
  BY <1>3, <1>5, <1>6, <1>7 DEF Exchange

\* What the server writes is an answer to what it was asked.
LEMMA AnswerProperties ==
  ASSUME IInv, NEW k \in Sessions, ServeAnswer(k)
  PROVE  /\ loggedIn /\ k = cur
         /\ mpc \in {"online", "user"}
         /\ reply' = Set(reply, k, Lines(answer'[k]))
         /\ Lines(answer'[k]) \in Seq(AllLines) /\ Whole(Lines(answer'[k]))
         /\ Len(Lines(answer'[k])) <= Cardinality(Names) + 2
         /\ LeftOf(mpc, Lines(answer'[k]))
         /\ AnswersTyped'
         /\ answer'[k].about = IF mpc = "user" THEN "one" ELSE "all"
         /\ mpc = "user" => \A e \in answer'[k].users : e[1] = sought
<1>1. loggedIn /\ k = cur /\ request[k] # "none" /\ reply[k] = <<>>
  BY DEF ServeAnswer, IInv, OneRequest
<1>2. \/ request[k] = "list" /\ mpc = "online" /\ D!TellAll(k)
      \/ request[k] = "find" /\ mpc = "user" /\ sought \in Names /\ D!TellOne(k, sought)
  BY <1>1 DEF ServeAnswer, IInv, InStep, TypeOK
<1>3. PICK a : a = answer'[k]
  OBVIOUS
<1>4. reply' = Set(reply, k, <<>> \o Lines(a))
  BY <1>1, <1>3 DEF ServeAnswer
<1>5. Cardinality(Names) \in Nat
  BY SessionConstants, FS_CardinalityType
<1>6. CASE request[k] = "list" /\ mpc = "online" /\ D!TellAll(k)
  <2>1. answer' = [answer EXCEPT ![k] = D!AllUsers(D!Entries(Names))]
    BY <1>6 DEF D!TellAll
  <2>2. a = [about |-> "all", users |-> D!Entries(Names)]
    BY <1>3, <2>1 DEF D!AllUsers, IInv, AnswersTyped
  <2>3. /\ D!Entries(Names) \in SUBSET (Names \X (Sessions \cup {Other, NoSession}))
        /\ IsFiniteSet(D!Entries(Names)) /\ Cardinality(D!Entries(Names)) <= Cardinality(Names)
    BY EntriesProperties DEF IInv
  <2>4. AnswersTyped'
    BY <2>1, <2>3 DEF D!AllUsers, IInv, AnswersTyped
  <2>5. /\ Lines(a) \in Seq(AllLines) /\ Whole(Lines(a)) /\ Len(Lines(a)) = Cardinality(D!Entries(Names)) + 2
        /\ LeftOf("online", Lines(a))
    BY <2>2, <2>3, ListLines
  <2>6. Len(Lines(a)) <= Cardinality(Names) + 2
    <3>1. Cardinality(D!Entries(Names)) \in Nat
      BY <2>3, FS_CardinalityType
    <3> QED
      BY <1>5, <2>3, <2>5, <3>1
  <2>7. <<>> \o Lines(a) = Lines(a)
    BY <2>5
  <2> QED
    BY <1>1, <1>3, <1>4, <1>6, <2>2, <2>4, <2>5, <2>6, <2>7
<1>7. CASE request[k] = "find" /\ mpc = "user" /\ sought \in Names /\ D!TellOne(k, sought)
  <2>1. answer' = [answer EXCEPT ![k] = D!OneUser(D!Entries({sought}))]
    BY <1>7 DEF D!TellOne
  <2>2. a = [about |-> "one", users |-> D!Entries({sought})]
    BY <1>3, <2>1 DEF D!OneUser, IInv, AnswersTyped
  <2>3. /\ D!Entries({sought}) \in SUBSET (Names \X (Sessions \cup {Other, NoSession}))
        /\ D!Entries({sought}) = {} \/ D!Entries({sought}) = {<<sought, dir[sought]>>}
    BY <1>7, EntriesProperties DEF IInv
  <2>4. AnswersTyped'
    BY <2>1, <2>3 DEF D!OneUser, IInv, AnswersTyped
  <2>5. Lines(a) \in Seq(AllLines) /\ Whole(Lines(a)) /\ Len(Lines(a)) = 1 /\ LeftOf("user", Lines(a))
    BY <2>2, <2>3, OneLine
  <2>6. Len(Lines(a)) <= Cardinality(Names) + 2
    BY <1>5, <2>5
  <2>7. <<>> \o Lines(a) = Lines(a)
    BY <2>5
  <2>8. \A e \in a.users : e[1] = sought
    BY <2>2, <2>3
  <2>9. a.about = "one" /\ reply' = Set(reply, k, Lines(a))
    BY <1>4, <2>2, <2>7
  <2> QED
    BY <1>1, <1>3, <1>7, <2>4, <2>5, <2>6, <2>8, <2>9
<1> QED
  BY <1>2, <1>6, <1>7

\* The answer is there.
LEMMA ServeAnswerStep ==
  ASSUME IInv, NEW k \in Sessions, ServeAnswer(k)
  PROVE  Exchange'
<1>1. /\ loggedIn /\ k = cur /\ mpc \in {"online", "user"}
      /\ reply' = Set(reply, k, Lines(answer'[k]))
      /\ LeftOf(mpc, Lines(answer'[k])) /\ Whole(Lines(answer'[k]))
      /\ AnswersTyped'
      /\ answer'[k].about = IF mpc = "user" THEN "one" ELSE "all"
      /\ mpc = "user" => \A e \in answer'[k].users : e[1] = sought
  BY AnswerProperties
<1>2. /\ UNCHANGED <<loggedIn, cur, mpc, sought, link, reused>>
      /\ served' = Set(served, k, "loop") /\ request' = Set(request, k, "none")
  BY DEF ServeAnswer, mainVars, threadVars
<1>3. /\ reply'[k] = Lines(answer'[k]) /\ served'[k] = "loop" /\ request'[k] = "none"
      /\ \A j \in Sessions \ {k} : reply'[j] = reply[j] /\ served'[j] = served[j] /\ request'[j] = request[j]
  BY <1>1, <1>2 DEF Set, IInv, TypeOK
<1>4. SessionsBegin' /\ OneRequest'
  BY <1>1, <1>2, <1>3 DEF IInv, SessionsBegin, OneRequest
<1>5. InStep'
  BY <1>1, <1>2, <1>3 DEF IInv, InStep
<1> QED
  BY <1>1, <1>4, <1>5 DEF Exchange

\* A server that ends leaves an answer cut off.
LEMMA DropProperties ==
  ASSUME IInv, NEW k \in Sessions, ServerDrops(k)
  PROVE  \E n \in 0 .. Len(reply[k]) : \E r : CutOff(reply[k], n, r) /\ reply' = Set(reply, k, r)
<1>1. PICK n \in 0 .. Len(reply[k]) :
        \/ reply' = Set(reply, k, SubSeq(reply[k], 1, n))
        \/ /\ n < Len(reply[k])
           /\ \E part \in Cut(reply[k][n + 1]) : reply' = Set(reply, k, Append(SubSeq(reply[k], 1, n), part))
  BY DEF ServerDrops
<1> QED
  BY <1>1 DEF CutOff

\* The server ends in the middle of an answer.
LEMMA ServerDropsStep ==
  ASSUME IInv, NEW k \in Sessions, ServerDrops(k)
  PROVE  Exchange'
<1>0. PICK n \in 0 .. Len(reply[k]) : \E x : CutOff(reply[k], n, x) /\ reply' = Set(reply, k, x)
  BY DropProperties
<1>1. PICK r : CutOff(reply[k], n, r) /\ reply' = Set(reply, k, r)
  BY <1>0
<1>2. /\ UNCHANGED <<loggedIn, cur, mpc, sought, link, reused, request, answer>>
      /\ served[k] \in {"login", "loop", "asked"} /\ served' = Set(served, k, "done")
  BY DEF ServerDrops, D!Release, mainVars, threadVars
<1>3. reply[k] \in Seq(AllLines)
  BY DEF IInv, TypeOK, AllLines
<1>4. r \in Seq(AllLines) /\ Len(r) <= Len(reply[k])
  BY <1>1, <1>3, CutOffProperties
<1>5. reply[k] = <<>> => r = <<>>
  BY <1>3, <1>4
<1>6. /\ reply'[k] = r /\ served'[k] = "done"
      /\ \A j \in Sessions \ {k} : reply'[j] = reply[j] /\ served'[j] = served[j]
  BY <1>1, <1>2 DEF Set, IInv, TypeOK
<1>7. AnswersTyped'
  BY <1>2 DEF IInv, AnswersTyped
<1>8. SessionsBegin' /\ OneRequest'
  BY <1>2, <1>5, <1>6 DEF IInv, SessionsBegin, OneRequest
<1>9. InStep'
  <2>1. ASSUME loggedIn
        PROVE  /\ LeftOf(mpc, reply'[cur])
               /\ reply'[cur] # <<>> => reply[cur] # <<>>
               /\ served'[cur] # "done" => served[cur] # "done" /\ reply'[cur] = reply[cur]
    <3>1. LeftOf(mpc, reply[cur]) /\ cur \in Sessions
      BY <2>1 DEF IInv, InStep, SessionsBegin
    <3>2. CASE cur = k
      <4>1. mpc \in {"idle", "online", "users", "user"}
        BY DEF IInv, TypeOK
      <4>2. LeftOf(mpc, r)
        BY <1>1, <1>3, <3>1, <3>2, <4>1, CutProperties
      <4> QED
        BY <1>5, <1>6, <3>2, <4>2
    <3>3. CASE cur # k
      BY <1>6, <3>1, <3>3
    <3> QED
      BY <3>2, <3>3
  <2> QED
    BY <1>2, <2>1 DEF IInv, InStep
<1> QED
  BY <1>7, <1>8, <1>9 DEF Exchange

--------------------------------------------------------------------------------
\* The types of what belongs to the peer, and to the server.
LEMMA TypeStep ==
  ASSUME IInv, [Next]_vars
  PROVE  TypeOK'
<1>0. /\ ended \in BOOLEAN
      /\ loggedIn \in BOOLEAN
      /\ cur \in Sessions \cup {NoSession}
      /\ mpc \in {"idle", "online", "users", "user"}
      /\ sought \in Names \cup {NoName}
      /\ portString \in Sessions \cup {NoSession}
      /\ uname \in [Sessions -> Names \cup {NoName}]
      /\ told \in [Sessions -> Ports \cup {NoPort}]
      /\ thread \in [Sessions -> {"none", "starting", "accepting", "ended"}]
      /\ cancelled \subseteq Sessions
      /\ bound \in [Sessions -> Ports \cup {NoPort}]
      /\ server_fd \in Sessions \cup {NoSession}
      /\ reused \in BOOLEAN
      /\ link \in [Sessions -> {"none", "open", "closed"}]
      /\ served \in [Sessions -> {"none", "login", "loop", "asked", "done"}]
      /\ request \in [Sessions -> {"none", "list", "find"}]
      /\ reply \in [Sessions -> Seq(AllLines)]
      /\ \A k \in Sessions : Len(reply[k]) <= Cardinality(Names) + 2
      /\ asked \in [Sessions -> Nat] /\ \A k \in Sessions : asked[k] <= MaxAsked[k]
      /\ dir \in [Names -> Sessions \cup {Other, NoSession}]
  BY DEF IInv, TypeOK, AllLines
<1> DEFINE PeerTyped ==
      /\ ended \in BOOLEAN
      /\ loggedIn \in BOOLEAN
      /\ cur \in Sessions \cup {NoSession}
      /\ mpc \in {"idle", "online", "users", "user"}
      /\ sought \in Names \cup {NoName}
      /\ portString \in Sessions \cup {NoSession}
      /\ uname \in [Sessions -> Names \cup {NoName}]
      /\ told \in [Sessions -> Ports \cup {NoPort}]
      /\ thread \in [Sessions -> {"none", "starting", "accepting", "ended"}]
      /\ cancelled \subseteq Sessions
      /\ bound \in [Sessions -> Ports \cup {NoPort}]
      /\ server_fd \in Sessions \cup {NoSession}
      /\ reused \in BOOLEAN
      /\ link \in [Sessions -> {"none", "open", "closed"}]
      /\ asked \in [Sessions -> Nat] /\ \A k \in Sessions : asked[k] <= MaxAsked[k]
<1> DEFINE ServerTyped ==
      /\ served \in [Sessions -> {"none", "login", "loop", "asked", "done"}]
      /\ request \in [Sessions -> {"none", "list", "find"}]
      /\ dir \in [Names -> Sessions \cup {Other, NoSession}]
<1> DEFINE ReplyTyped ==
      /\ reply \in [Sessions -> Seq(AllLines)]
      /\ \A k \in Sessions : Len(reply[k]) <= Cardinality(Names) + 2
<1>1. ASSUME PeerTyped', ServerTyped', ReplyTyped' PROVE TypeOK'
  BY <1>1 DEF TypeOK, AllLines
<1>2. PeerTyped /\ ServerTyped /\ ReplyTyped
  BY <1>0
<1>3. UNCHANGED <<ended, mainVars, loginVars, threadVars, link, asked>> => PeerTyped'
  BY <1>0 DEF mainVars, loginVars, threadVars
<1>4. UNCHANGED <<served, request, dir>> => ServerTyped'
  BY <1>0
<1>5. UNCHANGED reply => ReplyTyped'
  BY <1>0
<1>6. ASSUME NEW k \in Sessions, NEW s \in Seq(AllLines), Len(s) <= Cardinality(Names) + 2,
             reply' = Set(reply, k, s)
      PROVE  ReplyTyped'
  BY <1>0, <1>6 DEF Set
<1>7. ASSUME NEW k \in Sessions, D!Release(k) PROVE dir' \in [Names -> Sessions \cup {Other, NoSession}]
  BY <1>0, <1>7 DEF D!Release
<1> HIDE DEF PeerTyped, ServerTyped, ReplyTyped
<1>8. CASE UNCHANGED vars
  BY <1>1, <1>3, <1>4, <1>5, <1>8 DEF vars, serverVars
<1>9. ASSUME Die PROVE TypeOK'
  <2>1. link' \in [Sessions -> {"none", "open", "closed"}]
    BY <1>0, <1>9 DEF Die
  <2>2. asked' \in [Sessions -> Nat] /\ \A k \in Sessions : asked'[k] <= MaxAsked[k]
    BY <1>9, SessionConstants DEF Die
  <2>3. PeerTyped'
    BY <1>0, <1>9, <2>1, <2>2 DEF Die, PeerTyped
  <2> QED
    BY <1>1, <1>4, <1>5, <1>9, <2>3 DEF Die, serverVars
<1>10. CASE LoginFails \/ Exit \/ PipeBroken
  BY <1>9, <1>10 DEF LoginFails, Exit, PipeBroken
<1>11. CASE OtherLine
  <2>1. PeerTyped'
    BY <1>0, <1>11 DEF OtherLine, Command, loginVars, threadVars, PeerTyped
  <2> QED
    BY <1>1, <1>4, <1>5, <1>11, <2>1 DEF OtherLine, serverVars
<1>12. ASSUME NEW k \in Sessions, NEW n \in Names, NEW p \in Ports, Login(k, n, p) PROVE TypeOK'
  <2>1. PeerTyped'
    BY <1>0, <1>12 DEF Login, Set, PeerTyped
  <2>2. ServerTyped'
    BY <1>0, <1>12 DEF Login, Set, ServerTyped
  <2> QED
    BY <1>1, <1>5, <1>12, <2>1, <2>2 DEF Login
<1>13. logoutUser => /\ loggedIn' \in BOOLEAN /\ link' \in [Sessions -> {"none", "open", "closed"}]
                     /\ cur \in Sessions => cancelled' \subseteq Sessions
                     /\ bound' \in [Sessions -> Ports \cup {NoPort}]
                     /\ reused' \in BOOLEAN
  BY <1>0 DEF logoutUser, closeClient, Set
<1>14. loggedIn \/ mpc # "idle" => cur \in Sessions
  BY DEF IInv, SessionsBegin
<1>15. CASE Logout
  <2>1. PeerTyped'
    BY <1>0, <1>13, <1>14, <1>15 DEF Logout, Command, loginVars, PeerTyped
  <2> QED
    BY <1>1, <1>4, <1>5, <1>15, <2>1 DEF Logout, serverVars
<1>16. CASE LostServer
  <2>1. PeerTyped'
    BY <1>0, <1>13, <1>14, <1>16 DEF LostServer, loginVars, PeerTyped
  <2> QED
    BY <1>1, <1>4, <1>5, <1>16, <2>1 DEF LostServer, serverVars
<1>17. ASSUME NEW what \in {"list", "find"}, NEW n \in Names \cup {NoName}, Ask(what, n) PROVE TypeOK'
  <2>1. asked' \in [Sessions -> Nat] /\ \A k \in Sessions : asked'[k] <= MaxAsked[k]
    <3>1. cur \in Sessions /\ asked[cur] \in Nat /\ asked[cur] < MaxAsked[cur] /\ MaxAsked[cur] \in Nat
      BY <1>0, <1>14, <1>17, SessionConstants DEF Ask
    <3>2. asked[cur] + 1 \in Nat /\ asked[cur] + 1 <= MaxAsked[cur]
      BY <3>1
    <3> QED
      BY <1>0, <1>17, <3>1, <3>2 DEF Ask, Set
  <2>2. PeerTyped'
    BY <1>0, <1>17, <2>1 DEF Ask, Command, loginVars, threadVars, PeerTyped
  <2>3. ServerTyped'
    BY <1>0, <1>17 DEF Ask, Set, serverVars, ServerTyped
  <2> QED
    BY <1>1, <1>5, <1>17, <2>2, <2>3 DEF Ask, serverVars
<1>18. CASE ReadLine
  <2>1. PICK s : s = reply[cur]
    OBVIOUS
  <2>2. s \in Seq(AllLines) /\ s # <<>> /\ Len(s) <= Cardinality(Names) + 2 /\ cur \in Sessions
    BY <1>0, <1>14, <1>18, <2>1 DEF ReadLine
  <2>3. /\ Tail(s) \in Seq(AllLines) /\ Len(Tail(s)) = Len(s) - 1 /\ Len(s) \in Nat
        /\ Cardinality(Names) \in Nat
    BY <2>2, SessionConstants, FS_CardinalityType
  <2>4. reply' = Set(reply, cur, Tail(s)) /\ Len(Tail(s)) <= Cardinality(Names) + 2
    BY <1>18, <2>1, <2>2, <2>3 DEF ReadLine
  <2>5. ReplyTyped'
    BY <1>6, <2>2, <2>3, <2>4
  <2>6. mpc' \in {"idle", "online", "users", "user"} /\ sought' \in Names \cup {NoName}
    BY <1>0, <1>18 DEF ReadLine, After
  <2>7. /\ loggedIn' \in BOOLEAN /\ link' \in [Sessions -> {"none", "open", "closed"}]
        /\ cancelled' \subseteq Sessions
        /\ bound' \in [Sessions -> Ports \cup {NoPort}]
        /\ reused' \in BOOLEAN
    BY <1>0, <1>13, <1>18, <2>2 DEF ReadLine
  <2>8. PeerTyped'
    BY <1>0, <1>18, <2>6, <2>7 DEF ReadLine, loginVars, PeerTyped
  <2> QED
    BY <1>1, <1>4, <1>18, <2>5, <2>8 DEF ReadLine
<1>19. ASSUME NEW k \in Sessions, Receiver(k) \/ AcceptFails(k) PROVE TypeOK'
  <2>1. CASE ListenFails(k) \/ AcceptFails(k)
    BY <1>9, <2>1 DEF ListenFails, AcceptFails
  <2>2. CASE Listen(k)
    <3>1. bound' \in [Sessions -> Ports \cup {NoPort}]
      BY <1>0, <2>2 DEF Listen, Set
    <3>2. PeerTyped'
      BY <1>0, <2>2, <3>1 DEF Listen, Set, mainVars, loginVars, PeerTyped
    <3> QED
      BY <1>1, <1>4, <1>5, <2>2, <3>2 DEF Listen, serverVars
  <2>3. CASE CancelledEarly(k) \/ destroyThreads(k)
    <3>1. bound' \in [Sessions -> Ports \cup {NoPort}] /\ link' \in [Sessions -> {"none", "open", "closed"}]
      BY <1>0, <2>3 DEF CancelledEarly, destroyThreads, Set
    <3>2. PeerTyped'
      BY <1>0, <2>3, <3>1 DEF CancelledEarly, destroyThreads, Set, mainVars, loginVars, PeerTyped
    <3> QED
      BY <1>1, <1>4, <1>5, <2>3, <3>2 DEF CancelledEarly, destroyThreads, serverVars
  <2> QED
    BY <1>19, <2>1, <2>2, <2>3 DEF Receiver
<1>20. ASSUME NEW k \in Sessions, ServeLogin(k) \/ ServeRead(k) \/ ServeEnd(k) PROVE TypeOK'
  <2>1. dir' \in [Names -> Sessions \cup {Other, NoSession}]
    BY <1>0, <1>7, <1>20 DEF ServeLogin, ServeRead, ServeEnd, D!Register, D!Ask
  <2>2. served' \in [Sessions -> {"none", "login", "loop", "asked", "done"}]
    <3>1. \E to \in {"loop", "done", "asked"} : served' = [served EXCEPT ![k] = to]
      BY <1>20 DEF ServeLogin, ServeRead, ServeEnd, Set
    <3> QED
      BY <1>0, <3>1
  <2>3. ServerTyped'
    BY <1>0, <1>20, <2>1, <2>2 DEF ServeLogin, ServeRead, ServeEnd, ServerTyped
  <2>4. PeerTyped' /\ ReplyTyped'
    BY <1>3, <1>5, <1>20 DEF ServeLogin, ServeRead, ServeEnd
  <2> QED
    BY <1>1, <2>3, <2>4
<1>21. ASSUME NEW k \in Sessions, ServeAnswer(k) PROVE TypeOK'
  <2>1. ReplyTyped'
    <3>1. PICK s : s = Lines(answer'[k])
      OBVIOUS
    <3>2. s \in Seq(AllLines) /\ Len(s) <= Cardinality(Names) + 2 /\ reply' = Set(reply, k, s)
      BY <1>21, <3>1, AnswerProperties
    <3> QED
      BY <1>6, <3>2
  <2>2. ServerTyped'
    BY <1>0, <1>21 DEF ServeAnswer, Set, D!TellAll, D!TellOne, ServerTyped
  <2>3. PeerTyped'
    BY <1>3, <1>21 DEF ServeAnswer
  <2> QED
    BY <1>1, <2>1, <2>2, <2>3
<1>22. ASSUME NEW k \in Sessions, ServerDrops(k) PROVE TypeOK'
  <2>0. PICK n \in 0 .. Len(reply[k]) : \E x : CutOff(reply[k], n, x) /\ reply' = Set(reply, k, x)
    BY <1>22, DropProperties
  <2>1. PICK s : CutOff(reply[k], n, s) /\ reply' = Set(reply, k, s)
    BY <2>0
  <2>2. reply[k] \in Seq(AllLines) /\ Len(reply[k]) <= Cardinality(Names) + 2
    BY <1>0
  <2>3. s \in Seq(AllLines) /\ Len(s) <= Len(reply[k])
    BY <2>1, <2>2, CutOffProperties
  <2>4. Len(s) <= Cardinality(Names) + 2
    <3>1. Cardinality(Names) \in Nat /\ Len(reply[k]) \in Nat /\ Len(s) \in Nat
      BY <2>2, <2>3, SessionConstants, FS_CardinalityType
    <3> QED
      BY <2>2, <2>3, <3>1
  <2>5. ReplyTyped'
    BY <1>6, <2>1, <2>2, <2>3, <2>4
  <2>6. ServerTyped'
    BY <1>0, <1>7, <1>22 DEF ServerDrops, Set, ServerTyped
  <2>7. PeerTyped'
    BY <1>3, <1>22 DEF ServerDrops
  <2> QED
    BY <1>1, <2>5, <2>6, <2>7
<1>23. CASE OtherClient
  <2>1. dir' \in [Names -> Sessions \cup {Other, NoSession}]
    BY <1>0, <1>23 DEF OtherClient, D!Release, D!Register
  <2>2. ServerTyped'
    BY <1>0, <1>23, <2>1 DEF OtherClient, ServerTyped
  <2>3. PeerTyped' /\ ReplyTyped'
    BY <1>3, <1>5, <1>23 DEF OtherClient
  <2> QED
    BY <1>1, <2>2, <2>3
<1> QED
  BY <1>8, <1>10, <1>11, <1>12, <1>15, <1>16, <1>17, <1>18, <1>19, <1>20, <1>21, <1>22, <1>23
  DEF Next, User, Server

\* Every step preserves the invariant.
LEMMA IInvStep == IInv /\ [Next]_vars => IInv'
<1> SUFFICES ASSUME IInv, [Next]_vars PROVE IInv'
  OBVIOUS
<1>1. TypeOK'
  BY TypeStep
<1>2. Exchange'
  <2>1. CASE UNCHANGED vars \/ OtherLine \/ OtherClient
    BY <2>1, ApartSteps, ApartStep
  <2>2. ASSUME NEW k \in Sessions, Receiver(k) PROVE Exchange'
    <3>1. CASE ListenFails(k)
      BY <3>1, DieStep DEF ListenFails
    <3> QED
      BY <2>2, <3>1, ApartSteps, ApartStep DEF Receiver
  <2>10. CASE LoginFails \/ Exit \/ PipeBroken \/ \E k \in Sessions : AcceptFails(k)
    BY <2>10, DieStep DEF LoginFails, Exit, PipeBroken, AcceptFails
  <2>3. ASSUME NEW k \in Sessions, NEW n, NEW p, Login(k, n, p) PROVE Exchange'
    BY <2>3, LoginStep
  <2>4. CASE Logout
    BY <2>4, LogoutStep DEF Logout, Command, serverVars
  <2>5. CASE LostServer
    <3>1. loggedIn
      BY <2>5 DEF LostServer, IInv, SessionsBegin
    <3> QED
      BY <2>5, <3>1, LogoutStep DEF LostServer, serverVars
  <2>6. CASE Ask("list", NoName)
    BY <2>6, AskStep
  <2>7. ASSUME NEW n \in Names, Ask("find", n) PROVE Exchange'
    BY <2>7, AskStep
  <2>8. CASE ReadLine
    BY <2>8, ReadLineStep
  <2>9. ASSUME NEW k \in Sessions, Server(k) \/ ServerDrops(k) PROVE Exchange'
    BY <2>9, ServerStep, ServeAnswerStep, ServerDropsStep DEF Server
  <2> QED
    BY <2>1, <2>2, <2>3, <2>4, <2>5, <2>6, <2>7, <2>8, <2>9, <2>10 DEF Next, User
<1> QED
  BY <1>1, <1>2 DEF IInv, Exchange

\* The invariant holds in every reachable state.
LEMMA Inductive == Spec => []IInv
BY InitIInv, IInvStep, PTL DEF Spec

--------------------------------------------------------------------------------
\* Every variable has its type: in no session does the server write ahead more than
\* the lines of one answer.
THEOREM TypeCorrect == Spec => []TypeOK
<1>1. IInv => TypeOK
  BY DEF IInv
<1> QED
  BY <1>1, Inductive, PTL

\* Main and the server keep step through logouts, lost connections and new
\* sessions: what main reads is from the answer to its question, and with the last
\* line nothing is left for the next one.  It waits for what it reads, unless the
\* server was cut off in the middle of that line: then it is the last, and the thread
\* that wrote it has ended.
THEOREM AnswersAreInStep == Spec => []AnswersInStep
<1>1. ASSUME IInv PROVE AnswersInStep
  <2> SUFFICES ASSUME loggedIn
               PROVE  /\ mpc = "idle" => reply[cur] = <<>> /\ (served[cur] # "done" => request[cur] = "none")
                      /\ reply[cur] # <<>> =>
                           /\ IF Head(reply[cur]).whole THEN After(mpc, Head(reply[cur]).is) # "error"
                              ELSE Len(reply[cur]) = 1 /\ served[cur] = "done"
                           /\ answer[cur].about = IF mpc = "user" THEN "one" ELSE "all"
                           /\ mpc = "user" => \A e \in answer[cur].users : e[1] = sought
    BY DEF AnswersInStep
  <2>1. cur \in Sessions /\ reply[cur] \in Seq(AllLines) /\ mpc \in {"idle", "online", "users", "user"}
    BY <1>1 DEF IInv, SessionsBegin, TypeOK, AllLines
  <2>2. /\ mpc = "idle" => request[cur] = "none"
        /\ LeftOf(mpc, reply[cur])
        /\ served[cur] # "done" => Whole(reply[cur])
        /\ reply[cur] # <<>> =>
             /\ answer[cur].about = IF mpc = "user" THEN "one" ELSE "all"
             /\ mpc = "user" => \A e \in answer[cur].users : e[1] = sought
    BY <1>1 DEF IInv, InStep
  <2>3. mpc = "idle" => reply[cur] = <<>>
    BY <2>2 DEF LeftOf
  <2>4. PICK s : s = reply[cur]
    OBVIOUS
  <2>5. s # <<>> =>
          /\ Head(s).whole => After(mpc, Head(s).is) # "error"
          /\ ~Head(s).whole => Len(s) = 1
    BY <2>1, <2>2, <2>3, <2>4, ReadProperties
  <2>6. s # <<>> /\ ~Head(s).whole => ~Whole(s)
    <3>1. s # <<>> => 1 \in DOMAIN s /\ Head(s) = s[1]
      BY <2>1, <2>4
    <3> QED
      BY <3>1 DEF Whole
  <2>7. CASE s = <<>>
    BY <2>2, <2>4, <2>7
  <2>8. CASE s # <<>> /\ Head(s).whole
    <3>1. After(mpc, Head(s).is) # "error"
      BY <2>5, <2>8
    <3>2. IF Head(s).whole THEN After(mpc, Head(s).is) # "error" ELSE Len(s) = 1 /\ served[cur] = "done"
      BY <2>8, <3>1
    <3> QED
      BY <2>2, <2>3, <2>4, <2>8, <3>2
  <2>9. CASE s # <<>> /\ ~Head(s).whole
    <3>1. served[cur] = "done"
      BY <2>2, <2>4, <2>6, <2>9
    <3> QED
      BY <2>2, <2>3, <2>4, <2>5, <2>9, <3>1
  <2> QED
    BY <2>7, <2>8, <2>9
<1> QED
  BY <1>1, Inductive, PTL
================================================================================
