-------------------------- MODULE CommandStream_proofs --------------------------
(***************************************************************************)
(* Theorems about CommandStream, for any text, and any sizes of a line and *)
(* of allocatedObject.                                                     *)
(***************************************************************************)
EXTENDS CommandStream, SequenceTheorems, WellFoundedInduction, TLAPS

\* While a line is read it is not over.
LineUnfinished ==
  pc = "reading" => Len(line) < RIO_BUFSIZE - 1 /\ \A i \in DOMAIN line : line[i] # NL

\* Not more objects are allocated than words were taken.
AllocatedByGets == Len(allocatedObject) <= gets

\* A caller stands at a word or at the terminator, and at no place behind it.
AtAWord ==
  pc = "parsing" =>
    /\ commandChar <= firstOf(line, 1, {NUL})
    /\ charAt(line, commandChar) \notin White

\* The inductive invariant.
IInv ==
  /\ TypeOK
  /\ LineUnfinished
  /\ AllocatedByGets
  /\ AtAWord

--------------------------------------------------------------------------------
\* Every nonempty set of naturals has a least member.
LEMMA LeastOf ==
  ASSUME NEW T, T \subseteq Nat, T # {}
  PROVE  \E x \in T : \A y \in T : x <= y
<1> DEFINE R == OpToRel(<, Nat)
<1>1. R = {ss \in Nat \X Nat : ss[1] < ss[2]}
  BY Zenon DEF OpToRel
<1>2. IsWellFoundedOn(R, Nat)
  BY NatLessThanWellFounded, Zenon
<1> HIDE DEF R
<1>3. PICK x \in T : \A y \in T : ~ (<<y, x>> \in R)
  BY <1>2, WFMin
<1>4. ASSUME NEW y \in T
      PROVE  x <= y
  <2>1. ~ (<<y, x>> \in {ss \in Nat \X Nat : ss[1] < ss[2]})
    BY <1>1, <1>3
  <2> QED BY <2>1
<1> QED BY <1>4

\* Min of it is that member.
LEMMA MinOf ==
  ASSUME NEW T, T \subseteq Nat, T # {}
  PROVE  Min(T) \in T /\ \A y \in T : Min(T) <= y
<1>1. PICK x \in T : \A y \in T : x <= y
  BY LeastOf
<1> QED BY <1>1, Zenon DEF Min

\* firstOf finds the first character of S in the text l from i on, if there is one,
\* and the terminator if not.
LEMMA FirstOf ==
  ASSUME NEW l \in Seq(Chars), NEW i \in 1 .. Len(l) + 1, NEW S
  PROVE  /\ firstOf(l, i, S) \in i .. Len(l) + 1
         /\ firstOf(l, i, S) # Len(l) + 1 => l[firstOf(l, i, S)] \in S
         /\ \A k \in i .. firstOf(l, i, S) - 1 : l[k] \notin S
<1> DEFINE T == {j \in i .. Len(l) + 1 : j = Len(l) + 1 \/ l[j] \in S}
<1>1. Len(l) \in Nat /\ Len(l) + 1 \in T
  OBVIOUS
<1>2. T \subseteq Nat
  BY <1>1
<1>3. Min(T) \in T /\ \A y \in T : Min(T) <= y
  BY <1>1, <1>2, MinOf
<1>4. firstOf(l, i, S) = Min(T)
  BY DEF firstOf
<1> HIDE DEF T
<1>5. PICK m : m = Min(T)
  OBVIOUS
<1>6. m \in i .. Len(l) + 1 /\ (m = Len(l) + 1 \/ l[m] \in S)
  BY <1>3, <1>5 DEF T
<1>7. ASSUME NEW k \in i .. m - 1
      PROVE  l[k] \notin S
  <2>1. k \notin T
    BY <1>1, <1>3, <1>5, <1>6
  <2> QED BY <1>1, <1>6, <2>1 DEF T
<1> QED BY <1>4, <1>5, <1>6, <1>7

\* ignoreWhiteSpace comes to a character that is no white space, or to the
\* terminator, and never beyond the first NUL.
LEMMA IgnoreWhiteSpace ==
  ASSUME NEW l \in Seq(Chars), NEW i \in 1 .. Len(l) + 1
  PROVE  /\ ignoreWhiteSpace(l, i) \in i .. Len(l) + 1
         /\ charAt(l, ignoreWhiteSpace(l, i)) \notin White
         /\ \A k \in i .. ignoreWhiteSpace(l, i) - 1 : l[k] \in White
         /\ i <= firstOf(l, 1, {NUL}) => ignoreWhiteSpace(l, i) <= firstOf(l, 1, {NUL})
<1> DEFINE S == Chars \ White
<1>1. PICK m : m = ignoreWhiteSpace(l, i)
  OBVIOUS
<1>2. /\ m \in i .. Len(l) + 1
      /\ m # Len(l) + 1 => l[m] \in S
      /\ \A k \in i .. m - 1 : l[k] \notin S
  BY <1>1, FirstOf DEF ignoreWhiteSpace
<1>3. NUL \in S /\ NUL \notin White
  BY DEF Chars, White, NUL, SP, NL, CR
<1>4. charAt(l, m) \notin White
  BY <1>2, <1>3 DEF charAt
<1>5. \A k \in i .. m - 1 : l[k] \in White
  <2>1. \A k \in i .. m - 1 : l[k] \in Chars
    BY <1>2
  <2> QED BY <1>2, <2>1
<1>6. ASSUME i <= firstOf(l, 1, {NUL})
      PROVE  m <= firstOf(l, 1, {NUL})
  <2>1. PICK stop : stop = firstOf(l, 1, {NUL})
    OBVIOUS
  <2>2. stop \in 1 .. Len(l) + 1 /\ (stop # Len(l) + 1 => l[stop] = NUL)
    BY <2>1, FirstOf
  <2>3. CASE stop = Len(l) + 1
    BY <1>2, <2>1, <2>3
  <2>4. CASE stop # Len(l) + 1
    BY <1>2, <1>3, <1>5, <1>6, <2>1, <2>2, <2>4
  <2> QED BY <2>3, <2>4
<1> QED BY <1>1, <1>2, <1>4, <1>5, <1>6

\* What a caller takes at a place i is what stands between i and some j, and it
\* leaves him, behind white space only, at a word or the terminator once more.
Taken(got, l, i) ==
  /\ got.at \in i .. Len(l) + 1
  /\ charAt(l, got.at) \notin White
  /\ i <= firstOf(l, 1, {NUL}) => got.at <= firstOf(l, 1, {NUL})
  /\ \E j \in i .. got.at :
       got.word = SubSeq(l, i, j - 1) /\ \A k \in j .. got.at - 1 : l[k] \in White

\* The first of several characters, NUL among them, is not behind the first NUL.
LEMMA NotBehindNul ==
  ASSUME NEW l \in Seq(Chars), NEW i \in 1 .. Len(l) + 1, NEW S, NUL \in S,
         i <= firstOf(l, 1, {NUL})
  PROVE  firstOf(l, i, S) <= firstOf(l, 1, {NUL})
<1>1. PICK m : m = firstOf(l, i, S)
  OBVIOUS
<1>2. PICK stop : stop = firstOf(l, 1, {NUL})
  OBVIOUS
<1>3. stop \in 1 .. Len(l) + 1 /\ (stop # Len(l) + 1 => l[stop] = NUL)
  BY <1>2, FirstOf
<1>4. m \in i .. Len(l) + 1 /\ \A k \in i .. m - 1 : l[k] \notin S
  BY <1>1, FirstOf
<1>5. CASE stop = Len(l) + 1
  BY <1>1, <1>2, <1>4, <1>5
<1>6. CASE stop # Len(l) + 1
  BY <1>1, <1>2, <1>3, <1>4, <1>6
<1> QED BY <1>5, <1>6

\* So it is for commandGetString and commandGetLine.
LEMMA GetUntil ==
  ASSUME NEW l \in Seq(Chars), NEW i \in 1 .. Len(l) + 1, NEW stop, charAt(l, i) \notin White
  PROVE  Taken(commandGetUntil(l, i, stop), l, i)
<1>1. PICK j : j = firstOf(l, i, stop \cup {NUL})
  OBVIOUS
<1>2. j \in i .. Len(l) + 1
  BY <1>1, FirstOf
<1>3. PICK at : at = IF j = i THEN i ELSE ignoreWhiteSpace(l, j)
  OBVIOUS
<1>4. /\ at \in j .. Len(l) + 1
      /\ charAt(l, at) \notin White
      /\ \A k \in j .. at - 1 : l[k] \in White
  BY <1>2, <1>3, IgnoreWhiteSpace
<1>5. ASSUME i <= firstOf(l, 1, {NUL})
      PROVE  at <= firstOf(l, 1, {NUL})
  <2>1. j <= firstOf(l, 1, {NUL})
    BY <1>1, <1>5, NotBehindNul
  <2>2. ignoreWhiteSpace(l, j) <= firstOf(l, 1, {NUL})
    <3>1. j \in 1 .. Len(l) + 1
      BY <1>2
    <3> QED BY <2>1, <3>1, IgnoreWhiteSpace
  <2> QED BY <1>3, <1>5, <2>2
<1>6. PICK got : got = commandGetUntil(l, i, stop)
  OBVIOUS
<1>7. got.at = at /\ got.word = SubSeq(l, i, j - 1)
  BY <1>1, <1>3, <1>6 DEF commandGetUntil
<1>8. \E k \in i .. at : got.word = SubSeq(l, i, k - 1) /\ \A n \in k .. at - 1 : l[n] \in White
  <2>1. j \in i .. at
    BY <1>2, <1>4
  <2> QED BY <1>4, <1>7, <2>1
<1>9. at \in i .. Len(l) + 1
  BY <1>2, <1>4
<1> QED BY <1>4, <1>5, <1>6, <1>7, <1>8, <1>9 DEF Taken

\* And for commandGetInt, even if it fails.
LEMMA GetIntTakes ==
  ASSUME NEW l \in Seq(Chars), NEW i \in 1 .. Len(l) + 1, charAt(l, i) \notin White
  PROVE  Taken(commandGetInt(l, i), l, i)
<1> DEFINE D == {Digits[d] : d \in DOMAIN Digits}
<1>1. PICK j : j = firstOf(l, i, Chars \ D)
  OBVIOUS
<1>2. j \in i .. Len(l) + 1 /\ \A k \in i .. j - 1 : l[k] \notin Chars \ D
  BY <1>1, FirstOf
<1>3. PICK good \in BOOLEAN : good <=> (j > i /\ charAt(l, j) \in White \cup {NUL})
  OBVIOUS
<1>4. PICK at : at = IF good THEN ignoreWhiteSpace(l, j) ELSE j
  OBVIOUS
<1>5. NUL \notin D /\ NUL \in Chars
  <2>1. D = {"0", "1"}
    BY DEF Digits
  <2> QED BY <2>1 DEF NUL, Chars
<1>6. /\ at \in j .. Len(l) + 1
      /\ charAt(l, at) \notin White
      /\ \A k \in j .. at - 1 : l[k] \in White
  <2>1. CASE good
    BY <1>2, <1>4, <2>1, IgnoreWhiteSpace
  <2>2. CASE ~good
    <3>1. charAt(l, j) \notin White
      BY <1>2, <1>3, <2>2
    <3> QED BY <1>2, <1>4, <2>2, <3>1
  <2> QED BY <2>1, <2>2
<1>7. ASSUME i <= firstOf(l, 1, {NUL})
      PROVE  at <= firstOf(l, 1, {NUL})
  <2>1. j <= firstOf(l, 1, {NUL})
    BY <1>1, <1>5, <1>7, NotBehindNul
  <2>2. ignoreWhiteSpace(l, j) <= firstOf(l, 1, {NUL})
    <3>1. j \in 1 .. Len(l) + 1
      BY <1>2
    <3> QED BY <2>1, <3>1, IgnoreWhiteSpace
  <2> QED BY <1>4, <2>1, <2>2
<1>8. PICK got : got = commandGetInt(l, i)
  OBVIOUS
<1>9. got.at = at /\ got.word = SubSeq(l, i, j - 1)
  BY <1>1, <1>3, <1>4, <1>8 DEF commandGetInt
<1>10. \E k \in i .. at : got.word = SubSeq(l, i, k - 1) /\ \A n \in k .. at - 1 : l[n] \in White
  <2>1. j \in i .. at
    BY <1>2, <1>6
  <2> QED BY <1>6, <1>9, <2>1
<1>11. at \in i .. Len(l) + 1
  BY <1>2, <1>6
<1> QED BY <1>6, <1>7, <1>8, <1>9, <1>10, <1>11 DEF Taken

\* What is taken is text.
LEMMA TakenIsText ==
  ASSUME NEW l \in Seq(Chars), NEW i \in 1 .. Len(l) + 1, NEW got, Taken(got, l, i)
  PROVE  got.word \in Seq(Chars)
<1>1. PICK j \in i .. got.at : got.word = SubSeq(l, i, j - 1)
  BY DEF Taken
<1>2. got.at \in i .. Len(l) + 1
  BY DEF Taken
<1>3. i \in Int /\ j - 1 \in Int /\ \A k \in i .. j - 1 : l[k] \in Chars
  BY <1>1, <1>2
<1> QED BY <1>1, <1>3, SubSeqProperties

--------------------------------------------------------------------------------
\* While a line is taken to pieces the caller's place is one of it.
LEMMA InTheLine ==
  ASSUME TypeOK, AtAWord, pc = "parsing"
  PROVE  commandChar \in 1 .. Len(line) + 1 /\ charAt(line, commandChar) \notin White
<1>1. line \in Seq(Chars) /\ commandChar \in 1 .. RIO_BUFSIZE
  BY DEF TypeOK, Unset
<1>2. PICK stop : stop = firstOf(line, 1, {NUL})
  OBVIOUS
<1>3. stop \in 1 .. Len(line) + 1
  BY <1>1, <1>2, FirstOf
<1>4. commandChar <= stop /\ charAt(line, commandChar) \notin White
  BY <1>2 DEF AtAWord
<1> QED BY <1>1, <1>3, <1>4, BufferHoldsAByte

\* A word taken leaves the caller at the next.
LEMMA TakeStep ==
  ASSUME IInv, NEW got, Taken(got, line, commandChar), Take(got),
         Allocate(got.word) \/ UNCHANGED allocatedObject
  PROVE  IInv'
<1>1. pc = "parsing" /\ pc' = "parsing" /\ gets < MaxGets
  BY DEF Take
<1>2. /\ line \in Seq(Chars) /\ Len(line) < RIO_BUFSIZE
      /\ allocatedObject \in Seq(Seq(Chars)) /\ taken \in Seq(Chars)
      /\ gets \in 0 .. MaxGets
      /\ Len(allocatedObject) <= gets
  BY DEF IInv, TypeOK, AllocatedByGets
<1>3. commandChar \in 1 .. Len(line) + 1
  BY <1>1, InTheLine DEF IInv
<1>4. got.word \in Seq(Chars)
  BY <1>2, <1>3, TakenIsText
<1>5. /\ got.at \in commandChar .. Len(line) + 1
      /\ charAt(line, got.at) \notin White
      /\ commandChar <= firstOf(line, 1, {NUL}) => got.at <= firstOf(line, 1, {NUL})
  BY DEF Taken
<1>6. UNCHANGED <<input, rio_buf, line, isCommand, pc>>
  BY DEF Take
<1>7. commandChar' = got.at /\ gets' = gets + 1 /\ taken' = taken \o got.word
  BY DEF Take
<1>8. commandChar' \in 1 .. RIO_BUFSIZE
  BY <1>2, <1>3, <1>5, <1>7, BufferHoldsAByte
<1>9. gets' \in 0 .. MaxGets /\ taken' \in Seq(Chars)
  BY <1>1, <1>2, <1>4, <1>7, CallersFit
<1>10. allocatedObject' \in Seq(Seq(Chars)) /\ Len(allocatedObject') <= gets'
  <2>1. CASE UNCHANGED allocatedObject
    BY <1>2, <1>7, <2>1
  <2>2. CASE Allocate(got.word)
    <3>1. CASE got.word = <<>>
      BY <1>2, <1>7, <2>2, <3>1 DEF Allocate
    <3>2. CASE got.word # <<>>
      <4>1. allocatedObject' = Append(allocatedObject, got.word)
        BY <2>2, <3>2 DEF Allocate
      <4> QED BY <1>2, <1>4, <1>7, <4>1
    <3> QED BY <3>1, <3>2
  <2> QED BY <2>1, <2>2
<1>11. TypeOK'
  BY <1>6, <1>8, <1>9, <1>10 DEF IInv, TypeOK, Unset
<1>12. AtAWord'
  <2>1. commandChar <= firstOf(line, 1, {NUL})
    BY <1>1 DEF IInv, AtAWord
  <2> QED BY <1>5, <1>6, <1>7, <2>1 DEF AtAWord
<1>13. LineUnfinished' /\ AllocatedByGets'
  BY <1>1, <1>10 DEF LineUnfinished, AllocatedByGets
<1> QED BY <1>11, <1>12, <1>13 DEF IInv

\* A line delivered is taken to pieces from its first word on.
LEMMA DeliverStep ==
  ASSUME NEW l \in Seq(Chars), Len(l) < RIO_BUFSIZE, Deliver(l),
         input' \in Seq(Chars), rio_buf' \in Seq(Chars), Len(rio_buf') <= RIO_BUFSIZE
  PROVE  IInv'
<1>1. PICK at : at = ignoreWhiteSpace(l, 1)
  OBVIOUS
<1>2. Len(l) \in Nat /\ 1 \in 1 .. Len(l) + 1
  OBVIOUS
<1>3. at \in 1 .. Len(l) + 1 /\ charAt(l, at) \notin White
  BY <1>1, <1>2, IgnoreWhiteSpace
<1>4. at <= firstOf(l, 1, {NUL})
  <2>1. PICK stop : stop = firstOf(l, 1, {NUL})
    OBVIOUS
  <2>2. 1 <= stop
    BY <1>2, <2>1, FirstOf
  <2> QED BY <1>1, <1>2, <2>1, <2>2, IgnoreWhiteSpace
<1>5. /\ pc' = "parsing" /\ line' = l /\ commandChar' = at
      /\ isCommand' = FALSE /\ gets' = 0 /\ taken' = <<>> /\ allocatedObject' = <<>>
  BY <1>1 DEF Deliver
<1>6. commandChar' \in 1 .. RIO_BUFSIZE
  BY <1>2, <1>3, <1>5, BufferHoldsAByte
<1>7. TypeOK'
  <2>1. gets' \in 0 .. MaxGets
    BY <1>5, CallersFit
  <2>2. isCommand' \in BOOLEAN
    BY <1>5, Zenon
  <2>3. taken' \in Seq(Chars) /\ allocatedObject' \in Seq(Seq(Chars))
    BY <1>5, EmptySeq
  <2>4. line' \in Seq(Chars) /\ Len(line') < RIO_BUFSIZE
    BY <1>5
  <2>5. pc' \in {"reading", "parsing", "ended", "failed", "destroyed", "killed"}
    BY <1>5
  <2> QED BY <1>6, <2>1, <2>2, <2>3, <2>4, <2>5 DEF TypeOK, Unset
<1>8. AtAWord'
  BY <1>3, <1>4, <1>5 DEF AtAWord
<1>9. LineUnfinished' /\ AllocatedByGets'
  BY <1>5 DEF LineUnfinished, AllocatedByGets
<1> QED BY <1>7, <1>8, <1>9 DEF IInv

\* A line with one byte more.
LEMMA LineGrows ==
  ASSUME IInv, pc = "reading", rio_buf # <<>>
  PROVE  /\ Append(line, Head(rio_buf)) \in Seq(Chars)
         /\ Len(Append(line, Head(rio_buf))) = Len(line) + 1
         /\ Len(line) + 1 < RIO_BUFSIZE
         /\ Tail(rio_buf) \in Seq(Chars) /\ Len(Tail(rio_buf)) <= RIO_BUFSIZE
<1>1. /\ line \in Seq(Chars) /\ rio_buf \in Seq(Chars)
      /\ Len(rio_buf) <= RIO_BUFSIZE /\ Len(line) < RIO_BUFSIZE - 1
  BY DEF IInv, TypeOK, LineUnfinished
<1>2. Head(rio_buf) \in Chars /\ Tail(rio_buf) \in Seq(Chars) /\ Len(Tail(rio_buf)) = Len(rio_buf) - 1
  BY <1>1, HeadTailProperties
<1> QED BY <1>1, <1>2, BufferHoldsAByte

LEMMA IInit == Init => IInv
<1> SUFFICES ASSUME Init PROVE IInv
  OBVIOUS
<1>1. TypeOK
  <2>1. input \in Seq(Chars) /\ pc = "reading" /\ isCommand \in BOOLEAN
    BY InputIsText DEF Init
  <2>2. rio_buf = <<>> /\ line = <<>> /\ taken = <<>> /\ allocatedObject = <<>>
    BY DEF Init
  <2>3. rio_buf \in Seq(Chars) /\ line \in Seq(Chars) /\ taken \in Seq(Chars) /\ allocatedObject \in Seq(Seq(Chars))
    BY <2>2, EmptySeq
  <2>4. Len(rio_buf) <= RIO_BUFSIZE /\ Len(line) < RIO_BUFSIZE
    BY <2>2, BufferHoldsAByte
  <2>5. commandChar = Unset /\ gets \in 0 .. MaxGets
    BY CallersFit DEF Init
  <2> QED BY <2>1, <2>3, <2>4, <2>5 DEF TypeOK
<1>2. LineUnfinished /\ AllocatedByGets /\ AtAWord
  BY BufferHoldsAByte DEF Init, LineUnfinished, AllocatedByGets, AtAWord
<1> QED BY <1>1, <1>2 DEF IInv

LEMMA INext == IInv /\ [Next]_vars => IInv'
<1> SUFFICES ASSUME IInv, [Next]_vars PROVE IInv'
  OBVIOUS
<1> USE DEF IInv
<1>1. CASE GetCommand
  <2>1. TypeOK'
    BY <1>1, BufferHoldsAByte DEF GetCommand, TypeOK, wordVars
  <2> QED BY <1>1, <2>1, BufferHoldsAByte
        DEF GetCommand, LineUnfinished, AllocatedByGets, AtAWord, wordVars
<1>2. CASE GetIndicator
  <2>1. pc = "parsing" /\ charAt(line, commandChar) = SLASH
    BY <1>2 DEF GetIndicator
  <2>2. line \in Seq(Chars) /\ Len(line) < RIO_BUFSIZE
    BY DEF TypeOK
  <2>3. commandChar \in 1 .. Len(line)
    BY <2>1, <2>2, InTheLine DEF charAt, SLASH, NUL
  <2>4. PICK at : at = ignoreWhiteSpace(line, commandChar + 1)
    OBVIOUS
  <2>5. commandChar + 1 \in 1 .. Len(line) + 1
    BY <2>2, <2>3
  <2>6. at \in commandChar + 1 .. Len(line) + 1 /\ charAt(line, at) \notin White
    BY <2>2, <2>4, <2>5, IgnoreWhiteSpace
  <2>7. at <= firstOf(line, 1, {NUL})
    <3>1. PICK stop : stop = firstOf(line, 1, {NUL})
      OBVIOUS
    <3>2. stop \in 1 .. Len(line) + 1 /\ (stop # Len(line) + 1 => line[stop] = NUL)
      BY <2>2, <3>1, FirstOf
    <3>3. commandChar <= stop
      BY <2>1, <3>1 DEF AtAWord
    <3>4. commandChar # stop
      BY <2>1, <2>2, <2>3, <3>2 DEF charAt, SLASH, NUL
    <3>5. commandChar + 1 <= stop
      BY <2>2, <2>3, <3>2, <3>3, <3>4
    <3> QED BY <2>2, <2>4, <2>5, <3>1, <3>5, IgnoreWhiteSpace
  <2>8. commandChar' = at /\ isCommand' = TRUE /\ taken' = <<SLASH>>
    BY <1>2, <2>4 DEF GetIndicator
  <2>9. UNCHANGED <<input, rio_buf, line, gets, allocatedObject, pc>>
    BY <1>2 DEF GetIndicator
  <2>10. commandChar' \in 1 .. RIO_BUFSIZE
    BY <2>2, <2>3, <2>6, <2>8, BufferHoldsAByte
  <2>11. <<SLASH>> \in Seq(Chars)
    BY DEF Chars
  <2>12. TypeOK'
    BY <2>8, <2>9, <2>10, <2>11 DEF TypeOK, Unset
  <2>13. AtAWord'
    BY <2>6, <2>7, <2>8, <2>9 DEF AtAWord
  <2> QED BY <2>1, <2>9, <2>12, <2>13 DEF LineUnfinished, AllocatedByGets
<1>3. CASE GetString
  <2>1. PICK got : got = commandGetString(line, commandChar)
    OBVIOUS
  <2>2. Take(got) /\ Allocate(got.word)
    BY <1>3, <2>1 DEF GetString
  <2>3. line \in Seq(Chars) /\ pc = "parsing"
    BY <2>2 DEF TypeOK, Take
  <2>4. Taken(got, line, commandChar)
    BY <2>1, <2>3, InTheLine, GetUntil DEF commandGetString
  <2> QED BY <2>2, <2>4, TakeStep
<1>4. CASE GetLine
  <2>1. PICK got : got = commandGetLine(line, commandChar)
    OBVIOUS
  <2>2. Take(got) /\ Allocate(got.word)
    BY <1>4, <2>1 DEF GetLine
  <2>3. line \in Seq(Chars) /\ pc = "parsing"
    BY <2>2 DEF TypeOK, Take
  <2>4. Taken(got, line, commandChar)
    BY <2>1, <2>3, InTheLine, GetUntil DEF commandGetLine
  <2> QED BY <2>2, <2>4, TakeStep
<1>5. CASE GetInt
  <2>1. PICK got : got = commandGetInt(line, commandChar)
    OBVIOUS
  <2>2. Take(got) /\ UNCHANGED allocatedObject
    BY <1>5, <2>1 DEF GetInt
  <2>3. line \in Seq(Chars) /\ pc = "parsing"
    BY <2>2 DEF TypeOK, Take
  <2>4. Taken(got, line, commandChar)
    BY <2>1, <2>3, InTheLine, GetIntTakes
  <2> QED BY <2>2, <2>4, TakeStep
<1>6. CASE destroyCommandStream
  <2>1. TypeOK'
    BY <1>6 DEF destroyCommandStream, TypeOK
  <2>2. 0 <= gets
    BY DEF TypeOK
  <2> QED BY <1>6, <2>1, <2>2
        DEF destroyCommandStream, LineUnfinished, AllocatedByGets, AtAWord
<1>12. CASE ParseUnset
  <2>1. /\ allocatedObject \in Seq(Seq(Chars)) /\ gets \in 0 .. MaxGets
        /\ Len(allocatedObject) <= gets /\ gets < MaxGets
        /\ pc \in {"ended", "failed"} /\ pc' \in {pc, "killed"}
        /\ UNCHANGED <<input, rio_buf, line, commandChar, isCommand, taken>>
    BY <1>12 DEF ParseUnset, TypeOK, AllocatedByGets
  <2>2. /\ allocatedObject' \in Seq(Seq(Chars)) /\ gets' \in 0 .. MaxGets
        /\ Len(allocatedObject') <= gets'
    <3>1. CASE UNCHANGED <<gets, allocatedObject>>
      BY <2>1, <3>1
    <3>2. CASE \E word \in Strays \cup {<<>>} : Allocate(word) /\ gets' = gets + 1
      <4>1. PICK word \in Strays \cup {<<>>} : Allocate(word) /\ gets' = gets + 1
        BY <3>2
      <4>2. gets' \in 0 .. MaxGets
        BY <2>1, <4>1, CallersFit
      <4>3. CASE word = <<>>
        BY <2>1, <4>1, <4>2, <4>3 DEF Allocate
      <4>4. CASE word # <<>>
        <5>1. word \in Seq(Chars) /\ allocatedObject' = Append(allocatedObject, word)
          BY <4>1, <4>4, StraysAreWords DEF Allocate
        <5> QED BY <2>1, <4>1, <4>2, <5>1
      <4> QED BY <4>3, <4>4
    <3> QED BY <1>12, <3>1, <3>2 DEF ParseUnset
  <2>3. TypeOK'
    BY <2>1, <2>2 DEF TypeOK
  <2> QED BY <2>1, <2>2, <2>3 DEF LineUnfinished, AllocatedByGets, AtAWord
<1>7. CASE Refill
  <2>1. PICK k \in 1 .. Min({Len(input), RIO_BUFSIZE}) :
          rio_buf' = SubSeq(input, 1, k) /\ input' = SubSeq(input, k + 1, Len(input))
    BY <1>7 DEF Refill
  <2>2. input \in Seq(Chars) /\ Len(input) \in Nat
    BY DEF TypeOK
  <2>3. k \in 1 .. Len(input) /\ k <= RIO_BUFSIZE
    <3>1. PICK m : m = Min({Len(input), RIO_BUFSIZE})
      OBVIOUS
    <3>2. m \in {Len(input), RIO_BUFSIZE} /\ m <= Len(input) /\ m <= RIO_BUFSIZE
      BY <2>2, <3>1, BufferHoldsAByte, MinOf
    <3> QED BY <2>1, <2>2, <3>1, <3>2, BufferHoldsAByte
  <2>4. rio_buf' \in Seq(Chars) /\ Len(rio_buf') = k /\ input' \in Seq(Chars)
    BY <2>1, <2>2, <2>3
  <2>5. UNCHANGED <<line, commandChar, isCommand, gets, allocatedObject, taken, pc>>
    BY <1>7 DEF Refill, wordVars
  <2>6. TypeOK'
    BY <2>3, <2>4, <2>5 DEF TypeOK
  <2> QED BY <2>5, <2>6 DEF LineUnfinished, AllocatedByGets, AtAWord
<1>8. CASE ReadFails
  <2>1. TypeOK'
    BY <1>8 DEF ReadFails, TypeOK, wordVars
  <2> QED BY <1>8, <2>1
        DEF ReadFails, LineUnfinished, AllocatedByGets, AtAWord, wordVars
<1>9. CASE CopyByte
  <2>1. pc = "reading" /\ rio_buf # <<>> /\ rio_buf' = Tail(rio_buf) /\ input' = input
    BY <1>9 DEF CopyByte
  <2>2. PICK l : l = Append(line, Head(rio_buf))
    OBVIOUS
  <2>3. /\ l \in Seq(Chars) /\ Len(l) = Len(line) + 1 /\ Len(l) < RIO_BUFSIZE
        /\ rio_buf' \in Seq(Chars) /\ Len(rio_buf') <= RIO_BUFSIZE
    BY <2>1, <2>2, LineGrows
  <2>4. input' \in Seq(Chars)
    BY <2>1 DEF TypeOK
  <2>5. CASE Complete(l)
    <3>1. Deliver(l)
      BY <1>9, <2>2, <2>5 DEF CopyByte
    <3> QED BY <2>3, <2>4, <3>1, DeliverStep
  <2>6. CASE ~Complete(l)
    <3>1. line' = l
      BY <1>9, <2>2, <2>6 DEF CopyByte
    <3>2. UNCHANGED <<commandChar, isCommand, gets, allocatedObject, taken, pc>>
      BY <1>9, <2>2, <2>6 DEF CopyByte, wordVars
    <3>3. TypeOK'
      BY <2>3, <2>4, <3>1, <3>2 DEF TypeOK
    <3>4. LineUnfinished'
      <4>1. l # <<>> /\ l[Len(l)] # NL /\ Len(l) # RIO_BUFSIZE - 1
        <5>1. Len(line) \in Nat
          BY DEF TypeOK
        <5>2. l # <<>>
          BY <2>3, <5>1
        <5> QED BY <2>6, <5>2 DEF Complete
      <4>2. Len(l) < RIO_BUFSIZE - 1
        BY <2>3, <4>1, BufferHoldsAByte
      <4>3. ASSUME NEW i \in DOMAIN l
            PROVE  l[i] # NL
        <5>1. CASE i = Len(l)
          BY <4>1, <5>1
        <5>2. CASE i # Len(l)
          <6>1. i \in 1 .. Len(line) /\ line \in Seq(Chars) /\ rio_buf \in Seq(Chars)
            BY <2>3, <5>2 DEF TypeOK
          <6>2. Head(rio_buf) \in Chars
            BY <2>1, <6>1, HeadTailProperties
          <6>3. l[i] = line[i]
            BY <2>2, <6>1, <6>2, AppendProperties
          <6>4. i \in DOMAIN line
            BY <6>1
          <6> QED BY <2>1, <6>3, <6>4 DEF LineUnfinished
        <5> QED BY <5>1, <5>2
      <4> QED BY <3>1, <4>2, <4>3 DEF LineUnfinished
    <3> QED BY <2>1, <3>2, <3>3, <3>4 DEF AllocatedByGets, AtAWord
  <2> QED BY <2>5, <2>6
<1>10. CASE EndOfFile
  <2>1. input' \in Seq(Chars) /\ rio_buf' \in Seq(Chars) /\ Len(rio_buf') <= RIO_BUFSIZE
    BY <1>10 DEF EndOfFile, TypeOK
  <2>2. CASE line # <<>>
    <3>1. Deliver(line)
      BY <1>10, <2>2 DEF EndOfFile
    <3>2. PICK l : l = line
      OBVIOUS
    <3>3. l \in Seq(Chars) /\ Len(l) < RIO_BUFSIZE
      BY <3>2 DEF TypeOK
    <3>4. Deliver(l)
      BY <3>1, <3>2 DEF Deliver
    <3> QED BY <2>1, <3>3, <3>4, DeliverStep
  <2>3. CASE line = <<>>
    <3>1. pc' = "ended" /\ UNCHANGED <<input, rio_buf, line, wordVars>>
      BY <1>10, <2>3 DEF EndOfFile
    <3>2. TypeOK'
      BY <3>1 DEF TypeOK, wordVars
    <3> QED BY <3>1, <3>2 DEF LineUnfinished, AllocatedByGets, AtAWord, wordVars
  <2> QED BY <2>2, <2>3
<1>11. CASE UNCHANGED vars
  <2>1. TypeOK'
    BY <1>11 DEF vars, wordVars, TypeOK
  <2> QED BY <1>11, <2>1 DEF vars, wordVars, LineUnfinished, AllocatedByGets, AtAWord
<1> QED BY <1>1, <1>2, <1>3, <1>4, <1>5, <1>6, <1>7, <1>8, <1>9, <1>10, <1>11, <1>12 DEF Next

LEMMA Invariance == Spec => []IInv
<1> QED BY IInit, INext, PTL DEF Spec

--------------------------------------------------------------------------------
\* Whatever is sent, in whatever pieces it arrives, and in whatever order the callers
\* take a line to pieces, every variable keeps its type; above all a line leaves
\* room for its terminator, and while it is taken to pieces the position is set and
\* inside the array, though makeCommandStream sets none and two of the callers go on
\* after a first getCommand that failed.
THEOREM TypeCorrect == Spec => []TypeOK
<1>1. IInv => TypeOK
  BY DEF IInv
<1> QED BY <1>1, Invariance, PTL

\* allocatedObject, whose index the code does not check, never overflows as long as
\* no caller takes more words than it has entries, from a line or from memory that
\* holds none.
THEOREM ObjectsFit == Spec => []AllocatedFits
<1>1. IInv => AllocatedFits
  <2> SUFFICES ASSUME IInv PROVE AllocatedFits
    OBVIOUS
  <2>1. Len(allocatedObject) <= gets /\ gets \in 0 .. MaxGets /\ Len(allocatedObject) \in Nat
    BY DEF IInv, TypeOK, AllocatedByGets
  <2> QED BY <2>1, CallersFit DEF AllocatedFits
<1> QED BY <1>1, Invariance, PTL

\* commandHasNext answers for the whole rest of the line though it looks at one
\* character, because every operation leaves the caller behind the white space.
THEOREM HasNextIsRight == Spec => []HasNextMeansWord
<1>1. IInv => HasNextMeansWord
  <2> SUFFICES ASSUME IInv, pc = "parsing",
                      NEW stop, stop = firstOf(line, 1, {NUL})
               PROVE  /\ commandChar <= stop
                      /\ commandHasNext <=> \E i \in commandChar .. stop - 1 : line[i] \notin White
    BY DEF HasNextMeansWord
  <2>1. line \in Seq(Chars) /\ commandChar \in 1 .. Len(line) + 1
    BY InTheLine DEF IInv, TypeOK
  <2>2. charAt(line, commandChar) \notin White /\ commandChar <= stop
    BY DEF IInv, AtAWord
  <2>3. /\ stop \in 1 .. Len(line) + 1
        /\ stop # Len(line) + 1 => line[stop] = NUL
        /\ \A k \in 1 .. stop - 1 : line[k] # NUL
    BY <2>1, FirstOf
  <2>4. CASE commandChar = stop
    <3>1. ~commandHasNext
      BY <2>1, <2>3, <2>4 DEF commandHasNext, charAt
    <3>2. ~ \E i \in commandChar .. stop - 1 : line[i] \notin White
      BY <2>1, <2>3, <2>4
    <3> QED BY <2>2, <3>1, <3>2
  <2>5. CASE commandChar # stop
    <3>1. commandChar \in 1 .. stop - 1 /\ commandChar \in 1 .. Len(line)
      BY <2>1, <2>2, <2>3, <2>5
    <3>2. charAt(line, commandChar) = line[commandChar]
      BY <2>1, <3>1 DEF charAt
    <3>3. commandHasNext
      BY <2>3, <3>1, <3>2 DEF commandHasNext
    <3>4. commandChar \in commandChar .. stop - 1 /\ line[commandChar] \notin White
      BY <2>2, <2>3, <3>1, <3>2
    <3> QED BY <2>2, <3>3, <3>4
  <2> QED BY <2>4, <2>5
<1> QED BY <1>1, Invariance, PTL

--------------------------------------------------------------------------------
\* A byte copied from the buffer to the line changes nothing of the two together.
LEMMA ByteMoves ==
  ASSUME NEW s \in Seq(Chars), NEW t \in Seq(Chars), t # <<>>
  PROVE  Append(s, Head(t)) \o Tail(t) = s \o t
<1>1. PICK h : h = Head(t)
  OBVIOUS
<1>2. PICK r : r = Tail(t)
  OBVIOUS
<1>3. h \in Chars /\ r \in Seq(Chars)
  BY <1>1, <1>2, HeadTailProperties
<1>4. t = <<h>> \o r
  BY <1>1, <1>2, <1>3
<1>5. Append(s, h) = s \o <<h>>
  BY <1>3, AppendIsConcat
<1>6. <<h>> \in Seq(Chars)
  BY <1>3
<1> QED BY <1>1, <1>2, <1>3, <1>4, <1>5, <1>6, ConcatAssociative

\* The first line of a text is what stands before the rest, if that is a line and
\* no shorter part of it is.
LEMMA FirstLineIs ==
  ASSUME NEW l \in Seq(Chars), NEW t \in Seq(Chars),
         l # <<>>, Len(l) < RIO_BUFSIZE, \A i \in 1 .. Len(l) - 1 : l[i] # NL,
         Complete(l) \/ t = <<>>
  PROVE  FirstLine(l \o t) = l
<1>1. PICK s : s = l \o t
  OBVIOUS
<1>2. PICK n : n = Len(l)
  OBVIOUS
<1>3. n \in Nat /\ n >= 1 /\ n < RIO_BUFSIZE
  BY <1>2
<1>4. s \in Seq(Chars) /\ Len(s) = n + Len(t) /\ \A i \in 1 .. n : s[i] = l[i]
  <2>1. \A i \in 1 .. n + Len(t) : s[i] = IF i <= n THEN l[i] ELSE t[i - n]
    BY <1>1, <1>2, ConcatProperties
  <2> QED BY <1>1, <1>2, <1>3, <2>1
<1> DEFINE ends == {k \in DOMAIN s : s[k] = NL \/ k = Len(s) \/ k = RIO_BUFSIZE - 1}
<1>5. n \in ends
  <2>1. n \in DOMAIN s
    BY <1>3, <1>4
  <2>2. CASE Complete(l)
    BY <1>2, <1>3, <1>4, <2>1, <2>2 DEF Complete
  <2>3. CASE t = <<>>
    BY <1>3, <1>4, <2>1, <2>3
  <2> QED BY <2>1, <2>2, <2>3
<1>6. \A k \in ends : n <= k
  <2> SUFFICES ASSUME NEW k \in DOMAIN s, k < n
               PROVE  s[k] # NL /\ k # Len(s) /\ k # RIO_BUFSIZE - 1
    BY <1>3, <1>4
  <2>1. k \in 1 .. n - 1
    BY <1>3, <1>4
  <2>2. s[k] # NL
    BY <1>2, <1>4, <2>1
  <2>3. k \in Nat /\ k # Len(s)
    BY <1>1, <1>3, <1>4, <2>1
  <2> QED BY <1>3, <2>2, <2>3, BufferHoldsAByte
<1>7. ends \subseteq Nat
  BY <1>4
<1>8. FirstLine(s) = SubSeq(s, 1, Min(ends))
  BY DEF FirstLine
<1> HIDE DEF ends
<1>9. Min(ends) \in ends /\ \A k \in ends : Min(ends) <= k
  BY <1>5, <1>7, MinOf
<1>10. Min(ends) = n
  <2>1. PICK m : m = Min(ends)
    OBVIOUS
  <2>2. m \in ends /\ m <= n /\ n <= m
    BY <1>5, <1>6, <1>9, <2>1
  <2>3. m \in Nat
    BY <1>7, <2>2
  <2> QED BY <1>3, <2>1, <2>2, <2>3
<1>11. SubSeq(s, 1, n) = l
  <2>1. PICK u : u = SubSeq(s, 1, n)
    OBVIOUS
  <2>2. u \in Seq(Chars) /\ Len(u) = n /\ \A i \in 1 .. n : u[i] = s[i]
    <3>1. 1 \in Int /\ n \in Int /\ \A i \in 1 .. n : s[i] \in Chars
      BY <1>3, <1>4
    <3> QED BY <1>3, <2>1, <3>1, SubSeqProperties
  <2>3. u = l
    BY <1>2, <1>4, <2>2, SeqEqual
  <2> QED BY <2>1, <2>3
<1> QED BY <1>1, <1>8, <1>10, <1>11

\* Texts in a row are one text.
LEMMA CharsAssociate ==
  ASSUME NEW a \in Seq(Chars), NEW b \in Seq(Chars), NEW c \in Seq(Chars)
  PROVE  (a \o b) \o c = a \o (b \o c)
BY ConcatAssociative

\* Every step reads on.
LEMMA StepReads == IInv /\ [Next]_vars => [ReadsOn]_vars
<1> SUFFICES ASSUME IInv, Next
             PROVE  ReadsOn
  OBVIOUS
<1>1. line \in Seq(Chars) /\ rio_buf \in Seq(Chars) /\ input \in Seq(Chars)
  BY DEF IInv, TypeOK
<1>2. CASE GetCommand
  BY <1>2 DEF GetCommand, ReadsOn, Pending
<1>3. CASE GetIndicator
  BY <1>3 DEF GetIndicator, ReadsOn, Pending
<1>4. CASE GetString
  BY <1>4 DEF GetString, Take, ReadsOn, Pending
<1>5. CASE GetLine
  BY <1>5 DEF GetLine, Take, ReadsOn, Pending
<1>6. CASE GetInt
  BY <1>6 DEF GetInt, Take, ReadsOn, Pending
<1>7. CASE ParseUnset \/ destroyCommandStream
  BY <1>7 DEF ParseUnset, destroyCommandStream, ReadsOn, Pending
<1>8. CASE Refill
  <2>1. PICK k \in 1 .. Min({Len(input), RIO_BUFSIZE}) :
          rio_buf' = SubSeq(input, 1, k) /\ input' = SubSeq(input, k + 1, Len(input))
    BY <1>8 DEF Refill
  <2>2. k \in 1 .. Len(input)
    <3>1. PICK m : m = Min({Len(input), RIO_BUFSIZE})
      OBVIOUS
    <3>2. m \in {Len(input), RIO_BUFSIZE} /\ m <= Len(input) /\ m <= RIO_BUFSIZE
      <4>1. Len(input) \in Nat
        BY <1>1
      <4> QED BY <3>1, <4>1, BufferHoldsAByte, MinOf
    <3> QED BY <1>1, <2>1, <3>1, <3>2, BufferHoldsAByte
  <2>3. rio_buf' \in Seq(Chars) /\ input' \in Seq(Chars)
    BY <1>1, <2>1, <2>2
  <2>4. rio_buf' \o input' = input
    <3>1. SubSeq(input, 1, k) \o SubSeq(input, k + 1, Len(input)) = SubSeq(input, 1, Len(input))
      <4>1. 1 \in 1 .. Len(input) + 1 /\ k \in 1 - 1 .. Len(input) /\ Len(input) \in k .. Len(input)
        BY <1>1, <2>2
      <4> QED BY <1>1, <4>1, ConcatAdjacentSubSeq
    <3>2. SubSeq(input, 1, Len(input)) = input
      BY <1>1, SubSeqFull
    <3> QED BY <2>1, <3>1, <3>2
  <2>5. rio_buf = <<>> /\ pc = "reading" /\ pc' = "reading" /\ line' = line
    BY <1>8 DEF Refill
  <2>6. Pending = line \o input
    <3>1. line \o <<>> = line
      BY <1>1, ConcatEmptySeq
    <3> QED BY <2>5, <3>1 DEF Pending
  <2>7. Pending' = (line \o rio_buf') \o input'
    BY <2>5 DEF Pending
  <2>8. (line \o rio_buf') \o input' = line \o (rio_buf' \o input')
    <3>1. PICK l, r, t : l = line /\ r = rio_buf' /\ t = input'
      OBVIOUS
    <3>2. l \in Seq(Chars) /\ r \in Seq(Chars) /\ t \in Seq(Chars)
      BY <1>1, <2>3, <3>1
    <3>3. (l \o r) \o t = l \o (r \o t)
      BY <3>2, CharsAssociate
    <3> QED BY <3>1, <3>3
  <2> QED BY <2>4, <2>5, <2>6, <2>7, <2>8 DEF ReadsOn
<1>9. CASE ReadFails
  BY <1>9 DEF ReadFails, ReadsOn
<1>10. CASE CopyByte
  <2>1. pc = "reading" /\ rio_buf # <<>> /\ rio_buf' = Tail(rio_buf) /\ input' = input
    BY <1>10 DEF CopyByte
  <2>2. PICK l : l = Append(line, Head(rio_buf))
    OBVIOUS
  <2>3. /\ l \in Seq(Chars) /\ Len(l) = Len(line) + 1 /\ Len(l) < RIO_BUFSIZE
        /\ rio_buf' \in Seq(Chars)
    BY <2>1, <2>2, LineGrows
  <2>4. l \o rio_buf' = line \o rio_buf
    BY <1>1, <2>1, <2>2, ByteMoves
  <2>5. Pending = (l \o rio_buf') \o input
    BY <2>1, <2>4 DEF Pending
  <2>6. CASE Complete(l)
    <3>1. pc' = "parsing" /\ line' = l
      BY <1>10, <2>2, <2>6 DEF CopyByte, Deliver
    <3>2. Pending' = rio_buf' \o input
      <4>1. <<>> \o rio_buf' = rio_buf'
        BY <2>3, ConcatEmptySeq
      <4> QED BY <2>1, <3>1, <4>1 DEF Pending
    <3>3. (l \o rio_buf') \o input = l \o (rio_buf' \o input)
      <4>1. PICK r, t : r = rio_buf' /\ t = input
        OBVIOUS
      <4>2. l \in Seq(Chars) /\ r \in Seq(Chars) /\ t \in Seq(Chars)
        BY <1>1, <2>3, <4>1
      <4>3. (l \o r) \o t = l \o (r \o t)
        BY <4>2, CharsAssociate
      <4> QED BY <4>1, <4>3
    <3>4. l # <<>> /\ \A i \in 1 .. Len(l) - 1 : l[i] # NL
      <4>1. Len(line) \in Nat
        BY <1>1
      <4>2. l # <<>>
        BY <2>3, <4>1
      <4>3. ASSUME NEW i \in 1 .. Len(l) - 1
            PROVE  l[i] # NL
        <5>1. i \in 1 .. Len(line)
          BY <2>3, <4>1
        <5>2. Head(rio_buf) \in Chars
          BY <1>1, <2>1, HeadTailProperties
        <5>3. l[i] = line[i]
          BY <1>1, <2>2, <5>1, <5>2, AppendProperties
        <5>4. i \in DOMAIN line
          BY <1>1, <5>1
        <5> QED BY <2>1, <5>3, <5>4 DEF IInv, LineUnfinished
      <4> QED BY <4>2, <4>3
    <3>5. rio_buf' \o input \in Seq(Chars)
      BY <1>1, <2>3, ConcatProperties
    <3>6. FirstLine(l \o (rio_buf' \o input)) = l
      BY <2>3, <2>6, <3>4, <3>5, FirstLineIs
    <3> QED BY <2>5, <3>1, <3>2, <3>3, <3>6 DEF ReadsOn
  <2>7. CASE ~Complete(l)
    <3>1. pc' = "reading" /\ line' = l
      BY <1>10, <2>1, <2>2, <2>7 DEF CopyByte
    <3>2. Pending' = Pending
      BY <2>1, <2>5, <3>1 DEF Pending
    <3> QED BY <3>1, <3>2 DEF ReadsOn
  <2> QED BY <2>6, <2>7
<1>11. CASE EndOfFile
  <2>1. pc = "reading" /\ rio_buf = <<>> /\ input = <<>> /\ rio_buf' = <<>> /\ input' = <<>>
    BY <1>11 DEF EndOfFile
  <2>2. <<>> \o <<>> = <<>> /\ (line \o <<>>) \o <<>> = line
    BY <1>1, ConcatEmptySeq, EmptySeq
  <2>3. Pending = line
    BY <2>1, <2>2 DEF Pending
  <2>4. CASE line # <<>>
    <3>1. pc' = "parsing" /\ line' = line
      BY <1>11, <2>4 DEF EndOfFile, Deliver
    <3>2. Pending' = <<>>
      <4>1. (<<>> \o <<>>) \o <<>> = <<>>
        BY <2>2
      <4> QED BY <2>1, <3>1, <4>1 DEF Pending
    <3>3. line \o <<>> = line
      BY <1>1, ConcatEmptySeq
    <3>4. FirstLine(line \o <<>>) = line
      <4>1. \A i \in 1 .. Len(line) - 1 : line[i] # NL
        <5>1. \A i \in 1 .. Len(line) - 1 : i \in DOMAIN line
          BY <1>1
        <5> QED BY <2>1, <5>1 DEF IInv, LineUnfinished
      <4>2. Len(line) < RIO_BUFSIZE
        BY DEF IInv, TypeOK
      <4>3. PICK l : l = line
        OBVIOUS
      <4>4. FirstLine(l \o <<>>) = l
        BY <1>1, <2>4, <4>1, <4>2, <4>3, EmptySeq, FirstLineIs
      <4> QED BY <4>3, <4>4
    <3> QED BY <2>3, <3>1, <3>2, <3>3, <3>4 DEF ReadsOn
  <2>5. CASE line = <<>>
    BY <1>11, <2>3, <2>5 DEF EndOfFile, ReadsOn
  <2> QED BY <2>4, <2>5
<1> QED BY <1>2, <1>3, <1>4, <1>5, <1>6, <1>7, <1>8, <1>9, <1>10, <1>11 DEF Next

\* The lines delivered are those of the whole text sent, however it arrives.
THEOREM ReadingLosesNothing == Spec => ReadsLines
<1> QED BY Invariance, StepReads, PTL DEF Spec, ReadsLines

--------------------------------------------------------------------------------
\* Going through a sequence with F from v0 on gives a value after each element.
Folded(f, F, v0, s) == f[0] = v0 /\ \A n \in 1 .. Len(s) : f[n] = F[<<f[n - 1], s[n]>>]

LEMMA FoldExists ==
  ASSUME NEW C, NEW V, NEW v0 \in V, NEW F \in [V \X C -> V], NEW s \in Seq(C)
  PROVE  \E f \in [0 .. Len(s) -> V] : Folded(f, F, v0, s)
<1> DEFINE UpTo(m) == \E f \in [0 .. m -> V] :
                        f[0] = v0 /\ \A n \in 1 .. m : f[n] = F[<<f[n - 1], s[n]>>]
           T == {m \in 0 .. Len(s) : ~UpTo(m)}
<1>1. Len(s) \in Nat
  OBVIOUS
<1>2. UpTo(0)
  <2>1. PICK f : f = [n \in 0 .. 0 |-> v0]
    OBVIOUS
  <2>2. f \in [0 .. 0 -> V] /\ f[0] = v0
    BY <2>1
  <2>3. \A n \in 1 .. 0 : f[n] = F[<<f[n - 1], s[n]>>]
    OBVIOUS
  <2> QED BY <2>2, <2>3
<1>3. ASSUME NEW m \in 1 .. Len(s), UpTo(m - 1)
      PROVE  UpTo(m)
  <2>1. PICK f \in [0 .. m - 1 -> V] :
          f[0] = v0 /\ \A n \in 1 .. m - 1 : f[n] = F[<<f[n - 1], s[n]>>]
    BY <1>3
  <2>2. m - 1 \in 0 .. m - 1 /\ s[m] \in C
    BY <1>1
  <2>3. f[m - 1] \in V
    BY <2>1, <2>2
  <2>4. F[<<f[m - 1], s[m]>>] \in V
    BY <2>2, <2>3
  <2>5. PICK g : g = [n \in 0 .. m |-> IF n = m THEN F[<<f[m - 1], s[m]>>] ELSE f[n]]
    OBVIOUS
  <2>6. \A n \in 0 .. m : n # m => n \in 0 .. m - 1
    BY <1>1
  <2>7. g \in [0 .. m -> V]
    BY <2>1, <2>4, <2>5, <2>6
  <2>8. 0 \in 0 .. m /\ 0 # m /\ m \in 0 .. m
    BY <1>1
  <2>9. g[0] = v0 /\ g[m] = F[<<f[m - 1], s[m]>>]
    BY <2>1, <2>5, <2>8
  <2>10. \A n \in 0 .. m - 1 : g[n] = f[n]
    BY <1>1, <2>5
  <2>11. ASSUME NEW n \in 1 .. m
         PROVE  g[n] = F[<<g[n - 1], s[n]>>]
    <3>1. n - 1 \in 0 .. m - 1
      BY <1>1
    <3>2. g[n - 1] = f[n - 1]
      BY <2>10, <3>1
    <3>3. CASE n = m
      BY <2>9, <3>2, <3>3
    <3>4. CASE n # m
      <4>1. n \in 1 .. m - 1 /\ n \in 0 .. m - 1
        BY <1>1, <3>4
      <4> QED BY <2>1, <2>10, <3>2, <4>1
    <3> QED BY <3>3, <3>4
  <2> QED BY <2>7, <2>9, <2>11
<1> HIDE DEF UpTo
<1>4. T = {}
  <2> SUFFICES ASSUME T # {} PROVE FALSE
    OBVIOUS
  <2>1. T \subseteq Nat
    BY <1>1
  <2>2. PICK m \in T : \A k \in T : m <= k
    BY <2>1, LeastOf
  <2>3. m \in 1 .. Len(s) /\ ~UpTo(m)
    BY <1>1, <1>2, <2>2
  <2>4. m - 1 \notin T
    BY <1>1, <2>2, <2>3
  <2>5. UpTo(m - 1)
    BY <1>1, <2>3, <2>4
  <2> QED BY <1>3, <2>3, <2>5
<1>5. UpTo(Len(s))
  BY <1>1, <1>4
<1> QED BY <1>5 DEF UpTo, Folded

\* As far as two sequences agree, so do the values.
LEMMA FoldUnique ==
  ASSUME NEW F, NEW v0, NEW s, NEW f, Folded(f, F, v0, s), NEW t, NEW g, Folded(g, F, v0, t),
         Len(s) \in Nat, Len(t) \in Nat,
         NEW m \in Nat, m <= Len(s), m <= Len(t), \A n \in 1 .. m : s[n] = t[n]
  PROVE  f[m] = g[m]
<1> DEFINE T == {n \in 0 .. m : f[n] # g[n]}
<1> SUFFICES ASSUME T # {} PROVE FALSE
  OBVIOUS
<1>1. PICK n \in T : \A k \in T : n <= k
  <2>1. T \subseteq Nat
    OBVIOUS
  <2> QED BY <2>1, LeastOf
<1>2. n # 0
  BY <1>1 DEF Folded
<1>3. n \in 1 .. m /\ n - 1 \in 0 .. m
  BY <1>1, <1>2
<1>4. f[n - 1] = g[n - 1]
  <2>1. n - 1 \notin T
    BY <1>1, <1>3
  <2> QED BY <1>3, <2>1
<1>5. n \in 1 .. Len(s) /\ n \in 1 .. Len(t) /\ s[n] = t[n]
  BY <1>3
<1>6. f[n] = F[<<f[n - 1], s[n]>>] /\ g[n] = F[<<g[n - 1], t[n]>>]
  BY <1>5 DEF Folded
<1> QED BY <1>1, <1>4, <1>5, <1>6

\* Visible goes through a text.
See == [p \in Seq(Chars) \X Chars |-> IF p[2] \in White THEN p[1] ELSE Append(p[1], p[2])]

LEMMA SeeIsTyped == See \in [Seq(Chars) \X Chars -> Seq(Chars)]
<1>1. ASSUME NEW p \in Seq(Chars) \X Chars
      PROVE  (IF p[2] \in White THEN p[1] ELSE Append(p[1], p[2])) \in Seq(Chars)
  <2>1. p[1] \in Seq(Chars) /\ p[2] \in Chars
    OBVIOUS
  <2> QED BY <2>1
<1> QED BY <1>1 DEF See

LEMMA VisibleFolds ==
  ASSUME NEW s \in Seq(Chars)
  PROVE  \E f \in [0 .. Len(s) -> Seq(Chars)] :
           Folded(f, See, <<>>, s) /\ Visible(s) = f[Len(s)]
<1> DEFINE body(f) == [n \in 0 .. Len(s) |->
                         IF n = 0 THEN <<>>
                         ELSE IF s[n] \in White THEN f[n - 1] ELSE Append(f[n - 1], s[n])]
           v == CHOOSE f : f = body(f)
<1>1. Len(s) \in Nat
  OBVIOUS
<1>2. \A c \in Chars, w \in Seq(Chars) :
        See[<<w, c>>] = IF c \in White THEN w ELSE Append(w, c)
  BY DEF See
<1>3. PICK f \in [0 .. Len(s) -> Seq(Chars)] : Folded(f, See, <<>>, s)
  BY SeeIsTyped, FoldExists, EmptySeq
<1>4. f = body(f)
  <2>1. ASSUME NEW n \in 0 .. Len(s)
        PROVE  f[n] = body(f)[n]
    <3>1. CASE n = 0
      BY <1>3, <3>1 DEF Folded
    <3>2. CASE n # 0
      <4>1. n \in 1 .. Len(s) /\ n - 1 \in 0 .. Len(s)
        BY <1>1, <3>2
      <4>2. f[n - 1] \in Seq(Chars) /\ s[n] \in Chars
        BY <1>3, <4>1
      <4>3. f[n] = See[<<f[n - 1], s[n]>>]
        BY <1>3, <4>1 DEF Folded
      <4> QED BY <1>2, <3>2, <4>2, <4>3
    <3> QED BY <3>1, <3>2
  <2>2. f = [n \in 0 .. Len(s) |-> f[n]]
    BY <1>3
  <2> QED BY <2>1, <2>2
<1>5. v = body(v)
  BY <1>4
<1>6. Visible(s) = v[Len(s)]
  BY DEF Visible
<1> HIDE DEF v
<1>7. ASSUME NEW n \in 0 .. Len(s)
      PROVE  v[n] = IF n = 0 THEN <<>>
                    ELSE IF s[n] \in White THEN v[n - 1] ELSE Append(v[n - 1], s[n])
  BY <1>5
<1>8. ASSUME NEW n \in 0 .. Len(s)
      PROVE  f[n] = IF n = 0 THEN <<>>
                    ELSE IF s[n] \in White THEN f[n - 1] ELSE Append(f[n - 1], s[n])
  BY <1>4
<1> DEFINE T == {n \in 0 .. Len(s) : v[n] # f[n]}
<1>9. T = {}
  <2> SUFFICES ASSUME T # {} PROVE FALSE
    OBVIOUS
  <2>1. T \subseteq Nat
    OBVIOUS
  <2> HIDE DEF body
  <2>2. PICK n \in T : \A k \in T : n <= k
    BY <2>1, LeastOf
  <2>3. n # 0
    BY <1>7, <1>8, <2>2
  <2>4. n - 1 \in 0 .. Len(s) /\ n - 1 \notin T
    BY <1>1, <2>2, <2>3
  <2>5. v[n - 1] = f[n - 1]
    BY <2>4
  <2> QED BY <1>7, <1>8, <2>2, <2>3, <2>5
<1>10. v[Len(s)] = f[Len(s)]
  BY <1>1, <1>9
<1> QED BY <1>3, <1>6, <1>10

\* What it makes of a text is a text.
LEMMA VisibleType ==
  ASSUME NEW s \in Seq(Chars)
  PROVE  Visible(s) \in Seq(Chars)
<1>1. PICK f \in [0 .. Len(s) -> Seq(Chars)] : Visible(s) = f[Len(s)]
  BY VisibleFolds
<1>2. Len(s) \in 0 .. Len(s)
  OBVIOUS
<1> QED BY <1>1, <1>2

\* It takes a text character by character.
LEMMA VisibleEmpty == Visible(<<>>) = <<>>
<1>1. PICK e : e = <<>>
  OBVIOUS
<1>2. e \in Seq(Chars) /\ Len(e) = 0
  BY <1>1
<1>3. PICK f : Folded(f, See, <<>>, e) /\ Visible(e) = f[Len(e)]
  BY <1>2, VisibleFolds
<1> QED BY <1>1, <1>2, <1>3 DEF Folded

LEMMA VisibleAppend ==
  ASSUME NEW s \in Seq(Chars), NEW c \in Chars
  PROVE  Visible(Append(s, c)) = IF c \in White THEN Visible(s) ELSE Append(Visible(s), c)
<1>1. PICK t : t = Append(s, c)
  OBVIOUS
<1>2. PICK m : m = Len(s)
  OBVIOUS
<1>3. m \in Nat /\ t \in Seq(Chars) /\ Len(t) = m + 1 /\ t[m + 1] = c
  BY <1>1, <1>2, AppendProperties
<1>4. \A n \in 1 .. m : s[n] = t[n]
  BY <1>1, <1>2, AppendProperties
<1>5. PICK f \in [0 .. Len(s) -> Seq(Chars)] : Folded(f, See, <<>>, s) /\ Visible(s) = f[Len(s)]
  BY VisibleFolds
<1>6. PICK g : Folded(g, See, <<>>, t) /\ Visible(t) = g[Len(t)]
  BY <1>3, VisibleFolds
<1>7. f[m] = g[m]
  <2>1. m \in Nat /\ m <= Len(s) /\ m <= Len(t) /\ Len(s) \in Nat /\ Len(t) \in Nat
    BY <1>2, <1>3
  <2>2. PICK z : z = <<>>
    OBVIOUS
  <2>3. PICK F : F = See
    OBVIOUS
  <2>4. Folded(f, F, z, s) /\ Folded(g, F, z, t)
    BY <1>5, <1>6, <2>2, <2>3
  <2> QED BY <1>4, <2>1, <2>4, FoldUnique
<1>8. f[m] \in Seq(Chars)
  BY <1>2, <1>3, <1>5
<1>9. m + 1 \in 1 .. Len(t) /\ (m + 1) - 1 = m
  BY <1>3
<1>10. g[m + 1] = See[<<g[m], c>>]
  BY <1>3, <1>6, <1>9 DEF Folded
<1>11. See[<<g[m], c>>] = IF c \in White THEN g[m] ELSE Append(g[m], c)
  BY <1>7, <1>8 DEF See
<1> QED BY <1>1, <1>2, <1>3, <1>5, <1>6, <1>7, <1>10, <1>11

\* Appending to the second of two texts is appending to both together.
LEMMA ConcatAppend ==
  ASSUME NEW a \in Seq(Chars), NEW b \in Seq(Chars), NEW c \in Chars
  PROVE  Append(a \o b, c) = a \o Append(b, c)
<1>1. a \o b \in Seq(Chars) /\ Append(b, c) \in Seq(Chars)
  BY ConcatProperties, AppendProperties
<1>2. Len(Append(a \o b, c)) = Len(a \o Append(b, c))
  BY <1>1, ConcatProperties, AppendProperties
<1>3. Append(a \o b, c) \in Seq(Chars) /\ a \o Append(b, c) \in Seq(Chars)
  BY <1>1, ConcatProperties, AppendProperties
<1>4. ASSUME NEW i \in 1 .. Len(a) + Len(b) + 1
      PROVE  Append(a \o b, c)[i] = (a \o Append(b, c))[i]
  OBVIOUS
<1>5. Len(Append(a \o b, c)) = Len(a) + Len(b) + 1
  OBVIOUS
<1> QED BY <1>2, <1>3, <1>4, <1>5, SeqEqual

\* So that the visible characters of two texts behind each other are those of the
\* one and then those of the other.
LEMMA VisibleConcat ==
  ASSUME NEW s \in Seq(Chars), NEW t \in Seq(Chars)
  PROVE  Visible(s \o t) = Visible(s) \o Visible(t)
<1> DEFINE Good(n) == \A u \in Seq(Chars) : Len(u) = n => Visible(s \o u) = Visible(s) \o Visible(u)
           T == {n \in Nat : ~Good(n)}
<1>1. Visible(s) \in Seq(Chars)
  BY VisibleType
<1>2. Good(0)
  <2> SUFFICES ASSUME NEW u \in Seq(Chars), Len(u) = 0
               PROVE  Visible(s \o u) = Visible(s) \o Visible(u)
    OBVIOUS
  <2>1. u = <<>>
    OBVIOUS
  <2>2. s \o <<>> = s /\ Visible(s) \o <<>> = Visible(s)
    BY <1>1, ConcatEmptySeq
  <2> QED BY <2>1, <2>2, VisibleEmpty
<1>3. ASSUME NEW n \in Nat, n # 0, Good(n - 1)
      PROVE  Good(n)
  <2> SUFFICES ASSUME NEW u \in Seq(Chars), Len(u) = n
               PROVE  Visible(s \o u) = Visible(s) \o Visible(u)
    OBVIOUS
  <2>1. u # <<>>
    BY <1>3
  <2>2. PICK w \in Seq(Chars), c \in Chars : u = Append(w, c)
    BY <2>1, SequenceEmptyOrAppend
  <2>3. Len(w) = n - 1
    BY <2>2, AppendProperties
  <2>4. Visible(s \o w) = Visible(s) \o Visible(w)
    BY <1>3, <2>3
  <2>5. s \o w \in Seq(Chars) /\ Visible(w) \in Seq(Chars)
    BY VisibleType
  <2>6. s \o u = Append(s \o w, c)
    BY <2>2, ConcatAppend
  <2>7. CASE c \in White
    BY <2>2, <2>4, <2>5, <2>6, <2>7, VisibleAppend
  <2>8. CASE c \notin White
    <3>1. Visible(s \o u) = Append(Visible(s) \o Visible(w), c)
      BY <2>4, <2>5, <2>6, <2>8, VisibleAppend
    <3>2. Visible(u) = Append(Visible(w), c)
      BY <2>2, <2>8, VisibleAppend
    <3>3. Append(Visible(s) \o Visible(w), c) = Visible(s) \o Append(Visible(w), c)
      BY <1>1, <2>5, ConcatAppend
    <3> QED BY <3>1, <3>2, <3>3
  <2> QED BY <2>7, <2>8
<1> HIDE DEF Good
<1>4. T = {}
  <2> SUFFICES ASSUME T # {} PROVE FALSE
    OBVIOUS
  <2>1. PICK n \in T : \A k \in T : n <= k
    BY LeastOf
  <2>2. n # 0 /\ n \in Nat /\ ~Good(n)
    BY <1>2, <2>1
  <2>3. n - 1 \in Nat /\ n - 1 \notin T
    BY <2>1, <2>2
  <2> QED BY <1>3, <2>2, <2>3
<1>5. Len(t) \in Nat /\ Good(Len(t))
  BY <1>4
<1> QED BY <1>5 DEF Good

\* Of white space nothing is visible.
LEMMA WhiteIsInvisible ==
  ASSUME NEW s \in Seq(Chars), \A k \in 1 .. Len(s) : s[k] \in White
  PROVE  Visible(s) = <<>>
<1>1. PICK f \in [0 .. Len(s) -> Seq(Chars)] : Folded(f, See, <<>>, s) /\ Visible(s) = f[Len(s)]
  BY VisibleFolds
<1> DEFINE T == {n \in 0 .. Len(s) : f[n] # <<>>}
<1>2. T = {}
  <2> SUFFICES ASSUME T # {} PROVE FALSE
    OBVIOUS
  <2>1. T \subseteq Nat
    OBVIOUS
  <2>2. PICK n \in T : \A k \in T : n <= k
    BY <2>1, LeastOf
  <2>3. n # 0
    BY <1>1, <2>2 DEF Folded
  <2>4. n \in 1 .. Len(s) /\ n - 1 \in 0 .. Len(s) /\ n - 1 \notin T
    BY <2>2, <2>3
  <2>5. f[n - 1] = <<>> /\ s[n] \in White /\ s[n] \in Chars
    BY <2>4
  <2>6. f[n] = See[<<f[n - 1], s[n]>>]
    BY <1>1, <2>4 DEF Folded
  <2>7. See[<<f[n - 1], s[n]>>] = f[n - 1]
    BY <2>5, EmptySeq DEF See
  <2> QED BY <2>2, <2>5, <2>6, <2>7
<1>3. Len(s) \in 0 .. Len(s)
  OBVIOUS
<1> QED BY <1>1, <1>2, <1>3

--------------------------------------------------------------------------------
\* A part of a text is a text.
LEMMA PartIsText ==
  ASSUME NEW l \in Seq(Chars), NEW i \in 1 .. Len(l) + 1, NEW j \in i .. Len(l) + 1
  PROVE  /\ SubSeq(l, i, j - 1) \in Seq(Chars)
         /\ Len(SubSeq(l, i, j - 1)) = j - i
         /\ \A k \in 1 .. j - i : SubSeq(l, i, j - 1)[k] = l[i + k - 1]
<1>1. i \in Int /\ j - 1 \in Int /\ \A k \in i .. j - 1 : l[k] \in Chars
  OBVIOUS
<1> QED BY <1>1, SubSeqProperties

\* Behind the part up to i comes that from i to j, and behind that only white space.
LEMMA VisibleUpTo ==
  ASSUME NEW l \in Seq(Chars), NEW i \in 1 .. Len(l) + 1, NEW j \in i .. Len(l) + 1,
         NEW at \in j .. Len(l) + 1, \A k \in j .. at - 1 : l[k] \in White
  PROVE  Visible(SubSeq(l, 1, at - 1)) =
           Visible(SubSeq(l, 1, i - 1)) \o Visible(SubSeq(l, i, j - 1))
<1>1. /\ 1 \in 1 .. Len(l) + 1 /\ i \in 1 .. Len(l) + 1 /\ j \in 1 .. Len(l) + 1
      /\ at \in 1 .. Len(l) + 1
  OBVIOUS
<1>2. PICK a : a = SubSeq(l, 1, i - 1)
  OBVIOUS
<1>3. PICK b : b = SubSeq(l, i, j - 1)
  OBVIOUS
<1>4. PICK c : c = SubSeq(l, j, at - 1)
  OBVIOUS
<1>5. a \in Seq(Chars) /\ b \in Seq(Chars)
  BY <1>1, <1>2, <1>3, PartIsText
<1>6. c \in Seq(Chars) /\ Len(c) = at - j /\ \A k \in 1 .. at - j : c[k] = l[j + k - 1]
  BY <1>1, <1>4, PartIsText
<1>7. Visible(c) = <<>>
  <2>1. ASSUME NEW k \in 1 .. Len(c)
        PROVE  c[k] \in White
    <3>1. k \in 1 .. at - j /\ j + k - 1 \in j .. at - 1
      BY <1>1, <1>6
    <3> QED BY <1>6, <3>1
  <2> QED BY <1>6, <2>1, WhiteIsInvisible
<1>8. SubSeq(l, 1, j - 1) = a \o b
  <2>1. i - 1 \in 1 - 1 .. Len(l) /\ j - 1 \in i - 1 .. Len(l) /\ (i - 1) + 1 = i
    BY <1>1
  <2>2. SubSeq(l, 1, i - 1) \o SubSeq(l, (i - 1) + 1, j - 1) = SubSeq(l, 1, j - 1)
    BY <1>1, <2>1, ConcatAdjacentSubSeq
  <2> QED BY <1>2, <1>3, <2>1, <2>2
<1>9. SubSeq(l, 1, at - 1) = (a \o b) \o c
  <2>1. j - 1 \in 1 - 1 .. Len(l) /\ at - 1 \in j - 1 .. Len(l) /\ (j - 1) + 1 = j
    BY <1>1
  <2>2. SubSeq(l, 1, j - 1) \o SubSeq(l, (j - 1) + 1, at - 1) = SubSeq(l, 1, at - 1)
    BY <1>1, <2>1, ConcatAdjacentSubSeq
  <2> QED BY <1>4, <1>8, <2>1, <2>2
<1>10. a \o b \in Seq(Chars)
  BY <1>5, ConcatProperties
<1>11. Visible((a \o b) \o c) = Visible(a \o b) \o Visible(c)
  BY <1>6, <1>10, VisibleConcat
<1>12. Visible(a \o b) = Visible(a) \o Visible(b)
  BY <1>5, VisibleConcat
<1>13. Visible(a \o b) \o <<>> = Visible(a \o b)
  BY <1>10, VisibleType, ConcatEmptySeq
<1> QED BY <1>2, <1>3, <1>7, <1>9, <1>11, <1>12, <1>13

\* What makes NothingSkipped inductive: before the indicator nothing was taken.
NoneTaken == pc = "parsing" /\ gets = 0 /\ ~isCommand => taken = <<>>

SkipInv == NothingSkipped /\ NoneTaken

LEMMA TakeSkipsNothing ==
  ASSUME IInv, SkipInv, NEW got, Taken(got, line, commandChar), Take(got)
  PROVE  SkipInv'
<1>1. pc = "parsing"
  BY DEF Take
<1>2. line \in Seq(Chars) /\ taken \in Seq(Chars) /\ gets \in Nat
  BY DEF IInv, TypeOK
<1>3. commandChar \in 1 .. Len(line) + 1
  BY <1>1, InTheLine DEF IInv
<1>4. got.at \in commandChar .. Len(line) + 1
  BY DEF Taken
<1>5. PICK j \in commandChar .. got.at :
        /\ got.word = SubSeq(line, commandChar, j - 1)
        /\ \A k \in j .. got.at - 1 : line[k] \in White
  BY DEF Taken
<1>6. j \in commandChar .. Len(line) + 1 /\ got.at \in j .. Len(line) + 1
  BY <1>2, <1>3, <1>4
<1>7. PICK l, i, at : l = line /\ i = commandChar /\ at = got.at
  OBVIOUS
<1>8. Visible(SubSeq(l, 1, at - 1)) = Visible(SubSeq(l, 1, i - 1)) \o Visible(SubSeq(l, i, j - 1))
  BY <1>2, <1>3, <1>5, <1>6, <1>7, VisibleUpTo
<1>9. Visible(SubSeq(l, 1, i - 1)) = Visible(taken)
  BY <1>1, <1>7 DEF SkipInv, NothingSkipped
<1>10. got.word \in Seq(Chars)
  BY <1>2, <1>3, TakenIsText
<1>11. Visible(taken \o got.word) = Visible(taken) \o Visible(got.word)
  BY <1>2, <1>10, VisibleConcat
<1>12. Visible(SubSeq(line, 1, got.at - 1)) = Visible(taken \o got.word)
  BY <1>5, <1>7, <1>8, <1>9, <1>11
<1>13. line' = line /\ commandChar' = got.at /\ taken' = taken \o got.word /\ gets' = gets + 1
  BY DEF Take
<1>14. NothingSkipped'
  BY <1>12, <1>13 DEF NothingSkipped
<1>15. NoneTaken'
  BY <1>2, <1>13 DEF NoneTaken
<1> QED BY <1>14, <1>15 DEF SkipInv

LEMMA DeliverSkipsNothing ==
  ASSUME NEW l \in Seq(Chars), Deliver(l)
  PROVE  SkipInv'
<1>1. PICK at : at = ignoreWhiteSpace(l, 1)
  OBVIOUS
<1>2. 1 \in 1 .. Len(l) + 1 /\ 1 \in 1 .. Len(l) + 1
  OBVIOUS
<1>3. at \in 1 .. Len(l) + 1 /\ \A k \in 1 .. at - 1 : l[k] \in White
  BY <1>1, <1>2, IgnoreWhiteSpace
<1>4. PICK s : s = SubSeq(l, 1, at - 1)
  OBVIOUS
<1>5. s \in Seq(Chars) /\ Len(s) = at - 1 /\ \A k \in 1 .. at - 1 : s[k] = l[1 + k - 1]
  BY <1>2, <1>3, <1>4, PartIsText
<1>6. Visible(s) = <<>>
  <2>1. ASSUME NEW k \in 1 .. Len(s)
        PROVE  s[k] \in White
    <3>1. k \in 1 .. at - 1 /\ 1 + k - 1 = k
      BY <1>3, <1>5
    <3> QED BY <1>3, <1>5, <3>1
  <2> QED BY <1>5, <2>1, WhiteIsInvisible
<1>7. line' = l /\ commandChar' = at /\ taken' = <<>>
  BY <1>1 DEF Deliver
<1> QED BY <1>4, <1>6, <1>7, VisibleEmpty DEF SkipInv, NothingSkipped, NoneTaken

LEMMA SkipNext == IInv /\ SkipInv /\ [Next]_vars => SkipInv'
<1> SUFFICES ASSUME IInv, SkipInv, [Next]_vars PROVE SkipInv'
  OBVIOUS
<1>1. line \in Seq(Chars) /\ rio_buf \in Seq(Chars)
  BY DEF IInv, TypeOK
<1>2. CASE GetIndicator
  <2>1. pc = "parsing" /\ charAt(line, commandChar) = SLASH
    BY <1>2 DEF GetIndicator
  <2>2. commandChar \in 1 .. Len(line) /\ line[commandChar] = SLASH
    BY <1>1, <2>1, InTheLine DEF IInv, charAt, SLASH, NUL
  <2>3. PICK l, i, j, at : l = line /\ i = commandChar /\ j = commandChar + 1
                          /\ at = ignoreWhiteSpace(line, commandChar + 1)
    OBVIOUS
  <2>4. /\ l \in Seq(Chars) /\ i \in 1 .. Len(l) /\ i \in 1 .. Len(l) + 1 /\ j = i + 1
        /\ j \in 1 .. Len(l) + 1 /\ j \in i .. Len(l) + 1 /\ l[i] = SLASH
    BY <1>1, <2>2, <2>3
  <2>5. at \in j .. Len(l) + 1 /\ \A k \in j .. at - 1 : l[k] \in White
    BY <2>3, <2>4, IgnoreWhiteSpace
  <2>6. Visible(SubSeq(l, 1, at - 1)) = Visible(SubSeq(l, 1, i - 1)) \o Visible(SubSeq(l, i, j - 1))
    BY <2>4, <2>5, VisibleUpTo
  <2>7. SubSeq(l, i, j - 1) = <<SLASH>>
    <3>1. PICK s : s = SubSeq(l, i, j - 1)
      OBVIOUS
    <3>2. s \in Seq(Chars) /\ Len(s) = 1 /\ s[1] = SLASH
      <4>1. /\ s \in Seq(Chars) /\ Len(s) = j - i
            /\ \A k \in 1 .. j - i : s[k] = l[i + k - 1]
        BY <2>4, <3>1, PartIsText
      <4>2. j - i = 1 /\ 1 \in 1 .. j - i /\ i + 1 - 1 = i
        BY <2>4
      <4> QED BY <2>4, <4>1, <4>2
    <3>3. PICK t : t = <<SLASH>>
      OBVIOUS
    <3>4. t \in Seq(Chars) /\ Len(t) = 1 /\ t[1] = SLASH
      BY <3>3 DEF Chars
    <3>5. s = t
      BY <3>2, <3>4, SeqEqual
    <3> QED BY <3>1, <3>3, <3>5
  <2>8. Visible(SubSeq(l, 1, i - 1)) = <<>>
    <3>1. taken = <<>>
      BY <1>2 DEF GetIndicator, SkipInv, NoneTaken
    <3> QED BY <2>1, <2>3, <3>1, VisibleEmpty DEF SkipInv, NothingSkipped
  <2>9. <<>> \o Visible(<<SLASH>>) = Visible(<<SLASH>>)
    <3>1. <<SLASH>> \in Seq(Chars)
      BY DEF Chars
    <3> QED BY <3>1, VisibleType, ConcatEmptySeq
  <2>10. Visible(SubSeq(l, 1, at - 1)) = Visible(<<SLASH>>)
    BY <2>6, <2>7, <2>8, <2>9
  <2>11. line' = line /\ commandChar' = at /\ taken' = <<SLASH>> /\ isCommand' = TRUE
    BY <1>2, <2>3 DEF GetIndicator
  <2>12. NothingSkipped'
    BY <2>3, <2>10, <2>11 DEF NothingSkipped
  <2> QED BY <2>11, <2>12 DEF SkipInv, NoneTaken
<1>3. CASE GetString
  <2>1. PICK got : got = commandGetString(line, commandChar)
    OBVIOUS
  <2>2. Take(got) /\ pc = "parsing"
    BY <1>3, <2>1 DEF GetString, Take
  <2>3. Taken(got, line, commandChar)
    BY <1>1, <2>1, <2>2, InTheLine, GetUntil DEF IInv, commandGetString
  <2> QED BY <2>2, <2>3, TakeSkipsNothing
<1>4. CASE GetLine
  <2>1. PICK got : got = commandGetLine(line, commandChar)
    OBVIOUS
  <2>2. Take(got) /\ pc = "parsing"
    BY <1>4, <2>1 DEF GetLine, Take
  <2>3. Taken(got, line, commandChar)
    BY <1>1, <2>1, <2>2, InTheLine, GetUntil DEF IInv, commandGetLine
  <2> QED BY <2>2, <2>3, TakeSkipsNothing
<1>5. CASE GetInt
  <2>1. PICK got : got = commandGetInt(line, commandChar)
    OBVIOUS
  <2>2. Take(got) /\ pc = "parsing"
    BY <1>5, <2>1 DEF GetInt, Take
  <2>3. Taken(got, line, commandChar)
    BY <1>1, <2>1, <2>2, InTheLine, GetIntTakes DEF IInv
  <2> QED BY <2>2, <2>3, TakeSkipsNothing
<1>6. CASE CopyByte
  <2>1. pc = "reading" /\ rio_buf # <<>>
    BY <1>6 DEF CopyByte
  <2>2. PICK l : l = Append(line, Head(rio_buf))
    OBVIOUS
  <2>3. l \in Seq(Chars)
    BY <2>1, <2>2, LineGrows
  <2>4. CASE Complete(l)
    BY <1>6, <2>2, <2>3, <2>4, DeliverSkipsNothing DEF CopyByte
  <2>5. CASE ~Complete(l)
    <3>1. pc' = "reading"
      BY <1>6, <2>1, <2>2, <2>5 DEF CopyByte
    <3> QED BY <3>1 DEF SkipInv, NothingSkipped, NoneTaken
  <2> QED BY <2>4, <2>5
<1>7. CASE EndOfFile
  <2>1. CASE line # <<>>
    <3>1. PICK l : l = line
      OBVIOUS
    <3>2. Deliver(l)
      BY <1>7, <2>1, <3>1 DEF EndOfFile, Deliver
    <3> QED BY <1>1, <3>1, <3>2, DeliverSkipsNothing
  <2>2. CASE line = <<>>
    BY <1>7, <2>2 DEF EndOfFile, SkipInv, NothingSkipped, NoneTaken
  <2> QED BY <2>1, <2>2
<1>8. CASE GetCommand \/ ParseUnset \/ destroyCommandStream \/ Refill \/ ReadFails
  <2>1. pc' # "parsing"
    BY <1>8 DEF GetCommand, ParseUnset, destroyCommandStream, Refill, ReadFails
  <2> QED BY <2>1 DEF SkipInv, NothingSkipped, NoneTaken
<1>9. CASE UNCHANGED vars
  BY <1>9 DEF vars, wordVars, SkipInv, NothingSkipped, NoneTaken
<1> QED BY <1>2, <1>3, <1>4, <1>5, <1>6, <1>7, <1>8, <1>9 DEF Next

\* In whatever order words, lines and numbers are asked for, and whether they were
\* there or not, no visible character of a line is lost or taken twice.
THEOREM NothingIsSkipped == Spec => []NothingSkipped
<1>1. Init => SkipInv
  BY DEF Init, SkipInv, NothingSkipped, NoneTaken
<1>2. SkipInv => NothingSkipped
  BY DEF SkipInv
<1> QED BY <1>1, <1>2, Invariance, SkipNext, PTL DEF Spec

--------------------------------------------------------------------------------
\* valueOf goes through a word.
Weigh(c) == IF c = "1" THEN 1 ELSE 0
Read == [p \in Nat \X Chars |-> 2 * p[1] + Weigh(p[2])]

LEMMA ReadIsTyped == Read \in [Nat \X Chars -> Nat]
<1>1. ASSUME NEW p \in Nat \X Chars
      PROVE  2 * p[1] + Weigh(p[2]) \in Nat
  <2>1. p[1] \in Nat /\ Weigh(p[2]) \in Nat
    BY DEF Weigh
  <2> QED BY <2>1
<1> QED BY <1>1 DEF Read

LEMMA ValueFolds ==
  ASSUME NEW s \in Seq(Chars)
  PROVE  \E f \in [0 .. Len(s) -> Nat] : Folded(f, Read, 0, s) /\ valueOf(s) = f[Len(s)]
<1> DEFINE body(f) == [n \in 0 .. Len(s) |->
                         IF n = 0 THEN 0 ELSE 2 * f[n - 1] + (IF s[n] = "1" THEN 1 ELSE 0)]
           v == CHOOSE f : f = body(f)
<1>1. Len(s) \in Nat
  OBVIOUS
<1>2. \A c \in Chars, n \in Nat : Read[<<n, c>>] = 2 * n + (IF c = "1" THEN 1 ELSE 0)
  BY DEF Read, Weigh
<1>3. PICK f \in [0 .. Len(s) -> Nat] : Folded(f, Read, 0, s)
  BY ReadIsTyped, FoldExists
<1>4. f = body(f)
  <2>1. ASSUME NEW n \in 0 .. Len(s)
        PROVE  f[n] = body(f)[n]
    <3>1. CASE n = 0
      BY <1>3, <3>1 DEF Folded
    <3>2. CASE n # 0
      <4>1. n \in 1 .. Len(s) /\ n - 1 \in 0 .. Len(s)
        BY <1>1, <3>2
      <4>2. f[n - 1] \in Nat /\ s[n] \in Chars
        BY <1>3, <4>1
      <4>3. f[n] = Read[<<f[n - 1], s[n]>>]
        BY <1>3, <4>1 DEF Folded
      <4> QED BY <1>2, <3>2, <4>2, <4>3
    <3> QED BY <3>1, <3>2
  <2>2. f = [n \in 0 .. Len(s) |-> f[n]]
    BY <1>3
  <2> QED BY <2>1, <2>2
<1>5. v = body(v)
  BY <1>4
<1>6. valueOf(s) = v[Len(s)]
  BY DEF valueOf
<1> HIDE DEF v
<1>7. ASSUME NEW n \in 0 .. Len(s)
      PROVE  v[n] = IF n = 0 THEN 0 ELSE 2 * v[n - 1] + (IF s[n] = "1" THEN 1 ELSE 0)
  BY <1>5
<1>8. ASSUME NEW n \in 0 .. Len(s)
      PROVE  f[n] = IF n = 0 THEN 0 ELSE 2 * f[n - 1] + (IF s[n] = "1" THEN 1 ELSE 0)
  BY <1>4
<1> DEFINE T == {n \in 0 .. Len(s) : v[n] # f[n]}
<1>9. T = {}
  <2> SUFFICES ASSUME T # {} PROVE FALSE
    OBVIOUS
  <2>1. T \subseteq Nat
    OBVIOUS
  <2> HIDE DEF body
  <2>2. PICK n \in T : \A k \in T : n <= k
    BY <2>1, LeastOf
  <2>3. n # 0
    BY <1>7, <1>8, <2>2
  <2>4. n - 1 \in 0 .. Len(s) /\ n - 1 \notin T
    BY <1>1, <2>2, <2>3
  <2>5. v[n - 1] = f[n - 1]
    BY <2>4
  <2> QED BY <1>7, <1>8, <2>2, <2>3, <2>5
<1>10. v[Len(s)] = f[Len(s)]
  BY <1>1, <1>9
<1> QED BY <1>3, <1>6, <1>10

LEMMA ValueEmpty == valueOf(<<>>) = 0
<1>1. PICK e : e = <<>>
  OBVIOUS
<1>2. e \in Seq(Chars) /\ Len(e) = 0
  BY <1>1
<1>3. PICK f : Folded(f, Read, 0, e) /\ valueOf(e) = f[Len(e)]
  BY <1>2, ValueFolds
<1> QED BY <1>1, <1>2, <1>3 DEF Folded

LEMMA ValueAppend ==
  ASSUME NEW s \in Seq(Chars), NEW c \in Chars
  PROVE  valueOf(s) \in Nat /\ valueOf(Append(s, c)) = 2 * valueOf(s) + Weigh(c)
<1>1. PICK t : t = Append(s, c)
  OBVIOUS
<1>2. PICK m : m = Len(s)
  OBVIOUS
<1>3. m \in Nat /\ t \in Seq(Chars) /\ Len(t) = m + 1 /\ t[m + 1] = c
  BY <1>1, <1>2, AppendProperties
<1>4. \A n \in 1 .. m : s[n] = t[n]
  BY <1>1, <1>2, AppendProperties
<1>5. PICK f \in [0 .. Len(s) -> Nat] : Folded(f, Read, 0, s) /\ valueOf(s) = f[Len(s)]
  BY ValueFolds
<1>6. PICK g : Folded(g, Read, 0, t) /\ valueOf(t) = g[Len(t)]
  BY <1>3, ValueFolds
<1>7. f[m] = g[m]
  <2>1. m \in Nat /\ m <= Len(s) /\ m <= Len(t) /\ Len(s) \in Nat /\ Len(t) \in Nat
    BY <1>2, <1>3
  <2>2. PICK F, z : F = Read /\ z = 0
    OBVIOUS
  <2>3. Folded(f, F, z, s) /\ Folded(g, F, z, t)
    BY <1>5, <1>6, <2>2
  <2> QED BY <1>4, <2>1, <2>3, FoldUnique
<1>8. f[m] \in Nat
  BY <1>2, <1>3, <1>5
<1>9. m + 1 \in 1 .. Len(t) /\ (m + 1) - 1 = m
  BY <1>3
<1>10. g[m + 1] = Read[<<g[m], c>>]
  BY <1>3, <1>6, <1>9 DEF Folded
<1>11. Read[<<g[m], c>>] = 2 * g[m] + Weigh(c)
  BY <1>7, <1>8 DEF Read
<1> QED BY <1>1, <1>2, <1>3, <1>5, <1>6, <1>7, <1>8, <1>10, <1>11

--------------------------------------------------------------------------------
DigitChars == {Digits[d] : d \in DOMAIN Digits}

LEMMA DigitsAre == DigitChars = {"0", "1"} /\ DigitChars \subseteq Chars
BY DEF DigitChars, Digits, Chars

\* Halving a number.
LEMMA Halves ==
  ASSUME NEW n \in Nat
  PROVE  /\ n \div 2 \in Nat /\ n % 2 \in {0, 1} /\ n = 2 * (n \div 2) + (n % 2)
         /\ n # 0 => n \div 2 < n
OBVIOUS

\* The digit of what is left, and what it weighs.
LEMMA LastDigit ==
  ASSUME NEW n \in Nat
  PROVE  Digits[(n % 2) + 1] \in DigitChars /\ Weigh(Digits[(n % 2) + 1]) = n % 2
<1>1. CASE n % 2 = 0
  BY <1>1, DigitsAre DEF Digits, Weigh
<1>2. CASE n % 2 = 1
  BY <1>2, DigitsAre DEF Digits, Weigh
<1> QED BY <1>1, <1>2, Halves

\* rio_writei writes half the number, if anything is left of it, and then a digit.
Written(f, n) == f[n] = (IF n \div 2 # 0 THEN f[n \div 2] ELSE <<>>) \o <<Digits[(n % 2) + 1]>>

LEMMA WriteExists ==
  ASSUME NEW m \in Nat
  PROVE  \E f \in [0 .. m -> Seq(DigitChars)] : \A n \in 0 .. m : Written(f, n)
<1> DEFINE UpTo(k) == \E f \in [0 .. k -> Seq(DigitChars)] : \A n \in 0 .. k : Written(f, n)
           T == {k \in Nat : ~UpTo(k)}
           last(n) == <<Digits[(n % 2) + 1]>>
<1>1. \A n \in Nat : last(n) \in Seq(DigitChars)
  BY LastDigit
<1> HIDE DEF last
<1>2. UpTo(0)
  <2>1. PICK f : f = [n \in 0 .. 0 |-> <<>> \o last(0)]
    OBVIOUS
  <2>2. <<>> \o last(0) \in Seq(DigitChars)
    BY <1>1, EmptySeq, ConcatProperties
  <2>3. f \in [0 .. 0 -> Seq(DigitChars)] /\ f[0] = <<>> \o last(0)
    BY <2>1, <2>2
  <2>4. 0 \div 2 = 0
    OBVIOUS
  <2>5. Written(f, 0)
    BY <2>3, <2>4 DEF Written, last
  <2>6. \A n \in 0 .. 0 : n = 0
    OBVIOUS
  <2> QED BY <2>3, <2>5, <2>6
<1>3. ASSUME NEW k \in Nat, k # 0, UpTo(k - 1)
      PROVE  UpTo(k)
  <2>1. PICK f \in [0 .. k - 1 -> Seq(DigitChars)] : \A n \in 0 .. k - 1 : Written(f, n)
    BY <1>3
  <2>2. \A n \in 0 .. k : n \div 2 \in 0 .. k - 1
    <3>1. ASSUME NEW n \in 0 .. k
          PROVE  n \div 2 \in 0 .. k - 1
      BY <1>3, <3>1, Halves
    <3> QED BY <3>1
  <2>3. PICK h : h = (IF k \div 2 # 0 THEN f[k \div 2] ELSE <<>>) \o last(k)
    OBVIOUS
  <2>4. h \in Seq(DigitChars)
    <3>1. k \div 2 \in 0 .. k - 1
      BY <2>2
    <3>2. (IF k \div 2 # 0 THEN f[k \div 2] ELSE <<>>) \in Seq(DigitChars)
      BY <2>1, <3>1
    <3> QED BY <1>1, <2>3, <3>2, ConcatProperties
  <2>5. PICK g : g = [n \in 0 .. k |-> IF n = k THEN h ELSE f[n]]
    OBVIOUS
  <2>6. \A n \in 0 .. k : n # k => n \in 0 .. k - 1
    OBVIOUS
  <2>7. g \in [0 .. k -> Seq(DigitChars)]
    BY <2>1, <2>4, <2>5, <2>6
  <2>8. g[k] = h /\ \A n \in 0 .. k - 1 : g[n] = f[n]
    BY <1>3, <2>5
  <2>9. ASSUME NEW n \in 0 .. k
        PROVE  Written(g, n)
    <3>1. g[n \div 2] = f[n \div 2]
      BY <2>2, <2>8
    <3>2. CASE n = k
      BY <2>3, <2>8, <3>1, <3>2 DEF Written, last
    <3>3. CASE n # k
      <4>1. n \in 0 .. k - 1
        BY <2>6, <3>3
      <4>2. g[n] = f[n] /\ Written(f, n)
        BY <2>1, <2>8, <4>1
      <4> QED BY <3>1, <4>2 DEF Written
    <3> QED BY <3>2, <3>3
  <2> QED BY <2>7, <2>9
<1> HIDE DEF UpTo
<1>4. T = {}
  <2> SUFFICES ASSUME T # {} PROVE FALSE
    OBVIOUS
  <2>1. PICK k \in T : \A n \in T : k <= n
    BY LeastOf
  <2>2. k \in Nat /\ k # 0 /\ ~UpTo(k)
    BY <1>2, <2>1
  <2>3. k - 1 \in Nat /\ k - 1 \notin T
    BY <2>1, <2>2
  <2> QED BY <1>3, <2>2, <2>3
<1> QED BY <1>4 DEF UpTo

LEMMA Writes ==
  ASSUME NEW n \in 0 .. INT_MAX
  PROVE  rio_writei[n] \in Seq(DigitChars) /\ Written(rio_writei, n)
<1> DEFINE body(f) == [k \in 0 .. INT_MAX |->
              (IF k \div 2 # 0 THEN f[k \div 2] ELSE <<>>) \o <<Digits[(k % 2) + 1]>>]
<1>1. PICK f \in [0 .. INT_MAX -> Seq(DigitChars)] : \A k \in 0 .. INT_MAX : Written(f, k)
  BY IntIsPositive, WriteExists
<1>2. f = body(f)
  <2>1. f = [k \in 0 .. INT_MAX |-> f[k]]
    BY <1>1
  <2> QED BY <1>1, <2>1 DEF Written
<1>3. rio_writei = body(rio_writei)
  BY <1>2 DEF rio_writei
<1>4. \A k \in 0 .. INT_MAX : Written(rio_writei, k)
  BY <1>3 DEF Written
<1> DEFINE T == {k \in 0 .. INT_MAX : rio_writei[k] \notin Seq(DigitChars)}
<1>5. T = {}
  <2> SUFFICES ASSUME T # {} PROVE FALSE
    OBVIOUS
  <2>1. T \subseteq Nat
    BY IntIsPositive
  <2>2. PICK k \in T : \A j \in T : k <= j
    BY <2>1, LeastOf
  <2>3. k \in 0 .. INT_MAX /\ k \in Nat
    BY <2>2, IntIsPositive
  <2>4. <<Digits[(k % 2) + 1]>> \in Seq(DigitChars)
    BY <2>3, LastDigit
  <2>5. k \div 2 # 0 => rio_writei[k \div 2] \in Seq(DigitChars)
    <3> SUFFICES ASSUME k \div 2 # 0 PROVE rio_writei[k \div 2] \in Seq(DigitChars)
      OBVIOUS
    <3>1. k \div 2 \in Nat /\ k \div 2 < k
      BY <2>3, Halves
    <3>2. k \div 2 \in 0 .. INT_MAX /\ k \div 2 \notin T
      BY <2>2, <2>3, <3>1, IntIsPositive
    <3> QED BY <3>2
  <2>6. (IF k \div 2 # 0 THEN rio_writei[k \div 2] ELSE <<>>) \in Seq(DigitChars)
    BY <2>5, EmptySeq
  <2>7. rio_writei[k] \in Seq(DigitChars)
    <3>1. PICK a : a = IF k \div 2 # 0 THEN rio_writei[k \div 2] ELSE <<>>
      OBVIOUS
    <3>2. PICK b : b = <<Digits[(k % 2) + 1]>>
      OBVIOUS
    <3>3. a \in Seq(DigitChars) /\ b \in Seq(DigitChars)
      BY <2>4, <2>6, <3>1, <3>2
    <3>4. rio_writei[k] = a \o b
      BY <1>4, <2>3, <3>1, <3>2 DEF Written
    <3> QED BY <3>3, <3>4, ConcatProperties
  <2> QED BY <2>2, <2>7
<1> QED BY <1>4, <1>5

\* Reading back what was written: the number.
LEMMA WrittenIsRead ==
  ASSUME NEW n \in 0 .. INT_MAX
  PROVE  rio_writei[n] # <<>> /\ valueOf(rio_writei[n]) = n
<1> DEFINE T == {k \in 0 .. INT_MAX : valueOf(rio_writei[k]) # k}
<1>1. ASSUME NEW k \in 0 .. INT_MAX,
             NEW w, w = IF k \div 2 # 0 THEN rio_writei[k \div 2] ELSE <<>>,
             NEW d, d = Digits[(k % 2) + 1]
      PROVE  /\ w \in Seq(Chars) /\ d \in Chars /\ Weigh(d) = k % 2
             /\ k \in Nat /\ rio_writei[k] = Append(w, d)
  <2>1. k \in Nat
    BY IntIsPositive
  <2>2. d \in DigitChars /\ Weigh(d) = k % 2
    BY <1>1, <2>1, LastDigit
  <2>3. w \in Seq(DigitChars)
    <3>1. CASE k \div 2 = 0
      BY <1>1, <3>1
    <3>2. CASE k \div 2 # 0
      <4>1. k \div 2 \in 0 .. INT_MAX
        BY <2>1, <3>2, Halves, IntIsPositive
      <4> QED BY <1>1, <3>2, <4>1, Writes
    <3> QED BY <3>1, <3>2
  <2>4. rio_writei[k] = w \o <<d>>
    BY <1>1, Writes DEF Written
  <2>5. rio_writei[k] = Append(w, d)
    BY <2>2, <2>3, <2>4, AppendIsConcat
  <2>6. w \in Seq(Chars)
    BY <2>3, DigitsAre, SeqMonotonic
  <2> QED BY <2>1, <2>2, <2>5, <2>6, DigitsAre
<1>2. T = {}
  <2> SUFFICES ASSUME T # {} PROVE FALSE
    OBVIOUS
  <2>1. T \subseteq Nat
    BY IntIsPositive
  <2>2. PICK k \in T : \A j \in T : k <= j
    BY <2>1, LeastOf
  <2>3. k \in 0 .. INT_MAX
    BY <2>2
  <2>4. PICK w : w = IF k \div 2 # 0 THEN rio_writei[k \div 2] ELSE <<>>
    OBVIOUS
  <2>5. PICK d : d = Digits[(k % 2) + 1]
    OBVIOUS
  <2>6. /\ w \in Seq(Chars) /\ d \in Chars /\ Weigh(d) = k % 2
        /\ k \in Nat /\ rio_writei[k] = Append(w, d)
    BY <1>1, <2>3, <2>4, <2>5
  <2>7. valueOf(w) = k \div 2
    <3>1. CASE k \div 2 = 0
      BY <2>4, <3>1, ValueEmpty
    <3>2. CASE k \div 2 # 0
      <4>1. k \div 2 \in Nat /\ k \div 2 < k
        BY <2>6, <3>2, Halves
      <4>2. k \div 2 \in 0 .. INT_MAX /\ k \div 2 \notin T
        BY <2>2, <2>3, <2>6, <4>1, IntIsPositive
      <4> QED BY <2>4, <3>2, <4>2
    <3> QED BY <3>1, <3>2
  <2>8. valueOf(rio_writei[k]) = 2 * (k \div 2) + (k % 2)
    BY <2>6, <2>7, ValueAppend
  <2> QED BY <2>2, <2>6, <2>8, Halves
<1>3. rio_writei[n] # <<>>
  <2>1. PICK w : w = IF n \div 2 # 0 THEN rio_writei[n \div 2] ELSE <<>>
    OBVIOUS
  <2>2. PICK d : d = Digits[(n % 2) + 1]
    OBVIOUS
  <2>3. w \in Seq(Chars) /\ d \in Chars /\ rio_writei[n] = Append(w, d)
    BY <1>1, <2>1, <2>2
  <2> QED BY <2>3, AppendProperties
<1> QED BY <1>2, <1>3

\* A word of digits from i on is found as one by commandGetString and by
\* commandGetInt.
LEMMA NumbersAreFound ==
  ASSUME NEW l \in Seq(Chars), NEW i \in 1 .. Len(l) + 1,
         NEW word, word = commandGetString(l, i).word,
         NEW n \in 0 .. INT_MAX, word = rio_writei[n]
  PROVE  commandGetInt(l, i).good /\ commandGetInt(l, i).value = n
<1>1. PICK j : j = firstOf(l, i, White \cup {NUL})
  OBVIOUS
<1>2. /\ j \in i .. Len(l) + 1 /\ (j # Len(l) + 1 => l[j] \in White \cup {NUL})
      /\ \A k \in i .. j - 1 : l[k] \notin White \cup {NUL}
  BY <1>1, FirstOf
<1>3. word = SubSeq(l, i, j - 1)
  BY <1>1 DEF commandGetString, commandGetUntil
<1>4. word # <<>> /\ valueOf(word) = n /\ word \in Seq(DigitChars)
  BY WrittenIsRead, Writes
<1>5. PICK d : d = firstOf(l, i, Chars \ DigitChars)
  OBVIOUS
<1>6. /\ d \in i .. Len(l) + 1 /\ (d # Len(l) + 1 => l[d] \in Chars \ DigitChars)
      /\ \A k \in i .. d - 1 : l[k] \notin Chars \ DigitChars
  BY <1>5, FirstOf
<1>7. Len(word) = j - i /\ \A k \in 1 .. j - i : word[k] = l[i + k - 1]
  BY <1>2, <1>3, PartIsText
<1>8. \A k \in i .. j - 1 : l[k] \in DigitChars
  <2>1. ASSUME NEW k \in i .. j - 1
        PROVE  l[k] \in DigitChars
    <3>1. k - i + 1 \in 1 .. j - i /\ i + (k - i + 1) - 1 = k
      BY <1>2
    <3>2. word[k - i + 1] = l[k]
      BY <1>7, <3>1
    <3>3. k - i + 1 \in 1 .. Len(word)
      BY <1>7, <3>1
    <3> QED BY <1>4, <3>2, <3>3, ElementOfSeq
  <2> QED BY <2>1
<1>9. (White \cup {NUL}) \cap DigitChars = {} /\ White \cup {NUL} \subseteq Chars
  BY DigitsAre DEF White, NUL, SP, NL, CR, Chars
<1>10. d = j
  <2>1. ~ (d < j)
    <3> SUFFICES ASSUME d < j PROVE FALSE
      OBVIOUS
    <3>1. d \in i .. j - 1 /\ d # Len(l) + 1
      BY <1>2, <1>6
    <3> QED BY <1>6, <1>8, <3>1
  <2>2. ~ (j < d)
    <3> SUFFICES ASSUME j < d PROVE FALSE
      OBVIOUS
    <3>1. j \in i .. d - 1 /\ j # Len(l) + 1
      BY <1>2, <1>6
    <3> QED BY <1>2, <1>6, <1>9, <3>1
  <2> QED BY <1>2, <1>6, <2>1, <2>2
<1>11. j > i
  BY <1>2, <1>4, <1>7
<1>12. charAt(l, j) \in White \cup {NUL}
  BY <1>2 DEF charAt
<1>13. /\ commandGetInt(l, i).good <=> (d > i /\ charAt(l, d) \in White \cup {NUL})
       /\ commandGetInt(l, i).value = valueOf(SubSeq(l, i, d - 1))
  <2>1. d = firstOf(l, i, Chars \ {Digits[k] : k \in DOMAIN Digits})
    BY <1>5 DEF DigitChars
  <2> QED BY <2>1 DEF commandGetInt
<1> QED BY <1>3, <1>4, <1>10, <1>11, <1>12, <1>13

\* What commandGetInt accepts is a word, and it goes where commandGetString goes.
LEMMA NumbersAreWords ==
  ASSUME NEW l \in Seq(Chars), NEW i \in 1 .. Len(l) + 1, commandGetInt(l, i).good
  PROVE  /\ commandGetInt(l, i).word = commandGetString(l, i).word
         /\ commandGetInt(l, i).at = commandGetString(l, i).at
<1>1. PICK j : j = firstOf(l, i, White \cup {NUL})
  OBVIOUS
<1>2. /\ j \in i .. Len(l) + 1 /\ (j # Len(l) + 1 => l[j] \in White \cup {NUL})
      /\ \A k \in i .. j - 1 : l[k] \notin White \cup {NUL}
  BY <1>1, FirstOf
<1>3. PICK d : d = firstOf(l, i, Chars \ DigitChars)
  OBVIOUS
<1>4. /\ d \in i .. Len(l) + 1 /\ (d # Len(l) + 1 => l[d] \in Chars \ DigitChars)
      /\ \A k \in i .. d - 1 : l[k] \notin Chars \ DigitChars
  BY <1>3, FirstOf
<1>5. d = firstOf(l, i, Chars \ {Digits[k] : k \in DOMAIN Digits})
  BY <1>3 DEF DigitChars
<1>6. d > i /\ charAt(l, d) \in White \cup {NUL}
  BY <1>5 DEF commandGetInt
<1>7. (White \cup {NUL}) \cap DigitChars = {} /\ White \cup {NUL} \subseteq Chars
  BY DigitsAre DEF White, NUL, SP, NL, CR, Chars
<1>8. d = j
  <2>1. ~ (d < j)
    <3> SUFFICES ASSUME d < j PROVE FALSE
      OBVIOUS
    <3>1. d \in i .. j - 1 /\ d \in DOMAIN l
      BY <1>2, <1>4
    <3>2. l[d] \in White \cup {NUL}
      BY <1>6, <3>1 DEF charAt
    <3> QED BY <1>2, <3>1, <3>2
  <2>2. ~ (j < d)
    <3> SUFFICES ASSUME j < d PROVE FALSE
      OBVIOUS
    <3>1. j \in i .. d - 1 /\ j # Len(l) + 1
      BY <1>2, <1>4
    <3> QED BY <1>2, <1>4, <1>7, <3>1
  <2> QED BY <1>2, <1>4, <2>1, <2>2
<1>9. /\ commandGetInt(l, i).word = SubSeq(l, i, d - 1)
      /\ commandGetInt(l, i).at = ignoreWhiteSpace(l, d)
  BY <1>5, <1>6 DEF commandGetInt
<1>10. j # i
  BY <1>4, <1>6, <1>8
<1>11. /\ commandGetString(l, i).word = SubSeq(l, i, j - 1)
       /\ commandGetString(l, i).at = ignoreWhiteSpace(l, j)
  BY <1>1, <1>10 DEF commandGetString, commandGetUntil
<1> QED BY <1>8, <1>9, <1>11

\* The number a server writes is the number its peer reads, up to the largest int;
\* and nothing but a whole word is taken for one.
THEOREM NumbersAreKept == Spec => []NumberKept
<1>1. IInv => NumberKept
  <2> SUFFICES ASSUME IInv, pc = "parsing",
                      NEW word, word = commandGetString(line, commandChar).word,
                      NEW int, int = commandGetInt(line, commandChar)
               PROVE  /\ \A n \in 0 .. INT_MAX : word = rio_writei[n] => int.good /\ int.value = n
                      /\ int.good => /\ int.word = word
                                     /\ int.at = commandGetString(line, commandChar).at
    BY DEF NumberKept
  <2>1. PICK l, i : l = line /\ i = commandChar
    OBVIOUS
  <2>2. l \in Seq(Chars) /\ i \in 1 .. Len(l) + 1
    BY <2>1, InTheLine DEF IInv, TypeOK
  <2>3. word = commandGetString(l, i).word /\ int = commandGetInt(l, i)
    BY <2>1
  <2>4. ASSUME NEW n \in 0 .. INT_MAX, word = rio_writei[n] PROVE int.good /\ int.value = n
    <3>1. commandGetInt(l, i).good /\ commandGetInt(l, i).value = n
      BY <2>2, <2>3, <2>4, NumbersAreFound
    <3> QED BY <2>3, <3>1
  <2>5. int.good => int.word = word /\ int.at = commandGetString(l, i).at
    BY <2>2, <2>3, NumbersAreWords
  <2> QED BY <2>1, <2>4, <2>5
<1> QED BY <1>1, Invariance, PTL

--------------------------------------------------------------------------------
\* A text that may be said: it starts with a visible character, and no character
\* of it ends a line.
Sayable(text) ==
  /\ text \in Seq(Chars) /\ text # <<>>
  /\ Len(text) + 3 < RIO_BUFSIZE
  /\ text[1] \notin White
  /\ \A k \in 1 .. Len(text) : text[k] \notin Newlines \cup {NUL}

\* The text of a /msg may be said, however long the line was.
LEMMA TypedIsSayable ==
  ASSUME NEW l \in Seq(Chars), Len(l) < RIO_BUFSIZE, typedText(l) # <<>>
  PROVE  Sayable(typedText(l))
<1>1. PICK slash : slash = ignoreWhiteSpace(l, 1)
  OBVIOUS
<1>2. PICK i : i = ignoreWhiteSpace(l, slash + 1)
  OBVIOUS
<1>3. PICK command : command = commandGetString(l, i)
  OBVIOUS
<1>4. PICK username : username = commandGetString(l, command.at)
  OBVIOUS
<1>5. /\ charAt(l, slash) = SLASH /\ command.word # <<>> /\ username.word # <<>>
      /\ typedText(l) = commandGetLine(l, username.at).word
  BY <1>1, <1>2, <1>3, <1>4 DEF typedText
<1>6. slash \in 1 .. Len(l)
  <2>1. slash \in 1 .. Len(l) + 1
    <3>1. 1 \in 1 .. Len(l) + 1
      OBVIOUS
    <3> QED BY <1>1, <3>1, IgnoreWhiteSpace
  <2> QED BY <1>5, <2>1 DEF charAt, SLASH, NUL
<1>7. i \in 2 .. Len(l) + 1 /\ charAt(l, i) \notin White
  <2>1. slash + 1 \in 1 .. Len(l) + 1
    BY <1>6
  <2>2. i \in slash + 1 .. Len(l) + 1 /\ charAt(l, i) \notin White
    BY <1>2, <2>1, IgnoreWhiteSpace
  <2> QED BY <1>6, <2>2
<1>8. ASSUME NEW p \in 1 .. Len(l) + 1, charAt(l, p) \notin White,
             NEW got, got = commandGetString(l, p), got.word # <<>>
      PROVE  got.at \in p + 1 .. Len(l) + 1 /\ charAt(l, got.at) \notin White
  <2>1. Taken(got, l, p)
    BY <1>8, GetUntil DEF commandGetString
  <2>2. got.at \in p .. Len(l) + 1 /\ charAt(l, got.at) \notin White
    BY <2>1 DEF Taken
  <2>3. PICK j \in p .. got.at : got.word = SubSeq(l, p, j - 1)
    BY <2>1 DEF Taken
  <2>4. j # p
    <3> SUFFICES ASSUME j = p PROVE FALSE
      OBVIOUS
    <3>1. SubSeq(l, p, p - 1) = <<>>
      <4>1. p \in Int /\ p - 1 \in Int /\ p - 1 < p
        OBVIOUS
      <4> QED BY <4>1, SubSeqEmpty
    <3> QED BY <1>8, <2>3, <3>1
  <2> QED BY <2>2, <2>3, <2>4
<1>9. command.at \in 3 .. Len(l) + 1 /\ charAt(l, command.at) \notin White
  <2>1. i \in 1 .. Len(l) + 1
    BY <1>7
  <2>2. command.at \in i + 1 .. Len(l) + 1 /\ charAt(l, command.at) \notin White
    BY <1>3, <1>5, <1>7, <1>8, <2>1
  <2> QED BY <1>7, <2>2
<1>10. PICK at : at = username.at
  OBVIOUS
<1>11. at \in 4 .. Len(l) + 1 /\ charAt(l, at) \notin White
  <2>1. PICK p : p = command.at
    OBVIOUS
  <2>2. p \in 1 .. Len(l) + 1 /\ p \in 3 .. Len(l) + 1 /\ charAt(l, p) \notin White
    BY <1>9, <2>1
  <2>3. username.at \in p + 1 .. Len(l) + 1 /\ charAt(l, username.at) \notin White
    BY <1>4, <1>5, <1>8, <2>1, <2>2
  <2> QED BY <1>10, <2>2, <2>3
<1>12. PICK j : j = firstOf(l, at, Newlines \cup {NUL})
  OBVIOUS
<1>13. at \in 1 .. Len(l) + 1
  BY <1>11
<1>14. j \in at .. Len(l) + 1 /\ \A k \in at .. j - 1 : l[k] \notin Newlines \cup {NUL}
  BY <1>12, <1>13, FirstOf
<1>15. PICK text : text = SubSeq(l, at, j - 1)
  OBVIOUS
<1>16. typedText(l) = text
  BY <1>5, <1>10, <1>12, <1>15 DEF commandGetLine, commandGetUntil
<1>17. /\ text \in Seq(Chars) /\ Len(text) = j - at
       /\ \A k \in 1 .. j - at : text[k] = l[at + k - 1]
  BY <1>13, <1>14, <1>15, PartIsText
<1>18. j - at >= 1
  <2>1. Len(text) # 0
    BY <1>16, <1>17
  <2> QED BY <1>11, <1>14, <1>17, <2>1
<1>19. Len(text) + 3 < RIO_BUFSIZE
  BY <1>11, <1>14, <1>17, BufferHoldsAByte
<1>20. text[1] \notin White
  <2>1. 1 \in 1 .. j - at /\ at + 1 - 1 = at /\ at \in DOMAIN l
    BY <1>11, <1>14, <1>18
  <2> QED BY <1>11, <1>17, <2>1 DEF charAt
<1>21. ASSUME NEW k \in 1 .. Len(text)
       PROVE  text[k] \notin Newlines \cup {NUL}
  <2>1. k \in 1 .. j - at /\ at + k - 1 \in at .. j - 1
    BY <1>11, <1>14, <1>17
  <2> QED BY <1>14, <1>17, <2>1
<1> QED BY <1>16, <1>17, <1>19, <1>20, <1>21 DEF Sayable

\* The line that says it.
LEMMA SayLineIs ==
  ASSUME NEW text, Sayable(text), NEW say, say = sayLine(text), NEW n, n = Len(text)
  PROVE  /\ n \in Nat /\ n >= 1 /\ say \in Seq(Chars) /\ Len(say) = n + 3
         /\ say[1] = "s" /\ say[2] = SP /\ say[n + 3] = NL
         /\ \A k \in 1 .. n : say[k + 2] = text[k]
<1>1. text \in Seq(Chars) /\ n \in Nat /\ n >= 1
  BY DEF Sayable
<1>2. "s" \in Chars /\ SP \in Chars /\ NL \in Chars
  BY SayIsSpelled DEF Chars, White
<1>3. PICK a : a = <<"s", SP>>
  OBVIOUS
<1>4. PICK b : b = <<NL>>
  OBVIOUS
<1>5. a \in Seq(Chars) /\ Len(a) = 2 /\ a[1] = "s" /\ a[2] = SP
  BY <1>2, <1>3
<1>6. b \in Seq(Chars) /\ Len(b) = 1 /\ b[1] = NL
  BY <1>2, <1>4
<1>7. PICK c : c = a \o text
  OBVIOUS
<1>8. /\ c \in Seq(Chars) /\ Len(c) = n + 2
      /\ \A i \in 1 .. Len(a) + Len(text) : c[i] = IF i <= Len(a) THEN a[i] ELSE text[i - Len(a)]
  <2>1. /\ a \o text \in Seq(Chars) /\ Len(a \o text) = Len(a) + Len(text)
        /\ \A i \in 1 .. Len(a) + Len(text) :
             (a \o text)[i] = IF i <= Len(a) THEN a[i] ELSE text[i - Len(a)]
    BY <1>1, <1>5, ConcatProperties
  <2>2. Len(a) + Len(text) = n + 2
    BY <1>1, <1>5
  <2> QED BY <1>7, <2>1, <2>2
<1>9. say = c \o b
  BY <1>3, <1>4, <1>7 DEF sayLine
<1>10. /\ say \in Seq(Chars) /\ Len(say) = n + 3
       /\ \A i \in 1 .. Len(c) + Len(b) : say[i] = IF i <= Len(c) THEN c[i] ELSE b[i - Len(c)]
  <2>1. /\ c \o b \in Seq(Chars) /\ Len(c \o b) = Len(c) + Len(b)
        /\ \A i \in 1 .. Len(c) + Len(b) : (c \o b)[i] = IF i <= Len(c) THEN c[i] ELSE b[i - Len(c)]
    <3>1. b \in Seq(Chars) /\ c \in Seq(Chars)
      BY <1>6, <1>8
    <3> QED BY <3>1, ConcatProperties
  <2>2. Len(c) + Len(b) = n + 3
    BY <1>1, <1>6, <1>8
  <2> QED BY <1>9, <2>1, <2>2
<1>11. \A i \in 1 .. n + 2 : say[i] = IF i <= 2 THEN a[i] ELSE text[i - 2]
  <2>1. \A i \in 1 .. n + 2 : say[i] = c[i]
    BY <1>1, <1>6, <1>8, <1>10
  <2> QED BY <1>1, <1>5, <1>8, <2>1
<1>12. say[n + 3] = NL
  <2>1. n + 3 \in 1 .. Len(c) + Len(b) /\ ~(n + 3 <= Len(c)) /\ n + 3 - Len(c) = 1
    BY <1>1, <1>6, <1>8
  <2> QED BY <1>6, <1>10, <2>1
<1>13. say[1] = "s" /\ say[2] = SP
  BY <1>1, <1>5, <1>11
<1>14. ASSUME NEW k \in 1 .. n
       PROVE  say[k + 2] = text[k]
  <2>1. k + 2 \in 1 .. n + 2 /\ ~(k + 2 <= 2) /\ k + 2 - 2 = k
    BY <1>1
  <2> QED BY <1>11, <2>1
<1> QED BY <1>1, <1>10, <1>12, <1>13, <1>14

\* It is read as one line.
LEMMA SayLineIsRead ==
  ASSUME NEW text, Sayable(text)
  PROVE  FirstLine(sayLine(text)) = sayLine(text)
<1>1. PICK say, n : say = sayLine(text) /\ n = Len(text)
  OBVIOUS
<1>2. /\ n \in Nat /\ n >= 1 /\ say \in Seq(Chars) /\ Len(say) = n + 3
      /\ say[1] = "s" /\ say[2] = SP /\ say[n + 3] = NL
      /\ \A k \in 1 .. n : say[k + 2] = text[k]
  BY <1>1, SayLineIs
<1>3. ASSUME NEW i \in 1 .. Len(say) - 1
      PROVE  say[i] # NL
  <2>1. CASE i \in {1, 2}
    BY <1>2, <2>1 DEF SP, NL
  <2>2. CASE i \notin {1, 2}
    <3>1. i - 2 \in 1 .. n /\ (i - 2) + 2 = i
      BY <1>2, <2>2
    <3>2. say[i] = text[i - 2]
      BY <1>2, <3>1
    <3> QED BY <1>1, <3>1, <3>2 DEF Sayable, Newlines
  <2> QED BY <2>1, <2>2
<1>4. say # <<>> /\ Complete(say)
  BY <1>2 DEF Complete
<1>5. Len(say) < RIO_BUFSIZE
  BY <1>1, <1>2 DEF Sayable
<1>6. FirstLine(say \o <<>>) = say
  BY <1>2, <1>3, <1>4, <1>5, EmptySeq, FirstLineIs
<1>7. say \o <<>> = say
  BY <1>2, ConcatEmptySeq
<1> QED BY <1>1, <1>6, <1>7

\* And what messageReceiverThread hears in it is the text.
LEMMA SayLineIsHeard ==
  ASSUME NEW text, Sayable(text)
  PROVE  heardText(sayLine(text)) = text
<1>1. PICK say, n : say = sayLine(text) /\ n = Len(text)
  OBVIOUS
<1>2. /\ n \in Nat /\ n >= 1 /\ say \in Seq(Chars) /\ Len(say) = n + 3
      /\ say[1] = "s" /\ say[2] = SP /\ say[n + 3] = NL
      /\ \A k \in 1 .. n : say[k + 2] = text[k]
  BY <1>1, SayLineIs
<1>3. say[3] = text[1] /\ say[3] \notin White
  <2>1. 1 \in 1 .. n /\ 1 + 2 = 3
    BY <1>2
  <2> QED BY <1>2, <2>1 DEF Sayable
<1>4. /\ 1 \in 1 .. Len(say) + 1 /\ 2 \in 1 .. Len(say) + 1 /\ 3 \in 1 .. Len(say) + 1
      /\ {1, 2, 3} \subseteq DOMAIN say
  BY <1>2
<1>5. ignoreWhiteSpace(say, 1) = 1
  <2>1. PICK at : at = ignoreWhiteSpace(say, 1)
    OBVIOUS
  <2>2. at \in 1 .. Len(say) + 1 /\ \A k \in 1 .. at - 1 : say[k] \in White
    BY <1>2, <1>4, <2>1, IgnoreWhiteSpace
  <2>3. say[1] \notin White
    BY <1>2 DEF White, SP, NL, CR
  <2>4. at = 1
    BY <1>2, <2>2, <2>3
  <2> QED BY <2>1, <2>4
<1>6. firstOf(say, 1, White \cup {NUL}) = 2
  <2>1. PICK j : j = firstOf(say, 1, White \cup {NUL})
    OBVIOUS
  <2>2. /\ j \in 1 .. Len(say) + 1 /\ (j # Len(say) + 1 => say[j] \in White \cup {NUL})
        /\ \A k \in 1 .. j - 1 : say[k] \notin White \cup {NUL}
    BY <1>2, <1>4, <2>1, FirstOf
  <2>3. say[1] \notin White \cup {NUL} /\ say[2] \in White
    BY <1>2 DEF White, SP, NL, CR, NUL
  <2>4. j = 2
    BY <1>2, <2>2, <2>3
  <2> QED BY <2>1, <2>4
<1>7. ignoreWhiteSpace(say, 2) = 3
  <2>1. PICK at : at = ignoreWhiteSpace(say, 2)
    OBVIOUS
  <2>2. /\ at \in 2 .. Len(say) + 1 /\ charAt(say, at) \notin White
        /\ \A k \in 2 .. at - 1 : say[k] \in White
    BY <1>2, <1>4, <2>1, IgnoreWhiteSpace
  <2>3. at # 2
    <3>1. charAt(say, 2) = SP /\ SP \in White
      BY <1>2, <1>4 DEF charAt, White
    <3> QED BY <2>2, <3>1
  <2>4. at = 3
    BY <1>2, <1>3, <2>2, <2>3
  <2> QED BY <2>1, <2>4
<1>8. commandGetString(say, 1).at = 3
  BY <1>6, <1>7 DEF commandGetString, commandGetUntil
<1>9. PICK j : j = firstOf(say, 3, Newlines \cup {NUL})
  OBVIOUS
<1>10. j = n + 3
  <2>1. /\ j \in 3 .. Len(say) + 1 /\ (j # Len(say) + 1 => say[j] \in Newlines \cup {NUL})
        /\ \A k \in 3 .. j - 1 : say[k] \notin Newlines \cup {NUL}
    BY <1>2, <1>4, <1>9, FirstOf
  <2>2. say[n + 3] \in Newlines
    BY <1>2 DEF Newlines
  <2>3. \A k \in 3 .. n + 2 : say[k] \notin Newlines \cup {NUL}
    <3>1. ASSUME NEW k \in 3 .. n + 2
          PROVE  say[k] \notin Newlines \cup {NUL}
      <4>1. k - 2 \in 1 .. n /\ (k - 2) + 2 = k
        BY <1>2
      <4>2. say[k] = text[k - 2]
        BY <1>2, <4>1
      <4> QED BY <1>1, <4>1, <4>2 DEF Sayable
    <3> QED BY <3>1
  <2>4. j <= n + 3
    <3> SUFFICES ASSUME n + 3 < j PROVE FALSE
      BY <1>2, <2>1
    <3>1. n + 3 \in 3 .. j - 1
      BY <1>2, <2>1
    <3> QED BY <2>1, <2>2, <3>1
  <2>5. ~ (j < n + 3)
    <3> SUFFICES ASSUME j < n + 3 PROVE FALSE
      OBVIOUS
    <3>1. j \in 3 .. n + 2 /\ j # Len(say) + 1
      BY <1>2, <2>1
    <3> QED BY <2>1, <2>3, <3>1
  <2> QED BY <1>2, <2>1, <2>4, <2>5
<1>11. heardText(say) = SubSeq(say, 3, j - 1)
  BY <1>5, <1>8, <1>9 DEF heardText, commandGetLine, commandGetUntil
<1>12. PICK heard : heard = SubSeq(say, 3, j - 1)
  OBVIOUS
<1>13. /\ heard \in Seq(Chars) /\ Len(heard) = j - 3
       /\ \A k \in 1 .. j - 3 : heard[k] = say[3 + k - 1]
  <2>1. j \in 3 .. Len(say) + 1
    BY <1>2, <1>10
  <2> QED BY <1>2, <1>4, <1>12, <2>1, PartIsText
<1>14. ASSUME NEW k \in 1 .. n
       PROVE  heard[k] = text[k]
  <2>1. k \in 1 .. j - 3 /\ 3 + k - 1 = k + 2
    BY <1>2, <1>10
  <2> QED BY <1>2, <1>13, <2>1
<1>15. heard = text
  <2>1. text \in Seq(Chars) /\ Len(heard) = Len(text)
    BY <1>1, <1>2, <1>10, <1>13 DEF Sayable
  <2> QED BY <1>1, <1>13, <1>14, <2>1, SeqEqual
<1> QED BY <1>1, <1>11, <1>12, <1>15

\* A message is heard as it was typed, whatever it is and however long the line.
THEOREM MessagesAreKept == Spec => []MessageKept
<1>1. IInv => MessageKept
  <2> SUFFICES ASSUME IInv, pc = "parsing", typedText(line) # <<>>,
                      NEW text, text = typedText(line)
               PROVE  FirstLine(sayLine(text)) = sayLine(text) /\ heardText(sayLine(text)) = text
    BY DEF MessageKept
  <2>1. line \in Seq(Chars) /\ Len(line) < RIO_BUFSIZE
    BY DEF IInv, TypeOK
  <2>2. PICK l : l = line
    OBVIOUS
  <2>3. Sayable(typedText(l))
    BY <2>1, <2>2, TypedIsSayable
  <2>4. Sayable(text)
    BY <2>2, <2>3
  <2> QED BY <2>4, SayLineIsRead, SayLineIsHeard
<1> QED BY <1>1, Invariance, PTL

================================================================================
