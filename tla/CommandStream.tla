----------------------------- MODULE CommandStream -----------------------------
(***************************************************************************)
(* A command stream: rio_readlineb cuts what arrives at a descriptor into  *)
(* lines, through a buffer that is refilled with whatever is there, and    *)
(* getCommand, commandGetString, commandGetLine, commandGetInt and         *)
(* commandHasNext take a line to pieces.  Both programs do all their       *)
(* reading with it.                                                        *)
(*                                                                         *)
(* A character stands for its class; a tab is a space.  A read interrupted *)
(* by a signal is repeated and has no step.                                *)
(***************************************************************************)
EXTENDS Naturals, Sequences, SequencesExt, FiniteSetsExt

CONSTANTS
  Letters,            \* characters of no class of their own, among them that of "s <text>"
  Inputs,             \* what may be sent before the connection is closed
  RIO_BUFSIZE,        \* size of rio_buf, and of a line with its terminator
  MAX_ALLOCATED,      \* length of allocatedObject
  MaxGets,            \* bound: words a caller takes from a line, or from unset memory
  Strays,             \* the words a caller may find in memory that nothing was written to
  INT_MAX             \* the largest int

\* The longest line, /login, has five words (peer.c, main).
ASSUME CallersFit == MaxGets \in Nat /\ MAX_ALLOCATED \in Nat /\ MaxGets <= MAX_ALLOCATED
ASSUME BufferHoldsAByte == RIO_BUFSIZE \in Nat /\ RIO_BUFSIZE >= 2
ASSUME IntIsPositive == INT_MAX \in Nat
ASSUME SayIsSpelled == "s" \in Letters

SP == "space"
NL == "newline"
CR == "return"
NUL == "nul"
SLASH == "slash"
White == {SP, NL, CR}
Newlines == {NL, CR}
Digits == <<"0", "1">>   \* in radix two
Chars == Letters \cup White \cup {NUL, SLASH} \cup {Digits[i] : i \in DOMAIN Digits}

ASSUME InputIsText == Inputs \subseteq Seq(Chars)
ASSUME StraysAreWords == Strays \subseteq Seq(Chars) \ {<<>>}

VARIABLES
  input,            \* sent and not read yet
  rio_buf,          \* read and not copied yet: rio_cnt bytes from rio_bufptr
  line,             \* currentCommand, without its terminator
  commandChar,      \* the position in it, from 1; Unset before the first line
  isCommand,        \* commandGetIndicator found a slash
  gets,             \* how many words the caller has asked the line for
  allocatedObject,  \* the words taken from the line and allocated
  taken,            \* the characters of all that was taken from the line
  pc                \* "reading", "parsing", "ended", "failed", "destroyed", "killed"

\* makeCommandStream sets neither the position nor the line.
Unset == 0

wordVars == <<commandChar, isCommand, gets, allocatedObject, taken>>
vars == <<input, rio_buf, line, wordVars, pc>>

--------------------------------------------------------------------------------
\* command.c.

charAt(l, i) == IF i \in DOMAIN l THEN l[i] ELSE NUL

\* The first position from i on that holds a character of S; the terminator is one.
firstOf(l, i, S) == Min({j \in i .. Len(l) + 1 : j = Len(l) + 1 \/ l[j] \in S})

\* Mutant: a newline is not skipped.
ignoreSpaces(l, i) == firstOf(l, i, Chars \ {SP})

ignoreWhiteSpace(l, i) == firstOf(l, i, Chars \ White)

\* Mutant: the word takes the character that ends it.
getWithEnd(l, i, stop) ==
  LET j == firstOf(l, i, stop \cup {NUL})
  IN  [word |-> IF j = i THEN <<>> ELSE SubSeq(l, i, Min({j, Len(l)})),
       at |-> ignoreWhiteSpace(l, j)]

\* Mutant: the character that ends a word is never looked at.
getPastEnd(l, i, stop) ==
  LET j == firstOf(l, i, stop \cup {NUL})
  IN  [word |-> SubSeq(l, i, j - 1), at |-> ignoreWhiteSpace(l, Min({j + 1, Len(l) + 1}))]

\* commandGetUntil: an empty word is a failure, and leaves everything as it was.
commandGetUntil(l, i, stop) ==
  LET j == firstOf(l, i, stop \cup {NUL})
  IN  [word |-> SubSeq(l, i, j - 1), at |-> IF j = i THEN i ELSE ignoreWhiteSpace(l, j)]

commandGetString(l, i) == commandGetUntil(l, i, White)
commandGetLine(l, i) == commandGetUntil(l, i, Newlines)
commandHasNext == charAt(line, commandChar) # NUL

\* Mutant: the digits are added up.
addUp(word) == FoldLeft(LAMBDA v, d : v + (IF d = "1" THEN 1 ELSE 0), 0, word)

\* The int in a word of digits.  Beyond INT_MAX the C language gives it no value.
valueOf(word) ==
  LET value[n \in 0 .. Len(word)] ==
        IF n = 0 THEN 0 ELSE 2 * value[n - 1] + (IF word[n] = "1" THEN 1 ELSE 0)
  IN  value[Len(word)]

\* commandGetInt stops at the first character that is no digit; unless that ends
\* the word it fails, and leaves the position there.
commandGetInt(l, i) ==
  LET j == firstOf(l, i, Chars \ {Digits[d] : d \in DOMAIN Digits})
      good == j > i /\ charAt(l, j) \in White \cup {NUL}
  IN  [good |-> good, word |-> SubSeq(l, i, j - 1), value |-> valueOf(SubSeq(l, i, j - 1)),
       at |-> IF good THEN ignoreWhiteSpace(l, j) ELSE j]

\* What rio_writei of name_server.c writes for a number.
rio_writei[n \in 0 .. INT_MAX] ==
  (IF n \div 2 # 0 THEN rio_writei[n \div 2] ELSE <<>>) \o <<Digits[(n % 2) + 1]>>

Take(got) ==
  /\ pc = "parsing"
  /\ gets < MaxGets
  /\ gets' = gets + 1
  /\ commandChar' = got.at
  /\ taken' = taken \o got.word
  /\ UNCHANGED <<input, rio_buf, line, isCommand, pc>>

Allocate(word) ==
  allocatedObject' = IF word = <<>> THEN allocatedObject ELSE Append(allocatedObject, word)

GetString == LET got == commandGetString(line, commandChar) IN Take(got) /\ Allocate(got.word)
GetLine == LET got == commandGetLine(line, commandChar) IN Take(got) /\ Allocate(got.word)
GetInt == Take(commandGetInt(line, commandChar)) /\ UNCHANGED allocatedObject

\* commandGetIndicator, which main of peer.c calls first.
GetIndicator ==
  /\ pc = "parsing"
  /\ ~isCommand /\ gets = 0
  /\ charAt(line, commandChar) = SLASH
  /\ isCommand' = TRUE
  /\ commandChar' = ignoreWhiteSpace(line, commandChar + 1)
  /\ taken' = <<SLASH>>
  /\ UNCHANGED <<input, rio_buf, line, gets, allocatedObject, pc>>

\* getCommand, up to its call of rio_readlineb.
GetCommand ==
  /\ pc = "parsing"
  /\ pc' = "reading"
  /\ line' = <<>>
  /\ UNCHANGED <<input, rio_buf, wordVars>>

\* Mutant: the words of the last line are kept.
DeliverKeeping(l) ==
  /\ pc' = "parsing"
  /\ line' = l
  /\ commandChar' = ignoreWhiteSpace(l, 1)
  /\ isCommand' = FALSE
  /\ gets' = 0
  /\ taken' = <<>>
  /\ UNCHANGED allocatedObject

\* Mutant: the position of the last line, or none, is kept.
DeliverInPlace(l) ==
  /\ pc' = "parsing"
  /\ line' = l
  /\ isCommand' = FALSE
  /\ gets' = 0
  /\ taken' = <<>>
  /\ allocatedObject' = <<>>
  /\ UNCHANGED commandChar

\* getCommand, when rio_readlineb returned the line l.
Deliver(l) ==
  /\ pc' = "parsing"
  /\ line' = l
  /\ commandChar' = ignoreWhiteSpace(l, 1)
  /\ isCommand' = FALSE
  /\ gets' = 0
  /\ taken' = <<>>
  /\ allocatedObject' = <<>>

\* thread of name_server.c and messageReceiverThread do not look at the result of
\* their first getCommand.  If that failed they take words from wherever the unset
\* position points to: that ends the process, is no word, or is any.  What
\* getCommand they call after that fails as well, and changes nothing.
ParseUnset ==
  /\ pc \in {"ended", "failed"}
  /\ commandChar = Unset
  /\ gets < MaxGets
  /\ \/ pc' = "killed" /\ UNCHANGED <<gets, allocatedObject>>
     \/ \E word \in Strays \cup {<<>>} : Allocate(word) /\ gets' = gets + 1 /\ UNCHANGED pc
  /\ UNCHANGED <<input, rio_buf, line, commandChar, isCommand, taken>>

\* Every other caller gives up on a stream whose getCommand failed, and so do those,
\* when they miss a word or have had their words.
destroyCommandStream ==
  /\ pc \in {"ended", "failed"}
  /\ pc' = "destroyed"
  /\ allocatedObject' = <<>>
  /\ UNCHANGED <<input, rio_buf, line, commandChar, isCommand, gets, taken>>

--------------------------------------------------------------------------------
\* rio_readlineb.

\* rio_read refills its empty buffer with as much as has arrived.
Refill ==
  /\ pc = "reading"
  /\ rio_buf = <<>>
  /\ \E k \in 1 .. Min({Len(input), RIO_BUFSIZE}) :
       /\ rio_buf' = SubSeq(input, 1, k)
       /\ input' = SubSeq(input, k + 1, Len(input))
  /\ UNCHANGED <<line, wordVars, pc>>

ReadFails ==
  /\ pc = "reading"
  /\ rio_buf = <<>>
  /\ pc' = "failed"
  /\ UNCHANGED <<input, rio_buf, line, wordVars>>

\* A line is over after a newline, or where the array leaves room for nothing but
\* the terminator.
Complete(l) == l # <<>> /\ (l[Len(l)] = NL \/ Len(l) = RIO_BUFSIZE - 1)

\* Mutant: what is in the buffer behind the line is dropped.
CopyByteDropping ==
  /\ pc = "reading"
  /\ rio_buf # <<>>
  /\ LET l == Append(line, Head(rio_buf)) IN
       IF Complete(l) THEN Deliver(l) /\ rio_buf' = <<>>
       ELSE line' = l /\ rio_buf' = Tail(rio_buf) /\ UNCHANGED <<wordVars, pc>>
  /\ UNCHANGED input

CopyByte ==
  /\ pc = "reading"
  /\ rio_buf # <<>>
  /\ rio_buf' = Tail(rio_buf)
  /\ LET l == Append(line, Head(rio_buf)) IN
       IF Complete(l) THEN Deliver(l) ELSE line' = l /\ UNCHANGED <<wordVars, pc>>
  /\ UNCHANGED input

\* At the end of the file what was read is a line all the same.
EndOfFile ==
  /\ pc = "reading"
  /\ rio_buf = <<>> /\ input = <<>>
  /\ IF line # <<>> THEN Deliver(line) ELSE pc' = "ended" /\ UNCHANGED <<line, wordVars>>
  /\ UNCHANGED <<input, rio_buf>>

Init ==
  /\ input \in Inputs
  /\ rio_buf = <<>>
  /\ line = <<>>
  /\ commandChar = Unset
  /\ isCommand = FALSE
  /\ gets = 0
  /\ allocatedObject = <<>>
  /\ taken = <<>>
  /\ pc = "reading"

Next ==
  \/ GetCommand \/ GetIndicator \/ GetString \/ GetLine \/ GetInt \/ ParseUnset
  \/ destroyCommandStream
  \/ Refill \/ ReadFails \/ CopyByte \/ EndOfFile

Spec == Init /\ [][Next]_vars

--------------------------------------------------------------------------------
\* Every variable has its type; a line leaves room for its terminator, and while a
\* line is taken to pieces the position is set, and one of the array.
TypeOK ==
  /\ input \in Seq(Chars) /\ rio_buf \in Seq(Chars) /\ line \in Seq(Chars)
  /\ Len(rio_buf) <= RIO_BUFSIZE /\ Len(line) < RIO_BUFSIZE
  /\ commandChar \in {Unset} \cup 1 .. RIO_BUFSIZE
  /\ pc = "parsing" => commandChar # Unset
  /\ isCommand \in BOOLEAN /\ gets \in 0 .. MaxGets
  /\ allocatedObject \in Seq(Seq(Chars)) /\ taken \in Seq(Chars)
  /\ pc \in {"reading", "parsing", "ended", "failed", "destroyed", "killed"}

\* What is still to come: the line being read, the buffer, and what was not read.
Pending == (IF pc = "reading" THEN line ELSE <<>>) \o rio_buf \o input

\* The line somebody would read from s who sees all of it at once.
FirstLine(s) ==
  LET ends == {k \in DOMAIN s : s[k] = NL \/ k = Len(s) \/ k = RIO_BUFSIZE - 1}
  IN  SubSeq(s, 1, Min(ends))

\* A step that reads passes what it takes on, whole and in order.
ReadsOn ==
  \/ pc' = "failed"
  \/ pc' = "ended" /\ Pending = <<>>
  \/ (pc' = "ended" => pc = "ended") /\ Pending' = Pending
  \/ pc' = "parsing" /\ line' = FirstLine(Pending) /\ Pending = line' \o Pending'

\* However the bytes arrive and the buffer is refilled, the lines are those of the
\* whole input: none lost, doubled or split but for its length; and unless the
\* connection fails the stream ends only when there is nothing left.
ReadsLines == [][ReadsOn]_vars

\* commandHasNext answers whether a word is left, wherever in the line a caller
\* has come; it is what tells a malformed command from a good one.
HasNextMeansWord ==
  pc = "parsing" =>
    LET stop == firstOf(line, 1, {NUL})
    IN  /\ commandChar <= stop
        /\ commandHasNext <=> \E i \in commandChar .. stop - 1 : line[i] \notin White

\* The words taken from a line are all there was up to the place the reader has
\* come to, in order: no character of a word is skipped, or taken twice.
Visible(s) ==
  LET visible[n \in 0 .. Len(s)] ==
        IF n = 0 THEN <<>>
        ELSE IF s[n] \in White THEN visible[n - 1] ELSE Append(visible[n - 1], s[n])
  IN  visible[Len(s)]
NothingSkipped ==
  pc = "parsing" => Visible(SubSeq(line, 1, commandChar - 1)) = Visible(taken)

\* A stream never has more words allocated than allocatedObject has room for, as
\* long as the callers take no more than that, from a line or from unset memory.
AllocatedFits == Len(allocatedObject) <= MAX_ALLOCATED

\* The number of users in "online <n>" is read as it was written, wherever it stands
\* and whatever surrounds it, and no other word is taken for a number.
NumberKept ==
  pc = "parsing" =>
    LET word == commandGetString(line, commandChar).word
        int == commandGetInt(line, commandChar)
    IN  /\ \A n \in 0 .. INT_MAX : word = rio_writei[n] => int.good /\ int.value = n
        /\ int.good => int.word = word /\ int.at = commandGetString(line, commandChar).at

\* The text of /msg in a line typed, the line messageUser sends for it, and what
\* messageReceiverThread takes from a line.
typedText(l) ==
  LET slash == ignoreWhiteSpace(l, 1)
      command == commandGetString(l, ignoreWhiteSpace(l, slash + 1))
      username == commandGetString(l, command.at)
  IN  IF charAt(l, slash) = SLASH /\ command.word # <<>> /\ username.word # <<>>
      THEN commandGetLine(l, username.at).word
      ELSE <<>>
sayLine(text) == <<"s", SP>> \o text \o <<NL>>
heardText(l) == commandGetLine(l, commandGetString(l, ignoreWhiteSpace(l, 1)).at).word

\* A message is heard as it was typed, and as one message: its line is not split,
\* is not blank, which would end the session, and keeps the white space inside.
MessageKept ==
  pc = "parsing" /\ typedText(line) # <<>> =>
    LET text == typedText(line)
    IN  FirstLine(sayLine(text)) = sayLine(text) /\ heardText(sayLine(text)) = text
================================================================================
