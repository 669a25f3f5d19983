----------------------------- MODULE UserList_proofs -----------------------------
(***************************************************************************)
(* Theorems about UserList, for any memory, however many nodes are in it,  *)
(* and any names: the pointers form a list in every reachable state, and   *)
(* the list implements Directory.                                          *)
(***************************************************************************)
EXTENDS UserList, FiniteSetTheorems, TLAPS

\* The n nodes of s are the list, in this order.
Linked(n, s) ==
  /\ \A i, j \in 1 .. n : s[i] = s[j] => i = j
  /\ \A i \in 1 .. n : s[i] \in allocated
  /\ \A x \in allocated : \E i \in 1 .. n : s[i] = x
  /\ users = IF n = 0 THEN NULL ELSE s[1]
  /\ \A i \in 1 .. n : next[s[i]] = IF i = n THEN NULL ELSE s[i + 1]
  /\ \A i \in 1 .. n : previous[s[i]] = IF i = 1 THEN NULL ELSE s[i - 1]

\* A search has come to one of them, or to the end, and the name it looks for
\* belongs to none that it has passed.
Searched(n, s) ==
  op # "none" =>
    \E k \in 1 .. n + 1 :
      /\ cursor = IF k = n + 1 THEN NULL ELSE s[k]
      /\ \A i \in 1 .. n : i < k => username[s[i]] # sought

\* No name is in the list twice.
NamesUnique == \A x, y \in allocated : username[x] = username[y] => x = y

\* The inductive invariant.  Of which nodes the list consists is not in the
\* variables; that a search sees all of it can only be said of that sequence, and
\* that an insertion keeps the names unique needs that the search saw them all.
ListInv ==
  /\ TypeOK
  /\ NamesUnique
  /\ \E n \in Nat : \E s \in [1 .. n -> Nodes] : Linked(n, s) /\ Searched(n, s)

--------------------------------------------------------------------------------
\* Nothing is linked at the start.
LEMMA InitListInv == Init => ListInv
<1> SUFFICES ASSUME Init PROVE ListInv
  OBVIOUS
<1>1. TypeOK /\ NamesUnique
  BY DEF Init, TypeOK, NamesUnique, Pointers
<1>2. PICK s : s = [i \in 1 .. 0 |-> users]
  OBVIOUS
<1>3. s \in [1 .. 0 -> Nodes]
  BY <1>2
<1>4. Linked(0, s) /\ Searched(0, s)
  BY DEF Init, Linked, Searched
<1> QED
  BY <1>1, <1>3, <1>4 DEF ListInv

\* The list is as it was, in memory and in its order.
LEMMA LinkedKept ==
  ASSUME NEW n, NEW s, Linked(n, s), UNCHANGED fields
  PROVE  Linked(n, s)'
BY DEF Linked, fields

\* A search begins at the first node, having passed none.
LEMMA CallStep ==
  ASSUME ListInv, NEW caller \in {"create", "find"}, NEW m \in Names, Call(caller, m)
  PROVE  ListInv'
<1>1. PICK n \in Nat : \E s \in [1 .. n -> Nodes] : Linked(n, s) /\ Searched(n, s)
  BY DEF ListInv
<1>2. PICK s \in [1 .. n -> Nodes] : Linked(n, s) /\ Searched(n, s)
  BY <1>1
<1>3. TypeOK' /\ NamesUnique'
  BY DEF ListInv, TypeOK, NamesUnique, Call, fields, Pointers
<1>4. Linked(n, s)'
  BY <1>2, LinkedKept DEF Call
<1>5. Searched(n, s)'
  <2>1. cursor' = IF 1 = n + 1 THEN NULL ELSE s[1]
    BY <1>2 DEF Linked, Call
  <2>2. 1 \in 1 .. n + 1 /\ \A i \in 1 .. n : ~(i < 1)
    OBVIOUS
  <2> QED
    BY <2>1, <2>2 DEF Searched
<1> QED
  BY <1>3, <1>4, <1>5 DEF ListInv

\* One node further the search has passed one more, of another name.
LEMMA FollowStep ==
  ASSUME ListInv, Follow
  PROVE  ListInv'
<1>0. /\ op # "none" /\ cursor # NULL /\ username[cursor] # sought
      /\ cursor' = next[cursor] /\ UNCHANGED <<fields, op, sought>>
  BY DEF Follow
<1>1. PICK n \in Nat : \E s \in [1 .. n -> Nodes] : Linked(n, s) /\ Searched(n, s)
  BY DEF ListInv
<1>2. PICK s \in [1 .. n -> Nodes] : Linked(n, s) /\ Searched(n, s)
  BY <1>1
<1>3. PICK k \in 1 .. n + 1 :
        /\ cursor = IF k = n + 1 THEN NULL ELSE s[k]
        /\ \A i \in 1 .. n : i < k => username[s[i]] # sought
  BY <1>0, <1>2 DEF Searched
<1>4. k \in 1 .. n /\ cursor = s[k]
  BY <1>0, <1>3
<1>5. TypeOK' /\ NamesUnique'
  <2>1. cursor \in Nodes
    BY <1>4
  <2>2. cursor' \in Pointers
    BY <1>0, <2>1 DEF ListInv, TypeOK
  <2> QED
    BY <1>0, <2>2 DEF ListInv, TypeOK, NamesUnique, fields, Pointers
<1>6. Linked(n, s)'
  BY <1>0, <1>2, LinkedKept
<1>7. Searched(n, s)'
  <2>1. k + 1 \in 1 .. n + 1
    BY <1>4
  <2>2. cursor' = IF k + 1 = n + 1 THEN NULL ELSE s[k + 1]
    BY <1>0, <1>2, <1>4 DEF Linked
  <2>3. \A i \in 1 .. n : i < k + 1 => username'[s[i]] # sought'
    BY <1>0, <1>3, <1>4 DEF fields
  <2> QED
    BY <2>1, <2>2, <2>3 DEF Searched
<1> QED
  BY <1>5, <1>6, <1>7 DEF ListInv

\* With the mutex free nothing is said of a search.
LEMMA ReturnStep ==
  ASSUME ListInv, Return
  PROVE  ListInv'
<1>1. PICK n \in Nat : \E s \in [1 .. n -> Nodes] : Linked(n, s) /\ Searched(n, s)
  BY DEF ListInv
<1>2. PICK s \in [1 .. n -> Nodes] : Linked(n, s) /\ Searched(n, s)
  BY <1>1
<1>3. TypeOK' /\ NamesUnique'
  BY DEF ListInv, TypeOK, NamesUnique, Return, fields, Pointers
<1>4. Linked(n, s)'
  BY <1>2, LinkedKept DEF Return
<1>5. Searched(n, s)'
  BY DEF Return, Searched
<1> QED
  BY <1>3, <1>4, <1>5 DEF ListInv

\* A search at the end of the list has found nobody.
LEMMA NotFound ==
  ASSUME ListInv, op # "none", cursor = NULL
  PROVE  \A x \in allocated : username[x] # sought
<1>1. PICK n \in Nat : \E s \in [1 .. n -> Nodes] : Linked(n, s) /\ Searched(n, s)
  BY DEF ListInv
<1>2. PICK s \in [1 .. n -> Nodes] : Linked(n, s) /\ Searched(n, s)
  BY <1>1
<1>3. PICK k \in 1 .. n + 1 :
        /\ cursor = IF k = n + 1 THEN NULL ELSE s[k]
        /\ \A i \in 1 .. n : i < k => username[s[i]] # sought
  BY <1>2 DEF Searched
<1>4. k = n + 1
  BY <1>3, ListConstants
<1>5. \A i \in 1 .. n : username[s[i]] # sought
  BY <1>3, <1>4
<1> QED
  BY <1>2, <1>5 DEF Linked

\* The new node comes before the others.
LEMMA InsertLinked ==
  ASSUME TypeOK, NEW x \in Nodes, Insert(x),
         NEW n \in Nat, NEW s \in [1 .. n -> Nodes], Linked(n, s),
         NEW t, t = [i \in 1 .. n + 1 |-> IF i = 1 THEN x ELSE s[i - 1]]
  PROVE  t \in [1 .. n + 1 -> Nodes] /\ Linked(n + 1, t)'
<1>0. /\ x \notin allocated
      /\ allocated' = allocated \cup {x}
      /\ next' = [next EXCEPT ![x] = users]
      /\ previous' = [y \in Nodes |-> CASE y = x -> NULL [] y = users -> x [] OTHER -> previous[y]]
      /\ users' = x
      /\ next \in [Nodes -> Pointers] /\ users \in allocated \cup {NULL}
      /\ allocated \subseteq Nodes
  BY DEF Insert, TypeOK
<1>1. \A i \in 2 .. n + 1 : i - 1 \in 1 .. n
  OBVIOUS
<1>2. t[1] = x /\ \A i \in 2 .. n + 1 : t[i] = s[i - 1] /\ s[i - 1] \in allocated
  BY <1>1 DEF Linked
<1>3. t \in [1 .. n + 1 -> Nodes]
  BY <1>1
<1>4. \A i \in 1 .. n + 1 : i = 1 \/ i \in 2 .. n + 1
  OBVIOUS
<1>5. ASSUME NEW i \in 1 .. n + 1, NEW j \in 1 .. n + 1, t[i] = t[j] PROVE i = j
  <2>1. CASE i = 1 \/ j = 1
    BY <1>0, <1>2, <1>4, <1>5, <2>1
  <2>2. CASE i \in 2 .. n + 1 /\ j \in 2 .. n + 1
    <3>1. s[i - 1] = s[j - 1] /\ i - 1 \in 1 .. n /\ j - 1 \in 1 .. n
      BY <1>1, <1>2, <1>5, <2>2
    <3>2. i - 1 = j - 1
      BY <3>1 DEF Linked
    <3> QED
      BY <3>2
  <2> QED
    BY <1>4, <2>1, <2>2
<1>6. \A i \in 1 .. n + 1 : t[i] \in allocated'
  BY <1>0, <1>2, <1>4
<1>7. ASSUME NEW y \in allocated' PROVE \E i \in 1 .. n + 1 : t[i] = y
  <2>1. CASE y = x
    BY <1>2, <2>1
  <2>2. CASE y \in allocated
    <3>1. PICK i \in 1 .. n : s[i] = y
      BY <2>2 DEF Linked
    <3>2. i + 1 \in 2 .. n + 1 /\ (i + 1) - 1 = i /\ i + 1 \in 1 .. n + 1
      OBVIOUS
    <3> QED
      BY <1>2, <3>1, <3>2
  <2> QED
    BY <1>0, <2>1, <2>2
<1>8. users' = IF n + 1 = 0 THEN NULL ELSE t[1]
  BY <1>0, <1>2
<1>9. ASSUME NEW i \in 1 .. n + 1
      PROVE  next'[t[i]] = IF i = n + 1 THEN NULL ELSE t[i + 1]
  <2>1. CASE i = 1
    <3>1. next'[t[i]] = users
      BY <1>0, <1>2, <2>1
    <3>2. CASE n = 0
      BY <2>1, <3>1, <3>2 DEF Linked
    <3>3. CASE n # 0
      <4>1. users = s[1] /\ 2 \in 2 .. n + 1 /\ 2 - 1 = 1
        BY <3>3 DEF Linked
      <4> QED
        BY <1>2, <2>1, <3>1, <3>3, <4>1
    <3> QED
      BY <3>2, <3>3
  <2>2. CASE i \in 2 .. n + 1
    <3>1. i - 1 \in 1 .. n /\ t[i] = s[i - 1] /\ s[i - 1] # x /\ s[i - 1] \in Nodes
      BY <1>0, <1>1, <1>2, <2>2
    <3>2. next'[t[i]] = IF i - 1 = n THEN NULL ELSE s[(i - 1) + 1]
      BY <1>0, <3>1 DEF Linked
    <3>3. i # n + 1 => i + 1 \in 2 .. n + 1 /\ (i + 1) - 1 = (i - 1) + 1
      BY <2>2
    <3>4. (i - 1 = n) <=> (i = n + 1)
      BY <2>2
    <3> QED
      BY <1>2, <3>2, <3>3, <3>4
  <2> QED
    BY <1>4, <2>1, <2>2
<1>10. ASSUME NEW i \in 1 .. n + 1
       PROVE  previous'[t[i]] = IF i = 1 THEN NULL ELSE t[i - 1]
  <2>1. CASE i = 1
    BY <1>0, <1>2, <2>1
  <2>2. CASE i \in 2 .. n + 1
    <3>1. i - 1 \in 1 .. n /\ t[i] = s[i - 1] /\ s[i - 1] # x /\ s[i - 1] \in Nodes /\ i # 1
      BY <1>0, <1>1, <1>2, <2>2
    <3>2. users = s[1] /\ 1 \in 1 .. n
      BY <3>1 DEF Linked
    <3>3. CASE i = 2
      <4>1. s[i - 1] = users
        BY <3>2, <3>3
      <4> QED
        BY <1>0, <1>2, <3>1, <3>3, <4>1
    <3>4. CASE i # 2
      <4>1. s[i - 1] # users /\ i - 1 # 1
        BY <3>1, <3>2, <3>4 DEF Linked
      <4>2. previous'[t[i]] = s[(i - 1) - 1]
        BY <1>0, <3>1, <4>1 DEF Linked
      <4>3. i - 1 \in 2 .. n + 1
        BY <2>2, <3>4
      <4> QED
        BY <1>2, <3>1, <4>2, <4>3
    <3> QED
      BY <3>3, <3>4
  <2> QED
    BY <1>4, <2>1, <2>2
<1> QED
  BY <1>3, <1>5, <1>6, <1>7, <1>8, <1>9, <1>10 DEF Linked

\* A name is inserted that no node has.
LEMMA InsertStep ==
  ASSUME ListInv, NEW x \in Nodes, Insert(x)
  PROVE  ListInv'
<1>1. PICK n \in Nat : \E s \in [1 .. n -> Nodes] : Linked(n, s) /\ Searched(n, s)
  BY DEF ListInv
<1>2. PICK s \in [1 .. n -> Nodes] : Linked(n, s) /\ Searched(n, s)
  BY <1>1
<1>3. PICK t : t = [i \in 1 .. n + 1 |-> IF i = 1 THEN x ELSE s[i - 1]]
  OBVIOUS
<1>4. t \in [1 .. n + 1 -> Nodes] /\ Linked(n + 1, t)'
  BY <1>2, <1>3, InsertLinked DEF ListInv
<1>5. Searched(n + 1, t)'
  BY DEF Insert, Searched
<1>6. TypeOK'
  BY DEF ListInv, TypeOK, Insert, Pointers
<1>7. NamesUnique'
  <2>1. \A y \in allocated : username[y] # sought
    BY NotFound DEF Insert
  <2>2. username'[x] = sought /\ \A y \in allocated : username'[y] = username[y]
    BY DEF Insert, ListInv, TypeOK
  <2> QED
    BY <2>1, <2>2 DEF ListInv, NamesUnique, Insert
<1> QED
  BY <1>4, <1>5, <1>6, <1>7 DEF ListInv

\* The neighbours of the deleted node are linked to each other.
LEMMA DeleteLinked ==
  ASSUME TypeOK, NEW x \in Nodes, Delete(x),
         NEW n \in Nat, NEW s \in [1 .. n -> Nodes], Linked(n, s),
         NEW k \in 1 .. n, s[k] = x,
         NEW t, t = [i \in 1 .. n - 1 |-> IF i < k THEN s[i] ELSE s[i + 1]]
  PROVE  t \in [1 .. n - 1 -> Nodes] /\ Linked(n - 1, t)'
<1>0. /\ users' = IF x = users THEN next[x] ELSE users
      /\ \A y \in Nodes : next'[y] = IF y = previous[x] THEN next[x] ELSE next[y]
      /\ \A y \in Nodes : previous'[y] = IF y = next[x] THEN previous[x] ELSE previous[y]
      /\ allocated' = allocated \ {x}
      /\ NULL \notin Nodes
  BY ListConstants DEF Delete
<1>1. /\ \A i, j \in 1 .. n : s[i] = s[j] => i = j
      /\ \A i \in 1 .. n : s[i] \in allocated /\ s[i] \in Nodes
      /\ \A y \in allocated : \E i \in 1 .. n : s[i] = y
      /\ users = s[1] /\ 1 \in 1 .. n
      /\ \A i \in 1 .. n : next[s[i]] = IF i = n THEN NULL ELSE s[i + 1]
      /\ \A i \in 1 .. n : previous[s[i]] = IF i = 1 THEN NULL ELSE s[i - 1]
  <2>1. n # 0 /\ 1 \in 1 .. n
    OBVIOUS
  <2>2. \A i \in 1 .. n : s[i] \in Nodes
    OBVIOUS
  <2> QED
    BY <2>1, <2>2 DEF Linked
<1>2. /\ previous[x] = IF k = 1 THEN NULL ELSE s[k - 1]
      /\ next[x] = IF k = n THEN NULL ELSE s[k + 1]
  BY <1>1
<1>3. ASSUME NEW i \in 1 .. n, s[i] # previous[x]
      PROVE  next'[s[i]] = IF i = n THEN NULL ELSE s[i + 1]
  <2>1. s[i] \in Nodes /\ next[s[i]] = IF i = n THEN NULL ELSE s[i + 1]
    BY <1>1
  <2>2. next'[s[i]] = next[s[i]]
    BY <1>0, <1>3, <2>1
  <2> QED
    BY <2>1, <2>2
<1>4. ASSUME NEW i \in 1 .. n, s[i] # next[x]
      PROVE  previous'[s[i]] = IF i = 1 THEN NULL ELSE s[i - 1]
  <2>1. s[i] \in Nodes /\ previous[s[i]] = IF i = 1 THEN NULL ELSE s[i - 1]
    BY <1>1
  <2>2. previous'[s[i]] = previous[s[i]]
    BY <1>0, <1>4, <2>1
  <2> QED
    BY <2>1, <2>2
<1>5. \A i \in 1 .. n - 1 :
        \/ i < k /\ i \in 1 .. n /\ t[i] = s[i]
        \/ ~(i < k) /\ i + 1 \in 1 .. n /\ t[i] = s[i + 1]
  OBVIOUS
<1>6. t \in [1 .. n - 1 -> Nodes]
  BY <1>1, <1>5
<1>7. ASSUME NEW i \in 1 .. n - 1, NEW j \in 1 .. n - 1, t[i] = t[j] PROVE i = j
  <2> DEFINE at(m) == IF m < k THEN m ELSE m + 1
  <2>1. at(i) \in 1 .. n /\ at(j) \in 1 .. n /\ s[at(i)] = s[at(j)]
    BY <1>5, <1>7
  <2>2. at(i) = at(j)
    BY <1>1, <2>1
  <2> QED
    BY <2>2
<1>8. ASSUME NEW i \in 1 .. n - 1 PROVE t[i] \in allocated'
  <2>1. \E j \in 1 .. n : j # k /\ t[i] = s[j]
    BY <1>5
  <2> QED
    BY <1>0, <1>1, <2>1
<1>9. ASSUME NEW y \in allocated' PROVE \E i \in 1 .. n - 1 : t[i] = y
  <2>1. PICK j \in 1 .. n : s[j] = y
    BY <1>0, <1>1
  <2>2. j # k
    BY <1>0, <2>1
  <2>3. CASE j < k
    <3>1. j \in 1 .. n - 1
      BY <2>3
    <3> QED
      BY <1>5, <2>1, <2>3, <3>1
  <2>4. CASE k < j
    <3>1. PICK i : i = j - 1
      OBVIOUS
    <3>2. i \in 1 .. n - 1 /\ ~(i < k) /\ i + 1 = j
      BY <2>4, <3>1
    <3> QED
      BY <1>5, <2>1, <3>2
  <2> QED
    BY <2>2, <2>3, <2>4
<1>10. users' = IF n - 1 = 0 THEN NULL ELSE t[1]
  <2>1. x = users <=> k = 1
    BY <1>1
  <2>2. CASE n = 1
    BY <1>0, <1>2, <2>1, <2>2
  <2>3. CASE n # 1
    <3>1. 1 \in 1 .. n - 1 /\ n - 1 # 0
      BY <2>3
    <3>2. t[1] = IF k = 1 THEN s[2] ELSE s[1]
      BY <1>5, <3>1
    <3>3. k = 1 => k # n /\ next[x] = s[2]
      BY <1>2, <2>3
    <3> QED
      BY <1>0, <1>1, <2>1, <3>1, <3>2, <3>3
  <2> QED
    BY <2>2, <2>3
<1>11. ASSUME NEW i \in 1 .. n - 1
      PROVE  next'[t[i]] = IF i = n - 1 THEN NULL ELSE t[i + 1]
  <2>0. i # n - 1 => i + 1 \in 1 .. n - 1
    OBVIOUS
  <2>1. CASE i < k - 1
    <3>1. i \in 1 .. n /\ t[i] = s[i] /\ i # n /\ i # n - 1 /\ k # 1 /\ k - 1 \in 1 .. n /\ i # k - 1
      BY <1>5, <2>1
    <3>2. s[i] # previous[x]
      BY <1>1, <1>2, <3>1
    <3>3. next'[t[i]] = s[i + 1]
      BY <1>3, <3>1, <3>2
    <3>4. t[i + 1] = s[i + 1]
      BY <1>5, <2>0, <2>1, <3>1
    <3> QED
      BY <3>1, <3>3, <3>4
  <2>2. CASE i = k - 1
    <3>1. i \in 1 .. n /\ t[i] = s[i] /\ k # 1
      BY <1>5, <2>2
    <3>2. next'[t[i]] = next[x]
      BY <1>0, <1>1, <1>2, <2>2, <3>1
    <3>3. CASE i = n - 1
      BY <1>2, <2>2, <3>2, <3>3
    <3>4. CASE i # n - 1
      <4>1. k # n /\ i + 1 = k /\ k \in 1 .. n - 1
        BY <2>2, <3>4
      <4>2. t[k] = s[k + 1]
        BY <1>5, <4>1
      <4> QED
        BY <1>2, <3>2, <3>4, <4>1, <4>2
    <3> QED
      BY <3>3, <3>4
  <2>3. CASE ~(i < k)
    <3>1. i + 1 \in 1 .. n /\ t[i] = s[i + 1]
      BY <1>5, <2>3
    <3>2. s[i + 1] # previous[x]
      <4>1. k # 1 => k - 1 \in 1 .. n /\ i + 1 # k - 1
        BY <2>3
      <4>2. k # 1 => s[i + 1] # s[k - 1]
        BY <1>1, <3>1, <4>1
      <4>3. s[i + 1] \in Nodes
        BY <3>1
      <4>4. previous[x] = IF k = 1 THEN NULL ELSE s[k - 1]
        BY <1>2
      <4>5. NULL \notin Nodes
        BY ListConstants
      <4> QED
        BY <4>2, <4>3, <4>4, <4>5
    <3>3. next'[t[i]] = IF i + 1 = n THEN NULL ELSE s[(i + 1) + 1]
      BY <1>3, <3>1, <3>2
    <3>4. i # n - 1 => t[i + 1] = s[(i + 1) + 1]
      BY <1>5, <2>0, <2>3
    <3>5. i + 1 = n <=> i = n - 1
      OBVIOUS
    <3> QED
      BY <3>3, <3>4, <3>5
  <2> QED
    BY <2>1, <2>2, <2>3
<1>12. ASSUME NEW i \in 1 .. n - 1
       PROVE  previous'[t[i]] = IF i = 1 THEN NULL ELSE t[i - 1]
  <2>0. i # 1 => i - 1 \in 1 .. n - 1
    OBVIOUS
  <2>1. CASE i < k
    <3>1. i \in 1 .. n /\ t[i] = s[i]
      BY <1>5, <2>1
    <3>2. s[i] # next[x]
      <4>1. k # n => k + 1 \in 1 .. n /\ i # k + 1
        BY <2>1
      <4>2. k # n => s[i] # s[k + 1]
        BY <1>1, <3>1, <4>1
      <4>3. s[i] \in Nodes
        BY <3>1
      <4>4. next[x] = IF k = n THEN NULL ELSE s[k + 1]
        BY <1>2
      <4>5. NULL \notin Nodes
        BY ListConstants
      <4> QED
        BY <4>2, <4>3, <4>4, <4>5
    <3>3. previous'[t[i]] = IF i = 1 THEN NULL ELSE s[i - 1]
      BY <1>4, <3>1, <3>2
    <3>4. i # 1 => t[i - 1] = s[i - 1]
      BY <1>5, <2>0, <2>1
    <3> QED
      BY <3>3, <3>4
  <2>2. CASE i = k
    <3>1. i + 1 \in 1 .. n /\ t[i] = s[i + 1] /\ k # n
      BY <1>5, <2>2
    <3>2. previous'[t[i]] = previous[x]
      BY <1>0, <1>1, <1>2, <2>2, <3>1
    <3>3. i # 1 => t[i - 1] = s[k - 1]
      BY <1>5, <2>0, <2>2
    <3> QED
      BY <1>2, <2>2, <3>2, <3>3
  <2>3. CASE k < i
    <3>1. i + 1 \in 1 .. n /\ t[i] = s[i + 1] /\ i # 1
      BY <1>5, <2>3
    <3>2. s[i + 1] # next[x]
      <4>1. i + 1 # k + 1 /\ (k # n => k + 1 \in 1 .. n)
        BY <2>3
      <4>2. k # n => s[i + 1] # s[k + 1]
        BY <1>1, <3>1, <4>1
      <4>3. s[i + 1] \in Nodes
        BY <3>1
      <4>4. next[x] = IF k = n THEN NULL ELSE s[k + 1]
        BY <1>2
      <4>5. NULL \notin Nodes
        BY ListConstants
      <4> QED
        BY <4>2, <4>3, <4>4, <4>5
    <3>3. previous'[t[i]] = s[(i + 1) - 1]
      <4>1. i + 1 # 1
        BY <3>1
      <4> QED
        BY <1>4, <3>1, <3>2, <4>1
    <3>4. PICK j : j = i - 1
      OBVIOUS
    <3>5. j \in 1 .. n - 1 /\ ~(j < k) /\ j + 1 = i /\ (i + 1) - 1 = i
      BY <2>3, <3>4
    <3>6. t[j] = s[i]
      BY <1>5, <3>5
    <3>7. previous'[t[i]] = s[i] /\ t[i - 1] = s[i]
      BY <3>3, <3>4, <3>5, <3>6
    <3> QED
      BY <3>1, <3>7
  <2> QED
    BY <2>1, <2>2, <2>3
<1> QED
  BY <1>6, <1>7, <1>8, <1>9, <1>10, <1>11, <1>12 DEF Linked

\* Whichever node goes, a list is left.
LEMMA DeleteStep ==
  ASSUME ListInv, NEW x \in Nodes, Delete(x)
  PROVE  ListInv'
<1>1. PICK n \in Nat : \E s \in [1 .. n -> Nodes] : Linked(n, s) /\ Searched(n, s)
  BY DEF ListInv
<1>2. PICK s \in [1 .. n -> Nodes] : Linked(n, s) /\ Searched(n, s)
  BY <1>1
<1>3. PICK k \in 1 .. n : s[k] = x
  BY <1>2 DEF Linked, Delete
<1>4. PICK t : t = [i \in 1 .. n - 1 |-> IF i < k THEN s[i] ELSE s[i + 1]]
  OBVIOUS
<1>5. t \in [1 .. n - 1 -> Nodes] /\ Linked(n - 1, t)'
  <2>1. TypeOK /\ Linked(n, s)
    BY <1>2 DEF ListInv
  <2> QED
    BY <1>3, <1>4, <2>1, DeleteLinked
<1>6. n - 1 \in Nat
  BY <1>3
<1>7. Searched(n - 1, t)'
  BY DEF Delete, Searched
<1>8. TypeOK'
  <2>1. allocated' \subseteq Nodes /\ previous[x] \in Pointers /\ next[x] \in Pointers
    BY DEF Delete, ListInv, TypeOK
  <2>2. next' \in [Nodes -> Pointers] /\ previous' \in [Nodes -> Pointers]
    BY <2>1 DEF Delete, ListInv, TypeOK
  <2>3. users' \in allocated' \cup {NULL}
    <3>1. CASE n - 1 = 0
      BY <1>5, <3>1 DEF Linked
    <3>2. CASE n - 1 # 0
      <4>1. 1 \in 1 .. n - 1
        BY <1>6, <3>2
      <4> QED
        BY <1>5, <3>2, <4>1 DEF Linked
    <3> QED
      BY <3>1, <3>2
  <2> QED
    BY <2>1, <2>2, <2>3 DEF Delete, ListInv, TypeOK
<1>9. NamesUnique'
  BY DEF ListInv, NamesUnique, Delete
<1> QED
  BY <1>5, <1>6, <1>7, <1>8, <1>9 DEF ListInv

\* Every step leaves a list.
LEMMA ListInvStep == ListInv /\ [Next]_vars => ListInv'
<1> SUFFICES ASSUME ListInv, [Next]_vars PROVE ListInv'
  OBVIOUS
<1>1. ASSUME UNCHANGED vars PROVE ListInv'
  <2>1. UNCHANGED fields /\ UNCHANGED <<op, sought, cursor>>
    BY <1>1 DEF vars
  <2>2. PICK n \in Nat : \E s \in [1 .. n -> Nodes] : Linked(n, s) /\ Searched(n, s)
    BY DEF ListInv
  <2>3. PICK s \in [1 .. n -> Nodes] : Linked(n, s) /\ Searched(n, s)
    BY <2>2
  <2>4. Linked(n, s)' /\ Searched(n, s)'
    BY <2>1, <2>3, LinkedKept DEF Searched, fields
  <2>5. TypeOK' /\ NamesUnique'
    BY <2>1 DEF ListInv, TypeOK, NamesUnique, fields, Pointers
  <2> QED
    BY <2>4, <2>5 DEF ListInv
<1>2. ASSUME NEW caller \in {"create", "find"}, NEW n \in Names, Call(caller, n) PROVE ListInv'
  BY <1>2, CallStep
<1>3. ASSUME Follow \/ Return PROVE ListInv'
  BY <1>3, FollowStep, ReturnStep
<1>4. ASSUME NEW x \in Nodes, Insert(x) \/ Delete(x) PROVE ListInv'
  BY <1>4, InsertStep, DeleteStep
<1> QED
  BY <1>1, <1>2, <1>3, <1>4 DEF Next

\* The invariant holds in every reachable state.
LEMMA Inductive == Spec => []ListInv
BY InitListInv, ListInvStep, PTL DEF Spec

--------------------------------------------------------------------------------
\* Every pointer points into the memory of the nodes, and the head to one in use.
THEOREM TypeCorrect == Spec => []TypeOK
<1>1. ListInv => TypeOK
  BY DEF ListInv
<1> QED
  BY <1>1, Inductive, PTL

\* The list has at most as many nodes as there are.
LEMMA ListFits ==
  ASSUME NEW n \in Nat, NEW s \in [1 .. n -> Nodes],
         \A i, j \in 1 .. n : s[i] = s[j] => i = j
  PROVE  n \in 0 .. Cardinality(Nodes)
<1>1. IsFiniteSet(Nodes)
  BY ListConstants
<1>2. s \in Injection(1 .. n, Nodes)
  BY DEF Injection, IsInjective
<1>3. Cardinality(1 .. n) <= Cardinality(Nodes)
  BY <1>1, <1>2, FS_Injection
<1>4. Cardinality(1 .. n) = n
  BY FS_Interval
<1>5. Cardinality(Nodes) \in Nat
  BY <1>1, FS_CardinalityType
<1> QED
  BY <1>3, <1>4, <1>5

\* The pointers of the nodes in use form one list, linked both ways, whichever of
\* them were inserted and deleted, in whatever order.
THEOREM ListWellLinked == Spec => []WellLinked
<1>1. ASSUME ListInv PROVE WellLinked
  <2>1. PICK n \in Nat : \E s \in [1 .. n -> Nodes] : Linked(n, s)
    BY <1>1 DEF ListInv
  <2>2. PICK s \in [1 .. n -> Nodes] : Linked(n, s)
    BY <2>1
  <2>3. s \in Seq(Nodes) /\ Len(s) = n /\ DOMAIN s = 1 .. n /\ (s = <<>> <=> n = 0)
    OBVIOUS
  <2>4. Represents(s)
    BY <2>2, <2>3 DEF Linked, Represents
  <2>5. n \in 0 .. Cardinality(Nodes)
    BY <2>2, ListFits DEF Linked
  <2>6. s \in UNION {[1 .. k -> Nodes] : k \in 0 .. Cardinality(Nodes)}
    BY <2>5
  <2> QED
    BY <2>4, <2>6 DEF WellLinked
<1> QED
  BY <1>1, Inductive, PTL

\* A search is on a node of the list, and at its end has passed all of them.
THEOREM SearchIsComplete == Spec => []SearchComplete
<1>1. ASSUME ListInv PROVE SearchComplete
  <2> SUFFICES ASSUME op # "none", cursor # NULL PROVE cursor \in allocated
    BY <1>1, NotFound DEF SearchComplete
  <2>1. PICK n \in Nat : \E s \in [1 .. n -> Nodes] : Linked(n, s) /\ Searched(n, s)
    BY <1>1 DEF ListInv
  <2>2. PICK s \in [1 .. n -> Nodes] : Linked(n, s) /\ Searched(n, s)
    BY <2>1
  <2>3. PICK k \in 1 .. n + 1 : cursor = IF k = n + 1 THEN NULL ELSE s[k]
    BY <2>2 DEF Searched
  <2>4. k \in 1 .. n
    BY <2>3
  <2> QED
    BY <2>2, <2>3, <2>4 DEF Linked
<1> QED
  BY <1>1, Inductive, PTL

--------------------------------------------------------------------------------
\* The list as a directory.
ListIsDirectory ==
  \A n \in Names :
    \/ Holder(n) = NULL /\ \A x \in allocated : username[x] # n
    \/ Holder(n) \in allocated /\ username[Holder(n)] = n

\* A name is held by the node that has it.
LEMMA HolderHasName == ListIsDirectory
<1> SUFFICES ASSUME NEW n \in Names
             PROVE  \/ Holder(n) = NULL /\ \A x \in allocated : username[x] # n
                    \/ Holder(n) \in allocated /\ username[Holder(n)] = n
  BY DEF ListIsDirectory
<1>1. CASE \E x \in allocated : username[x] = n
  <2>1. PICK x : x = CHOOSE y \in allocated : username[y] = n
    OBVIOUS
  <2>2. x \in allocated /\ username[x] = n
    BY <1>1, <2>1
  <2> QED
    BY <1>1, <2>1, <2>2 DEF Holder
<1>2. CASE ~\E x \in allocated : username[x] = n
  BY <1>2 DEF Holder
<1> QED
  BY <1>1, <1>2

\* What every step needs to know of the directory before and after it.
LEMMA DirectoryFacts ==
  ASSUME ListInv, ListInv'
  PROVE  /\ TypeOK /\ TypeOK' /\ NamesUnique /\ NamesUnique'
         /\ ListIsDirectory /\ ListIsDirectory'
         /\ NULL \notin Nodes
<1>1. ListIsDirectory /\ ListIsDirectory'
  BY HolderHasName, PTL
<1> QED
  BY <1>1, ListConstants DEF ListInv

\* A search does not change the directory.
LEMMA SearchStutters ==
  ASSUME UNCHANGED fields
  PROVE  UNCHANGED Dir!vars
<1>1. \A n \in Names : Holder(n)' = Holder(n)
  BY DEF fields, Holder
<1> QED
  BY <1>1 DEF Dir!vars

\* An insertion registers the new node under the name that was looked for.
LEMMA InsertRegisters ==
  ASSUME ListInv, ListInv', NEW x \in Nodes, Insert(x)
  PROVE  Dir!Register(x, sought)
<1>0. /\ TypeOK /\ TypeOK' /\ NamesUnique /\ NamesUnique'
      /\ ListIsDirectory /\ ListIsDirectory'
      /\ NULL \notin Nodes
  BY DirectoryFacts
<1>1. /\ x \notin allocated /\ allocated' = allocated \cup {x}
      /\ username'[x] = sought /\ \A y \in allocated : username'[y] = username[y]
      /\ sought \in Names
  BY <1>0 DEF Insert, TypeOK
<1>2. \A y \in allocated : username[y] # sought
  BY NotFound DEF Insert
<1>3. Holder(sought) = NULL
  BY <1>0, <1>1, <1>2 DEF ListIsDirectory
<1>4. \A n \in Names : Holder(n) # x
  BY <1>0, <1>1 DEF ListIsDirectory
<1>5. ASSUME NEW n \in Names PROVE Holder(n)' = IF n = sought THEN x ELSE Holder(n)
  <2>1. CASE n = sought
    BY <1>0, <1>1, <2>1 DEF ListIsDirectory, NamesUnique
  <2>2. CASE n # sought /\ Holder(n) = NULL
    BY <1>0, <1>1, <2>2 DEF ListIsDirectory, TypeOK
  <2>3. CASE n # sought /\ Holder(n) # NULL
    BY <1>0, <1>1, <2>3 DEF ListIsDirectory, NamesUnique
  <2> QED
    BY <2>1, <2>2, <2>3
<1>6. [n \in Names |-> Holder(n)]' = [[n \in Names |-> Holder(n)] EXCEPT ![sought] = x]
  BY <1>5
<1> QED
  BY <1>1, <1>3, <1>4, <1>6 DEF Dir!Register, Dir!Holds

\* A deletion gives the name of the node back.
LEMMA DeleteReleases ==
  ASSUME ListInv, ListInv', NEW x \in Nodes, Delete(x)
  PROVE  Dir!Release(x)
<1>0. /\ TypeOK /\ TypeOK' /\ NamesUnique /\ NamesUnique'
      /\ ListIsDirectory /\ ListIsDirectory'
      /\ NULL \notin Nodes
  BY DirectoryFacts
<1>1. x \in allocated /\ allocated' = allocated \ {x} /\ username' = username
  BY DEF Delete
<1>2. username[x] \in Names
  BY <1>0, <1>1 DEF TypeOK
<1>3. Holder(username[x]) = x
  BY <1>0, <1>1, <1>2 DEF ListIsDirectory, NamesUnique
<1>4. ASSUME NEW n \in Names PROVE Holder(n)' = IF Holder(n) = x THEN NULL ELSE Holder(n)
  <2>1. CASE Holder(n) = x
    BY <1>0, <1>1, <2>1 DEF ListIsDirectory, NamesUnique
  <2>2. CASE Holder(n) = NULL
    <3>1. \A y \in allocated : username[y] # n
      BY <1>0, <2>2 DEF ListIsDirectory, TypeOK
    <3> QED
      BY <1>0, <1>1, <2>2, <3>1 DEF ListIsDirectory
  <2>3. CASE Holder(n) # x /\ Holder(n) # NULL
    BY <1>0, <1>1, <2>3 DEF ListIsDirectory, NamesUnique
  <2> QED
    BY <2>1, <2>2, <2>3
<1>5. [n \in Names |-> Holder(n)]' =
        [n \in Names |-> IF [m \in Names |-> Holder(m)][n] = x
                         THEN NULL ELSE [m \in Names |-> Holder(m)][n]]
  BY <1>4
<1> QED
  BY <1>2, <1>3, <1>5 DEF Dir!Release, Dir!Holds

\* The list implements a directory: a name belongs to the node that was inserted
\* with it, until that node is deleted.
THEOREM ListImplementsDirectory == Spec => ImplementsDirectory
<1>1. Init => Dir!Init
  BY DEF Init, Holder, Dir!Init, Dir!NoAnswer
<1>2. ASSUME ListInv, ListInv', [Next]_vars PROVE [Dir!Next]_(Dir!vars)
  <2>1. ASSUME UNCHANGED fields PROVE [Dir!Next]_(Dir!vars)
    BY <2>1, SearchStutters
  <2>2. ASSUME NEW x \in Nodes, Insert(x) PROVE [Dir!Next]_(Dir!vars)
    <3>1. sought \in Names
      BY <1>2 DEF ListInv, TypeOK
    <3> QED
      BY <1>2, <2>2, <3>1, InsertRegisters DEF Dir!Next
  <2>3. ASSUME NEW x \in Nodes, Delete(x) PROVE [Dir!Next]_(Dir!vars)
    BY <1>2, <2>3, DeleteReleases DEF Dir!Next
  <2> QED
    BY <1>2, <2>1, <2>2, <2>3 DEF Next, vars, Call, Follow, Return
<1> QED
  BY <1>1, <1>2, Inductive, PTL DEF Spec, ImplementsDirectory, Dir!Spec
================================================================================
