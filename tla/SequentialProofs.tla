-------------------------- MODULE SequentialProofs --------------------------
(***************************************************************************)
(* Proofs about the parts that run by themselves: is_match() and the tree  *)
(* of hw1, and the queries of the database server.                         *)
(*                                                                         *)
(* is_match(), for every pattern and every name, answers yes only to names *)
(* the pattern denotes, and no to no such name, but for a + in a name, a   *)
(* pattern that begins with a +, and one that has a + followed by the      *)
(* character it repeats.  The invariant of the loop has two halves.        *)
(* ReadSoFar: what has been taken from the name can be read as what has    *)
(* been passed of the pattern.  AllBehind: any reading of the whole name   *)
(* agrees with the loop on which characters are passed.                    *)
(*                                                                         *)
(* The blocks of the tree, for every directory: TreeInv says that a block  *)
(* has room for what is counted, PlaceInv that there is room for one more  *)
(* where the next entry goes, FreedInv and OnceInv how far the freeing has *)
(* come.  That free_tree() comes to each node by one way only follows from *)
(* what the search keeps: no name is listed twice in a node (ShapeInv).    *)
(*                                                                         *)
(* What hw1 prints, for every directory and every criteria: what is yet to *)
(* be found lies below an entry that is still to be read (CompleteInv),    *)
(* what is in the tree leads to something found (SoundInv, ShapeInv), and  *)
(* what of the tree is yet to be printed lies below one, and only one, of  *)
(* the paths on the stack (PrintInv).                                      *)
(*                                                                         *)
(* The queries, for every dataset and every text: get_table() reads what   *)
(* the file has, a text is taken apart into the query its client means,    *)
(* and what the loops of sql.c collect row by row is what                  *)
(* select_distinct() and update() owe to the client.                       *)
(***************************************************************************)
EXTENDS FileSearch, SqlQueries, SequenceTheorems, DataTheorems

-------------------------------------------------------------------------------
(* is_match() *)

MatchTypeOK ==
  /\ syntax \in Seq(Characters)
  /\ exp \in Seq(Characters)
  /\ s_index \in 1 .. Len(syntax) + 1
  /\ e_index \in 1 .. Len(exp) + 2
  /\ e_index = Len(exp) + 2 => LeadsWithPlus(syntax)

\* r reads the first e - 1 characters of n as the first s - 1 of p.
PartRead(p, n, s, e, r) ==
  /\ r \in [1 .. e - 1 -> 1 .. s - 1]
  /\ \A i \in 1 .. e - 1 : n[i] = p[r[i]]
  /\ \A i, j \in 1 .. e - 1 :
        i < j => \/ r[i] < r[j]
                 \/ r[i] = r[j] /\ r[i] + 1 <= Len(p) /\ p[r[i] + 1] = Plus
  /\ \A k \in Places(p) \cap 1 .. s - 1 : \E i \in 1 .. e - 1 : r[i] = k

ReadSoFar == \E r : PartRead(syntax, exp, s_index, e_index, r)

\* A reading of the whole name, as the pattern denotes it.
Denoting(p, n, r) == r \in [1 .. Len(n) -> Places(p)] /\ Reading(p, n, r)

\* It puts what is taken of the name before s_index, and the rest at s_index or
\* after, or at the character a + there repeats.
Behind(p, n, s, e, r) ==
  \A i \in 1 .. Len(n) :
     /\ i < e => r[i] < s
     /\ i >= e => r[i] >= s \/ (r[i] = s - 1 /\ s <= Len(p) /\ p[s] = Plus)

AllBehind == \/ NeedsToGoBack(syntax)
             \/ \A r : Denoting(syntax, exp, r) =>
                          Behind(syntax, exp, s_index, e_index, r)

MatchInv == /\ MatchTypeOK
            /\ result = "running" => LeadsWithPlus(syntax) \/ (ReadSoFar /\ AllBehind)
            /\ MatchIsRight

-------------------------------------------------------------------------------
\* make_lover_case() keeps the length and the places of the +.
LEMMA LowerKeepsPlus ==
  ASSUME NEW p \in Seq(Characters)
  PROVE  /\ make_lover_case(p) \in Seq(Characters)
         /\ Len(make_lover_case(p)) = Len(p)
         /\ \A i \in 1 .. Len(p) : make_lover_case(p)[i] = Plus <=> p[i] = Plus
<1>1. \A i \in 1 .. Len(p) : p[i] \in Characters
  OBVIOUS
<1>2. \A i \in 1 .. Len(p) : Lower[p[i]] \in Characters
  BY <1>1, NameAssumption
<1>3. make_lover_case(p) = [i \in 1 .. Len(p) |-> Lower[p[i]]]
  BY DEF make_lover_case
<1>4. QED  BY <1>1, <1>2, <1>3, NameAssumption

\* What Char is while it is compared with a character of the pattern.
LEMMA CharInName ==
  ASSUME MatchTypeOK, NEW c \in Characters, c = Char
  PROVE  e_index <= Len(exp) /\ exp[e_index] = c
<1>1. e_index <= Len(exp)
  BY NameAssumption DEF Char
<1>2. QED  BY <1>1 DEF Char

\* No pattern denotes a name with a +.
LEMMA PlusIsNotDenoted ==
  ASSUME NEW p, NEW n, NEW r, Denoting(p, n, r), NEW i \in 1 .. Len(n)
  PROVE  n[i] # Plus
<1>1. r[i] \in Places(p) /\ n[i] = p[r[i]]
  BY DEF Denoting, Reading
<1>2. QED  BY <1>1 DEF Places

LEMMA InOrder ==
  ASSUME NEW p, NEW n, NEW r, Denoting(p, n, r),
         NEW i \in 1 .. Len(n), NEW j \in 1 .. Len(n), i < j
  PROVE  r[i] < r[j] \/ r[i] = r[j]
BY DEF Denoting, Reading

LEMMA SyntaxAt ==
  ASSUME MatchTypeOK, NEW k \in 1 .. Len(syntax)
  PROVE  syntax[k] \in Characters
BY DEF MatchTypeOK

-------------------------------------------------------------------------------
(* The call *)

LEMMA MatchTypeInit == MatchInit => MatchTypeOK
<1> SUFFICES ASSUME MatchInit PROVE MatchTypeOK
  OBVIOUS
<1>1. PICK p \in Patterns : syntax = make_lover_case(p)
  BY DEF MatchInit
<1>2. p \in Seq(Characters)
  BY NameAssumption
<1>3. syntax \in Seq(Characters)
  BY <1>1, <1>2, LowerKeepsPlus
<1>4. exp \in Seq(Characters) /\ s_index = 1 /\ e_index = 1 /\ Len(exp) = 0
  BY DEF MatchInit
<1>5. QED  BY <1>3, <1>4 DEF MatchTypeOK

LEMMA CallStep ==
  ASSUME MatchInv, NEW name \in FileNames, Calls(name)
  PROVE  MatchInv'
<1>1. name \in Seq(Characters)
  BY NameAssumption
<1>2. exp' \in Seq(Characters)
  BY <1>1, LowerKeepsPlus DEF Calls
<1>3. Len(exp') \in Nat
  BY <1>2
<1>4. 1 \in 1 .. Len(exp') + 2 /\ 1 # Len(exp') + 2
  BY <1>3
<1>5. MatchTypeOK'
  BY <1>2, <1>4 DEF MatchInv, MatchTypeOK, Calls
<1>6. PartRead(syntax', exp', s_index', e_index', [i \in {} |-> 0])
  BY DEF Calls, PartRead, Places
<1>7. ASSUME NEW r, Denoting(syntax', exp', r)
      PROVE  Behind(syntax', exp', s_index', e_index', r)
  <2>1. \A i \in 1 .. Len(exp') : r[i] \in 1 .. Len(syntax')
    BY <1>7 DEF Denoting, Reading, Places
  <2>2. QED  BY <2>1, <1>5 DEF Behind, Calls, MatchTypeOK
<1>8. ReadSoFar' /\ AllBehind'
  BY <1>6, <1>7 DEF ReadSoFar, AllBehind
<1>9. MatchIsRight'
  BY DEF Calls, MatchIsRight
<1>10. QED  BY <1>5, <1>8, <1>9 DEF MatchInv

-------------------------------------------------------------------------------
(* Steps of the loop *)

\* A character of the pattern is passed: it reads the next one of the name.
LEMMA AdvanceStep ==
  ASSUME MatchInv, Advances
  PROVE  MatchInv'
<1> DEFINE s == s_index  e == e_index
<1>1. /\ MatchTypeOK /\ (LeadsWithPlus(syntax) \/ (ReadSoFar /\ AllBehind))
      /\ s \in 1 .. Len(syntax) /\ syntax[s] = Char
      /\ s_index' = s + 1 /\ e_index' = e + 1
      /\ UNCHANGED <<syntax, exp, result>> /\ result = "running"
  BY DEF MatchInv, Advances, InLoop, MatchTypeOK
<1>2. syntax[s] \in Characters
  BY <1>1, SyntaxAt
<1>3. e \in 1 .. Len(exp) /\ exp[e] = syntax[s]
  BY <1>1, <1>2, CharInName DEF MatchTypeOK
<1>4. /\ Len(syntax) \in Nat /\ Len(exp) \in Nat
      /\ syntax[s] # Plus => s \in Places(syntax)
  BY <1>1, <1>3 DEF Places, MatchTypeOK
<1>5. MatchTypeOK'
  BY <1>1, <1>3, <1>4 DEF MatchTypeOK
<1>6. ASSUME ReadSoFar PROVE ReadSoFar'
  <2>1. PICK r : PartRead(syntax, exp, s, e, r)
    BY <1>6 DEF ReadSoFar
  <2> DEFINE q == [i \in 1 .. e |-> IF i = e THEN s ELSE r[i]]
  <2>2. \A i \in 1 .. e - 1 : q[i] = r[i] /\ r[i] \in 1 .. s - 1
    BY <2>1, <1>3 DEF PartRead
  <2>3. q \in [1 .. e -> 1 .. s] /\ q[e] = s
    <3>1. q[e] = s /\ s \in 1 .. s
      BY <1>1, <1>3, <1>4
    <3>2. \A i \in 1 .. e : i = e \/ i \in 1 .. e - 1
      BY <1>3
    <3>3. 1 .. s - 1 \subseteq 1 .. s
      BY <1>1
    <3>4. \A i \in 1 .. e : q[i] \in 1 .. s
      BY <2>2, <3>1, <3>2, <3>3
    <3>5. q = [i \in 1 .. e |-> q[i]]
      OBVIOUS
    <3> HIDE DEF q
    <3>6. QED  BY <3>1, <3>4, <3>5
  <2>4. \A i \in 1 .. e : exp[i] = syntax[q[i]]
    BY <2>1, <2>2, <2>3, <1>3 DEF PartRead
  <2>5. ASSUME NEW i \in 1 .. e, NEW j \in 1 .. e, i < j
        PROVE  \/ q[i] < q[j]
               \/ q[i] = q[j] /\ q[i] + 1 <= Len(syntax) /\ syntax[q[i] + 1] = Plus
    <3>1. CASE j = e
      <4>1. i \in 1 .. e - 1
        BY <3>1, <2>5, <1>3
      <4>2. q[i] \in 1 .. s - 1 /\ q[j] = s
        BY <4>1, <3>1, <2>2, <2>3
      <4>3. QED  BY <4>2, <1>1
    <3>2. CASE j # e
      <4>1. i \in 1 .. e - 1 /\ j \in 1 .. e - 1
        BY <3>2, <2>5, <1>3
      <4>2. QED  BY <4>1, <2>1, <2>2, <2>5 DEF PartRead
    <3>3. QED  BY <3>1, <3>2
  <2>6. ASSUME NEW k \in Places(syntax) \cap 1 .. s
        PROVE  \E i \in 1 .. e : q[i] = k
    <3>1. CASE k = s
      BY <3>1, <2>3, <1>3
    <3>2. CASE k # s
      <4>1. k \in Places(syntax) \cap 1 .. s - 1
        BY <3>2, <1>1
      <4>2. PICK i \in 1 .. e - 1 : r[i] = k
        BY <4>1, <2>1 DEF PartRead
      <4>3. QED  BY <4>2, <2>2, <1>3
    <3>3. QED  BY <3>1, <3>2
  <2>7. /\ (e + 1) - 1 = e /\ (s + 1) - 1 = s
    BY <1>1, <1>3
  <2>8. PartRead(syntax, exp, s + 1, e + 1, q)
    BY <2>3, <2>4, <2>5, <2>6, <2>7 DEF PartRead
  <2>9. QED  BY <1>1, <2>8 DEF ReadSoFar
<1>7. ASSUME AllBehind PROVE AllBehind'
  <2> SUFFICES ASSUME ~ NeedsToGoBack(syntax), NEW r, Denoting(syntax, exp, r)
               PROVE  Behind(syntax, exp, s + 1, e + 1, r)
    BY <1>1 DEF AllBehind
  <2>1. e \in Int /\ s \in Int /\ e >= e
    BY <1>1, <1>3
  <2>2. s \in Places(syntax)
    BY <1>3, <1>4, PlusIsNotDenoted
  <2>3. \A i \in 1 .. Len(exp) :
           /\ r[i] \in 1 .. Len(syntax)
           /\ i < e => r[i] < s
           /\ i >= e => r[i] >= s
    <3>1. Behind(syntax, exp, s, e, r)
      BY <1>7 DEF AllBehind
    <3>2. \A i \in 1 .. Len(exp) : r[i] \in 1 .. Len(syntax)
      BY DEF Denoting, Places
    <3>3. syntax[s] # Plus
      BY <2>2 DEF Places
    <3>4. QED  BY <3>1, <3>2, <3>3 DEF Behind
  <2>4. PICK j \in 1 .. Len(exp) : r[j] = s
    BY <2>2 DEF Denoting, Reading
  <2>5. r[e] = s
    <3>1. j >= e
      BY <1>3, <1>4, <2>3, <2>4
    <3>2. j = e \/ e < j
      BY <3>1, <1>3, <1>4
    <3>3. j = e \/ r[e] < r[j] \/ r[e] = r[j]
      BY <3>2, <1>3, InOrder
    <3>4. r[e] \in 1 .. Len(syntax) /\ r[e] >= s
      BY <1>3, <2>1, <2>3
    <3>5. ~ (r[e] < s)
      BY <3>4, <2>1
    <3>6. QED  BY <3>3, <3>4, <3>5, <2>4
  <2>6. ASSUME NEW i \in 1 .. Len(exp), i >= e + 1
        PROVE  \/ r[i] >= s + 1
               \/ r[i] = s /\ s + 1 <= Len(syntax) /\ syntax[s + 1] = Plus
    <3>1. e < i
      BY <2>6, <2>1
    <3>2. \/ r[e] < r[i]
          \/ r[e] = r[i] /\ r[e] + 1 <= Len(syntax) /\ syntax[r[e] + 1] = Plus
      BY <3>1, <1>3 DEF Denoting, Reading
    <3>3. r[i] \in Int
      BY <2>3
    <3>4. QED  BY <2>1, <2>5, <3>2, <3>3
  <2>7. ASSUME NEW i \in 1 .. Len(exp), i < e + 1 PROVE r[i] < s + 1
    <3>1. i < e \/ i = e
      BY <2>1, <2>7
    <3>2. r[i] < s \/ r[i] = s
      BY <2>3, <2>5, <3>1
    <3>3. r[i] \in 1 .. Len(syntax)
      BY <2>3
    <3>4. QED  BY <2>1, <3>2, <3>3
  <2>8. (s + 1) - 1 = s /\ s \in Int
    BY <1>1, <1>4
  <2>9. QED  BY <2>6, <2>7, <2>8 DEF Behind
<1>8. MatchIsRight'
  BY <1>1 DEF MatchIsRight
<1>9. LeadsWithPlus(syntax)' <=> LeadsWithPlus(syntax)
  BY <1>1 DEF LeadsWithPlus
<1>10. QED  BY <1>1, <1>5, <1>6, <1>7, <1>8, <1>9 DEF MatchInv

\* The character before a + reads one more of the name, and every reading of
\* the whole name agrees unless that character follows the + again.
LEMMA TakeStep ==
  ASSUME MatchInv, TakesMore, ~ LeadsWithPlus(syntax)
  PROVE  MatchInv'
<1> DEFINE s == s_index  e == e_index  p == syntax
<1>1. /\ MatchTypeOK /\ ReadSoFar /\ AllBehind
      /\ s \in 1 .. Len(p) /\ p[s] = Plus /\ Char # Plus
      /\ e_index' = e + 1
      /\ UNCHANGED <<syntax, exp, s_index, result>> /\ result = "running"
  BY DEF MatchInv, TakesMore, AtPlus, InLoop, MatchTypeOK
<1>2. s > 1 /\ p[s - 1] = Char
  <2>1. s # 1
    BY <1>1 DEF MatchTypeOK, LeadsWithPlus
  <2>2. QED  BY <1>1, <2>1 DEF TakesMore, Repeats
<1>3. s - 1 \in 1 .. Len(p) /\ p[s - 1] \in Characters
  BY <1>1, <1>2, SyntaxAt
<1>4. e \in 1 .. Len(exp) /\ exp[e] = p[s - 1] /\ p[s - 1] # Plus
  BY <1>1, <1>2, <1>3, CharInName DEF MatchTypeOK
<1>5. s - 1 \in Places(p) /\ Len(p) \in Nat /\ Len(exp) \in Nat
  BY <1>1, <1>3, <1>4 DEF Places, MatchTypeOK
<1>6. MatchTypeOK'
  BY <1>1, <1>4, <1>5 DEF MatchTypeOK
<1>7. ReadSoFar'
  <2>1. PICK r : PartRead(p, exp, s, e, r)
    BY <1>1 DEF ReadSoFar
  <2> DEFINE q == [i \in 1 .. e |-> IF i = e THEN s - 1 ELSE r[i]]
  <2>2. \A i \in 1 .. e - 1 : q[i] = r[i] /\ r[i] \in 1 .. s - 1
    BY <2>1, <1>4 DEF PartRead
  <2>3. q \in [1 .. e -> 1 .. s - 1] /\ q[e] = s - 1
    <3>1. q[e] = s - 1 /\ s - 1 \in 1 .. s - 1
      BY <1>3, <1>4, <1>5
    <3>2. \A i \in 1 .. e : i = e \/ i \in 1 .. e - 1
      BY <1>4
    <3>3. \A i \in 1 .. e : q[i] \in 1 .. s - 1
      BY <2>2, <3>1, <3>2
    <3>4. q = [i \in 1 .. e |-> q[i]]
      OBVIOUS
    <3> HIDE DEF q
    <3>5. QED  BY <3>1, <3>3, <3>4
  <2>4. \A i \in 1 .. e : exp[i] = p[q[i]]
    BY <2>1, <2>2, <2>3, <1>4 DEF PartRead
  <2>5. ASSUME NEW i \in 1 .. e, NEW j \in 1 .. e, i < j
        PROVE  \/ q[i] < q[j]
               \/ q[i] = q[j] /\ q[i] + 1 <= Len(p) /\ p[q[i] + 1] = Plus
    <3>1. i \in 1 .. e - 1
      BY <2>5, <1>4
    <3>2. CASE j = e
      <4>1. q[i] \in 1 .. s - 1 /\ q[j] = s - 1
        BY <3>1, <3>2, <2>2, <2>3
      <4>2. (s - 1) + 1 = s /\ s <= Len(p) /\ p[s] = Plus
        BY <1>1
      <4>3. QED  BY <4>1, <4>2, <1>1
    <3>3. CASE j # e
      <4>1. j \in 1 .. e - 1
        BY <3>3, <1>4
      <4>2. QED  BY <3>1, <4>1, <2>1, <2>2, <2>5 DEF PartRead
    <3>4. QED  BY <3>2, <3>3
  <2>6. \A k \in Places(p) \cap 1 .. s - 1 : \E i \in 1 .. e : q[i] = k
    <3>1. \A k \in Places(p) \cap 1 .. s - 1 : \E i \in 1 .. e - 1 : r[i] = k
      BY <2>1 DEF PartRead
    <3>2. QED  BY <3>1, <2>2, <1>4
  <2>7. (e + 1) - 1 = e
    BY <1>4
  <2>8. PartRead(p, exp, s, e + 1, q)
    BY <2>3, <2>4, <2>5, <2>6, <2>7 DEF PartRead
  <2>9. QED  BY <1>1, <2>8 DEF ReadSoFar
<1>8. AllBehind'
  <2> SUFFICES ASSUME ~ NeedsToGoBack(p), NEW r, Denoting(p, exp, r)
               PROVE  Behind(p, exp, s, e + 1, r)
    BY <1>1 DEF AllBehind
  <2>1. \A i \in 1 .. Len(exp) :
           /\ r[i] \in 1 .. Len(p) /\ r[i] \in Places(p)
           /\ i < e => r[i] < s
           /\ i >= e => r[i] >= s \/ r[i] = s - 1
    BY <1>1, <1>4 DEF AllBehind, Behind, Denoting, Reading, Places
  <2>2. r[e] = s - 1
    <3> SUFFICES ASSUME r[e] # s - 1 PROVE NeedsToGoBack(p)
      OBVIOUS
    <3> DEFINE k == r[e]
    <3>1. k \in Places(p) /\ k > s
      BY <2>1, <1>1, <1>4, <1>5 DEF Places
    <3>2. p[k] = p[s - 1]
      BY <1>4 DEF Denoting, Reading
    <3>3. ASSUME NEW l \in s .. k - 1, p[l] # Plus PROVE FALSE
      <4>1. l \in Places(p)
        BY <3>1, <3>3, <1>1, <1>5 DEF Places
      <4>2. PICK j \in 1 .. Len(exp) : r[j] = l
        BY <4>1 DEF Denoting, Reading
      <4>3. j > e
        <5>1. l >= s /\ l # r[e]
          BY <3>1, <3>3, <1>1
        <5>2. ~ (j < e) /\ j # e
          BY <5>1, <4>2, <2>1, <1>1
        <5>3. QED  BY <5>2, <1>4
      <4>4. r[e] <= r[j]
        BY <4>3, <1>4, <2>1 DEF Denoting, Reading
      <4>5. QED  BY <4>2, <4>4, <3>1, <1>1, <1>5 DEF Places
    <3>4. (s - 1) + 1 = s /\ s < k
      BY <3>1, <1>1
    <3> HIDE DEF k
    <3>5. QED  BY <1>5, <3>1, <3>2, <3>3, <3>4 DEF NeedsToGoBack
  <2>3. \A i \in 1 .. Len(exp) : i < e + 1 => i < e \/ i = e
    BY <1>4
  <2>4. QED  BY <2>1, <2>2, <2>3, <1>1, <1>4, <1>5 DEF Behind
<1>9. MatchIsRight'
  BY <1>1 DEF MatchIsRight
<1>10. QED  BY <1>6, <1>7, <1>8, <1>9 DEF MatchInv

\* The + is passed when the next of the name is another character.
LEMMA LeaveStep ==
  ASSUME MatchInv, LeavesPlus, ~ LeadsWithPlus(syntax)
  PROVE  MatchInv'
<1> DEFINE s == s_index  e == e_index  p == syntax
<1>1. /\ MatchTypeOK /\ ReadSoFar /\ AllBehind
      /\ s \in 1 .. Len(p) /\ p[s] = Plus /\ (s > 1 => p[s - 1] # Char)
      /\ s_index' = s + 1
      /\ UNCHANGED <<syntax, exp, e_index, result>> /\ result = "running"
  BY DEF MatchInv, LeavesPlus, AtPlus, RepeatsNot, InLoop, MatchTypeOK
<1>2. /\ Len(p) \in Nat /\ Len(exp) \in Nat /\ e \in 1 .. Len(exp) + 1
      /\ s # 1 /\ p[s - 1] # Char
  BY <1>1 DEF MatchTypeOK, LeadsWithPlus
<1>3. MatchTypeOK'
  BY <1>1, <1>2 DEF MatchTypeOK
<1>4. /\ Places(p) \cap 1 .. (s + 1) - 1 = Places(p) \cap 1 .. s - 1
      /\ 1 .. s - 1 \subseteq 1 .. (s + 1) - 1
  BY <1>1 DEF Places
<1>5. ReadSoFar'
  <2>1. PICK r : PartRead(p, exp, s, e, r)
    BY <1>1 DEF ReadSoFar
  <2>2. PartRead(p, exp, s + 1, e, r)
    BY <2>1, <1>4 DEF PartRead
  <2>3. QED  BY <2>2, <1>1 DEF ReadSoFar
<1>6. AllBehind'
  <2> SUFFICES ASSUME ~ NeedsToGoBack(p), NEW r, Denoting(p, exp, r)
               PROVE  Behind(p, exp, s + 1, e, r)
    BY <1>1 DEF AllBehind
  <2>1. \A i \in 1 .. Len(exp) :
           /\ r[i] \in 1 .. Len(p) /\ r[i] # s
           /\ i < e => r[i] < s
           /\ i >= e => r[i] >= s \/ r[i] = s - 1
    <3>1. Behind(p, exp, s, e, r)
      BY <1>1 DEF AllBehind
    <3>2. \A i \in 1 .. Len(exp) : r[i] \in Places(p)
      BY DEF Denoting, Reading
    <3>3. \A i \in 1 .. Len(exp) : r[i] \in 1 .. Len(p) /\ r[i] # s
      BY <1>1, <3>2 DEF Places
    <3>4. QED  BY <3>1, <3>3 DEF Behind
  <2>2. ASSUME NEW i \in 1 .. Len(exp), i >= e PROVE r[i] # s - 1
    <3> SUFFICES ASSUME r[i] = s - 1 PROVE FALSE
      OBVIOUS
    <3>1. e \in 1 .. Len(exp) /\ exp[e] = Char
      BY <2>2, <1>2 DEF Char
    <3>2. e = i \/ r[e] <= r[i]
      BY <2>1, <2>2, <3>1 DEF Denoting, Reading
    <3>3. r[e] = s - 1
      BY <2>1, <3>1, <3>2, <1>1, <1>2
    <3>4. exp[e] = p[s - 1]
      BY <3>1, <3>3 DEF Denoting, Reading
    <3>5. exp[e] # p[s - 1]
      BY <3>1, <1>2
    <3>6. QED  BY <3>4, <3>5
  <2>3. QED  BY <2>1, <2>2, <1>1, <1>2 DEF Behind
<1>7. MatchIsRight'
  BY <1>1 DEF MatchIsRight
<1>8. QED  BY <1>3, <1>5, <1>6, <1>7 DEF MatchInv

\* No reading of the name is left when its next character differs.
LEMMA DifferStep ==
  ASSUME MatchInv, Differs
  PROVE  MatchInv'
<1> DEFINE s == s_index  e == e_index  p == syntax
<1>1. /\ MatchTypeOK /\ (LeadsWithPlus(p) \/ AllBehind) /\ result' = "no"
      /\ s \in 1 .. Len(p) /\ p[s] # Plus /\ p[s] # Char
      /\ UNCHANGED <<syntax, exp, s_index, e_index>>
  BY DEF MatchInv, Differs, InLoop, MatchTypeOK
<1>2. /\ Len(p) \in Nat /\ Len(exp) \in Nat
      /\ ~ LeadsWithPlus(p) => e \in 1 .. Len(exp) + 1
  BY <1>1 DEF MatchTypeOK
<1>3. ASSUME ~ WrongNo(p), NEW r, Denoting(p, exp, r) PROVE FALSE
  <2> USE DEF WrongNo
  <2>1. \A i \in 1 .. Len(exp) :
           /\ r[i] \in 1 .. Len(p)
           /\ i < e => r[i] < s
           /\ i >= e => r[i] >= s
    BY <1>1, <1>2, <1>3 DEF AllBehind, Behind, Denoting, Reading, Places
  <2>2. s \in Places(p)
    BY <1>1 DEF Places
  <2>3. PICK j \in 1 .. Len(exp) : r[j] = s
    BY <2>2, <1>3 DEF Denoting, Reading
  <2>4. j >= e /\ e \in 1 .. Len(exp)
    <3>1. e \in 1 .. Len(exp) + 1
      BY <1>2, <1>3
    <3>2. ~ (j < e)
      BY <2>1, <2>3, <1>1
    <3>3. QED  BY <3>1, <3>2, <1>2
  <2>5. j = e \/ r[e] < r[j] \/ r[e] = r[j]
    <3>1. j = e \/ e < j
      BY <2>4, <1>2
    <3>2. QED  BY <3>1, <2>4, <1>3, InOrder
  <2>6. r[e] = s
    <3>1. r[e] \in Int /\ r[e] >= s /\ s \in Int
      BY <2>1, <2>4, <1>1, <1>2
    <3>2. QED  BY <3>1, <2>3, <2>5
  <2>7. exp[e] = p[s]
    BY <2>4, <2>6, <1>3 DEF Denoting, Reading
  <2>8. QED  BY <2>4, <2>7, <1>1 DEF Char
<1>4. ~ Denotes(p, exp) \/ WrongNo(p)
  BY <1>3 DEF Denotes, Denoting
<1>5. MatchTypeOK'
  BY <1>1 DEF MatchTypeOK
<1>6. QED  BY <1>1, <1>4, <1>5 DEF MatchInv, MatchIsRight

\* At the end of the pattern the name is read if it has ended too.
LEMMA ReturnStep ==
  ASSUME MatchInv, Returns
  PROVE  MatchInv'
<1> DEFINE s == s_index  e == e_index  p == syntax
<1>1. /\ MatchTypeOK /\ (LeadsWithPlus(p) \/ (ReadSoFar /\ AllBehind)) /\ s > Len(p)
      /\ result' = IF e = Len(exp) + 1 THEN "yes" ELSE "no"
      /\ UNCHANGED <<syntax, exp, s_index, e_index>>
  BY DEF MatchInv, Returns
<1>2. /\ Len(p) \in Nat /\ Len(exp) \in Nat /\ s = Len(p) + 1
      /\ ~ LeadsWithPlus(p) => e \in 1 .. Len(exp) + 1
  BY <1>1 DEF MatchTypeOK
<1> MatchTypeOK'
  BY <1>1 DEF MatchTypeOK
<1>3. CASE LeadsWithPlus(p)
  BY <1>1, <1>3 DEF MatchInv, MatchIsRight, WrongYes, WrongNo
<1>4. CASE ~ LeadsWithPlus(p) /\ e = Len(exp) + 1
  <2>1. PICK r : PartRead(p, exp, s, e, r)
    BY <1>1, <1>4 DEF ReadSoFar
  <2>2. e - 1 = Len(exp) /\ s - 1 = Len(p) /\ Places(p) \cap 1 .. s - 1 = Places(p)
    BY <1>2, <1>4 DEF Places
  <2>3. r \in [1 .. Len(exp) -> 1 .. Len(p)] /\ Reading(p, exp, r)
    BY <2>1, <2>2 DEF PartRead, Reading
  <2>4. CASE HasPlus(exp)
    BY <1>1, <1>4, <2>3, <2>4 DEF Literal, WrongYes, MatchInv, MatchIsRight
  <2>5. CASE ~ HasPlus(exp)
    <3>1. \A i \in 1 .. Len(exp) : r[i] \in Places(p)
      BY <2>3, <2>5 DEF HasPlus, Reading, Places
    <3>2. r \in [1 .. Len(exp) -> Places(p)]
      BY <2>3, <3>1
    <3>3. QED  BY <1>1, <1>4, <2>3, <3>2 DEF Denotes, MatchInv, MatchIsRight
  <2>6. QED  BY <2>4, <2>5
<1>5. CASE ~ LeadsWithPlus(p) /\ e # Len(exp) + 1
  <2>1. ASSUME ~ NeedsToGoBack(p), NEW r, Denoting(p, exp, r) PROVE FALSE
    <3>1. e \in 1 .. Len(exp)
      BY <1>2, <1>5
    <3>2. r[e] \in 1 .. Len(p)
      BY <2>1, <3>1 DEF Denoting, Places
    <3>3. r[e] >= s
      BY <1>1, <1>2, <1>5, <2>1, <3>1 DEF AllBehind, Behind
    <3>4. QED  BY <3>2, <3>3, <1>2
  <2>2. ~ Denotes(p, exp) \/ NeedsToGoBack(p)
    BY <2>1 DEF Denotes, Denoting
  <2>3. QED  BY <2>2, <1>1, <1>5 DEF MatchInv, MatchIsRight, WrongNo
<1>6. QED  BY <1>3, <1>4, <1>5

\* Of a pattern that begins with a + nothing is kept but where the indices are.
LEMMA LeadingStep ==
  ASSUME MatchInv, LeadsWithPlus(syntax), TakesMore \/ LeavesPlus
  PROVE  MatchInv'
<1>1. /\ MatchTypeOK /\ s_index \in 1 .. Len(syntax) /\ syntax[s_index] = Plus
      /\ result = "running" /\ UNCHANGED <<syntax, exp, result>>
  BY DEF MatchInv, TakesMore, LeavesPlus, AtPlus, InLoop, MatchTypeOK
<1>2. CASE TakesMore
  <2>1. e_index <= Len(exp) + 1
    <3>1. CASE s_index = 1
      BY <1>2, <3>1 DEF TakesMore, Repeats
    <3>2. CASE s_index # 1
      <4>1. s_index - 1 \in 1 .. Len(syntax)
        BY <1>1, <3>2 DEF MatchTypeOK
      <4>2. syntax[s_index - 1] \in Characters /\ syntax[s_index - 1] = Char
        BY <1>1, <1>2, <3>2, <4>1, SyntaxAt DEF TakesMore, Repeats
      <4>3. e_index <= Len(exp) /\ Len(exp) \in Nat /\ e_index \in Nat
        BY <1>1, <4>2, CharInName DEF MatchTypeOK
      <4>4. QED  BY <4>3
    <3>3. QED  BY <3>1, <3>2
  <2>2. MatchTypeOK'
    BY <1>1, <1>2, <2>1 DEF TakesMore, MatchTypeOK
  <2>3. QED  BY <1>1, <2>2 DEF MatchInv, MatchIsRight
<1>3. CASE LeavesPlus
  <2>1. MatchTypeOK'
    BY <1>1, <1>3 DEF LeavesPlus, MatchTypeOK
  <2>2. QED  BY <1>1, <2>1 DEF MatchInv, MatchIsRight
<1>4. QED  BY <1>2, <1>3

-------------------------------------------------------------------------------
LEMMA MatchInvStep == MatchInv /\ [MatchNext]_matchVars => MatchInv'
<1> SUFFICES ASSUME MatchInv, [MatchNext]_matchVars PROVE MatchInv'
  OBVIOUS
<1>1. CASE UNCHANGED matchVars
  BY <1>1 DEF matchVars, MatchInv, MatchTypeOK, ReadSoFar, AllBehind, MatchIsRight
<1>2. CASE MatchNext
  BY <1>2, CallStep, AdvanceStep, TakeStep, LeaveStep, LeadingStep, DifferStep,
     ReturnStep
     DEF MatchNext, is_match
<1>3. QED  BY <1>1, <1>2

\* Whatever names is_match() is called with, for any pattern: yes only to names
\* the pattern denotes, and no to no such name, but for a name with a + of its
\* own, a pattern that begins with a +, and one where it would have to go back.
THEOREM MatchIsSoundAndComplete == MatchSpec => []MatchIsRight
<1>1. MatchInit => MatchInv
  BY MatchTypeInit DEF MatchInit, MatchInv, MatchIsRight
<1>2. MatchInv /\ [MatchNext]_matchVars => MatchInv'
  BY MatchInvStep
<1>3. MatchInv => MatchIsRight
  BY DEF MatchInv
<1>4. QED  BY <1>1, <1>2, <1>3, PTL DEF MatchSpec

-------------------------------------------------------------------------------
(* The tree of hw1 and its blocks *)

\* A node of the tree: its entries fit in what is allocated for them.
Block(node) ==
  /\ node = [subs |-> node.subs, allocated |-> node.allocated,
             capacity |-> node.capacity]
  /\ List(node.subs)
  /\ node.allocated \in Int /\ node.capacity \in Int
  /\ node.allocated # Unset => Len(node.subs) <= node.allocated
  /\ node.allocated \notin {NULL, Unset} => Chunk <= node.allocated
  /\ node.capacity <= Chunk

\* Entries lead to nodes; only an entry that has just been counted has a
\* pointer that nobody has set.
TreeInv ==
  /\ nodes = [p \in DOMAIN nodes |-> nodes[p]]
  /\ <<>> \in DOMAIN nodes
  /\ \A p \in DOMAIN nodes : Block(nodes[p])
  /\ \A p \in DOMAIN nodes : \A i \in 1 .. Len(nodes[p].subs) :
        Append(p, nodes[p].subs[i]) \in DOMAIN nodes
  /\ \A p \in DOMAIN nodes : nodes[p].allocated = Unset =>
        pc = "exited" \/ (pc = "clear" /\ p = Append(at, NextName))

\* add_to_tree() is at a node, which has room for one more entry.
PlaceInv ==
  /\ List(at)
  /\ pc \in {"add", "store", "place", "clear"} => at \in DOMAIN nodes
  /\ pc = "place" => /\ nodes[at].allocated # Unset
                     /\ Len(nodes[at].subs) + 1 <= nodes[at].allocated
  /\ pc = "clear" => Append(at, NextName) \in DOMAIN nodes

\* Nothing is freed before the end but what realloc() has moved.
FreedInv ==
  /\ freed = [p \in DOMAIN files \cup {<<>>} |-> freed[p]]
  /\ pc \notin {"store", "free", "ended", "exited"} =>
        \A p \in DOMAIN freed : freed[p] = 0
  /\ pc = "store" => \A p \in DOMAIN freed :
                        freed[p] = 0 \/ (p = at /\ nodes[at].allocated # NULL)

BlocksInv == TreeInv /\ PlaceInv /\ FreedInv

LEMMA Appended ==
  ASSUME NEW s, List(s), NEW x
  PROVE  /\ List(Append(s, x)) /\ Append(s, x) # s
         /\ Len(Append(s, x)) = Len(s) + 1
         /\ Append(s, x)[Len(s) + 1] = x
         /\ \A i \in 1 .. Len(s) : Append(s, x)[i] = s[i]
<1> DEFINE S == {s[j] : j \in 1 .. Len(s)} \cup {x}
<1>1. s \in [1 .. Len(s) -> S] /\ Len(s) \in Nat /\ x \in S
  BY DEF List
<1> HIDE DEF S
<1>2. s \in Seq(S)
  BY <1>1
<1>3. /\ Append(s, x) \in Seq(S)
      /\ Len(Append(s, x)) = Len(s) + 1
      /\ Append(s, x)[Len(s) + 1] = x
      /\ \A i \in 1 .. Len(s) : Append(s, x)[i] = s[i]
  BY <1>1, <1>2
<1>4. Append(s, x) # s
  <2>1. Len(s) + 1 # Len(s)
    <3>1. \A n \in Nat : n + 1 # n
      OBVIOUS
    <3>2. QED  BY <3>1 DEF List
  <2>2. Len(Append(s, x)) # Len(s)
    BY <1>3, <2>1
  <2>3. QED  BY <2>2
<1>5. List(Append(s, x))
  <2> DEFINE t == Append(s, x)
  <2>1. t \in Seq(S)
    BY <1>3
  <2> HIDE DEF t
  <2>2. Len(t) \in Nat /\ t = [j \in 1 .. Len(t) |-> t[j]]
    BY <2>1
  <2>3. QED  BY <2>2 DEF List, t
<1>6. QED  BY <1>3, <1>4, <1>5

LEMMA NothingListed == List(<<>>) /\ Len(<<>>) = 0
<1>1. <<>> \in Seq({}) /\ Len(<<>>) = 0
  OBVIOUS
<1>2. <<>> = [j \in 1 .. 0 |-> <<>>[j]]
  BY <1>1
<1>3. QED  BY <1>1, <1>2 DEF List

LEMMA EmptyNode ==
  ASSUME NEW pointer \in {NULL, Unset}
  PROVE  /\ Block(Node(pointer)) /\ Len(Node(pointer).subs) = 0
         /\ Node(pointer).allocated = pointer
BY NothingListed, SearchAssumption DEF Block, Node, NULL, Unset

LEMMA BlocksInvInit == SearchInit => BlocksInv
<1> SUFFICES ASSUME SearchInit PROVE BlocksInv
  OBVIOUS
<1>1. /\ nodes = [p \in {<<>>} |-> Node(NULL)] /\ at = <<>> /\ pc = "arguments"
      /\ freed = [p \in DOMAIN files \cup {<<>>} |-> 0]
  BY DEF SearchInit
<1>2. DOMAIN nodes = {<<>>} /\ nodes[<<>>] = Node(NULL)
  BY <1>1
<1>3. TreeInv
  <2>1. /\ Block(Node(NULL)) /\ Len(Node(NULL).subs) = 0
        /\ Node(NULL).allocated # Unset
    BY EmptyNode DEF NULL, Unset
  <2>2. \A p \in DOMAIN nodes : /\ Block(nodes[p]) /\ Len(nodes[p].subs) = 0
                                /\ nodes[p].allocated # Unset
    BY <1>2, <2>1
  <2>3. nodes = [p \in DOMAIN nodes |-> nodes[p]]
    BY <1>1
  <2>4. QED  BY <1>2, <2>2, <2>3 DEF TreeInv
<1>4. PlaceInv
  BY <1>1, NothingListed DEF PlaceInv
<1>5. FreedInv
  BY <1>1 DEF FreedInv
<1>6. QED  BY <1>3, <1>4, <1>5 DEF BlocksInv

-------------------------------------------------------------------------------
(* One step *)


\* A step that leaves the tree alone.
LEMMA TreeKept ==
  ASSUME BlocksInv, nodes' = nodes, at' = at \/ at' = <<>>, freed' = freed,
         files' = files,
         pc \notin {"store", "place", "clear", "free", "ended", "exited"},
         pc' \notin {"store", "place", "clear"},
         pc' = "add" => (at' = <<>> \/ pc = "add")
  PROVE  BlocksInv'
<1>1. TreeInv'
  <2>1. \A p \in DOMAIN nodes : nodes[p].allocated # Unset
    BY DEF BlocksInv, TreeInv
  <2>2. QED  BY <2>1 DEF BlocksInv, TreeInv
<1>2. PlaceInv'
  BY NothingListed DEF BlocksInv, PlaceInv, TreeInv
<1>3. FreedInv'
  BY DEF BlocksInv, FreedInv
<1>4. QED  BY <1>1, <1>2, <1>3 DEF BlocksInv

LEMMA RoomChanges ==
  ASSUME NEW node, NEW s, NEW b, NEW c, NEW x,
         node = [subs |-> s, allocated |-> b, capacity |-> c]
  PROVE  [node EXCEPT !.allocated = x] = [subs |-> s, allocated |-> x, capacity |-> c]
<1>1. [[subs |-> s, allocated |-> b, capacity |-> c] EXCEPT !.allocated = x]
        = [subs |-> s, allocated |-> x, capacity |-> c]
  OBVIOUS
<1>2. QED  BY <1>1, Zenon

LEMMA EntriesChange ==
  ASSUME NEW node, NEW s, NEW b, NEW c, NEW x,
         node = [subs |-> s, allocated |-> b, capacity |-> c]
  PROVE  [node EXCEPT !.subs = x] = [subs |-> x, allocated |-> b, capacity |-> c]
<1>1. [[subs |-> s, allocated |-> b, capacity |-> c] EXCEPT !.subs = x]
        = [subs |-> x, allocated |-> b, capacity |-> c]
  OBVIOUS
<1>2. QED  BY <1>1, Zenon

LEMMA CapacityChanges ==
  ASSUME NEW node, NEW s, NEW b, NEW c, NEW x,
         node = [subs |-> s, allocated |-> b, capacity |-> c]
  PROVE  [node EXCEPT !.capacity = x] = [subs |-> s, allocated |-> b, capacity |-> x]
<1>1. [[subs |-> s, allocated |-> b, capacity |-> c] EXCEPT !.capacity = x]
        = [subs |-> s, allocated |-> b, capacity |-> x]
  OBVIOUS
<1>2. QED  BY <1>1, Zenon

\* The block of a node changes, and not what is in it.
LEMMA NodeReplaced ==
  ASSUME BlocksInv, pc \in {"add", "store"}, at \in DOMAIN nodes,
         NEW new, Block(new), new.subs = nodes[at].subs, new.allocated # Unset,
         nodes' = [nodes EXCEPT ![at] = new]
  PROVE  /\ TreeInv'
         /\ DOMAIN nodes' = DOMAIN nodes /\ nodes'[at] = new
         /\ \A p \in DOMAIN nodes : nodes'[p].subs = nodes[p].subs
<1>1. /\ DOMAIN nodes' = DOMAIN nodes
      /\ nodes'[at] = new
      /\ \A p \in DOMAIN nodes : p # at => nodes'[p] = nodes[p]
      /\ nodes' = [p \in DOMAIN nodes' |-> nodes'[p]]
  OBVIOUS
<1>2. \A p \in DOMAIN nodes : nodes[p].allocated # Unset
  BY DEF BlocksInv, TreeInv
<1>3. \A p \in DOMAIN nodes' : /\ Block(nodes'[p])
                               /\ nodes'[p].subs = nodes[p].subs
                               /\ nodes'[p].allocated # Unset
  BY <1>1, <1>2 DEF BlocksInv, TreeInv
<1>4. TreeInv'
  BY <1>1, <1>3 DEF BlocksInv, TreeInv
<1>5. QED  BY <1>1, <1>3, <1>4

\* The node that add_entry() is at.
LEMMA NodeAt ==
  ASSUME BlocksInv, pc \in {"add", "store"}
  PROVE  /\ at \in DOMAIN nodes /\ List(at) /\ Block(nodes[at])
         /\ nodes[at].allocated # Unset
         /\ Len(nodes[at].subs) \in Nat /\ Len(nodes[at].subs) <= nodes[at].allocated
         /\ nodes[at].allocated # NULL => Chunk <= nodes[at].allocated
         /\ nodes[at].allocated \in Int /\ nodes[at].capacity \in Int
         /\ nodes[at].capacity <= Chunk /\ Chunk \in Nat /\ Chunk >= 1
         /\ nodes[at] = [subs |-> nodes[at].subs, allocated |-> nodes[at].allocated,
                         capacity |-> nodes[at].capacity]
<1>1. at \in DOMAIN nodes /\ List(at)
  BY DEF BlocksInv, PlaceInv
<1>2. Block(nodes[at]) /\ nodes[at].allocated # Unset
  BY <1>1 DEF BlocksInv, TreeInv
<1>3. Chunk \in Nat /\ Chunk >= 1
  BY SearchAssumption
<1>4. Len(nodes[at].subs) \in Nat
  BY <1>2 DEF Block, List
<1>5. QED  BY <1>1, <1>2, <1>3, <1>4 DEF Block

LEMMA HasRoomStep ==
  ASSUME BlocksInv, HasRoom
  PROVE  BlocksInv' /\ nodes' = nodes
<1>1. /\ pc = "add" /\ pc' = "place" /\ UNCHANGED <<files, nodes, at, freed>>
      /\ nodes[at].allocated # NULL /\ nodes[at].capacity > Len(nodes[at].subs)
  BY DEF HasRoom, Adding
<1>2. Len(nodes[at].subs) + 1 <= nodes[at].allocated
  BY <1>1, NodeAt
<1>3. TreeInv'
  BY <1>1 DEF BlocksInv, TreeInv
<1>4. PlaceInv'
  BY <1>1, <1>2, NodeAt DEF PlaceInv
<1>5. FreedInv'
  BY <1>1 DEF BlocksInv, FreedInv
<1>6. QED  BY <1>1, <1>3, <1>4, <1>5 DEF BlocksInv

LEMMA AllocatesStep ==
  ASSUME BlocksInv, Allocates
  PROVE  /\ BlocksInv'
         /\ DOMAIN nodes' = DOMAIN nodes
         /\ \A p \in DOMAIN nodes : nodes'[p].subs = nodes[p].subs
<1>1. /\ pc = "add" /\ pc' = "store" /\ UNCHANGED <<files, at, freed>>
      /\ nodes' = [nodes EXCEPT ![at].capacity = Chunk]
  BY DEF Allocates, Adding
<1> DEFINE new == [subs |-> nodes[at].subs, allocated |-> nodes[at].allocated,
                   capacity |-> Chunk]
<1>2. Block(new) /\ new.subs = nodes[at].subs /\ new.allocated # Unset
  BY <1>1, NodeAt DEF Block
<1>3. nodes' = [nodes EXCEPT ![at] = new]
  <2>1. [nodes[at] EXCEPT !.capacity = Chunk] = new
    BY <1>1, NodeAt, CapacityChanges
  <2>2. QED  BY <1>1, <2>1
<1> HIDE DEF new
<1>4. /\ TreeInv' /\ DOMAIN nodes' = DOMAIN nodes
      /\ \A p \in DOMAIN nodes : nodes'[p].subs = nodes[p].subs
  BY <1>1, <1>2, <1>3, NodeAt, NodeReplaced
<1>5. PlaceInv'
  BY <1>1, <1>4, NodeAt DEF PlaceInv
<1>6. FreedInv'
  BY <1>1 DEF BlocksInv, FreedInv
<1>7. QED  BY <1>4, <1>5, <1>6 DEF BlocksInv

LEMMA ReallocsStep ==
  ASSUME BlocksInv, Reallocs
  PROVE  BlocksInv' /\ nodes' = nodes
<1>1. /\ pc = "add" /\ pc' = "store" /\ UNCHANGED <<files, at, nodes>>
      /\ nodes[at].allocated # NULL
  BY DEF Reallocs
<1>2. PICK moved \in {0, 1} : freed' = [freed EXCEPT ![at] = moved]
  BY DEF Reallocs
<1>3. TreeInv'
  BY <1>1 DEF BlocksInv, TreeInv
<1>4. PlaceInv'
  BY <1>1, NodeAt DEF PlaceInv
<1>5. FreedInv'
  <2>1. /\ freed = [p \in DOMAIN files \cup {<<>>} |-> freed[p]]
        /\ \A p \in DOMAIN freed : freed[p] = 0
    BY <1>1 DEF BlocksInv, FreedInv
  <2>2. /\ DOMAIN freed' = DOMAIN freed
        /\ freed' = [p \in DOMAIN freed |-> freed'[p]]
        /\ \A p \in DOMAIN freed : p # at => freed'[p] = freed[p]
    BY <1>2, <2>1
  <2>3. DOMAIN freed = DOMAIN files \cup {<<>>}
    BY <2>1
  <2>4. QED  BY <1>1, <2>1, <2>2, <2>3 DEF FreedInv
<1>6. QED  BY <1>1, <1>3, <1>4, <1>5 DEF BlocksInv

LEMMA StoresBlockStep ==
  ASSUME BlocksInv, StoresBlock
  PROVE  /\ BlocksInv'
         /\ DOMAIN nodes' = DOMAIN nodes
         /\ \A p \in DOMAIN nodes : nodes'[p].subs = nodes[p].subs
<1> DEFINE b   == IF nodes[at].allocated = NULL THEN Chunk
                  ELSE Len(nodes[at].subs) + Chunk
           new == [subs |-> nodes[at].subs, allocated |-> b,
                   capacity |-> nodes[at].capacity]
<1>1. /\ pc = "store" /\ pc' \in {"add", "place"} /\ UNCHANGED <<files, at>>
      /\ nodes' = [nodes EXCEPT ![at].allocated = b]
      /\ freed' = [freed EXCEPT ![at] = 0]
  BY DEF StoresBlock
<1>2. /\ b \in Int /\ b # Unset /\ Chunk <= b /\ Len(nodes[at].subs) + 1 <= b
  <2>1. CASE nodes[at].allocated = NULL
    <3>1. Len(nodes[at].subs) = 0 /\ b = Chunk
      BY <1>1, <2>1, NodeAt DEF NULL
    <3>2. QED  BY <1>1, <3>1, NodeAt DEF Unset
  <2>2. CASE nodes[at].allocated # NULL
    <3>1. b = Len(nodes[at].subs) + Chunk
      BY <2>2
    <3>2. QED  BY <1>1, <3>1, NodeAt DEF Unset
  <2>3. QED  BY <2>1, <2>2
<1>3. nodes' = [nodes EXCEPT ![at] = new]
  <2> HIDE DEF b
  <2>1. [nodes[at] EXCEPT !.allocated = b] = new
    BY <1>1, NodeAt, RoomChanges
  <2>2. QED  BY <1>1, <2>1
<1> HIDE DEF b
<1>4. Block(new) /\ new.subs = nodes[at].subs /\ new.allocated = b
  <2>1. Len(nodes[at].subs) <= b
    BY <1>1, <1>2, NodeAt
  <2>2. List(nodes[at].subs)
    BY <1>1, NodeAt DEF Block
  <2>3. QED  BY <1>1, <1>2, <2>1, <2>2, NodeAt DEF Block
<1> HIDE DEF new
<1>5. /\ TreeInv' /\ DOMAIN nodes' = DOMAIN nodes /\ nodes'[at] = new
      /\ \A p \in DOMAIN nodes : nodes'[p].subs = nodes[p].subs
  BY <1>1, <1>2, <1>3, <1>4, NodeAt, NodeReplaced
<1>6. PlaceInv'
  BY <1>1, <1>2, <1>4, <1>5, NodeAt DEF PlaceInv
<1>7. FreedInv'
  <2>1. /\ freed = [p \in DOMAIN files \cup {<<>>} |-> freed[p]]
        /\ \A p \in DOMAIN freed : freed[p] = 0 \/ p = at
    BY <1>1 DEF BlocksInv, FreedInv
  <2>2. freed' = [p \in DOMAIN freed |-> IF p = at THEN 0 ELSE freed[p]]
    BY <1>1, <2>1
  <2>3. /\ DOMAIN freed' = DOMAIN freed
        /\ freed' = [p \in DOMAIN freed |-> freed'[p]]
        /\ \A p \in DOMAIN freed : freed'[p] = 0
    BY <2>1, <2>2
  <2>4. DOMAIN freed = DOMAIN files \cup {<<>>}
    BY <2>1
  <2>5. QED  BY <1>1, <2>3, <2>4 DEF FreedInv
<1>8. QED  BY <1>5, <1>6, <1>7 DEF BlocksInv

LEMMA PlacesEntryStep ==
  ASSUME BlocksInv, PlacesEntry
  PROVE  /\ BlocksInv'
         /\ DOMAIN nodes' = DOMAIN nodes \cup {Append(at, NextName)}
         /\ nodes'[Append(at, NextName)].subs = <<>>
         /\ nodes'[at].subs = Append(nodes[at].subs, NextName)
         /\ \A p \in DOMAIN nodes \ {at, Append(at, NextName)} : nodes'[p] = nodes[p]
<1> DEFINE placed == Append(at, NextName)
           old    == nodes[at]
           grown  == [subs |-> Append(old.subs, NextName),
                      allocated |-> old.allocated, capacity |-> old.capacity]
<1>1. /\ pc = "place" /\ pc' = "clear" /\ at' = at /\ freed' = freed /\ entry' = entry
      /\ files' = files /\ at \in DOMAIN nodes /\ Block(old)
      /\ old.allocated # Unset /\ Len(old.subs) + 1 <= old.allocated
  <2>1. /\ pc = "place" /\ pc' = "clear" /\ at' = at /\ freed' = freed /\ entry' = entry
        /\ files' = files
    BY DEF PlacesEntry, Adding
  <2>2. QED  BY <2>1 DEF BlocksInv, TreeInv, PlaceInv
<1>2. /\ placed # at /\ List(at)
  BY Appended DEF BlocksInv, PlaceInv
<1>3. /\ Block(grown)
      /\ grown.allocated = old.allocated
      /\ Len(grown.subs) = Len(old.subs) + 1
      /\ \A i \in 1 .. Len(old.subs) : grown.subs[i] = old.subs[i]
      /\ grown.subs[Len(old.subs) + 1] = NextName
  <2>1. /\ List(Append(old.subs, NextName))
        /\ Len(Append(old.subs, NextName)) = Len(old.subs) + 1
        /\ Append(old.subs, NextName)[Len(old.subs) + 1] = NextName
        /\ \A i \in 1 .. Len(old.subs) : Append(old.subs, NextName)[i] = old.subs[i]
    BY <1>1, Appended DEF Block
  <2>2. QED  BY <1>1, <2>1 DEF Block
<1>4. [old EXCEPT !.subs = Append(@, NextName)] = grown
  <2>1. old = [subs |-> old.subs, allocated |-> old.allocated,
               capacity |-> old.capacity]
    BY <1>1 DEF Block
  <2> HIDE DEF old
  <2>2. [old EXCEPT !.subs = Append(old.subs, NextName)] = grown
    BY <2>1, EntriesChange
  <2>3. QED  BY <2>2
<1>5. nodes' = [p \in DOMAIN nodes \cup {placed} |->
                  IF p = placed THEN Node(Unset)
                  ELSE IF p = at THEN grown ELSE nodes[p]]
  BY <1>4 DEF PlacesEntry
<1> HIDE DEF placed, grown, old
<1>6. /\ DOMAIN nodes' = DOMAIN nodes \cup {placed}
      /\ nodes'[placed] = Node(Unset) /\ nodes'[at] = grown
      /\ \A p \in DOMAIN nodes : p # placed /\ p # at => nodes'[p] = nodes[p]
      /\ nodes' = [p \in DOMAIN nodes' |-> nodes'[p]]
  BY <1>1, <1>2, <1>5
<1>7. /\ Block(Node(Unset)) /\ Len(Node(Unset).subs) = 0
  BY EmptyNode
<1>8. TreeInv'
  <2>1. <<>> \in DOMAIN nodes'
    BY <1>6 DEF BlocksInv, TreeInv
  <2>2. \A p \in DOMAIN nodes' : Block(nodes'[p])
    BY <1>3, <1>6, <1>7 DEF BlocksInv, TreeInv
  <2>3. \A p \in DOMAIN nodes' : nodes'[p].allocated = Unset => p = placed
    <3>1. \A p \in DOMAIN nodes : nodes[p].allocated # Unset
      BY <1>1 DEF BlocksInv, TreeInv
    <3>2. grown.allocated # Unset
      BY <1>1, <1>3 DEF old
    <3>3. QED  BY <1>6, <3>1, <3>2
  <2>4. ASSUME NEW p \in DOMAIN nodes', NEW i \in 1 .. Len(nodes'[p].subs)
        PROVE  Append(p, nodes'[p].subs[i]) \in DOMAIN nodes'
    <3>1. CASE p = placed
      BY <1>6, <1>7, <2>4, <3>1
    <3>2. CASE p # placed /\ p # at
      <4>1. p \in DOMAIN nodes /\ nodes'[p] = nodes[p]
        BY <1>6, <3>2
      <4>2. Append(p, nodes[p].subs[i]) \in DOMAIN nodes
        BY <4>1 DEF BlocksInv, TreeInv
      <4>3. QED  BY <1>6, <4>1, <4>2
    <3>3. CASE p = at
      <4>1. i \in 1 .. Len(old.subs) + 1 /\ Len(old.subs) \in Nat
        BY <1>1, <1>3, <1>6, <3>3 DEF Block, List
      <4>2. CASE i = Len(old.subs) + 1
        <5>1. nodes'[p].subs[i] = NextName
          BY <1>3, <1>6, <3>3, <4>2
        <5>2. QED  BY <1>6, <3>3, <5>1 DEF placed
      <4>3. CASE i # Len(old.subs) + 1
        <5>1. i \in 1 .. Len(nodes[at].subs)
          BY <4>1, <4>3 DEF old
        <5>2. Append(at, nodes[at].subs[i]) \in DOMAIN nodes
          BY <1>1, <5>1 DEF BlocksInv, TreeInv
        <5>3. nodes'[p].subs[i] = nodes[at].subs[i]
          BY <1>3, <1>6, <3>3, <5>1 DEF old
        <5>4. QED  BY <1>6, <3>3, <5>2, <5>3
      <4>4. QED  BY <4>2, <4>3
    <3>4. QED  BY <3>1, <3>2, <3>3
  <2>5. placed = Append(at, NextName)'
    BY <1>1 DEF placed, NextName
  <2>6. QED  BY <1>1, <1>6, <2>1, <2>2, <2>3, <2>4, <2>5 DEF TreeInv
<1>9. PlaceInv'
  <2>1. placed = Append(at, NextName)'
    BY <1>1 DEF placed, NextName
  <2>2. QED  BY <1>1, <1>2, <1>6, <2>1 DEF PlaceInv
<1>10. FreedInv'
  BY <1>1 DEF BlocksInv, FreedInv
<1>11. /\ nodes'[placed].subs = <<>>
       /\ nodes'[at].subs = Append(nodes[at].subs, NextName)
  BY <1>6 DEF Node, grown, old
<1>12. QED  BY <1>6, <1>8, <1>9, <1>10, <1>11 DEF BlocksInv, placed

LEMMA ClearsStep ==
  ASSUME BlocksInv, Clears
  PROVE  /\ BlocksInv'
         /\ DOMAIN nodes' = DOMAIN nodes
         /\ nodes'[Append(at, NextName)].subs = <<>>
         /\ \A p \in DOMAIN nodes \ {Append(at, NextName)} : nodes'[p] = nodes[p]
<1> DEFINE placed == Append(at, NextName)
<1>1. /\ pc = "clear" /\ pc' = "add" /\ at' = placed /\ freed' = freed
      /\ files' = files /\ at \in DOMAIN nodes
      /\ nodes' = [nodes EXCEPT ![placed] = Node(NULL)]
  <2>1. /\ pc = "clear" /\ pc' = "add" /\ at' = placed /\ freed' = freed
        /\ files' = files
        /\ nodes' = [nodes EXCEPT ![placed] = Node(NULL)]
    BY DEF Clears, Adding
  <2>2. QED  BY <2>1 DEF BlocksInv, PlaceInv
<1>2. List(placed)
  BY Appended DEF BlocksInv, PlaceInv
<1> HIDE DEF placed
<1>3. /\ Block(Node(NULL)) /\ Len(Node(NULL).subs) = 0
      /\ Node(NULL).allocated # Unset
  BY EmptyNode DEF NULL, Unset
<1>4. placed \in DOMAIN nodes
  BY <1>1 DEF BlocksInv, PlaceInv, placed
<1>5. /\ DOMAIN nodes' = DOMAIN nodes
      /\ nodes'[placed] = Node(NULL)
      /\ \A p \in DOMAIN nodes : p # placed => nodes'[p] = nodes[p]
      /\ nodes' = [p \in DOMAIN nodes' |-> nodes'[p]]
  BY <1>1, <1>4
<1>6. TreeInv'
  <2>1. \A p \in DOMAIN nodes : nodes[p].allocated = Unset => p = placed
    BY <1>1 DEF BlocksInv, TreeInv, placed
  <2>2. \A p \in DOMAIN nodes' : Block(nodes'[p]) /\ nodes'[p].allocated # Unset
    BY <1>3, <1>5, <2>1 DEF BlocksInv, TreeInv
  <2>3. ASSUME NEW p \in DOMAIN nodes', NEW i \in 1 .. Len(nodes'[p].subs)
        PROVE  Append(p, nodes'[p].subs[i]) \in DOMAIN nodes'
    <3>1. p # placed
      BY <1>3, <1>5, <2>3
    <3>2. nodes'[p] = nodes[p] /\ p \in DOMAIN nodes
      BY <1>5, <3>1
    <3>3. Append(p, nodes[p].subs[i]) \in DOMAIN nodes
      BY <3>2 DEF BlocksInv, TreeInv
    <3>4. QED  BY <1>5, <3>2, <3>3
  <2>4. <<>> \in DOMAIN nodes'
    BY <1>5 DEF BlocksInv, TreeInv
  <2>5. QED  BY <1>5, <2>2, <2>3, <2>4 DEF TreeInv
<1>7. PlaceInv'
  BY <1>1, <1>2, <1>4, <1>5 DEF PlaceInv
<1>8. FreedInv'
  BY <1>1 DEF BlocksInv, FreedInv
<1>9. nodes'[placed].subs = <<>>
  BY <1>5 DEF Node
<1>10. QED  BY <1>5, <1>6, <1>7, <1>8, <1>9 DEF BlocksInv, placed

LEMMA GoesDownStep ==
  ASSUME BlocksInv, GoesDown PROVE BlocksInv'
<1>1. /\ pc = "add" /\ pc' = "add" /\ nodes' = nodes /\ freed' = freed
      /\ files' = files
      /\ at' = Append(at, NextName) /\ Contains(nodes[at].subs, NextName)
  BY DEF GoesDown, Adding
<1>2. at \in DOMAIN nodes /\ List(at)
  BY <1>1 DEF BlocksInv, PlaceInv
<1>3. at' \in DOMAIN nodes
  <2>1. PICK i \in 1 .. Len(nodes[at].subs) : nodes[at].subs[i] = NextName
    BY <1>1 DEF Contains
  <2>2. QED  BY <1>1, <1>2, <2>1 DEF BlocksInv, TreeInv
<1>4. List(at')
  BY <1>1, <1>2, Appended
<1>5. TreeInv'
  BY <1>1 DEF BlocksInv, TreeInv
<1>6. PlaceInv'
  BY <1>1, <1>3, <1>4 DEF PlaceInv
<1>7. FreedInv'
  BY <1>1 DEF BlocksInv, FreedInv
<1>8. QED  BY <1>5, <1>6, <1>7 DEF BlocksInv

LEMMA FreesStep ==
  ASSUME BlocksInv, Frees PROVE BlocksInv'
<1>1. /\ pc = "free" /\ pc' \in {"free", "ended"}
      /\ UNCHANGED <<files, nodes, at>>
      /\ freed' = freed \/ \E p \in Blocks : freed' = [freed EXCEPT ![p] = @ + 1]
  BY DEF Frees
<1>2. TreeInv'
  BY <1>1 DEF BlocksInv, TreeInv
<1>3. PlaceInv'
  BY <1>1 DEF BlocksInv, PlaceInv
<1>4. freed = [p \in DOMAIN files \cup {<<>>} |-> freed[p]]
  BY DEF BlocksInv, FreedInv
<1>5. freed' = [p \in DOMAIN files \cup {<<>>} |-> freed'[p]]
  BY <1>1, <1>4
<1>6. FreedInv'
  BY <1>1, <1>5 DEF FreedInv
<1>7. QED  BY <1>2, <1>3, <1>6 DEF BlocksInv

LEMMA InterruptsStep ==
  ASSUME BlocksInv, Interrupts PROVE BlocksInv'
<1>1. /\ pc' = "exited" /\ UNCHANGED <<files, nodes, at>>
      /\ \/ freed' = freed
         \/ freed' = [p \in DOMAIN freed |->
                        freed[p] + IF p \in Blocks THEN Visits(p) ELSE 0]
  BY DEF Interrupts
<1>2. TreeInv'
  BY <1>1 DEF BlocksInv, TreeInv
<1>3. PlaceInv'
  BY <1>1 DEF BlocksInv, PlaceInv
<1>4. freed = [p \in DOMAIN files \cup {<<>>} |-> freed[p]]
  BY DEF BlocksInv, FreedInv
<1>5. freed' = [p \in DOMAIN files \cup {<<>>} |-> freed'[p]]
  BY <1>1, <1>4
<1>6. FreedInv'
  BY <1>1, <1>5 DEF FreedInv
<1>7. QED  BY <1>2, <1>3, <1>6 DEF BlocksInv

\* The steps of the walk and of the printing.
LEMMA OtherSteps ==
  ASSUME BlocksInv,
         \/ TakesArguments \/ SkipsHidden \/ ReadsEntry \/ MatchesName \/ Tests
         \/ Descends \/ WalkReturns \/ Added \/ Prints
  PROVE  BlocksInv' /\ freed' = freed /\ pc' # "ended"
<1>1. /\ nodes' = nodes /\ freed' = freed /\ files' = files
      /\ at' = at \/ at' = <<>>
      /\ pc \in {"arguments", "walk", "test", "descend", "add", "print"}
      /\ pc' \in {"arguments", "walk", "test", "descend", "add", "print", "free", "exited"}
      /\ pc' = "add" => at' = <<>>
  <2>1. CASE TakesArguments
    BY <2>1 DEF TakesArguments
  <2>2. CASE SkipsHidden
    BY <2>2 DEF SkipsHidden, Walks
  <2>3. CASE ReadsEntry
    BY <2>3 DEF ReadsEntry, Walks
  <2>4. CASE MatchesName
    BY <2>4 DEF MatchesName, searchVars
  <2>5. CASE Tests
    BY <2>5 DEF Tests
  <2>6. CASE Descends
    BY <2>6 DEF Descends
  <2>7. CASE WalkReturns
    BY <2>7 DEF WalkReturns
  <2>8. CASE Added
    BY <2>8 DEF Added, Adding
  <2>9. CASE Prints
    BY <2>9 DEF Prints
  <2>10. QED
    BY <2>1, <2>2, <2>3, <2>4, <2>5, <2>6, <2>7, <2>8, <2>9
<1>2. QED  BY <1>1, TreeKept

LEMMA BlocksInvStep == BlocksInv /\ [SearchNext]_allVars => BlocksInv'
<1> SUFFICES ASSUME BlocksInv, [SearchNext]_allVars PROVE BlocksInv'
  OBVIOUS
<1>1. CASE SearchNext
  BY <1>1, OtherSteps, GoesDownStep, HasRoomStep, AllocatesStep, ReallocsStep,
     StoresBlockStep, PlacesEntryStep, ClearsStep, FreesStep, InterruptsStep
     DEF SearchNext, Runs
<1>2. CASE UNCHANGED allVars
  <2>1. UNCHANGED <<files, nodes, at, pc, freed, entry>>
    BY <1>2 DEF allVars, searchVars
  <2>2. TreeInv' /\ PlaceInv' /\ FreedInv'
    BY <2>1 DEF BlocksInv, TreeInv, PlaceInv, FreedInv, NextName
  <2>3. QED  BY <2>2 DEF BlocksInv
<1>3. QED  BY <1>1, <1>2

LEMMA RoomAlways ==
  BlocksInv => \A p \in DOMAIN nodes :
                  nodes[p].allocated # Unset => Len(nodes[p].subs) <= nodes[p].allocated
BY DEF BlocksInv, TreeInv, Block

-------------------------------------------------------------------------------
(* Paths *)

Paths == Seq(FileNames)

\* q is p or below it.
Under(p, q) == Len(p) <= Len(q) /\ \A i \in 1 .. Len(p) : q[i] = p[i]

LEMMA PathIs ==
  ASSUME NEW p \in Paths
  PROVE  /\ Len(p) \in Nat /\ DOMAIN p = 1 .. Len(p)
         /\ \A i \in 1 .. Len(p) : p[i] \in FileNames
         /\ p = <<>> <=> Len(p) = 0
BY DEF Paths

LEMMA RootIs == <<>> \in Paths /\ Len(<<>>) = 0
BY DEF Paths

LEMMA SamePath ==
  ASSUME NEW p \in Paths, NEW q \in Paths, Len(p) = Len(q),
         \A i \in 1 .. Len(p) : p[i] = q[i]
  PROVE  p = q
BY DEF Paths

LEMMA StartOf ==
  ASSUME NEW p \in Paths, NEW k \in 0 .. Len(p)
  PROVE  /\ SubSeq(p, 1, k) \in Paths /\ Len(SubSeq(p, 1, k)) = k
         /\ \A i \in 1 .. k : SubSeq(p, 1, k)[i] = p[i]
BY DEF Paths

LEMMA LongerPath ==
  ASSUME NEW p \in Paths, NEW name \in FileNames
  PROVE  /\ Append(p, name) \in Paths /\ Len(Append(p, name)) = Len(p) + 1
         /\ \A i \in 1 .. Len(p) : Append(p, name)[i] = p[i]
         /\ Append(p, name)[Len(p) + 1] = name
         /\ Append(p, name) # <<>>
         /\ Last(Append(p, name)) = name
         /\ Front(Append(p, name)) = p
<1>1. /\ Append(p, name) \in Paths /\ Len(Append(p, name)) = Len(p) + 1
      /\ \A i \in 1 .. Len(p) : Append(p, name)[i] = p[i]
      /\ Append(p, name)[Len(p) + 1] = name
      /\ Append(p, name) # <<>>
  BY DEF Paths
<1>2. Last(Append(p, name)) = name
  BY <1>1 DEF Last
<1> DEFINE q == Append(p, name)
<1>3. Len(p) \in Nat
  BY PathIs
<1>4. Front(q) = SubSeq(q, 1, Len(p))
  <2>1. Len(q) - 1 = Len(p)
    BY <1>1, <1>3
  <2>2. QED  BY <2>1 DEF Front
<1>5. Len(p) \in 0 .. Len(q)
  BY <1>1, <1>3
<1>6. Front(q) = p
  <2>1. q \in Paths
    BY <1>1
  <2> HIDE DEF q
  <2>2. /\ SubSeq(q, 1, Len(p)) \in Paths /\ Len(SubSeq(q, 1, Len(p))) = Len(p)
        /\ \A i \in 1 .. Len(p) : SubSeq(q, 1, Len(p))[i] = q[i]
    BY <1>5, <2>1, StartOf
  <2>3. \A i \in 1 .. Len(p) : SubSeq(q, 1, Len(p))[i] = p[i]
    BY <1>1, <2>2 DEF q
  <2>4. QED  BY <1>4, <2>2, <2>3, SamePath
<1>7. QED  BY <1>1, <1>2, <1>6

\* Of a path that is not empty.
LEMMA ParentOf ==
  ASSUME NEW p \in Paths, p # <<>>
  PROVE  /\ Front(p) \in Paths /\ Len(p) \in Nat /\ Len(p) >= 1
         /\ Len(Front(p)) = Len(p) - 1
         /\ \A i \in 1 .. Len(p) - 1 : Front(p)[i] = p[i]
         /\ Last(p) = p[Len(p)] /\ Last(p) \in FileNames
         /\ p = Append(Front(p), Last(p))
<1>1. Len(p) \in Nat /\ Len(p) >= 1
  <2>1. Len(p) \in Nat /\ Len(p) # 0
    BY PathIs
  <2>2. QED  BY <2>1
<1>2. Len(p) - 1 \in 0 .. Len(p)
  BY <1>1
<1>3. /\ Front(p) \in Paths /\ Len(Front(p)) = Len(p) - 1
      /\ \A i \in 1 .. Len(p) - 1 : Front(p)[i] = p[i]
  BY <1>2, StartOf DEF Front
<1>4. Last(p) = p[Len(p)] /\ Last(p) \in FileNames
  BY <1>1, PathIs DEF Last
<1> DEFINE q == Append(Front(p), Last(p))
<1>5. /\ q \in Paths /\ Len(q) = Len(Front(p)) + 1
      /\ \A i \in 1 .. Len(Front(p)) : q[i] = Front(p)[i]
      /\ q[Len(Front(p)) + 1] = Last(p)
  BY <1>3, <1>4, LongerPath
<1> HIDE DEF q
<1>6. Len(q) = Len(p)
  BY <1>1, <1>3, <1>5
<1>7. \A i \in 1 .. Len(p) : q[i] = p[i]
  <2>1. (Len(p) - 1) + 1 = Len(p)
    BY <1>1
  <2>2. \A i \in 1 .. Len(p) : i \in 1 .. Len(p) - 1 \/ i = Len(p)
    BY <1>1
  <2>3. QED  BY <1>3, <1>4, <1>5, <2>1, <2>2
<1>8. q = p
  BY <1>5, <1>6, <1>7, SamePath
<1>9. QED  BY <1>1, <1>3, <1>4, <1>8 DEF q

LEMMA UnderFacts ==
  ASSUME NEW p \in Paths, NEW q \in Paths
  PROVE  /\ Under(p, p) /\ Under(<<>>, p)
         /\ Under(p, q) /\ Len(p) = Len(q) => p = q
         /\ Under(p, q) /\ p # q => Len(p) < Len(q) /\ Len(p) + 1 \in 1 .. Len(q)
         /\ \A r \in Paths : Under(p, q) /\ Under(q, r) => Under(p, r)
         /\ \A r \in Paths : Under(p, r) /\ Under(q, r) /\ Len(p) <= Len(q) => Under(p, q)
<1>1. Len(p) \in Nat /\ Len(q) \in Nat /\ Len(<<>>) = 0
  BY PathIs, RootIs
<1>2. Under(p, p) /\ Under(<<>>, p)
  BY <1>1 DEF Under
<1>3. Under(p, q) /\ Len(p) = Len(q) => p = q
  BY SamePath DEF Under
<1>4. Under(p, q) /\ p # q => Len(p) < Len(q) /\ Len(p) + 1 \in 1 .. Len(q)
  <2>1. Under(p, q) => Len(p) <= Len(q)
    BY DEF Under
  <2>2. QED  BY <1>1, <1>3, <2>1
<1>5. ASSUME NEW r \in Paths, Under(p, q), Under(q, r) PROVE Under(p, r)
  <2>1. Len(r) \in Nat
    BY PathIs
  <2>2. \A i \in 1 .. Len(p) : i \in 1 .. Len(q)
    BY <1>1, <1>5 DEF Under
  <2>3. QED  BY <1>1, <1>5, <2>1, <2>2 DEF Under
<1>6. ASSUME NEW r \in Paths, Under(p, r), Under(q, r), Len(p) <= Len(q)
      PROVE  Under(p, q)
  <2>1. \A i \in 1 .. Len(p) : i \in 1 .. Len(q)
    BY <1>1, <1>6
  <2>2. QED  BY <1>6, <2>1 DEF Under
<1>7. QED  BY <1>2, <1>3, <1>4, <1>5, <1>6

LEMMA UnderLonger ==
  ASSUME NEW p \in Paths, NEW name \in FileNames, NEW q \in Paths
  PROVE  /\ Under(p, Append(p, name))
         /\ Under(Append(p, name), q)
              <=> Under(p, q) /\ p # q /\ q[Len(p) + 1] = name
         /\ Under(q, Append(p, name)) <=> Under(q, p) \/ q = Append(p, name)
<1> DEFINE l == Append(p, name)
<1>1. /\ l \in Paths /\ Len(l) = Len(p) + 1 /\ l[Len(p) + 1] = name
      /\ \A i \in 1 .. Len(p) : l[i] = p[i]
  BY LongerPath
<1> HIDE DEF l
<1>2. Len(p) \in Nat /\ Len(q) \in Nat
  BY PathIs
<1>3. Under(p, l)
  BY <1>1, <1>2 DEF Under
<1>4. ASSUME Under(l, q) PROVE Under(p, q) /\ p # q /\ q[Len(p) + 1] = name
  <2>1. Under(p, q)
    BY <1>1, <1>3, <1>4, UnderFacts
  <2>2. Len(p) + 1 <= Len(q)
    BY <1>1, <1>4 DEF Under
  <2>3. p # q
    BY <1>2, <2>2
  <2>4. Len(p) + 1 \in 1 .. Len(l)
    BY <1>1, <1>2
  <2>5. q[Len(p) + 1] = name
    BY <1>1, <1>4, <2>4 DEF Under
  <2>6. QED  BY <2>1, <2>3, <2>5
<1>5. ASSUME Under(p, q), p # q, q[Len(p) + 1] = name PROVE Under(l, q)
  <2>1. Len(p) + 1 <= Len(q)
    BY <1>2, <1>5, UnderFacts
  <2>2. \A i \in 1 .. Len(p) + 1 : i \in 1 .. Len(p) \/ i = Len(p) + 1
    BY <1>2
  <2>3. \A i \in 1 .. Len(p) + 1 : q[i] = l[i]
    BY <1>1, <1>5, <2>2 DEF Under
  <2>4. QED  BY <1>1, <2>1, <2>3 DEF Under
<1>6. ASSUME Under(q, l) PROVE Under(q, p) \/ q = l
  <2>1. Len(q) <= Len(p) + 1
    BY <1>1, <1>6 DEF Under
  <2>2. CASE Len(q) = Len(p) + 1
    BY <1>1, <1>6, <2>2, UnderFacts
  <2>3. CASE Len(q) # Len(p) + 1
    <3>1. Len(q) <= Len(p)
      BY <1>2, <2>1, <2>3
    <3>2. QED  BY <1>1, <1>3, <1>6, <3>1, UnderFacts
  <2>4. QED  BY <2>2, <2>3
<1>7. ASSUME Under(q, p) PROVE Under(q, l)
  BY <1>1, <1>3, <1>7, UnderFacts
<1>8. Under(l, l)
  BY <1>1, UnderFacts
<1>9. QED  BY <1>3, <1>4, <1>5, <1>6, <1>7, <1>8 DEF l

LEMMA PrefixesAre ==
  ASSUME NEW p \in Paths
  PROVE  \A q : q \in Prefixes(p) <=> q \in Paths /\ Under(q, p)
<1>1. ASSUME NEW q \in Prefixes(p) PROVE q \in Paths /\ Under(q, p)
  <2>1. PICK k \in 0 .. Len(p) : q = SubSeq(p, 1, k)
    BY DEF Prefixes
  <2>2. Len(p) \in Nat
    BY PathIs
  <2>3. /\ q \in Paths /\ Len(q) = k
        /\ \A i \in 1 .. k : q[i] = p[i]
    BY <2>1, StartOf
  <2>4. QED  BY <2>2, <2>3 DEF Under
<1>2. ASSUME NEW q \in Paths, Under(q, p) PROVE q \in Prefixes(p)
  <2>1. Len(q) \in 0 .. Len(p)
    BY <1>2, PathIs DEF Under
  <2>2. /\ SubSeq(p, 1, Len(q)) \in Paths /\ Len(SubSeq(p, 1, Len(q))) = Len(q)
        /\ \A i \in 1 .. Len(q) : SubSeq(p, 1, Len(q))[i] = p[i]
    BY <2>1, StartOf
  <2>3. SubSeq(p, 1, Len(q)) = q
    BY <1>2, <2>2, SamePath DEF Under
  <2>4. QED  BY <2>1, <2>3 DEF Prefixes
<1>3. QED  BY <1>1, <1>2

LEMMA ParentsAre ==
  ASSUME NEW S \in SUBSET Paths
  PROVE  \A q : q \in WithParents(S) <=> q \in Paths /\ \E p \in S : Under(q, p)
<1>1. \A q : q \in WithParents(S) <=> \E p \in S : q \in Prefixes(p)
  BY DEF WithParents
<1>2. QED  BY <1>1, PrefixesAre

-------------------------------------------------------------------------------
(* What the walk is to find *)

Open(d) == d = <<>> \/ (Reached(d) /\ files[d].ftype = "d" /\ files[d].opens)

LEMMA SureAre ==
  \A p : p \in Sure <=>
           /\ p \in DOMAIN files /\ Reached(p)
           /\ "f" \in Criteria => Denotes(syntax, LowerName(p))
           /\ "b" \in Criteria => files[p].stat = "right"
           /\ "t" \in Criteria => files[p].ftype = target_ftype
BY DEF Sure, Meets

LEMMA PossibleAre ==
  \A p : p \in Possible <=>
           /\ p \in DOMAIN files /\ Reached(p)
           /\ "f" \in Criteria => \/ Denotes(syntax, LowerName(p))
                                  \/ WrongYes(syntax, LowerName(p))
           /\ "b" \in Criteria => files[p].stat \in {"right", "fails"}
           /\ "t" \in Criteria => files[p].ftype = target_ftype
BY DEF Possible, Meets

LEMMA FilesAre ==
  ASSUME files \in Directories
  PROVE  \A p \in DOMAIN files :
           /\ p \in Paths /\ p # <<>>
           /\ \A q \in Paths : q # <<>> /\ Under(q, p) => q \in DOMAIN files
           /\ files[p].stat \in {"right", "wrong", "fails"}
<1> SUFFICES ASSUME NEW p \in DOMAIN files
             PROVE  /\ p \in Paths /\ p # <<>>
                    /\ \A q \in Paths : q # <<>> /\ Under(q, p) => q \in DOMAIN files
                    /\ files[p].stat \in {"right", "wrong", "fails"}
  OBVIOUS
<1>1. /\ p \in Paths /\ p # <<>>
      /\ \A k \in 1 .. Len(p) : SubSeq(p, 1, k) \in DOMAIN files
      /\ files[p].stat \in {"right", "wrong", "fails"}
  BY DirectoryAssumption DEF Paths
<1>2. ASSUME NEW q \in Paths, q # <<>>, Under(q, p) PROVE q \in DOMAIN files
  <2>1. Len(q) \in 1 .. Len(p) /\ Len(q) \in 0 .. Len(p)
    <3>1. Len(q) \in Nat /\ Len(p) \in Nat /\ Len(q) # 0
      BY <1>1, <1>2, PathIs
    <3>2. Len(q) <= Len(p)
      BY <1>2 DEF Under
    <3>3. QED  BY <3>1, <3>2
  <2>2. SubSeq(p, 1, Len(q)) = q
    <3>1. /\ SubSeq(p, 1, Len(q)) \in Paths /\ Len(SubSeq(p, 1, Len(q))) = Len(q)
          /\ \A i \in 1 .. Len(q) : SubSeq(p, 1, Len(q))[i] = p[i]
      BY <1>1, <2>1, StartOf
    <3>2. QED  BY <1>2, <3>1, SamePath DEF Under
  <2>3. QED  BY <1>1, <2>1, <2>2
<1>3. QED  BY <1>1, <1>2

\* readdir() gives the names of what lies in the directory.
LEMMA EntriesAre ==
  ASSUME files \in Directories, NEW d \in Paths
  PROVE  /\ Entries(d) \in SUBSET FileNames
         /\ \A name \in Entries(d) : Append(d, name) \in DOMAIN files
         /\ \A p \in DOMAIN files : Under(d, p) /\ d # p => p[Len(d) + 1] \in Entries(d)
<1>1. ASSUME NEW name \in Entries(d)
      PROVE  name \in FileNames /\ Append(d, name) \in DOMAIN files
  <2>1. PICK q \in DOMAIN files : q # <<>> /\ Front(q) = d /\ name = q[Len(q)]
    BY DEF Entries
  <2>2. q \in Paths
    BY <2>1, FilesAre
  <2>3. Last(q) = name /\ name \in FileNames /\ q = Append(d, name)
    BY <2>1, <2>2, ParentOf
  <2>4. QED  BY <2>1, <2>3
<1>2. ASSUME NEW p \in DOMAIN files, Under(d, p), d # p
      PROVE  p[Len(d) + 1] \in Entries(d)
  <2> DEFINE name == p[Len(d) + 1]
             q    == Append(d, name)
  <2>1. p \in Paths /\ name \in FileNames
    BY <1>2, FilesAre, UnderFacts, PathIs
  <2>2. /\ q \in Paths /\ q # <<>> /\ Len(q) = Len(d) + 1 /\ q[Len(d) + 1] = name
        /\ Front(q) = d
    BY <2>1, LongerPath
  <2>3. Under(q, p)
    BY <1>2, <2>1, UnderLonger
  <2> HIDE DEF q
  <2>4. q \in DOMAIN files
    BY <2>1, <2>2, <2>3, FilesAre
  <2>5. QED  BY <2>2, <2>4 DEF Entries
<1>3. QED  BY <1>1, <1>2

\* An entry of a directory that is read is reached, and so is what is below a
\* directory that can be opened.
LEMMA ReachedAre ==
  ASSUME NEW p \in Paths, p # <<>>
  PROVE  Reached(p) <=>
           /\ \A k \in 1 .. Len(p) : p[k][1] # "."
           /\ \A q \in Paths : q # <<>> /\ q # p /\ Under(q, p) =>
                 files[q].ftype = "d" /\ files[q].opens
<1>1. DOMAIN p = 1 .. Len(p)
  BY PathIs
<1>2. \A q : q \in Prefixes(p) \ {<<>>, p} <=>
               q \in Paths /\ q # <<>> /\ q # p /\ Under(q, p)
  BY PrefixesAre
<1>3. QED  BY <1>1, <1>2 DEF Reached

LEMMA ReachedBelow ==
  ASSUME NEW d \in Paths, Open(d), NEW name \in FileNames, name[1] # "."
  PROVE  Reached(Append(d, name))
<1> DEFINE p == Append(d, name)
<1>1. /\ p \in Paths /\ p # <<>> /\ Len(p) = Len(d) + 1 /\ p[Len(d) + 1] = name
      /\ \A i \in 1 .. Len(d) : p[i] = d[i]
  BY LongerPath
<1>2. \A q \in Paths : Under(q, p) => Under(q, d) \/ q = p
  BY UnderLonger
<1> HIDE DEF p
<1>3. Len(d) \in Nat
  BY PathIs
<1>4. \A k \in 1 .. Len(d) : d[k][1] # "."
  <2>1. CASE d = <<>>
    BY <2>1, RootIs
  <2>2. CASE d # <<>>
    BY <2>2, ReachedAre DEF Open
  <2>3. QED  BY <2>1, <2>2
<1>5. ASSUME NEW k \in 1 .. Len(p) PROVE p[k][1] # "."
  <2>1. k \in 1 .. Len(d) \/ k = Len(d) + 1
    BY <1>1, <1>3
  <2>2. QED  BY <1>1, <1>4, <2>1
<1>6. ASSUME NEW q \in Paths, q # <<>>, q # p, Under(q, p)
      PROVE  files[q].ftype = "d" /\ files[q].opens
  <2>1. Under(q, d)
    BY <1>2, <1>6
  <2>2. d # <<>>
    <3>1. ASSUME d = <<>> PROVE FALSE
      <4>1. Len(q) <= 0 /\ Len(q) \in Nat /\ Len(q) # 0
        BY <1>6, <2>1, <3>1, PathIs, RootIs DEF Under
      <4>2. QED  BY <4>1
    <3>2. QED  BY <3>1
  <2>3. Reached(d) /\ files[d].ftype = "d" /\ files[d].opens
    BY <2>2 DEF Open
  <2>4. CASE q = d
    BY <2>3, <2>4
  <2>5. CASE q # d
    BY <1>6, <2>1, <2>2, <2>3, <2>5, ReachedAre
  <2>6. QED  BY <2>4, <2>5
<1>7. Reached(p)
  BY <1>1, <1>5, <1>6, ReachedAre
<1>8. QED  BY <1>7 DEF p

LEMMA ReachedMeansOpen ==
  ASSUME NEW p \in Paths, Reached(p), NEW d \in Paths, d # p, Under(d, p)
  PROVE  Open(d)
<1>1. p # <<>>
  BY DEF Reached
<1>2. CASE d # <<>>
  <2>1. /\ \A k \in 1 .. Len(p) : p[k][1] # "."
        /\ \A q \in Paths : q # <<>> /\ q # p /\ Under(q, p) =>
              files[q].ftype = "d" /\ files[q].opens
    BY <1>1, ReachedAre
  <2>2. Len(d) \in Nat /\ Len(p) \in Nat /\ Len(d) < Len(p)
    BY PathIs, UnderFacts
  <2>3. \A k \in 1 .. Len(d) : d[k][1] # "."
    <3>1. \A k \in 1 .. Len(d) : k \in 1 .. Len(p)
      BY <2>2
    <3>2. QED  BY <2>1, <3>1 DEF Under
  <2>4. ASSUME NEW q \in Paths, q # <<>>, q # d, Under(q, d)
        PROVE  files[q].ftype = "d" /\ files[q].opens
    <3>1. Under(q, p)
      BY <2>4, UnderFacts
    <3>2. q # p
      <4>1. Len(q) <= Len(d) /\ Len(q) \in Nat
        BY <2>4, PathIs DEF Under
      <4>2. QED  BY <2>2, <4>1
    <3>3. QED  BY <2>1, <2>4, <3>1, <3>2
  <2>5. Reached(d)
    BY <1>2, <2>3, <2>4, ReachedAre
  <2>6. files[d].ftype = "d" /\ files[d].opens
    BY <1>2, <2>1
  <2>7. QED  BY <2>5, <2>6 DEF Open
<1>3. CASE d = <<>>
  BY <1>3 DEF Open
<1>4. QED  BY <1>2, <1>3

-------------------------------------------------------------------------------
(* The invariant of the search *)

FrameSet == [dir : Paths, unread : SUBSET FileNames, f_stat : {"right", "wrong"}]

Walking == {"walk", "test", "add", "store", "place", "clear", "descend"}
AtEntry == Walking \ {"walk"}
Adds    == {"add", "store", "place", "clear"}

FindTypeOK ==
  /\ pc \in Walking \cup {"arguments", "print", "free", "ended"}
  /\ files \in Directories
  /\ entry \in Paths /\ at \in Paths
  /\ DOMAIN nodes \subseteq Paths
  /\ frames \in Seq(FrameSet)
  /\ pc \in Walking => frames # <<>>

\* What is_match() is called with.
NameRead == pc = "test" /\ "f" \in Criteria =>
              /\ result \in {"running", "yes", "no"}
              /\ exp = make_lover_case(Last(entry))

FramesInv == \A k \in 1 .. Len(frames) :
               /\ Open(frames[k].dir)
               /\ \A name \in frames[k].unread :
                     Append(frames[k].dir, name) \in DOMAIN files

EntryInv ==
  /\ pc \in AtEntry => entry \in DOMAIN files /\ Reached(entry)
  /\ pc = "test" => files[entry].stat \in {"fails", Frame.f_stat}
  /\ pc \in Adds => entry \in Possible /\ Under(at, entry) /\ file_found
  /\ pc \in {"store", "place", "clear"} => at # entry

\* An entry of the tree has a node, and a node but the root has an entry.
Child(q, p) == p[Len(q) + 1] \in Range(nodes[q].subs)

ShapeInv ==
  /\ \A p \in DOMAIN nodes, q \in Paths :
        Under(q, p) /\ q # p => q \in DOMAIN nodes /\ Child(q, p)
  /\ \A p \in DOMAIN nodes : IsInjective(nodes[p].subs)
  /\ pc \in {"store", "place"} => NextName \notin Range(nodes[at].subs)
  /\ pc = "clear" => nodes[Append(at, NextName)].subs = <<>>

\* Only what may be found is in the tree.
SoundInv ==
  /\ file_found => \E q \in Paths : q \in Possible
  /\ \A p \in DOMAIN nodes \ {<<>>} :
        file_found /\ \E q \in Paths : q \in Possible /\ Under(p, q)

\* The walk has yet to come to p.
ToCome(p) ==
  \/ \E k \in 1 .. Len(frames) :
        LET d == frames[k].dir
        IN Under(d, p) /\ d # p /\ p[Len(d) + 1] \in frames[k].unread
  \/ pc \in AtEntry /\ Under(entry, p) /\ entry # p
  \/ pc \in Adds \cup {"test"} /\ p = entry

Excused == "f" \in Criteria /\ WrongNo(syntax)

CompleteInv ==
  \/ Excused
  \/ \A p \in Paths : p \in Sure =>
        \/ pc = "arguments"
        \/ p \in DOMAIN nodes
        \/ pc \in Walking /\ ToCome(p)

\* The output goes through the tree: what is left of it is below the paths
\* on the stack, each part below one of them.
PrintInv ==
  /\ pc \notin {"print", "free", "ended"} => printed = <<>> /\ printing = <<>>
  /\ pc = "print" =>
       /\ printed \in Seq(DOMAIN nodes) /\ printing \in Seq(DOMAIN nodes)
       /\ \A p \in DOMAIN nodes : \/ p \in Range(printed)
                                  \/ \E i \in 1 .. Len(printing) : Under(printing[i], p)
       /\ \A i \in 1 .. Len(printing) :
             /\ \A q \in Range(printed) : ~ Under(printing[i], q)
             /\ \A j \in 1 .. Len(printing) : i # j => ~ Under(printing[i], printing[j])
             /\ printing[i] = <<>> \/ Front(printing[i]) \in Range(printed)
       /\ printed # <<>> => file_found
       /\ IsInjective(printed)
       /\ \A i \in 1 .. Len(printed) :
             printed[i] = <<>> \/ \E j \in 1 .. i - 1 : printed[j] = Front(printed[i])

Found == /\ FindTypeOK /\ MatchInv /\ NameRead /\ FramesInv /\ EntryInv
         /\ ShapeInv /\ SoundInv /\ CompleteInv /\ PrintInv /\ FoundExactly

FindInv == pc = "exited" \/ Found

-------------------------------------------------------------------------------
(* What a step leaves alone *)

\* No step changes the directories, the criteria or the pattern.
Asked == UNCHANGED <<files, argv, syntax>>

LEMMA StepAsks == SearchNext => Asked
BY DEF SearchNext, Runs, TakesArguments, SkipsHidden, Walks, ReadsEntry, Calls,
       MatchesName, searchVars, is_match, Advances, TakesMore, LeavesPlus, Differs,
       Returns, Tests, Descends, WalkReturns, GoesDown, HasRoom, Allocates, Reallocs,
       StoresBlock, PlacesEntry, Clears, Added, Adding, Prints, Frees, Interrupts, matchVars, Asked

LEMMA AnswersKept ==
  ASSUME Asked
  PROVE  /\ Sure' = Sure /\ Possible' = Possible
         /\ \A p : Reached(p)' <=> Reached(p)
         /\ \A p : Open(p)' <=> Open(p)
         /\ Excused' <=> Excused
         /\ Criteria' = Criteria
<1>1. files' = files /\ argv' = argv /\ syntax' = syntax
  BY DEF Asked
<1>2. Criteria' = Criteria
  BY <1>1 DEF Criteria
<1>3. \A p : Reached(p)' <=> Reached(p)
  BY <1>1 DEF Reached
<1>4. \A p : Open(p)' <=> Open(p)
  BY <1>1, <1>3 DEF Open
<1>5. \A p : LowerName(p)' = LowerName(p)
  BY DEF LowerName, make_lover_case, Last
<1>6. \A n : /\ Denotes(syntax, n)' <=> Denotes(syntax, n)
             /\ WrongYes(syntax, n)' <=> WrongYes(syntax, n)
  BY <1>1 DEF Denotes, Reading, Places, WrongYes, Literal, LeadsWithPlus
<1>7. Sure' = Sure
  <2>1. \A p : p \in Sure' <=> p \in Sure
    BY <1>1, <1>2, <1>3 DEF Sure, Meets
  <2>2. QED  BY <2>1 DEF Sure
<1>8. Possible' = Possible
  <2>1. \A p : p \in Possible' <=> p \in Possible
    BY <1>1, <1>2, <1>3 DEF Possible, Meets
  <2>2. QED  BY <2>1 DEF Possible
<1>9. Excused' <=> Excused
  BY <1>1, <1>2 DEF Excused
<1>10. QED  BY <1>2, <1>3, <1>4, <1>7, <1>8, <1>9

LEMMA MatchKept == MatchInv /\ UNCHANGED matchVars => MatchInv'
BY DEF matchVars, MatchInv, MatchTypeOK, ReadSoFar, AllBehind, MatchIsRight

LEMMA OutputKept ==
  ASSUME PrintInv, UNCHANGED <<printing, printed>>,
         pc \notin {"print", "free", "ended"}, pc' \notin {"print", "free", "ended"}
  PROVE  PrintInv' /\ FoundExactly'
BY DEF PrintInv, FoundExactly

LEMMA CompleteKept ==
  ASSUME CompleteInv, Asked, pc # "arguments",
         DOMAIN nodes \subseteq DOMAIN nodes',
         \A p \in Paths : p \in Sure /\ pc \in Walking /\ ToCome(p) =>
            Excused \/ p \in DOMAIN nodes' \/ (pc' \in Walking /\ ToCome(p)')
  PROVE  CompleteInv'
<1>1. /\ Sure' = Sure
      /\ Excused' <=> Excused
  BY AnswersKept
<1>2. CASE Excused
  BY <1>1, <1>2 DEF CompleteInv
<1>3. CASE ~ Excused
  <2> SUFFICES ASSUME NEW p \in Paths, p \in Sure
               PROVE  p \in DOMAIN nodes' \/ (pc' \in Walking /\ ToCome(p)')
    BY <1>1 DEF CompleteInv
  <2>1. p \in DOMAIN nodes \/ (pc \in Walking /\ ToCome(p))
    BY <1>3 DEF CompleteInv
  <2>2. QED  BY <1>3, <2>1
<1>4. QED  BY <1>2, <1>3

LEMMA ShapeKept ==
  ASSUME ShapeInv, DOMAIN nodes' = DOMAIN nodes,
         \A p \in DOMAIN nodes : nodes'[p].subs = nodes[p].subs,
         pc' \notin {"store", "place", "clear"}
  PROVE  ShapeInv'
<1>1. ASSUME NEW p \in DOMAIN nodes, NEW q \in Paths, Under(q, p), q # p
      PROVE  q \in DOMAIN nodes /\ Child(q, p)'
  <2>1. q \in DOMAIN nodes /\ Child(q, p)
    BY <1>1 DEF ShapeInv
  <2>2. QED  BY <2>1 DEF Child
<1>2. \A p \in DOMAIN nodes : IsInjective(nodes'[p].subs)
  BY DEF ShapeInv
<1>3. QED  BY <1>1, <1>2 DEF ShapeInv

LEMMA SoundKept ==
  ASSUME SoundInv, Asked, UNCHANGED file_found, DOMAIN nodes' = DOMAIN nodes
  PROVE  SoundInv'
BY AnswersKept DEF SoundInv

\* A stack of calls.
LEMMA StackIs ==
  ASSUME NEW S, NEW s \in Seq(S), s # <<>>
  PROVE  /\ Len(s) \in Nat /\ Len(s) >= 1 /\ Len(s) \in 1 .. Len(s)
         /\ Last(s) = s[Len(s)] /\ Last(s) \in S
         /\ Front(s) \in Seq(S) /\ Len(Front(s)) = Len(s) - 1
         /\ \A k \in 1 .. Len(s) - 1 : Front(s)[k] = s[k]
<1>1. Len(s) \in Nat /\ Len(s) >= 1
  OBVIOUS
<1>2. Len(s) - 1 \in 0 .. Len(s)
  BY <1>1
<1>3. Last(s) = s[Len(s)] /\ Last(s) \in S
  BY <1>1 DEF Last
<1>4. /\ Front(s) \in Seq(S) /\ Len(Front(s)) = Len(s) - 1
      /\ \A k \in 1 .. Len(s) - 1 : Front(s)[k] = s[k]
  <2> DEFINE n == Len(s) - 1
  <2>1. \A i \in 1 .. n : s[i] \in S
    BY <1>1
  <2>2. Front(s) = [i \in 1 .. n |-> s[i]]
    BY <1>1 DEF Front
  <2>3. n \in Nat
    BY <1>1
  <2> HIDE DEF n
  <2>4. [i \in 1 .. n |-> s[i]] \in Seq(S) /\ Len([i \in 1 .. n |-> s[i]]) = n
    BY <2>1, <2>3
  <2>5. QED  BY <2>2, <2>4 DEF n
<1>5. QED  BY <1>1, <1>3, <1>4

LEMMA ReplacedTop ==
  ASSUME NEW S, NEW s \in Seq(S), s # <<>>, NEW x \in S
  PROVE  LET t == [s EXCEPT ![Len(s)] = x]
         IN /\ t \in Seq(S) /\ Len(t) = Len(s) /\ t[Len(s)] = x /\ t # <<>>
            /\ Last(t) = x
            /\ \A k \in 1 .. Len(s) : k # Len(s) => t[k] = s[k]
<1> DEFINE t == [s EXCEPT ![Len(s)] = x]
<1>1. Len(s) \in Nat /\ Len(s) >= 1
  OBVIOUS
<1>2. /\ t \in Seq(S) /\ Len(t) = Len(s) /\ t[Len(s)] = x
      /\ \A k \in 1 .. Len(s) : k # Len(s) => t[k] = s[k]
  BY <1>1
<1> HIDE DEF t
<1>3. t # <<>>
  <2> SUFFICES ASSUME t = <<>> PROVE FALSE
    OBVIOUS
  <2>1. Len(t) = 0
    BY RootIs
  <2>2. QED  BY <1>1, <1>2, <2>1
<1>4. Last(t) = x
  BY <1>2 DEF Last
<1>5. QED  BY <1>2, <1>3, <1>4 DEF t

LEMMA Pushed ==
  ASSUME NEW S, NEW s \in Seq(S), NEW x \in S
  PROVE  /\ Append(s, x) \in Seq(S) /\ Len(Append(s, x)) = Len(s) + 1
         /\ Append(s, x) # <<>> /\ Append(s, x)[Len(s) + 1] = x
         /\ \A k \in 1 .. Len(s) : Append(s, x)[k] = s[k]
OBVIOUS

LEMMA UnreadChanges ==
  ASSUME NEW f, NEW d, NEW u, NEW s, NEW v,
         f = [dir |-> d, unread |-> u, f_stat |-> s]
  PROVE  [f EXCEPT !.unread = v] = [dir |-> d, unread |-> v, f_stat |-> s]
<1>1. [[dir |-> d, unread |-> u, f_stat |-> s] EXCEPT !.unread = v]
        = [dir |-> d, unread |-> v, f_stat |-> s]
  OBVIOUS
<1>2. QED  BY <1>1, Zenon

\* A list that gets one more element.
LEMMA OneMore ==
  ASSUME NEW s, List(s), NEW x, x \notin Range(s)
  PROVE  /\ \A y : y \in Range(Append(s, x)) <=> y = x \/ y \in Range(s)
         /\ IsInjective(s) => IsInjective(Append(s, x))
<1> DEFINE t == Append(s, x)
           n == Len(s)
<1>1. /\ List(t) /\ Len(t) = n + 1 /\ t[n + 1] = x
      /\ \A i \in 1 .. n : t[i] = s[i]
  BY Appended
<1>2. n \in Nat /\ DOMAIN s = 1 .. n
  BY DEF List
<1> HIDE DEF t, n
<1>3. DOMAIN t = 1 .. n + 1
  BY <1>1 DEF List
<1>4. \A i \in 1 .. n + 1 : i \in 1 .. n \/ i = n + 1
  BY <1>2
<1>5. \A i \in 1 .. n : i \in 1 .. n + 1
  BY <1>2
<1>6. n + 1 \in 1 .. n + 1
  BY <1>2
<1>7. \A y : y \in Range(t) <=> y = x \/ y \in Range(s)
  BY <1>1, <1>2, <1>3, <1>4, <1>5, <1>6 DEF Range
<1>8. ASSUME IsInjective(s), NEW i \in DOMAIN t, NEW j \in DOMAIN t, t[i] = t[j]
      PROVE  i = j
  <2>1. \A k \in 1 .. n : t[k] \in Range(s)
    BY <1>1, <1>2 DEF Range
  <2>2. QED  BY <1>1, <1>2, <1>3, <1>4, <1>8, <2>1 DEF IsInjective
<1>9. QED  BY <1>7, <1>8 DEF IsInjective, t

\* A list whose head gives way to others.
LEMMA HeadReplaced ==
  ASSUME NEW S, NEW s \in Seq(S), s # <<>>, NEW c \in Seq(S)
  PROVE  LET t == c \o Tail(s)
         IN /\ Len(c) \in Nat /\ Len(s) \in Nat /\ Head(s) = s[1] /\ 1 \in 1 .. Len(s)
            /\ t \in Seq(S) /\ Len(t) = Len(c) + Len(s) - 1
            /\ \A i \in 1 .. Len(c) : i \in 1 .. Len(t) /\ t[i] = c[i]
            /\ \A k \in 2 .. Len(s) :
                  Len(c) + k - 1 \in 1 .. Len(t) /\ t[Len(c) + k - 1] = s[k]
            /\ \A i \in 1 .. Len(t) :
                  i \in 1 .. Len(c) \/ \E k \in 2 .. Len(s) : i = Len(c) + k - 1
<1> DEFINE t == c \o Tail(s)
           m == Len(c)
           n == Len(s)
<1>1. m \in Nat /\ n \in Nat /\ n >= 1 /\ Head(s) = s[1]
  OBVIOUS
<1>2. Tail(s) \in Seq(S) /\ Len(Tail(s)) = n - 1 /\ \A i \in 1 .. n - 1 : Tail(s)[i] = s[i + 1]
  OBVIOUS
<1>3. /\ t \in Seq(S) /\ Len(t) = m + (n - 1)
      /\ \A i \in 1 .. m : t[i] = c[i]
      /\ \A i \in 1 .. n - 1 : t[m + i] = Tail(s)[i]
  <2> DEFINE u == Tail(s)
  <2>1. u \in Seq(S) /\ Len(u) = n - 1
    BY <1>2
  <2> HIDE DEF u
  <2>2. /\ c \o u \in Seq(S) /\ Len(c \o u) = m + Len(u)
        /\ \A i \in 1 .. m : (c \o u)[i] = c[i]
        /\ \A i \in 1 .. Len(u) : (c \o u)[m + i] = u[i]
    BY <2>1
  <2>3. QED  BY <2>1, <2>2 DEF u
<1> HIDE DEF t, m, n
<1>4. ASSUME NEW k \in 2 .. n PROVE m + k - 1 \in 1 .. Len(t) /\ t[m + k - 1] = s[k]
  <2>1. k - 1 \in 1 .. n - 1 /\ m + k - 1 = m + (k - 1) /\ (k - 1) + 1 = k
    BY <1>1
  <2>2. m + k - 1 \in 1 .. Len(t)
    BY <1>1, <1>3, <2>1
  <2>3. QED  BY <1>2, <1>3, <2>1, <2>2
<1>5. \A i \in 1 .. Len(t) : i \in 1 .. m \/ \E k \in 2 .. n : i = m + k - 1
  <2> SUFFICES ASSUME NEW i \in 1 .. Len(t), i \notin 1 .. m
               PROVE  \E k \in 2 .. n : i = m + k - 1
    OBVIOUS
  <2>1. i - m + 1 \in 2 .. n /\ i = m + (i - m + 1) - 1
    BY <1>1, <1>3
  <2>2. QED  BY <2>1
<1>6. Len(t) = m + n - 1 /\ 1 \in 1 .. n /\ \A i \in 1 .. m : i \in 1 .. Len(t)
  BY <1>1, <1>3
<1>7. QED  BY <1>1, <1>3, <1>4, <1>5, <1>6 DEF t, m, n

-------------------------------------------------------------------------------
(* Steps of the walk *)

LEMMA TakesArgumentsFinds ==
  ASSUME Found, TakesArguments PROVE FindInv'
<1> SUFFICES ASSUME pc' # "exited" PROVE Found'
  BY DEF FindInv
<1>1. PICK garbage \in {"right", "wrong"} : frames' = <<Call(<<>>, garbage)>>
  BY DEF TakesArguments
<1>2. /\ pc = "arguments" /\ pc' = "walk"
      /\ UNCHANGED <<matchVars, files, argv, entry, at, nodes, file_found,
                     printing, printed>>
  BY DEF TakesArguments
<1>3. Asked /\ files \in Directories
  BY <1>2 DEF Asked, matchVars, Found, FindTypeOK
<1>4. /\ Call(<<>>, garbage) \in FrameSet
      /\ Call(<<>>, garbage).dir = <<>> /\ Call(<<>>, garbage).unread = Entries(<<>>)
  BY <1>3, RootIs, EntriesAre DEF Call, FrameSet
<1>5. frames' \in Seq(FrameSet) /\ frames' # <<>> /\ Len(frames') = 1
      /\ frames'[1].dir = <<>> /\ frames'[1].unread = Entries(<<>>)
  BY <1>1, <1>4
<1>6. FindTypeOK'
  BY <1>2, <1>5 DEF Found, FindTypeOK, Walking
<1>7. MatchInv' /\ NameRead'
  BY <1>2, MatchKept DEF Found, NameRead
<1>8. FramesInv'
  <2>1. \A k \in 1 .. Len(frames') : k = 1
    BY <1>5
  <2>2. Open(<<>>)' /\ \A name \in Entries(<<>>) : Append(<<>>, name) \in DOMAIN files'
    BY <1>2, <1>3, RootIs, EntriesAre DEF Open
  <2>3. QED  BY <1>5, <2>1, <2>2 DEF FramesInv
<1>9. EntryInv'
  BY <1>2 DEF EntryInv, AtEntry, Adds, Walking
<1>10. ShapeInv' /\ SoundInv'
  BY <1>2, <1>3, ShapeKept, SoundKept DEF Found
<1>11. CompleteInv'
  <2>1. ASSUME NEW p \in Paths, p \in Sure PROVE ToCome(p)'
    <3>1. p \in DOMAIN files /\ p # <<>> /\ Under(<<>>, p)
      BY <1>3, <2>1, FilesAre, UnderFacts, SureAre
    <3>2. p[Len(<<>>) + 1] \in Entries(<<>>)
      BY <1>3, <3>1, RootIs, EntriesAre
    <3>3. 1 \in 1 .. Len(frames')
      BY <1>5
    <3>4. QED  BY <1>5, <3>1, <3>2, <3>3 DEF ToCome
  <2>2. Sure' = Sure
    BY <1>3, AnswersKept
  <2>3. QED  BY <1>2, <2>1, <2>2 DEF CompleteInv, Walking
<1>12. PrintInv' /\ FoundExactly'
  BY <1>2, OutputKept DEF Found
<1>13. QED  BY <1>6, <1>7, <1>8, <1>9, <1>10, <1>11, <1>12 DEF Found

\* What an entry taken from the directory on top leaves of the calls.
LEMMA EntryTaken ==
  ASSUME Found, pc = "walk", Asked, NEW name \in Frame.unread, NEW top \in FrameSet,
         top.dir = Frame.dir, top.unread = Frame.unread \ {name},
         frames' = [frames EXCEPT ![Len(frames)] = top]
  PROVE  /\ Frame.dir \in Paths /\ name \in FileNames /\ Open(Frame.dir)
         /\ Append(Frame.dir, name) \in DOMAIN files
         /\ frames' \in Seq(FrameSet) /\ frames' # <<>> /\ Frame' = top
         /\ FramesInv'
         /\ \A p \in Paths, k \in 1 .. Len(frames) :
               LET d == frames[k].dir
               IN Under(d, p) /\ d # p /\ p[Len(d) + 1] \in frames[k].unread =>
                    \/ ToCome(p)'
                    \/ Under(Frame.dir, p) /\ Frame.dir # p /\ p[Len(Frame.dir) + 1] = name
<1> DEFINE n == Len(frames)
<1>1. /\ frames \in Seq(FrameSet) /\ frames # <<>> /\ files \in Directories
  BY DEF Found, FindTypeOK, Walking
<1>2. n \in Nat /\ n \in 1 .. n /\ Frame = frames[n] /\ Frame \in FrameSet
  BY <1>1, StackIs DEF Frame
<1>3. Frame.dir \in Paths /\ name \in FileNames
  BY <1>2 DEF FrameSet
<1>4. Open(Frame.dir) /\ Append(Frame.dir, name) \in DOMAIN files
  BY <1>2 DEF Found, FramesInv
<1>6. /\ frames' \in Seq(FrameSet) /\ Len(frames') = n /\ frames'[n] = top
      /\ frames' # <<>> /\ Frame' = top
      /\ \A k \in 1 .. n : k # n => frames'[k] = frames[k]
  <2>1. /\ frames' \in Seq(FrameSet) /\ Len(frames') = n /\ frames'[n] = top
        /\ frames' # <<>>
        /\ \A k \in 1 .. n : k # n => frames'[k] = frames[k]
    BY <1>1, ReplacedTop
  <2>2. Frame' = top
    BY <2>1 DEF Frame, Last
  <2>3. QED  BY <2>1, <2>2
<1> HIDE DEF n
<1>7. \A k \in 1 .. n : /\ frames'[k].dir = frames[k].dir
                        /\ frames'[k].unread \subseteq frames[k].unread
  BY <1>2, <1>6
<1>8. FramesInv'
  <2>1. \A p : Open(p)' <=> Open(p)
    BY AnswersKept
  <2>2. files' = files
    BY DEF Asked
  <2>3. FramesInv
    BY DEF Found
  <2>4. QED  BY <1>6, <1>7, <2>1, <2>2, <2>3 DEF FramesInv, n
<1>9. ASSUME NEW p \in Paths, NEW k \in 1 .. n,
             Under(frames[k].dir, p), frames[k].dir # p,
             p[Len(frames[k].dir) + 1] \in frames[k].unread,
             ~ ToCome(p)'
      PROVE  Under(Frame.dir, p) /\ Frame.dir # p /\ p[Len(Frame.dir) + 1] = name
  <2>1. p[Len(frames[k].dir) + 1] \notin frames'[k].unread
    BY <1>6, <1>7, <1>9 DEF ToCome
  <2>2. k = n
    BY <1>6, <1>9, <2>1
  <2>3. QED  BY <1>2, <1>6, <1>9, <2>1, <2>2
<1>10. QED  BY <1>3, <1>4, <1>6, <1>8, <1>9 DEF n

LEMMA SkipsHiddenFinds ==
  ASSUME Found, SkipsHidden PROVE Found'
<1>1. PICK name \in Frame.unread :
         /\ name[1] = "."
         /\ frames' = [frames EXCEPT ![Len(frames)].unread = @ \ {name}]
  BY DEF SkipsHidden
<1>2. /\ pc = "walk" /\ pc' = "walk"
      /\ UNCHANGED <<matchVars, files, argv, entry, at, nodes, file_found,
                     printing, printed>>
  BY DEF SkipsHidden, Walks
<1>3. Asked /\ files \in Directories
  BY <1>2 DEF Asked, matchVars, Found, FindTypeOK
<1>4. /\ Frame \in FrameSet /\ Frame = frames[Len(frames)]
      /\ frames \in Seq(FrameSet) /\ frames # <<>> /\ Len(frames) \in 1 .. Len(frames)
  BY <1>2, StackIs DEF Found, FindTypeOK, Walking, Frame
<1> DEFINE top == [dir |-> Frame.dir, unread |-> Frame.unread \ {name},
                   f_stat |-> Frame.f_stat]
<1>5. [Frame EXCEPT !.unread = Frame.unread \ {name}] = top
  <2>1. Frame = [dir |-> Frame.dir, unread |-> Frame.unread, f_stat |-> Frame.f_stat]
    BY <1>4 DEF FrameSet
  <2>2. QED  BY <2>1, UnreadChanges
<1>6. /\ frames' = [frames EXCEPT ![Len(frames)] = top]
      /\ top \in FrameSet /\ top.dir = Frame.dir /\ top.unread = Frame.unread \ {name}
  <2>1. frames' = [frames EXCEPT ![Len(frames)] =
                     [Frame EXCEPT !.unread = Frame.unread \ {name}]]
    BY <1>1, <1>4
  <2>2. QED  BY <1>4, <1>5, <2>1 DEF FrameSet
<1> HIDE DEF top
<1>7. /\ Frame.dir \in Paths /\ name \in FileNames
      /\ frames' \in Seq(FrameSet) /\ frames' # <<>> /\ FramesInv'
      /\ \A p \in Paths, k \in 1 .. Len(frames) :
            LET d == frames[k].dir
            IN Under(d, p) /\ d # p /\ p[Len(d) + 1] \in frames[k].unread =>
                 \/ ToCome(p)'
                 \/ Under(Frame.dir, p) /\ Frame.dir # p /\ p[Len(Frame.dir) + 1] = name
  BY <1>2, <1>3, <1>6, EntryTaken
<1>8. FindTypeOK'
  BY <1>2, <1>7 DEF Found, FindTypeOK, Walking
<1>9. MatchInv' /\ NameRead'
  BY <1>2, MatchKept DEF Found, NameRead
<1>10. EntryInv'
  BY <1>2 DEF EntryInv, AtEntry, Adds, Walking
<1>11. ShapeInv' /\ SoundInv'
  BY <1>2, <1>3, ShapeKept, SoundKept DEF Found
<1>12. CompleteInv'
  <2>1. ASSUME NEW p \in Paths, p \in Sure, ToCome(p) PROVE ToCome(p)'
    <3>1. PICK k \in 1 .. Len(frames) :
             LET d == frames[k].dir
             IN Under(d, p) /\ d # p /\ p[Len(d) + 1] \in frames[k].unread
      BY <1>2, <2>1 DEF ToCome, AtEntry, Adds, Walking
    <3>2. ASSUME Under(Frame.dir, p), Frame.dir # p, p[Len(Frame.dir) + 1] = name
          PROVE  FALSE
      <4>1. Len(Frame.dir) + 1 \in 1 .. Len(p) /\ p # <<>>
        <5>1. Len(Frame.dir) + 1 \in 1 .. Len(p)
          BY <1>7, <3>2, UnderFacts
        <5>2. QED  BY <5>1, RootIs, <1>3, <2>1, FilesAre, SureAre
      <4>2. Reached(p)
        BY <2>1, SureAre
      <4>3. QED  BY <1>1, <3>2, <4>1, <4>2, ReachedAre
    <3>3. QED  BY <1>7, <3>1, <3>2
  <2>2. CompleteInv
    BY DEF Found
  <2>3. QED  BY <1>2, <1>3, <2>1, <2>2, CompleteKept DEF Walking
<1>13. PrintInv' /\ FoundExactly'
  BY <1>2, OutputKept DEF Found
<1>14. QED  BY <1>7, <1>8, <1>9, <1>10, <1>11, <1>12, <1>13 DEF Found

LEMMA ReadsEntryFinds ==
  ASSUME Found, ReadsEntry PROVE Found'
<1> DEFINE Stat(path) == IF files[path].stat = "fails" THEN Frame.f_stat
                         ELSE files[path].stat
           top(name) == [dir |-> Frame.dir, unread |-> Frame.unread \ {name},
                         f_stat |-> Stat(Append(Frame.dir, name))]
<1>1. PICK name \in Frame.unread :
         /\ name[1] # "." /\ entry' = Append(Frame.dir, name)
         /\ frames' = [frames EXCEPT ![Len(frames)] = top(name)]
         /\ IF "f" \in Criteria THEN Calls(name) ELSE UNCHANGED matchVars
  BY DEF ReadsEntry
<1>2. /\ pc = "walk" /\ pc' = "test"
      /\ UNCHANGED <<files, argv, at, nodes, file_found, printing, printed>>
      /\ syntax' = syntax
  <2>1. /\ pc = "walk" /\ pc' = "test"
        /\ UNCHANGED <<files, argv, at, nodes, file_found, printing, printed>>
    BY DEF ReadsEntry, Walks
  <2>2. syntax' = syntax
    BY <1>1 DEF Calls, matchVars
  <2>3. QED  BY <2>1, <2>2
<1>3. Asked /\ files \in Directories
  BY <1>2 DEF Asked, Found, FindTypeOK
<1>4. /\ Frame \in FrameSet /\ frames \in Seq(FrameSet) /\ frames # <<>>
      /\ Frame = frames[Len(frames)] /\ Len(frames) \in 1 .. Len(frames)
  BY <1>2, StackIs DEF Found, FindTypeOK, Walking, Frame
<1> DEFINE path == Append(Frame.dir, name)
<1>5. Frame.dir \in Paths /\ name \in FileNames /\ path \in DOMAIN files
  BY <1>4 DEF FrameSet, Found, FramesInv
<1>6. /\ top(name) \in FrameSet /\ top(name).dir = Frame.dir
      /\ top(name).unread = Frame.unread \ {name}
      /\ files[path].stat \in {"fails", top(name).f_stat}
  <2>1. files[path].stat \in {"right", "wrong", "fails"}
    BY <1>3, <1>5, FilesAre
  <2>2. Frame.unread \in SUBSET FileNames /\ Frame.f_stat \in {"right", "wrong"}
    BY <1>4 DEF FrameSet
  <2>3. Stat(path) \in {"right", "wrong"} /\ files[path].stat \in {"fails", Stat(path)}
    BY <2>1, <2>2
  <2>4. /\ top(name).dir = Frame.dir /\ top(name).unread = Frame.unread \ {name}
        /\ top(name).f_stat = Stat(path)
    OBVIOUS
  <2>5. top(name) \in FrameSet
    BY <1>5, <2>2, <2>3 DEF FrameSet
  <2>6. QED  BY <2>3, <2>4, <2>5
<1> HIDE DEF top, path
<1>7. /\ Open(Frame.dir)
      /\ frames' \in Seq(FrameSet) /\ frames' # <<>> /\ Frame' = top(name) /\ FramesInv'
      /\ \A p \in Paths, k \in 1 .. Len(frames) :
            LET d == frames[k].dir
            IN Under(d, p) /\ d # p /\ p[Len(d) + 1] \in frames[k].unread =>
                 \/ ToCome(p)'
                 \/ Under(Frame.dir, p) /\ Frame.dir # p /\ p[Len(Frame.dir) + 1] = name
  <2>1. frames' = [frames EXCEPT ![Len(frames)] = top(name)]
    BY <1>1
  <2>2. QED  BY <1>2, <1>3, <1>6, <2>1, EntryTaken
<1>8. /\ entry' = path /\ path \in Paths /\ Last(path) = name /\ Reached(path)
  <2>1. path \in Paths /\ Last(path) = name
    BY <1>5, LongerPath DEF path
  <2>2. Reached(path)
    BY <1>1, <1>5, <1>7, ReachedBelow DEF path
  <2>3. QED  BY <1>1, <2>1, <2>2 DEF path
<1>9. FindTypeOK'
  BY <1>2, <1>7, <1>8 DEF Found, FindTypeOK, Walking
<1>10. MatchInv'
  BY <1>1, <1>5, MatchKept, CallStep DEF Found
<1>11. NameRead'
  <2>1. ASSUME "f" \in Criteria PROVE result' = "running" /\ exp' = make_lover_case(name)
    BY <1>1, <2>1 DEF Calls
  <2>2. make_lover_case(Last(entry))' = make_lover_case(name)
    <3>1. Last(entry)' = name
      BY <1>8
    <3>2. QED  BY <3>1 DEF make_lover_case
  <2>3. Criteria' = Criteria
    BY <1>3, AnswersKept
  <2>4. QED  BY <2>1, <2>2, <2>3 DEF NameRead
<1>12. EntryInv'
  <2>1. Reached(entry)'
    BY <1>2, <1>8 DEF Reached
  <2>2. files'[entry'].stat \in {"fails", Frame'.f_stat}
    BY <1>2, <1>6, <1>7, <1>8
  <2>3. entry' \in DOMAIN files' /\ Reached(entry)'
    BY <1>2, <1>5, <1>8, <2>1
  <2>4. QED  BY <1>2, <2>2, <2>3 DEF EntryInv, Adds
<1>13. ShapeInv' /\ SoundInv'
  BY <1>2, <1>3, ShapeKept, SoundKept DEF Found
<1>14. CompleteInv'
  <2>1. ASSUME NEW p \in Paths, ToCome(p) PROVE ToCome(p)'
    <3>1. PICK k \in 1 .. Len(frames) :
             LET d == frames[k].dir
             IN Under(d, p) /\ d # p /\ p[Len(d) + 1] \in frames[k].unread
      BY <1>2, <2>1 DEF ToCome, AtEntry, Adds, Walking
    <3>2. ASSUME Under(Frame.dir, p), Frame.dir # p, p[Len(Frame.dir) + 1] = name
          PROVE  ToCome(p)'
      <4>1. Under(path, p)
        BY <1>5, <3>2, UnderLonger DEF path
      <4>2. Under(entry', p)
        BY <1>8, <4>1
      <4>3. QED  BY <1>2, <4>2 DEF ToCome, AtEntry, Walking
    <3>3. QED  BY <1>7, <3>1, <3>2
  <2>2. CompleteInv
    BY DEF Found
  <2>3. QED  BY <1>2, <1>3, <2>1, <2>2, CompleteKept DEF Walking
<1>15. PrintInv' /\ FoundExactly'
  BY <1>2, OutputKept DEF Found
<1>16. QED  BY <1>7, <1>9, <1>10, <1>11, <1>12, <1>13, <1>14, <1>15 DEF Found

LEMMA MatchesNameFinds ==
  ASSUME Found, MatchesName PROVE Found'
<1>1. /\ pc = "test" /\ pc' = "test" /\ is_match
      /\ UNCHANGED <<files, argv, frames, entry, at, nodes, file_found, printing, printed>>
  BY DEF MatchesName, searchVars
<1>2. /\ UNCHANGED <<syntax, exp>> /\ result = "running"
      /\ result' \in {"running", "yes", "no"}
  BY <1>1 DEF is_match, InLoop, AtPlus, Advances, TakesMore, LeavesPlus, Differs, Returns
<1>3. Asked
  BY <1>1, <1>2 DEF Asked
<1>4. FindTypeOK'
  BY <1>1 DEF Found, FindTypeOK
<1>5. MatchInv'
  BY <1>1, AdvanceStep, TakeStep, LeaveStep, LeadingStep, DifferStep, ReturnStep
     DEF is_match, Found
<1>6. NameRead'
  <2>1. Criteria' = Criteria
    BY <1>3, AnswersKept
  <2>2. make_lover_case(Last(entry))' = make_lover_case(Last(entry))
    BY <1>1 DEF make_lover_case, Last
  <2>3. QED  BY <1>1, <1>2, <2>1, <2>2 DEF Found, NameRead
<1>7. FramesInv'
  BY <1>1, <1>3, AnswersKept DEF Found, FramesInv
<1>8. EntryInv'
  <2>1. Reached(entry)' <=> Reached(entry)
    BY <1>1 DEF Reached
  <2>2. QED  BY <1>1, <2>1 DEF Found, EntryInv, Frame, Adds
<1>9. ShapeInv' /\ SoundInv'
  BY <1>1, <1>3, ShapeKept, SoundKept DEF Found
<1>10. CompleteInv'
  <2>1. \A p : ToCome(p)' <=> ToCome(p)
    BY <1>1 DEF ToCome
  <2>2. QED  BY <1>1, <1>3, <2>1, CompleteKept DEF Found, Walking
<1>11. PrintInv' /\ FoundExactly'
  BY <1>1, OutputKept DEF Found
<1>12. QED  BY <1>4, <1>5, <1>6, <1>7, <1>8, <1>9, <1>10, <1>11 DEF Found

\* What is tested is judged by its own name, type and, where stat() told
\* them, properties.
LEMMA TestIsRight ==
  ASSUME Found, pc = "test", result # "running"
  PROVE  /\ is_target_file => entry \in Possible
         /\ entry \in Sure => Excused \/ is_target_file
<1>1. /\ entry \in DOMAIN files /\ Reached(entry)
      /\ files[entry].stat \in {"fails", Frame.f_stat}
  BY DEF Found, EntryInv, AtEntry, Walking
<1>2. "f" \in Criteria =>
        /\ result \in {"yes", "no"}
        /\ result = "yes" => \/ Denotes(syntax, LowerName(entry))
                             \/ WrongYes(syntax, LowerName(entry))
        /\ result = "no" => ~ Denotes(syntax, LowerName(entry)) \/ WrongNo(syntax)
  BY DEF Found, NameRead, MatchInv, MatchIsRight, LowerName
<1>3. ASSUME is_target_file PROVE entry \in Possible
  <2>1. "f" \in Criteria => \/ Denotes(syntax, LowerName(entry))
                            \/ WrongYes(syntax, LowerName(entry))
    BY <1>2, <1>3 DEF is_target_file
  <2>2. "b" \in Criteria => files[entry].stat \in {"right", "fails"}
    BY <1>1, <1>3 DEF is_target_file
  <2>3. "t" \in Criteria => files[entry].ftype = target_ftype
    BY <1>3 DEF is_target_file
  <2>4. QED  BY <1>1, <2>1, <2>2, <2>3, PossibleAre
<1>4. ASSUME entry \in Sure, ~ Excused PROVE is_target_file
  <2>1. /\ "f" \in Criteria => Denotes(syntax, LowerName(entry))
        /\ "b" \in Criteria => files[entry].stat = "right"
        /\ "t" \in Criteria => files[entry].ftype = target_ftype
    BY <1>4, SureAre
  <2>2. "f" \in Criteria => result = "yes"
    BY <1>2, <1>4, <2>1 DEF Excused
  <2>3. "b" \in Criteria => Frame.f_stat = "right"
    BY <1>1, <2>1
  <2>4. QED  BY <2>1, <2>2, <2>3 DEF is_target_file
<1>5. QED  BY <1>3, <1>4

LEMMA TestsFinds ==
  ASSUME Found, Tests PROVE FindInv'
<1> SUFFICES ASSUME pc' # "exited" PROVE Found'
  BY DEF FindInv
<1>1. /\ pc = "test" /\ result # "running" /\ at' = <<>>
      /\ UNCHANGED <<matchVars, files, argv, frames, entry, nodes, printing, printed>>
      /\ \/ is_target_file /\ file_found' /\ pc' = "add"
         \/ ~ is_target_file /\ UNCHANGED file_found /\ pc' = "descend"
  BY DEF Tests
<1>2. Asked /\ files \in Directories /\ entry \in Paths
  BY <1>1 DEF Asked, matchVars, Found, FindTypeOK
<1>3. FindTypeOK'
  BY <1>1, RootIs DEF Found, FindTypeOK, Walking
<1>4. MatchInv' /\ NameRead'
  BY <1>1, MatchKept DEF Found, NameRead
<1>5. FramesInv'
  BY <1>1, <1>2, AnswersKept DEF Found, FramesInv
<1>6. EntryInv'
  <2>1. entry \in DOMAIN files /\ Reached(entry)
    BY <1>1 DEF Found, EntryInv, AtEntry, Walking
  <2>2. Reached(entry)' <=> Reached(entry)
    BY <1>1 DEF Reached
  <2>3. pc' = "add" => (entry \in Possible)' /\ file_found'
    <3>1. Possible' = Possible
      BY <1>2, AnswersKept
    <3>2. QED  BY <1>1, <3>1, TestIsRight
  <2>4. Under(at, entry)'
    <3>1. Under(<<>>, entry)
      BY <1>2, RootIs, UnderFacts
    <3>2. QED  BY <1>1, <3>1 DEF Under
  <2>5. QED  BY <1>1, <2>1, <2>2, <2>3, <2>4 DEF EntryInv, Adds
<1>7. ShapeInv'
  BY <1>1, ShapeKept DEF Found
<1>8. SoundInv'
  <2>1. Possible' = Possible
    BY <1>2, AnswersKept
  <2>2. SoundInv
    BY DEF Found
  <2>3. CASE is_target_file /\ file_found'
    <3>1. entry \in Possible
      BY <1>1, <2>3, TestIsRight
    <3>2. QED  BY <1>1, <1>2, <2>1, <2>2, <2>3, <3>1 DEF SoundInv
  <2>4. CASE UNCHANGED file_found
    BY <1>1, <1>2, <2>2, <2>4, SoundKept
  <2>5. QED  BY <1>1, <2>3, <2>4
<1>9. CompleteInv'
  <2>1. ASSUME NEW p \in Paths, p \in Sure, ToCome(p), ~ Excused PROVE ToCome(p)'
    <3>1. \/ \E k \in 1 .. Len(frames) :
                LET d == frames[k].dir
                IN Under(d, p) /\ d # p /\ p[Len(d) + 1] \in frames[k].unread
          \/ Under(entry, p) /\ entry # p
          \/ p = entry
      BY <2>1 DEF ToCome
    <3>2. p = entry => pc' = "add"
      BY <1>1, <2>1, TestIsRight
    <3>3. QED  BY <1>1, <3>1, <3>2 DEF ToCome, AtEntry, Adds, Walking
  <2>2. CompleteInv
    BY DEF Found
  <2>3. QED  BY <1>1, <1>2, <2>1, <2>2, CompleteKept DEF Walking
<1>10. PrintInv' /\ FoundExactly'
  BY <1>1, OutputKept DEF Found
<1>11. QED  BY <1>3, <1>4, <1>5, <1>6, <1>7, <1>8, <1>9, <1>10 DEF Found

LEMMA DescendsFinds ==
  ASSUME Found, Descends PROVE Found'
<1>1. /\ pc = "descend" /\ pc' = "walk"
      /\ UNCHANGED <<matchVars, files, argv, entry, at, nodes, file_found,
                     printing, printed>>
  BY DEF Descends
<1>2. /\ Asked /\ files \in Directories /\ frames \in Seq(FrameSet) /\ frames # <<>>
      /\ entry \in Paths /\ entry \in DOMAIN files /\ Reached(entry) /\ entry # <<>>
  <2>1. /\ Asked /\ files \in Directories /\ frames \in Seq(FrameSet) /\ frames # <<>>
        /\ entry \in Paths
    BY <1>1 DEF Asked, matchVars, Found, FindTypeOK, Walking
  <2>2. entry \in DOMAIN files /\ Reached(entry)
    BY <1>1 DEF Found, EntryInv, AtEntry, Walking
  <2>3. QED  BY <2>1, <2>2, FilesAre
<1>3. MatchInv' /\ NameRead'
  BY <1>1, MatchKept DEF Found, NameRead
<1>4. EntryInv'
  BY <1>1 DEF EntryInv, AtEntry, Adds, Walking
<1>5. ShapeInv' /\ SoundInv'
  BY <1>1, <1>2, ShapeKept, SoundKept DEF Found
<1>6. PrintInv' /\ FoundExactly'
  BY <1>1, OutputKept DEF Found
<1>7. FramesInv /\ CompleteInv
  BY DEF Found
<1>8. \A p : Open(p)' <=> Open(p)
  BY <1>2, AnswersKept
<1>9. \A p \in Paths : p \in Sure => p \in DOMAIN files /\ Reached(p)
  BY SureAre
<1>10. CASE files[entry].ftype = "d" /\ files[entry].opens
  <2>1. PICK garbage \in {"right", "wrong"} :
           frames' = Append(frames, Call(entry, garbage))
    BY <1>10 DEF Descends
  <2> DEFINE top == Call(entry, garbage)
             n   == Len(frames)
  <2>2. top \in FrameSet /\ top.dir = entry /\ top.unread = Entries(entry)
    BY <1>2, EntriesAre DEF Call, FrameSet
  <2> HIDE DEF top
  <2>3. /\ frames' \in Seq(FrameSet) /\ Len(frames') = n + 1 /\ frames' # <<>>
        /\ frames'[n + 1] = top /\ n \in Nat
        /\ \A k \in 1 .. n : frames'[k] = frames[k]
    <3>1. frames' = Append(frames, top)
      BY <2>1 DEF top
    <3>2. QED  BY <1>2, <2>2, <3>1, Pushed
  <2> HIDE DEF n
  <2>4. \A k \in 1 .. n + 1 : k \in 1 .. n \/ k = n + 1
    BY <2>3
  <2>5. 1 .. n \subseteq 1 .. Len(frames') /\ n + 1 \in 1 .. Len(frames')
    BY <2>3
  <2>6. FindTypeOK'
    BY <1>1, <2>3 DEF Found, FindTypeOK, Walking
  <2>7. FramesInv'
    <3>1. Open(entry)
      BY <1>2, <1>10 DEF Open
    <3>2. \A name \in Entries(entry) : Append(entry, name) \in DOMAIN files
      BY <1>2, EntriesAre
    <3>3. ASSUME NEW k \in 1 .. n + 1
          PROVE  /\ Open(frames'[k].dir)
                 /\ \A name \in frames'[k].unread : Append(frames'[k].dir, name) \in DOMAIN files
      BY <1>7, <2>2, <2>3, <2>4, <3>1, <3>2 DEF FramesInv, n
    <3>4. \A k \in 1 .. Len(frames') : Open(frames[k].dir)'
      BY <1>8, <2>3, <3>3
    <3>5. QED  BY <1>1, <2>3, <3>3, <3>4 DEF FramesInv
  <2>8. CompleteInv'
    <3>1. ASSUME NEW p \in Paths, p \in Sure, ToCome(p) PROVE ToCome(p)'
      <4>1. CASE \E k \in 1 .. n :
                    LET d == frames[k].dir
                    IN Under(d, p) /\ d # p /\ p[Len(d) + 1] \in frames[k].unread
        BY <2>3, <2>5, <4>1 DEF ToCome
      <4>2. CASE Under(entry, p) /\ entry # p
        <5>1. p[Len(entry) + 1] \in Entries(entry)
          BY <1>2, <1>9, <3>1, <4>2, EntriesAre
        <5>2. QED  BY <2>2, <2>3, <2>5, <4>2, <5>1 DEF ToCome
      <4>3. QED  BY <1>1, <3>1, <4>1, <4>2 DEF ToCome, Adds, n
    <3>2. QED  BY <1>1, <1>2, <1>7, <3>1, CompleteKept DEF Walking
  <2>9. QED  BY <1>3, <1>4, <1>5, <1>6, <2>6, <2>7, <2>8 DEF Found
<1>11. CASE ~ (files[entry].ftype = "d" /\ files[entry].opens)
  <2>1. frames' = frames
    BY <1>11 DEF Descends
  <2>2. FindTypeOK'
    BY <1>1, <2>1 DEF Found, FindTypeOK, Walking
  <2>3. FramesInv'
    BY <1>1, <1>7, <1>8, <2>1 DEF FramesInv
  <2>4. CompleteInv'
    <3>1. ASSUME NEW p \in Paths, p \in Sure, ToCome(p) PROVE ToCome(p)'
      <4>1. ~ (Under(entry, p) /\ entry # p)
        <5> SUFFICES ASSUME Under(entry, p), entry # p PROVE FALSE
          OBVIOUS
        <5>1. Open(entry)
          BY <1>2, <1>9, <3>1, ReachedMeansOpen
        <5>2. QED  BY <1>2, <1>11, <5>1 DEF Open
      <4>2. QED  BY <1>1, <2>1, <3>1, <4>1 DEF ToCome, Adds
    <3>2. QED  BY <1>1, <1>2, <1>7, <3>1, CompleteKept DEF Walking
  <2>5. QED  BY <1>3, <1>4, <1>5, <1>6, <2>2, <2>3, <2>4 DEF Found
<1>12. QED  BY <1>10, <1>11

LEMMA WalkReturnsFinds ==
  ASSUME Found, BlocksInv, WalkReturns PROVE Found'
<1>1. /\ pc = "walk" /\ Frame.unread = {} /\ frames' = Front(frames)
      /\ UNCHANGED <<matchVars, files, argv, entry, at, nodes, file_found, printed>>
      /\ \/ Len(frames) = 1 /\ pc' = "print" /\ printing' = <<<<>>>>
         \/ Len(frames) # 1 /\ pc' = "walk" /\ printing' = printing
  BY DEF WalkReturns
<1>2. Asked /\ files \in Directories /\ frames \in Seq(FrameSet) /\ frames # <<>>
  BY <1>1 DEF Asked, matchVars, Found, FindTypeOK, Walking
<1> DEFINE n == Len(frames)
<1>3. /\ n \in Nat /\ n >= 1 /\ frames' \in Seq(FrameSet) /\ Len(frames') = n - 1
      /\ \A k \in 1 .. n - 1 : frames'[k] = frames[k]
      /\ Frame = frames[n]
  BY <1>1, <1>2, StackIs DEF Frame
<1>4. pc' = "walk" => frames' # <<>>
  <2>1. pc' = "walk" => Len(frames') # 0
    BY <1>1, <1>3
  <2>2. QED  BY <2>1, RootIs
<1> HIDE DEF n
<1>5. FindTypeOK'
  BY <1>1, <1>3, <1>4 DEF Found, FindTypeOK, Walking
<1>6. MatchInv' /\ NameRead'
  BY <1>1, MatchKept DEF Found, NameRead
<1>7. FramesInv'
  <2>1. \A p : Open(p)' <=> Open(p)
    BY <1>2, AnswersKept
  <2>2. \A k \in 1 .. Len(frames') : k \in 1 .. n /\ frames'[k] = frames[k]
    BY <1>3
  <2>3. FramesInv
    BY DEF Found
  <2>4. QED  BY <1>1, <2>1, <2>2, <2>3 DEF FramesInv, n
<1>8. EntryInv'
  BY <1>1 DEF EntryInv, AtEntry, Adds, Walking
<1>9. ShapeInv' /\ SoundInv'
  BY <1>1, <1>2, ShapeKept, SoundKept DEF Found
<1>10. CompleteInv'
  <2>1. ASSUME NEW p \in Paths, ToCome(p) PROVE pc' = "walk" /\ ToCome(p)'
    <3>1. PICK k \in 1 .. n :
             LET d == frames[k].dir
             IN Under(d, p) /\ d # p /\ p[Len(d) + 1] \in frames[k].unread
      BY <1>1, <2>1 DEF ToCome, AtEntry, Adds, Walking, n
    <3>2. k # n
      BY <1>1, <1>3, <3>1
    <3>3. k \in 1 .. n - 1 /\ n # 1
      BY <1>3, <3>2
    <3>4. k \in 1 .. Len(frames') /\ frames'[k] = frames[k]
      BY <1>3, <3>3
    <3>5. QED  BY <1>1, <3>1, <3>3, <3>4 DEF ToCome, n
  <2>2. CompleteInv
    BY DEF Found
  <2>3. QED  BY <1>1, <1>2, <2>1, <2>2, CompleteKept DEF Walking
<1>11. PrintInv' /\ FoundExactly'
  <2>1. CASE pc' = "walk"
    BY <1>1, <2>1, OutputKept DEF Found
  <2>2. CASE pc' = "print"
    <3>1. /\ printing' = <<<<>>>> /\ printed' = <<>>
      BY <1>1, <2>2 DEF Found, PrintInv
    <3>2. /\ Len(printing') = 1 /\ printing'[1] = <<>> /\ Len(printed') = 0
          /\ Range(printed') = {} /\ IsInjective(printed')
      BY <3>1 DEF Range, IsInjective
    <3>3. /\ <<>> \in DOMAIN nodes' /\ DOMAIN nodes' \subseteq Paths
      BY <1>1 DEF BlocksInv, TreeInv, Found, FindTypeOK
    <3>4. printing' \in Seq(DOMAIN nodes') /\ printed' \in Seq(DOMAIN nodes')
      BY <3>1, <3>3
    <3>5. \A p \in DOMAIN nodes' : Under(printing'[1], p)
      BY <3>2, <3>3, RootIs, UnderFacts
    <3>6. PrintInv'
      BY <2>2, <3>1, <3>2, <3>4, <3>5 DEF PrintInv
    <3>7. QED  BY <2>2, <3>6 DEF FoundExactly
  <2>3. QED  BY <1>1, <2>1, <2>2
<1>12. QED  BY <1>5, <1>6, <1>7, <1>8, <1>9, <1>10, <1>11 DEF Found

-------------------------------------------------------------------------------
(* Steps of add_to_tree() and add_entry() *)

\* What is known while an entry is added, and what these steps leave alone.
LEMMA WhileAdding ==
  ASSUME Found, BlocksInv, pc \in Adds
  PROVE  /\ files \in Directories /\ entry \in Paths /\ entry \in DOMAIN files
         /\ at \in Paths /\ at \in DOMAIN nodes /\ DOMAIN nodes \subseteq Paths
         /\ Under(at, entry) /\ entry \in Possible /\ Reached(entry) /\ file_found
         /\ \A p \in DOMAIN nodes : List(nodes[p].subs)
BY DEF Found, FindTypeOK, EntryInv, AtEntry, Adds, Walking, BlocksInv, PlaceInv, TreeInv,
       Block

LEMMA NextNameIs ==
  ASSUME Found, BlocksInv, pc \in Adds, at # entry
  PROVE  /\ NextName \in FileNames
         /\ Append(at, NextName) \in Paths /\ Append(at, NextName) # <<>>
         /\ Under(Append(at, NextName), entry)
         /\ Under(at, Append(at, NextName)) /\ Append(at, NextName) # at
         /\ \A q \in Paths : Under(q, Append(at, NextName)) /\ q # Append(at, NextName)
                               => Under(q, at)
         /\ Append(at, NextName)[Len(at) + 1] = NextName
         /\ \A i \in 1 .. Len(at) : Append(at, NextName)[i] = at[i]
<1>1. entry \in Paths /\ at \in Paths /\ Under(at, entry)
  BY WhileAdding
<1>2. NextName \in FileNames
  BY <1>1, UnderFacts, PathIs DEF NextName
<1>3. /\ Append(at, NextName) \in Paths /\ Append(at, NextName) # <<>>
      /\ Len(Append(at, NextName)) = Len(at) + 1
      /\ Append(at, NextName)[Len(at) + 1] = NextName
      /\ \A i \in 1 .. Len(at) : Append(at, NextName)[i] = at[i]
  BY <1>1, <1>2, LongerPath
<1>4. /\ Under(Append(at, NextName), entry) /\ Under(at, Append(at, NextName))
      /\ \A q \in Paths : Under(q, Append(at, NextName)) /\ q # Append(at, NextName)
                            => Under(q, at)
  BY <1>1, <1>2, UnderLonger DEF NextName
<1>5. Append(at, NextName) # at
  <2>1. Len(at) \in Nat
    BY <1>1, PathIs
  <2>2. Len(at) + 1 # Len(at)
    BY <2>1
  <2>3. QED  BY <1>3, <2>2
<1>6. QED  BY <1>2, <1>3, <1>4, <1>5

\* What add_to_tree() leaves alone, blocks apart.
SameEntry == UNCHANGED <<matchVars, files, argv, frames, entry, file_found, printing,
                         printed>>

LEMMA AddingKeeps ==
  ASSUME Found, SameEntry, pc \in Adds, pc' \in Adds, DOMAIN nodes \subseteq DOMAIN nodes'
  PROVE  /\ Asked /\ MatchInv' /\ NameRead' /\ FramesInv' /\ CompleteInv'
         /\ PrintInv' /\ FoundExactly'
         /\ (at' \in Paths /\ DOMAIN nodes' \subseteq Paths => FindTypeOK')
         /\ (Under(at', entry) /\ (pc' \in {"store", "place", "clear"} => at' # entry) => EntryInv')
<1>1. UNCHANGED <<matchVars, files, argv, frames, entry, file_found, printing, printed>>
  BY DEF SameEntry
<1>2. Asked
  BY <1>1 DEF Asked, matchVars
<1>3. MatchInv' /\ NameRead'
  BY <1>1, MatchKept DEF Found, NameRead, Adds
<1>4. FramesInv'
  BY <1>1, <1>2, AnswersKept DEF Found, FramesInv
<1>5. CompleteInv'
  <2>1. \A p : ToCome(p) => ToCome(p)'
    BY <1>1 DEF ToCome, Adds, AtEntry, Walking
  <2>2. pc # "arguments" /\ pc' \in Walking
    BY DEF Adds, Walking
  <2>3. QED  BY <1>2, <2>1, <2>2, CompleteKept DEF Found
<1>6. PrintInv' /\ FoundExactly'
  BY <1>1, OutputKept DEF Found, Adds
<1>7. ASSUME at' \in Paths, DOMAIN nodes' \subseteq Paths PROVE FindTypeOK'
  BY <1>1, <1>7 DEF Found, FindTypeOK, Adds, Walking
<1>8. ASSUME Under(at', entry), pc' \in {"store", "place", "clear"} => at' # entry
      PROVE  EntryInv'
  <2>1. /\ entry \in DOMAIN files /\ Reached(entry) /\ entry \in Possible /\ file_found
    BY DEF Found, EntryInv, AtEntry, Adds, Walking
  <2>2. Reached(entry)' /\ (entry \in Possible)'
    <3>1. (Reached(entry)' <=> Reached(entry))
      BY <1>1 DEF Reached
    <3>2. Criteria' = Criteria
      BY <1>2, AnswersKept
    <3>3. Possible' = Possible
      BY <1>2, AnswersKept
    <3>4. entry' = entry
      BY <1>1
    <3>5. QED  BY <2>1, <3>1, <3>3, <3>4
  <2>3. Under(at, entry)'
    BY <1>1, <1>8 DEF Under
  <2>4. QED  BY <1>1, <1>8, <2>1, <2>2, <2>3 DEF EntryInv, Adds
<1>9. QED  BY <1>2, <1>3, <1>4, <1>5, <1>6, <1>7, <1>8

LEMMA GoesDownFinds ==
  ASSUME Found, BlocksInv, GoesDown PROVE Found'
<1>1. /\ pc = "add" /\ pc' = "add" /\ at # entry /\ at' = Append(at, NextName)
      /\ nodes' = nodes /\ SameEntry
  BY DEF GoesDown, Adding, SameEntry
<1>2. pc \in Adds /\ pc' \in Adds
  BY <1>1 DEF Adds
<1>3. at' \in Paths /\ Under(at', entry)
  BY <1>1, <1>2, NextNameIs
<1>4. DOMAIN nodes \subseteq Paths
  BY <1>2, WhileAdding
<1>5. /\ Asked /\ MatchInv' /\ NameRead' /\ FramesInv' /\ CompleteInv'
      /\ PrintInv' /\ FoundExactly' /\ FindTypeOK' /\ EntryInv'
  BY <1>1, <1>2, <1>3, <1>4, AddingKeeps
<1>6. ShapeInv' /\ SoundInv'
  BY <1>1, <1>5, ShapeKept, SoundKept DEF Found, SameEntry
<1>7. QED  BY <1>5, <1>6 DEF Found

\* Nothing is listed in the tree that was not, and nothing less.
LEMMA RoomFinds ==
  ASSUME Found, BlocksInv, SameEntry, pc \in {"add", "store"},
         pc' \in {"add", "store", "place"},
         at # entry, at' = at, DOMAIN nodes' = DOMAIN nodes,
         \A p \in DOMAIN nodes : nodes'[p].subs = nodes[p].subs,
         NextName \notin Range(nodes[at].subs)
  PROVE  Found'
<1>1. pc \in Adds /\ pc' \in Adds
  BY DEF Adds
<1>2. /\ at \in Paths /\ at \in DOMAIN nodes /\ DOMAIN nodes \subseteq Paths
      /\ Under(at, entry)
  BY <1>1, WhileAdding
<1>3. /\ Asked /\ MatchInv' /\ NameRead' /\ FramesInv' /\ CompleteInv'
      /\ PrintInv' /\ FoundExactly' /\ FindTypeOK' /\ EntryInv'
  <2>1. entry' = entry
    BY DEF SameEntry
  <2>2. QED  BY <1>1, <1>2, <2>1, AddingKeeps
<1>4. NextName' = NextName
  BY DEF NextName, SameEntry
<1>5. ShapeInv'
  <2>1. ASSUME NEW p \in DOMAIN nodes, NEW q \in Paths, Under(q, p), q # p
        PROVE  q \in DOMAIN nodes /\ Child(q, p)'
    <3>1. q \in DOMAIN nodes /\ Child(q, p)
      BY <2>1 DEF Found, ShapeInv
    <3>2. QED  BY <3>1 DEF Child
  <2>2. \A p \in DOMAIN nodes : IsInjective(nodes'[p].subs)
    BY DEF Found, ShapeInv
  <2>3. NextName' \notin Range(nodes'[at'].subs)
    BY <1>2, <1>4
  <2>4. pc' # "clear"
    OBVIOUS
  <2>5. QED  BY <2>1, <2>2, <2>3, <2>4 DEF ShapeInv
<1>6. SoundInv'
  BY <1>3, SoundKept DEF Found, SameEntry
<1>7. QED  BY <1>3, <1>5, <1>6 DEF Found

LEMMA MakesRoomFinds ==
  ASSUME Found, BlocksInv, HasRoom \/ Allocates \/ Reallocs PROVE Found'
<1>1. /\ pc = "add" /\ pc' \in {"store", "place"} /\ at # entry /\ at' = at /\ SameEntry
      /\ nodes[at].allocated # NULL => ~ Contains(nodes[at].subs, NextName)
  BY DEF HasRoom, Allocates, Reallocs, Adding, SameEntry
<1>2. /\ DOMAIN nodes' = DOMAIN nodes
      /\ \A p \in DOMAIN nodes : nodes'[p].subs = nodes[p].subs
  BY HasRoomStep, AllocatesStep, ReallocsStep
<1>3. List(nodes[at].subs)
  BY <1>1, NodeAt DEF Block
<1>4. NextName \notin Range(nodes[at].subs)
  <2>1. CASE nodes[at].allocated # NULL
    BY <1>1, <1>3, <2>1 DEF Contains, Range, List
  <2>2. CASE nodes[at].allocated = NULL
    <3>1. Len(nodes[at].subs) = 0
      BY <1>1, <2>2, NodeAt DEF NULL
    <3>2. DOMAIN nodes[at].subs = {}
      BY <1>3, <3>1 DEF List
    <3>3. QED  BY <3>2 DEF Range
  <2>3. QED  BY <2>1, <2>2
<1>5. QED  BY <1>1, <1>2, <1>4, RoomFinds

LEMMA StoresBlockFinds ==
  ASSUME Found, BlocksInv, StoresBlock PROVE Found'
<1>1. /\ pc = "store" /\ pc' \in {"add", "place"} /\ at' = at /\ SameEntry
  BY DEF StoresBlock, SameEntry
<1>2. /\ DOMAIN nodes' = DOMAIN nodes
      /\ \A p \in DOMAIN nodes : nodes'[p].subs = nodes[p].subs
  BY StoresBlockStep
<1>3. at # entry /\ NextName \notin Range(nodes[at].subs)
  BY <1>1 DEF Found, EntryInv, ShapeInv
<1>4. QED  BY <1>1, <1>2, <1>3, RoomFinds

LEMMA PlacesEntryFinds ==
  ASSUME Found, BlocksInv, PlacesEntry PROVE Found'
<1> DEFINE name   == NextName
           placed == Append(at, name)
<1>1. /\ pc = "place" /\ pc' = "clear" /\ at' = at /\ at # entry /\ SameEntry
  <2>1. /\ pc = "place" /\ pc' = "clear" /\ at' = at /\ SameEntry
    BY DEF PlacesEntry, Adding, SameEntry
  <2>2. QED  BY <2>1 DEF Found, EntryInv
<1>2. pc \in Adds /\ pc' \in Adds
  BY <1>1 DEF Adds
<1>3. /\ at \in Paths /\ at \in DOMAIN nodes /\ DOMAIN nodes \subseteq Paths
      /\ Under(at, entry) /\ List(nodes[at].subs) /\ entry \in Possible /\ file_found
      /\ entry \in Paths
  BY <1>2, WhileAdding
<1>4. /\ placed \in Paths /\ placed # <<>> /\ Under(placed, entry) /\ Under(at, placed)
      /\ placed # at
      /\ \A q \in Paths : Under(q, placed) /\ q # placed => Under(q, at)
      /\ placed[Len(at) + 1] = name
      /\ \A i \in 1 .. Len(at) : placed[i] = at[i]
  BY <1>1, <1>2, NextNameIs
<1>5. /\ DOMAIN nodes' = DOMAIN nodes \cup {placed}
      /\ nodes'[placed].subs = <<>>
      /\ nodes'[at].subs = Append(nodes[at].subs, name)
      /\ \A p \in DOMAIN nodes \ {at, placed} : nodes'[p] = nodes[p]
  BY PlacesEntryStep
<1>6. name' = name /\ placed' = placed
  BY <1>1 DEF NextName, SameEntry
<1>7. name \notin Range(nodes[at].subs)
  BY <1>1 DEF Found, ShapeInv
<1> HIDE DEF name, placed
<1>8. placed \notin DOMAIN nodes
  <2> SUFFICES ASSUME placed \in DOMAIN nodes PROVE FALSE
    OBVIOUS
  <2>1. Child(at, placed)
    BY <1>3, <1>4 DEF Found, ShapeInv
  <2>2. QED  BY <1>4, <1>7, <2>1 DEF Child
<1>9. /\ Asked /\ MatchInv' /\ NameRead' /\ FramesInv' /\ CompleteInv'
      /\ PrintInv' /\ FoundExactly' /\ FindTypeOK' /\ EntryInv'
  <2>1. DOMAIN nodes \subseteq DOMAIN nodes' /\ DOMAIN nodes' \subseteq Paths
    BY <1>3, <1>4, <1>5
  <2>2. QED  BY <1>1, <1>2, <1>3, <2>1, AddingKeeps
<1>10. /\ \A x : x \in Range(nodes'[at].subs) <=> x = name \/ x \in Range(nodes[at].subs)
       /\ IsInjective(nodes[at].subs) => IsInjective(nodes'[at].subs)
  BY <1>3, <1>5, <1>7, OneMore
<1>11. ShapeInv'
  <2>1. ASSUME NEW p \in DOMAIN nodes, NEW q \in Paths, Under(q, p), q # p
        PROVE  q \in DOMAIN nodes /\ p[Len(q) + 1] \in Range(nodes'[q].subs)
    <3>1. q \in DOMAIN nodes /\ p[Len(q) + 1] \in Range(nodes[q].subs)
      BY <2>1 DEF Found, ShapeInv, Child
    <3>2. CASE q = at
      BY <1>10, <3>1, <3>2
    <3>3. CASE q # at
      BY <1>5, <1>8, <3>1, <3>3
    <3>4. QED  BY <3>1, <3>2, <3>3
  <2>2. ASSUME NEW q \in Paths, Under(q, placed), q # placed
        PROVE  q \in DOMAIN nodes /\ placed[Len(q) + 1] \in Range(nodes'[q].subs)
    <3>1. Under(q, at)
      BY <1>4, <2>2
    <3>2. CASE q = at
      BY <1>3, <1>4, <1>10, <3>2
    <3>3. CASE q # at
      <4>1. q \in DOMAIN nodes /\ at[Len(q) + 1] \in Range(nodes'[q].subs)
        BY <1>3, <2>1, <3>1, <3>3
      <4>2. Len(q) + 1 \in 1 .. Len(at)
        BY <1>3, <3>1, <3>3, UnderFacts
      <4>3. QED  BY <1>4, <4>1, <4>2
    <3>4. QED  BY <3>2, <3>3
  <2>3. ASSUME NEW p \in DOMAIN nodes', NEW q \in Paths, Under(q, p), q # p
        PROVE  q \in DOMAIN nodes' /\ Child(q, p)'
    <3>1. p = placed \/ p \in DOMAIN nodes
      BY <1>5
    <3>2. q \in DOMAIN nodes /\ p[Len(q) + 1] \in Range(nodes'[q].subs)
      BY <2>1, <2>2, <2>3, <3>1
    <3>3. QED  BY <1>5, <3>2 DEF Child
  <2>4. ASSUME NEW p \in DOMAIN nodes' PROVE IsInjective(nodes'[p].subs)
    <3>1. CASE p = placed
      <4>1. DOMAIN nodes'[p].subs = {}
        BY <1>5, <3>1
      <4>2. QED  BY <4>1 DEF IsInjective
    <3>2. CASE p = at
      BY <1>3, <1>10, <3>2 DEF Found, ShapeInv
    <3>3. CASE p # placed /\ p # at
      BY <1>5, <3>3 DEF Found, ShapeInv
    <3>4. QED  BY <3>1, <3>2, <3>3
  <2>5. nodes'[Append(at', NextName')].subs = <<>>
    BY <1>5, <1>6 DEF placed, name
  <2>6. QED  BY <1>1, <2>3, <2>4, <2>5 DEF ShapeInv
<1>12. SoundInv'
  <2>1. Possible' = Possible
    BY <1>9, AnswersKept
  <2>2. file_found'
    BY <1>1, <1>3 DEF SameEntry
  <2>3. ASSUME NEW p \in DOMAIN nodes' \ {<<>>}
        PROVE  \E q \in Paths : q \in Possible /\ Under(p, q)
    <3>1. CASE p = placed
      BY <1>3, <1>4, <3>1
    <3>2. CASE p # placed
      <4>1. p \in DOMAIN nodes \ {<<>>}
        BY <1>5, <3>2
      <4>2. QED  BY <4>1 DEF Found, SoundInv
    <3>3. QED  BY <3>1, <3>2
  <2>4. QED  BY <1>3, <2>1, <2>2, <2>3 DEF SoundInv
<1>13. QED  BY <1>9, <1>11, <1>12 DEF Found

LEMMA ClearsFinds ==
  ASSUME Found, BlocksInv, Clears PROVE Found'
<1>1. /\ pc = "clear" /\ pc' = "add" /\ at' = Append(at, NextName) /\ at # entry
      /\ SameEntry
  <2>1. /\ pc = "clear" /\ pc' = "add" /\ at' = Append(at, NextName) /\ SameEntry
    BY DEF Clears, Adding, SameEntry
  <2>2. QED  BY <2>1 DEF Found, EntryInv
<1>2. pc \in Adds /\ pc' \in Adds
  BY <1>1 DEF Adds
<1>3. at' \in Paths /\ Under(at', entry)
  BY <1>1, <1>2, NextNameIs
<1>4. DOMAIN nodes \subseteq Paths
  BY <1>2, WhileAdding
<1>5. /\ DOMAIN nodes' = DOMAIN nodes
      /\ \A p \in DOMAIN nodes : nodes'[p].subs = nodes[p].subs
  <2>1. nodes[Append(at, NextName)].subs = <<>>
    BY <1>1 DEF Found, ShapeInv
  <2>2. QED  BY <2>1, ClearsStep
<1>6. /\ Asked /\ MatchInv' /\ NameRead' /\ FramesInv' /\ CompleteInv'
      /\ PrintInv' /\ FoundExactly' /\ FindTypeOK' /\ EntryInv'
  BY <1>1, <1>2, <1>3, <1>4, <1>5, AddingKeeps
<1>7. ShapeInv' /\ SoundInv'
  BY <1>1, <1>5, <1>6, ShapeKept, SoundKept DEF Found, SameEntry
<1>8. QED  BY <1>6, <1>7 DEF Found

LEMMA AddedFinds ==
  ASSUME Found, BlocksInv, Added PROVE Found'
<1>1. /\ pc = "add" /\ pc' = "descend" /\ at = entry
      /\ UNCHANGED <<matchVars, files, argv, frames, entry, file_found,
                     printing, printed, at, nodes>>
  BY DEF Added, Adding
<1>2. /\ Asked /\ entry \in DOMAIN nodes
      /\ entry \in DOMAIN files /\ Reached(entry)
  <2>1. Asked
    BY <1>1 DEF Asked, matchVars
  <2>2. QED  BY <1>1, <2>1, WhileAdding DEF Adds
<1>3. FindTypeOK'
  BY <1>1 DEF Found, FindTypeOK, Walking
<1>4. MatchInv' /\ NameRead'
  BY <1>1, MatchKept DEF Found, NameRead
<1>5. FramesInv'
  BY <1>1, <1>2, AnswersKept DEF Found, FramesInv
<1>6. EntryInv'
  <2>1. Reached(entry)' <=> Reached(entry)
    BY <1>1 DEF Reached
  <2>2. QED  BY <1>1, <1>2, <2>1 DEF EntryInv, Adds
<1>7. ShapeInv' /\ SoundInv'
  BY <1>1, <1>2, ShapeKept, SoundKept DEF Found
<1>8. CompleteInv'
  <2>1. ASSUME NEW p \in Paths, ToCome(p) PROVE p \in DOMAIN nodes' \/ ToCome(p)'
    BY <1>1, <1>2, <2>1 DEF ToCome, Adds, AtEntry, Walking
  <2>2. pc # "arguments" /\ pc' \in Walking
    BY <1>1 DEF Walking
  <2>3. QED  BY <1>1, <1>2, <2>1, <2>2, CompleteKept DEF Found
<1>9. PrintInv' /\ FoundExactly'
  BY <1>1, OutputKept DEF Found
<1>10. QED  BY <1>3, <1>4, <1>5, <1>6, <1>7, <1>8, <1>9 DEF Found

-------------------------------------------------------------------------------
(* Steps of the printing *)

\* A path is printed, and those of its entries take its place.
LEMMA PathPrinted ==
  ASSUME Found, BlocksInv, Prints, pc' = "print"
  PROVE  PrintInv'
<1> DEFINE p        == Head(printing)
           subs     == nodes[p].subs
           children == [i \in DOMAIN subs |-> Append(p, subs[i])]
           m        == Len(children)
           n        == Len(printing)
<1>1. /\ pc = "print" /\ file_found /\ printing # <<>>
      /\ printed' = Append(printed, p) /\ printing' = children \o Tail(printing)
      /\ UNCHANGED <<nodes, file_found>>
  BY DEF Prints
<1>2. /\ printed \in Seq(DOMAIN nodes) /\ printing \in Seq(DOMAIN nodes)
      /\ \A q \in DOMAIN nodes : \/ q \in Range(printed)
                                 \/ \E i \in 1 .. n : Under(printing[i], q)
      /\ \A i \in 1 .. n :
            /\ \A q \in Range(printed) : ~ Under(printing[i], q)
            /\ \A j \in 1 .. n : i # j => ~ Under(printing[i], printing[j])
            /\ printing[i] = <<>> \/ Front(printing[i]) \in Range(printed)
      /\ IsInjective(printed)
      /\ \A i \in 1 .. Len(printed) :
            printed[i] = <<>> \/ \E j \in 1 .. i - 1 : printed[j] = Front(printed[i])
  BY <1>1 DEF Found, PrintInv
<1>3. /\ DOMAIN nodes \subseteq Paths
      /\ \A q \in DOMAIN nodes, r \in Paths :
            Under(r, q) /\ r # q => r \in DOMAIN nodes /\ Child(r, q)
      /\ \A q \in DOMAIN nodes : IsInjective(nodes[q].subs) /\ List(nodes[q].subs)
      /\ \A q \in DOMAIN nodes : \A i \in 1 .. Len(nodes[q].subs) :
            Append(q, nodes[q].subs[i]) \in DOMAIN nodes
  BY DEF Found, FindTypeOK, ShapeInv, BlocksInv, TreeInv, Block
<1>4. p = printing[1] /\ p \in DOMAIN nodes /\ p \in Paths /\ n \in Nat /\ 1 \in 1 .. n
  BY <1>1, <1>2, <1>3
<1>5. List(subs) /\ IsInjective(subs)
  BY <1>3, <1>4
<1> HIDE DEF p, subs
<1>6. /\ children \in Seq(DOMAIN nodes) /\ m = Len(subs) /\ m \in Nat
      /\ \A i \in 1 .. m : children[i] = Append(p, subs[i])
  <2>1. Len(subs) \in Nat /\ DOMAIN subs = 1 .. Len(subs)
    BY <1>5 DEF List
  <2>2. \A i \in 1 .. Len(subs) : Append(p, subs[i]) \in DOMAIN nodes
    BY <1>3, <1>4 DEF subs
  <2>3. QED  BY <2>1, <2>2
<1> HIDE DEF children
<1>7. /\ printing' \in Seq(DOMAIN nodes)
      /\ \A i \in 1 .. m : i \in 1 .. Len(printing') /\ printing'[i] = children[i]
      /\ \A k \in 2 .. n : /\ m + k - 1 \in 1 .. Len(printing')
                           /\ printing'[m + k - 1] = printing[k]
      /\ \A i \in 1 .. Len(printing') :
            i \in 1 .. m \/ \E k \in 2 .. n : i = m + k - 1
  <2> DEFINE t == children \o Tail(printing)
  <2>0. /\ printing \in Seq(DOMAIN nodes) /\ printing # <<>>
        /\ children \in Seq(DOMAIN nodes)
    BY <1>1, <1>2, <1>6
  <2>1. /\ t \in Seq(DOMAIN nodes)
        /\ \A i \in 1 .. m : i \in 1 .. Len(t) /\ t[i] = children[i]
        /\ \A k \in 2 .. n : m + k - 1 \in 1 .. Len(t) /\ t[m + k - 1] = printing[k]
        /\ \A i \in 1 .. Len(t) : i \in 1 .. m \/ \E k \in 2 .. n : i = m + k - 1
    BY <2>0, HeadReplaced
  <2>2. printing' = t
    BY <1>1
  <2> HIDE DEF t
  <2>3. QED  BY <2>1, <2>2
<1> HIDE DEF m, n
<1>8. \A i \in 1 .. m : /\ children[i] \in Paths /\ children[i] \in DOMAIN nodes
                        /\ children[i] # <<>>
                        /\ Front(children[i]) = p /\ Under(p, children[i])
                        /\ Len(children[i]) = Len(p) + 1
                        /\ children[i][Len(p) + 1] = subs[i]
                        /\ ~ Under(children[i], p)
                        /\ \A q \in Paths : Under(q, children[i]) =>
                              Under(q, p) \/ q = children[i]
                        /\ \A q \in Paths : Under(children[i], q) <=>
                              Under(p, q) /\ p # q /\ q[Len(p) + 1] = subs[i]
  <2> SUFFICES ASSUME NEW i \in 1 .. m
               PROVE  /\ children[i] \in Paths /\ children[i] \in DOMAIN nodes
                      /\ children[i] # <<>>
                      /\ Front(children[i]) = p /\ Under(p, children[i])
                      /\ Len(children[i]) = Len(p) + 1
                      /\ children[i][Len(p) + 1] = subs[i]
                      /\ ~ Under(children[i], p)
                      /\ \A q \in Paths : Under(q, children[i]) =>
                            Under(q, p) \/ q = children[i]
                      /\ \A q \in Paths : Under(children[i], q) <=>
                            Under(p, q) /\ p # q /\ q[Len(p) + 1] = subs[i]
    OBVIOUS
  <2>1. children[i] = Append(p, subs[i]) /\ children[i] \in DOMAIN nodes
    BY <1>6 DEF m
  <2>2. children[i] \in Paths
    BY <1>3, <2>1
  <2>3. subs[i] \in FileNames
    <3>1. /\ List(Append(p, subs[i])) /\ Len(Append(p, subs[i])) = Len(p) + 1
          /\ Append(p, subs[i])[Len(p) + 1] = subs[i]
      <4>1. List(p)
        BY <1>4 DEF List, Paths
      <4>2. QED  BY <4>1, Appended
    <3>2. Len(p) + 1 \in 1 .. Len(Append(p, subs[i]))
      BY <1>4, <3>1, PathIs
    <3>3. QED  BY <2>1, <2>2, <3>1, <3>2, PathIs
  <2>4. /\ Len(children[i]) = Len(p) + 1 /\ children[i] # <<>>
        /\ children[i][Len(p) + 1] = subs[i] /\ Front(children[i]) = p
    BY <1>4, <2>1, <2>3, LongerPath
  <2>5. /\ Under(p, children[i])
        /\ \A q \in Paths : Under(q, children[i]) => Under(q, p) \/ q = children[i]
        /\ \A q \in Paths : Under(children[i], q) <=>
                              Under(p, q) /\ p # q /\ q[Len(p) + 1] = subs[i]
    BY <1>4, <2>1, <2>3, UnderLonger
  <2>6. ~ Under(children[i], p)
    BY <1>4, <2>5
  <2>7. QED  BY <2>1, <2>2, <2>4, <2>5, <2>6
<1>9. \A k \in 2 .. n : /\ k \in 1 .. n /\ k # 1
                        /\ printing[k] \in Paths /\ printing[k] \in DOMAIN nodes
                        /\ ~ Under(printing[k], p) /\ ~ Under(p, printing[k])
  <2>1. \A k \in 2 .. n : k \in 1 .. n /\ k # 1
    BY <1>4
  <2>2. \A k \in 1 .. n : printing[k] \in DOMAIN nodes
    BY <1>2 DEF n
  <2>3. QED  BY <1>2, <1>3, <1>4, <2>1, <2>2
<1>10. /\ printed' \in Seq(DOMAIN nodes)
       /\ \A q : q \in Range(printed') <=> q = p \/ q \in Range(printed)
       /\ IsInjective(printed')
       /\ Len(printed') = Len(printed) + 1 /\ printed'[Len(printed) + 1] = p
       /\ \A i \in 1 .. Len(printed) : printed'[i] = printed[i]
       /\ Len(printed) \in Nat /\ DOMAIN printed = 1 .. Len(printed)
  <2>1. List(printed) /\ Len(printed) \in Nat /\ DOMAIN printed = 1 .. Len(printed)
    BY <1>2 DEF List
  <2>2. p \notin Range(printed)
    BY <1>2, <1>4, UnderFacts
  <2>3. /\ \A q : q \in Range(Append(printed, p)) <=> q = p \/ q \in Range(printed)
        /\ IsInjective(Append(printed, p))
    BY <1>2, <2>1, <2>2, OneMore
  <2>4. /\ Append(printed, p) \in Seq(DOMAIN nodes)
        /\ Len(Append(printed, p)) = Len(printed) + 1
        /\ Append(printed, p)[Len(printed) + 1] = p
        /\ \A i \in 1 .. Len(printed) : Append(printed, p)[i] = printed[i]
    BY <1>2, <1>4
  <2>5. printed' = Append(printed, p)
    BY <1>1 DEF p
  <2>6. QED  BY <2>1, <2>3, <2>4, <2>5
<1>11. Range(printed) \subseteq Paths
  BY <1>2, <1>3, <1>10 DEF Range
<1>12. ASSUME NEW q \in DOMAIN nodes, q \notin Range(printed')
       PROVE  \E i \in 1 .. Len(printing') : Under(printing'[i], q)
  <2>1. PICK k \in 1 .. n : Under(printing[k], q)
    BY <1>2, <1>10, <1>12
  <2>2. CASE k = 1
    <3>1. Child(p, q) /\ p # q /\ Under(p, q)
      BY <1>3, <1>4, <1>10, <1>12, <2>1, <2>2
    <3>2. PICK i \in 1 .. m : q[Len(p) + 1] = subs[i]
      BY <1>5, <1>6, <3>1 DEF Child, Range, List, subs
    <3>3. Under(children[i], q)
      BY <1>3, <1>8, <3>1, <3>2
    <3>4. QED  BY <1>7, <3>3
  <2>3. CASE k # 1
    <3>1. k \in 2 .. n
      BY <1>4, <2>3
    <3>2. QED  BY <1>7, <2>1, <3>1
  <2>4. QED  BY <2>2, <2>3
<1>13. ASSUME NEW i \in 1 .. Len(printing')
       PROVE  /\ \A q \in Range(printed') : ~ Under(printing'[i], q)
              /\ printing'[i] = <<>> \/ Front(printing'[i]) \in Range(printed')
  <2>1. CASE i \in 1 .. m
    <3>1. ASSUME NEW q \in Range(printed) PROVE ~ Under(children[i], q)
      <4>1. ~ Under(p, q) /\ q \in Paths
        BY <1>2, <1>4, <1>11
      <4>2. QED  BY <1>8, <2>1, <4>1
    <3>2. QED  BY <1>7, <1>8, <1>10, <2>1, <3>1
  <2>2. ASSUME NEW k \in 2 .. n, i = m + k - 1
        PROVE  /\ \A q \in Range(printed') : ~ Under(printing'[i], q)
               /\ printing'[i] = <<>> \/ Front(printing'[i]) \in Range(printed')
    <3>1. printing'[i] = printing[k] /\ k \in 1 .. n
      BY <1>7, <1>9, <2>2
    <3>2. \A q \in Range(printed) : ~ Under(printing[k], q)
      BY <1>2, <3>1 DEF n
    <3>3. printing[k] = <<>> \/ Front(printing[k]) \in Range(printed)
      BY <1>2, <3>1 DEF n
    <3>4. \A q \in Range(printed') : ~ Under(printing[k], q)
      BY <1>9, <1>10, <3>2
    <3>5. QED  BY <1>10, <3>1, <3>3, <3>4
  <2>3. QED  BY <1>7, <2>1, <2>2
<1>14. ASSUME NEW i \in 1 .. Len(printing'), NEW j \in 1 .. Len(printing'),
              Under(printing'[i], printing'[j])
       PROVE  i = j
  <2>1. CASE i \in 1 .. m /\ j \in 1 .. m
    <3>1. Under(children[i], children[j])
      BY <1>7, <1>14, <2>1
    <3>2. subs[i] = subs[j]
      BY <1>8, <2>1, <3>1
    <3>3. i \in DOMAIN subs /\ j \in DOMAIN subs
      BY <1>5, <1>6, <2>1 DEF List
    <3>4. QED  BY <1>5, <3>2, <3>3 DEF IsInjective
  <2>2. ASSUME i \in 1 .. m, NEW l \in 2 .. n, j = m + l - 1 PROVE FALSE
    <3>1. Under(children[i], printing[l])
      BY <1>7, <1>14, <2>2
    <3>2. Under(p, printing[l])
      BY <1>8, <1>9, <2>2, <3>1
    <3>3. QED  BY <1>9, <3>2
  <2>3. ASSUME NEW k \in 2 .. n, i = m + k - 1, j \in 1 .. m PROVE FALSE
    <3>1. Under(printing[k], children[j])
      BY <1>7, <1>14, <2>3
    <3>2. Under(printing[k], p) \/ printing[k] = children[j]
      BY <1>8, <1>9, <2>3, <3>1
    <3>3. QED  BY <1>8, <1>9, <2>3, <3>2
  <2>4. ASSUME NEW k \in 2 .. n, i = m + k - 1, NEW l \in 2 .. n, j = m + l - 1
        PROVE  i = j
    <3>1. Under(printing[k], printing[l])
      BY <1>7, <1>14, <2>4
    <3>2. k = l
      BY <1>2, <1>9, <3>1
    <3>3. QED  BY <2>4, <3>2
  <2>5. QED  BY <1>7, <2>1, <2>2, <2>3, <2>4
<1>15. ASSUME NEW i \in 1 .. Len(printed')
       PROVE  printed'[i] = <<>> \/ \E j \in 1 .. i - 1 : printed'[j] = Front(printed'[i])
  <2>1. CASE i \in 1 .. Len(printed)
    <3>1. \A j \in 1 .. i - 1 : j \in 1 .. Len(printed)
      BY <1>10, <2>1
    <3>2. QED  BY <1>2, <1>10, <2>1, <3>1
  <2>2. CASE i = Len(printed) + 1
    <3>1. p = <<>> \/ Front(p) \in Range(printed)
      BY <1>2, <1>4
    <3>2. i - 1 = Len(printed)
      BY <1>10, <2>2
    <3>3. Front(p) \in Range(printed) => \E j \in 1 .. i - 1 : printed'[j] = Front(p)
      BY <1>10, <3>2 DEF Range
    <3>4. QED  BY <1>10, <2>2, <3>1, <3>3
  <2>3. i \in 1 .. Len(printed) \/ i = Len(printed) + 1
    BY <1>10
  <2>4. QED  BY <2>1, <2>2, <2>3
<1>16. QED
  BY <1>1, <1>7, <1>10, <1>12, <1>13, <1>14, <1>15 DEF PrintInv

\* What is owed once everything has been printed.
Exact ==
  /\ Excused \/ \A p \in Paths : p \in Sure =>
                   \A q \in Paths : Under(q, p) => q \in Range(printed)
  /\ \A q \in Range(printed) :
        q \in Paths /\ \E p \in Paths : p \in Possible /\ Under(q, p)
  /\ IsInjective(printed)
  /\ \A i \in DOMAIN printed :
        printed[i] = <<>> \/ \E j \in 1 .. i - 1 : printed[j] = Front(printed[i])

LEMMA ExactIsFound ==
  ASSUME files \in Directories PROVE Exact => FoundExactly
<1> SUFFICES ASSUME Exact PROVE FoundExactly
  OBVIOUS
<1>1. Sure \in SUBSET Paths /\ Possible \in SUBSET Paths
  BY FilesAre, SureAre, PossibleAre
<1>2. /\ \A q : q \in WithParents(Sure) <=> q \in Paths /\ \E p \in Sure : Under(q, p)
      /\ \A q : q \in WithParents(Possible) <=>
                  q \in Paths /\ \E p \in Possible : Under(q, p)
  BY <1>1, ParentsAre
<1>3. Excused \/ WithParents(Sure) \subseteq Range(printed)
  BY <1>1, <1>2 DEF Exact
<1>4. Range(printed) \subseteq WithParents(Possible)
  BY <1>1, <1>2 DEF Exact
<1>5. QED  BY <1>3, <1>4 DEF Exact, FoundExactly, Excused

LEMMA PrintsFinds ==
  ASSUME Found, BlocksInv, Prints PROVE Found'
<1>1. /\ pc = "print" /\ pc' \in {"print", "free"}
      /\ UNCHANGED <<matchVars, files, argv, frames, entry, at, nodes, file_found>>
      /\ \/ pc' = "print"
         \/ pc' = "free" /\ UNCHANGED <<printing, printed>>
            /\ ~ (file_found /\ printing # <<>>)
  BY DEF Prints
<1>2. Asked /\ files \in Directories /\ DOMAIN nodes \subseteq Paths
  BY <1>1 DEF Asked, matchVars, Found, FindTypeOK
<1>3. FindTypeOK'
  BY <1>1 DEF Found, FindTypeOK, Walking
<1>4. MatchInv' /\ NameRead'
  BY <1>1, MatchKept DEF Found, NameRead
<1>5. FramesInv'
  BY <1>1, <1>2, AnswersKept DEF Found, FramesInv
<1>6. EntryInv'
  BY <1>1 DEF EntryInv, AtEntry, Adds, Walking
<1>7. ShapeInv' /\ SoundInv'
  BY <1>1, <1>2, ShapeKept, SoundKept DEF Found
<1>8. CompleteInv'
  BY <1>1, <1>2, CompleteKept DEF Found, Walking
<1>9. CASE pc' = "print"
  <2>1. PrintInv' /\ FoundExactly'
    BY <1>9, PathPrinted DEF FoundExactly
  <2>2. QED  BY <1>3, <1>4, <1>5, <1>6, <1>7, <1>8, <2>1 DEF Found
<1>10. CASE pc' = "free"
  <2>1. PrintInv'
    BY <1>10 DEF PrintInv
  <2>2. /\ printed \in Seq(DOMAIN nodes) /\ printing \in Seq(DOMAIN nodes)
        /\ \A q \in DOMAIN nodes : \/ q \in Range(printed)
                                   \/ \E i \in 1 .. Len(printing) : Under(printing[i], q)
        /\ printed # <<>> => file_found
        /\ IsInjective(printed)
        /\ \A i \in 1 .. Len(printed) :
              printed[i] = <<>> \/ \E j \in 1 .. i - 1 : printed[j] = Front(printed[i])
    BY <1>1 DEF Found, PrintInv
  <2>3. Range(printed) \subseteq DOMAIN nodes /\ DOMAIN printed = 1 .. Len(printed)
    BY <2>2 DEF Range
  <2>4. ~ (file_found /\ printing # <<>>) /\ printed' = printed
    BY <1>1, <1>10
  <2>5. ASSUME NEW p \in Paths, p \in Sure, ~ Excused, NEW q \in Paths, Under(q, p)
        PROVE  q \in Range(printed)
    <3>1. p \in DOMAIN nodes /\ p # <<>>
      <4>1. p \in DOMAIN nodes
        BY <1>1, <2>5 DEF Found, CompleteInv, Walking
      <4>2. QED  BY <1>2, <2>5, <4>1, FilesAre, SureAre
    <3>2. file_found
      BY <3>1 DEF Found, SoundInv
    <3>3. printing = <<>>
      BY <2>4, <3>2
    <3>4. \A r \in DOMAIN nodes : r \in Range(printed)
      <4>1. 1 .. Len(printing) = {}
        BY <3>3, RootIs
      <4>2. QED  BY <2>2, <4>1
    <3>5. q \in DOMAIN nodes
      BY <2>5, <3>1 DEF Found, ShapeInv
    <3>6. QED  BY <3>4, <3>5
  <2>6. ASSUME NEW q \in Range(printed)
        PROVE  q \in Paths /\ \E p \in Paths : p \in Possible /\ Under(q, p)
    <3>1. q \in DOMAIN nodes /\ q \in Paths
      BY <1>2, <2>3
    <3>2. file_found
      <4>1. printed # <<>>
        BY <2>2, <2>3, <2>6 DEF Range
      <4>2. QED  BY <2>2, <4>1
    <3>3. CASE q = <<>>
      <4>1. PICK p \in Paths : p \in Possible
        BY <3>2 DEF Found, SoundInv
      <4>2. Under(q, p)
        BY <3>1, <3>3, UnderFacts
      <4>3. QED  BY <3>1, <4>1, <4>2
    <3>4. CASE q # <<>>
      BY <3>1, <3>4 DEF Found, SoundInv
    <3>5. QED  BY <3>3, <3>4
  <2>7. Exact
    BY <2>2, <2>3, <2>5, <2>6 DEF Exact
  <2>8. Exact'
    BY <1>2, <2>4, <2>7, AnswersKept DEF Exact
  <2>9. FoundExactly'
    <3>1. (files \in Directories)'
      BY <1>1, <1>2
    <3>2. (files \in Directories)' => (Exact' => FoundExactly')
      BY ExactIsFound, PTL
    <3>3. QED  BY <2>8, <3>1, <3>2
  <2>10. QED
    BY <1>3, <1>4, <1>5, <1>6, <1>7, <1>8, <2>1, <2>9 DEF Found
<1>11. QED  BY <1>1, <1>9, <1>10

\* Freeing and standing still.
LEMMA FoundKept ==
  ASSUME Found,
         UNCHANGED <<matchVars, files, argv, frames, entry, at, nodes, file_found,
                     printing, printed>>,
         pc' = pc \/ (pc \in {"free", "ended"} /\ pc' \in {"free", "ended"})
  PROVE  Found'
<1>1. Asked
  BY DEF Asked, matchVars
<1>2. FindTypeOK'
  BY DEF Found, FindTypeOK, Walking
<1>3. MatchInv'
  BY MatchKept DEF Found
<1>4. NameRead'
  <2>1. Criteria' = Criteria
    BY <1>1, AnswersKept
  <2>2. make_lover_case(Last(entry))' = make_lover_case(Last(entry))
    BY DEF make_lover_case, Last
  <2>3. QED  BY <2>1, <2>2 DEF Found, NameRead, matchVars
<1>5. FramesInv'
  BY <1>1, AnswersKept DEF Found, FramesInv
<1>6. EntryInv'
  <2>1. Reached(entry)' <=> Reached(entry)
    BY DEF Reached
  <2>2. Criteria' = Criteria
    BY <1>1, AnswersKept
  <2>3. Possible' = Possible
    BY <1>1, AnswersKept
  <2>4. Under(at, entry)' <=> Under(at, entry)
    BY DEF Under
  <2>5. QED  BY <2>1, <2>3, <2>4 DEF Found, EntryInv, Frame, AtEntry, Adds, Walking
<1>7. ShapeInv'
  <2>1. \A p, q : Child(q, p)' <=> Child(q, p)
    BY DEF Child
  <2>2. NextName' = NextName
    BY DEF NextName
  <2>3. QED  BY <2>1, <2>2 DEF Found, ShapeInv
<1>8. SoundInv'
  BY <1>1, SoundKept DEF Found
<1>9. CompleteInv'
  <2>1. Sure' = Sure
    BY <1>1, AnswersKept
  <2>2. Excused' <=> Excused
    BY <1>1, AnswersKept
  <2>3. pc \in Walking \cup {"arguments"} => pc' = pc
    BY DEF Walking
  <2>4. \A p : pc \in Walking /\ ToCome(p) => ToCome(p)'
    BY <2>3 DEF ToCome
  <2>5. QED  BY <2>1, <2>2, <2>3, <2>4 DEF Found, CompleteInv
<1>10. PrintInv'
  BY DEF Found, PrintInv
<1>11. FoundExactly'
  <2>1. Sure' = Sure /\ Possible' = Possible /\ Criteria' = Criteria
    BY <1>1, AnswersKept
  <2>2. WithParents(Sure)' = WithParents(Sure) /\ WithParents(Possible)' = WithParents(Possible)
    BY <2>1 DEF WithParents
  <2>3. printed' = printed /\ syntax' = syntax
    BY DEF matchVars
  <2>4. pc' \in {"free", "ended"} => pc \in {"free", "ended"}
    OBVIOUS
  <2>5. WrongNo(syntax)' <=> WrongNo(syntax)
    BY <2>3
  <2>6. QED  BY <2>1, <2>2, <2>3, <2>4, <2>5 DEF Found, FoundExactly
<1>12. QED
  BY <1>2, <1>3, <1>4, <1>5, <1>6, <1>7, <1>8, <1>9, <1>10, <1>11 DEF Found

-------------------------------------------------------------------------------
LEMMA FoundInit == SearchInit => FindInv
<1> SUFFICES ASSUME SearchInit PROVE Found
  BY DEF FindInv
<1>1. /\ MatchInit /\ files \in Directories /\ pc = "arguments"
      /\ frames = <<>> /\ entry = <<>> /\ at = <<>>
      /\ nodes = [p \in {<<>>} |-> Node(NULL)]
      /\ file_found = FALSE /\ printing = <<>> /\ printed = <<>>
  BY DEF SearchInit
<1>2. DOMAIN nodes = {<<>>} /\ nodes[<<>>].subs = <<>>
  BY <1>1 DEF Node
<1>3. FindTypeOK
  BY <1>1, <1>2, RootIs DEF FindTypeOK, Walking
<1>4. MatchInv
  BY <1>1, MatchTypeInit DEF MatchInit, MatchInv, MatchIsRight
<1>5. NameRead /\ FramesInv /\ EntryInv
  BY <1>1 DEF NameRead, FramesInv, EntryInv, AtEntry, Adds, Walking
<1>6. ShapeInv
  <2>1. ASSUME NEW q \in Paths, Under(q, <<>>) PROVE q = <<>>
    <3>1. Len(q) <= 0 /\ Len(q) \in Nat
      BY <2>1, RootIs, PathIs DEF Under
    <3>2. QED  BY <3>1, PathIs
  <2>2. IsInjective(<<>>)
    BY DEF IsInjective
  <2>3. QED  BY <1>1, <1>2, <2>1, <2>2 DEF ShapeInv
<1>7. SoundInv
  BY <1>1, <1>2 DEF SoundInv
<1>8. CompleteInv
  BY <1>1 DEF CompleteInv
<1>9. PrintInv /\ FoundExactly
  BY <1>1 DEF PrintInv, FoundExactly
<1>10. QED  BY <1>3, <1>4, <1>5, <1>6, <1>7, <1>8, <1>9 DEF Found

LEMMA FindStep ==
  ASSUME BlocksInv, FindInv, [SearchNext]_allVars PROVE FindInv'
<1>1. CASE UNCHANGED allVars
  <2>1. UNCHANGED <<matchVars, files, argv, frames, entry, at, nodes, file_found,
                    printing, printed>> /\ pc' = pc
    BY <1>1 DEF allVars, searchVars
  <2>2. QED  BY <2>1, FoundKept DEF FindInv
<1>2. CASE Interrupts
  BY <1>2 DEF Interrupts, FindInv
<1>3. CASE Runs
  <2>1. pc # "exited"
    BY <1>3 DEF Runs, TakesArguments, SkipsHidden, Walks, ReadsEntry, MatchesName, Tests,
                Descends, WalkReturns, GoesDown, HasRoom, Allocates, Reallocs,
                StoresBlock, PlacesEntry, Clears,
                Added, Prints, Frees
  <2>2. Found
    BY <2>1 DEF FindInv
  <2>3. CASE Frees
    <3>1. /\ UNCHANGED <<matchVars, files, argv, frames, entry, at, nodes, file_found,
                         printing, printed>>
          /\ pc = "free" /\ pc' \in {"free", "ended"}
      BY <2>3 DEF Frees
    <3>2. QED  BY <2>2, <3>1, FoundKept DEF FindInv
  <2>4. CASE ~ Frees
    BY <1>3, <2>2, <2>4, TakesArgumentsFinds, SkipsHiddenFinds, ReadsEntryFinds,
       MatchesNameFinds, TestsFinds, DescendsFinds, WalkReturnsFinds, GoesDownFinds,
       MakesRoomFinds, StoresBlockFinds, PlacesEntryFinds, ClearsFinds, AddedFinds, PrintsFinds
       DEF Runs, FindInv
  <2>5. QED  BY <2>3, <2>4
<1>4. QED  BY <1>1, <1>2, <1>3 DEF SearchNext

\* hw1 prints, for any directory, criteria, pattern and names: every path that
\* meets the criteria, where the pattern neither begins with a + nor has a + before
\* the character it repeats; nothing but such paths, those whose stat() failed and
\* those is_match() may take for such, names with a + among them; and the
\* directories above them, each once and below its parent.
THEOREM SearchFindsExactly == SearchSpec => []FoundExactly
<1>1. SearchInit => BlocksInv /\ FindInv
  BY BlocksInvInit, FoundInit
<1>2. BlocksInv /\ FindInv /\ [SearchNext]_allVars => (BlocksInv /\ FindInv)'
  BY BlocksInvStep, FindStep
<1>3. FindInv => FoundExactly
  BY DEF FindInv, Found, FoundExactly
<1>4. QED  BY <1>1, <1>2, <1>3, PTL DEF SearchSpec

-------------------------------------------------------------------------------
(* What is freed *)

\* A name of the tree is listed in the node above it at one index.
LEMMA ListedOnce ==
  ASSUME Found, NEW p \in DOMAIN nodes, NEW k \in DOMAIN p
  PROVE  LET subs == nodes[SubSeq(p, 1, k - 1)].subs
         IN \E i \in DOMAIN subs :
               /\ subs[i] = p[k] /\ i \in Indices
               /\ \A j \in DOMAIN subs : subs[j] = p[k] => j = i
<1> DEFINE q    == SubSeq(p, 1, k - 1)
           subs == nodes[q].subs
<1>1. p \in Paths /\ Len(p) \in Nat /\ k \in 1 .. Len(p)
  BY PathIs DEF Found, FindTypeOK
<1>2. /\ q \in Paths /\ Len(q) = k - 1
      /\ \A i \in 1 .. k - 1 : q[i] = p[i]
  <2>1. k - 1 \in 0 .. Len(p)
    BY <1>1
  <2>2. QED  BY <1>1, <2>1, StartOf
<1> HIDE DEF q
<1>3. Under(q, p) /\ q # p /\ Len(q) + 1 = k
  <2>1. Len(q) <= Len(p) /\ Len(q) # Len(p) /\ Len(q) + 1 = k
    BY <1>1, <1>2
  <2>2. QED  BY <1>2, <2>1 DEF Under
<1>4. q \in DOMAIN nodes /\ p[k] \in Range(subs) /\ IsInjective(subs)
  <2>1. q \in DOMAIN nodes /\ Child(q, p)
    BY <1>2, <1>3 DEF Found, ShapeInv
  <2>2. QED  BY <1>3, <2>1 DEF Found, ShapeInv, Child
<1>5. PICK i \in DOMAIN subs : subs[i] = p[k]
  BY <1>4 DEF Range
<1>6. i \in Indices
  BY <1>4, <1>5 DEF Indices
<1>7. \A j \in DOMAIN subs : subs[j] = p[k] => j = i
  BY <1>4, <1>5 DEF IsInjective
<1>8. QED  BY <1>5, <1>6, <1>7 DEF q

\* So there is one way to it from the root.
LEMMA VisitedOnce ==
  ASSUME Found, NEW p \in DOMAIN nodes PROVE Visits(p) = 1
<1> DEFINE subs(k) == nodes[SubSeq(p, 1, k - 1)].subs
           Leads(k, i) == i \in DOMAIN subs(k) /\ subs(k)[i] = p[k]
           ways == {way \in [DOMAIN p -> Indices] :
                      \A k \in DOMAIN p : Leads(k, way[k])}
           only == [k \in DOMAIN p |-> CHOOSE i \in Indices : Leads(k, i)]
<1>1. Visits(p) = Cardinality(ways)
  BY DEF Visits
<1>2. \A k \in DOMAIN p : \E i \in Indices : Leads(k, i) /\ \A j : Leads(k, j) => j = i
  BY ListedOnce
<1> HIDE DEF Leads
<1>3. only \in ways
  <2>1. \A k \in DOMAIN p : only[k] \in Indices /\ Leads(k, only[k])
    BY <1>2
  <2>2. only = [k \in DOMAIN p |-> only[k]]
    OBVIOUS
  <2> HIDE DEF only
  <2>3. only \in [DOMAIN p -> Indices]
    BY <2>1, <2>2
  <2>4. QED  BY <2>1, <2>3
<1>4. ASSUME NEW way \in ways PROVE way = only
  <2>1. \A k \in DOMAIN p : Leads(k, way[k]) /\ Leads(k, only[k])
    BY <1>3
  <2>2. \A k \in DOMAIN p : way[k] = only[k]
    BY <1>2, <2>1
  <2>3. way \in [DOMAIN p -> Indices] /\ only \in [DOMAIN p -> Indices]
    BY <1>3
  <2> HIDE DEF only
  <2>4. QED  BY <2>2, <2>3
<1> HIDE DEF only
<1>5. ways = {only}
  BY <1>3, <1>4
<1>6. QED  BY <1>1, <1>5, FS_Singleton

\* free_tree() of main() frees each block once.
OnceInv == pc = "free" => \A p \in DOMAIN freed :
                             freed[p] = 0 \/ (freed[p] = 1 /\ p \in Blocks)

\* What is counted in freed.
LEMMA BlocksAre ==
  ASSUME Found, BlocksInv
  PROVE  /\ Blocks \subseteq DOMAIN freed /\ Blocks \subseteq DOMAIN nodes
         /\ pc # "clear" => \A p \in Blocks : nodes[p].allocated # Unset
<1>1. DOMAIN freed = DOMAIN files \cup {<<>>}
  <2>1. freed = [p \in DOMAIN files \cup {<<>>} |-> freed[p]]
    BY DEF BlocksInv, FreedInv
  <2>2. QED  BY <2>1
<1>2. DOMAIN nodes \subseteq DOMAIN files \cup {<<>>}
  <2>1. ASSUME NEW p \in DOMAIN nodes, p # <<>> PROVE p \in DOMAIN files
    <3>1. PICK q \in Paths : q \in Possible /\ Under(p, q)
      BY <2>1 DEF Found, SoundInv
    <3>2. q \in DOMAIN files /\ p \in Paths /\ files \in Directories
      BY <3>1, PossibleAre DEF Found, FindTypeOK
    <3>3. QED  BY <2>1, <3>1, <3>2, FilesAre
  <2>2. QED  BY <2>1
<1>3. Blocks \subseteq DOMAIN nodes
  BY DEF Blocks
<1>4. pc # "clear" => \A p \in Blocks : nodes[p].allocated # Unset
  BY <1>3 DEF BlocksInv, TreeInv, Found, FindTypeOK, Walking
<1>5. QED  BY <1>1, <1>2, <1>3, <1>4

LEMMA FreesOnce ==
  ASSUME Found, BlocksInv, OnceInv, Frees
  PROVE  /\ OnceInv'
         /\ pc' = "ended" =>
              \A p \in DOMAIN freed :
                 freed'[p] = IF p \in Blocks /\ nodes[p].allocated # Unset
                             THEN 1 ELSE 0
<1> DEFINE left == {p \in Blocks : freed[p] < Visits(p)}
<1>1. /\ pc = "free" /\ UNCHANGED nodes
      /\ \/ pc' = "ended" /\ left = {} /\ freed' = freed
         \/ pc' = "free" /\ \E p \in left : freed' = [freed EXCEPT ![p] = @ + 1]
  BY DEF Frees
<1>2. /\ \A p \in Blocks : /\ p \in DOMAIN freed /\ nodes[p].allocated # Unset
                           /\ Visits(p) = 1
      /\ \A p \in DOMAIN freed : freed[p] = 0 \/ (freed[p] = 1 /\ p \in Blocks)
  BY <1>1, BlocksAre, VisitedOnce DEF OnceInv
<1>3. Blocks' = Blocks
  BY <1>1 DEF Blocks
<1>4. CASE pc' = "ended"
  <2>1. freed' = freed /\ \A p \in Blocks : ~ (freed[p] < 1)
    BY <1>1, <1>2, <1>4
  <2>2. \A p \in Blocks : freed[p] = 1
    BY <1>2, <2>1
  <2>3. QED  BY <1>2, <1>4, <2>1, <2>2 DEF OnceInv
<1>5. CASE pc' # "ended"
  <2>1. PICK p \in left : freed' = [freed EXCEPT ![p] = @ + 1]
    BY <1>1, <1>5
  <2>2. p \in Blocks /\ p \in DOMAIN freed /\ freed[p] < 1
    BY <1>2
  <2>3. freed[p] = 0
    BY <1>2, <2>2
  <2>4. /\ DOMAIN freed' = DOMAIN freed
        /\ \A r \in DOMAIN freed : freed'[r] = IF r = p THEN 1 ELSE freed[r]
    <3>1. freed = [r \in DOMAIN files \cup {<<>>} |-> freed[r]]
      BY DEF BlocksInv, FreedInv
    <3>2. freed' = [r \in DOMAIN freed |-> IF r = p THEN freed[p] + 1 ELSE freed[r]]
      BY <2>1, <3>1
    <3>3. QED  BY <2>3, <3>2
  <2>5. \A r \in DOMAIN freed' : freed'[r] = 0 \/ (freed'[r] = 1 /\ r \in Blocks)
    BY <1>2, <2>2, <2>4
  <2>6. QED  BY <1>3, <1>5, <2>5 DEF OnceInv
<1>6. QED  BY <1>4, <1>5

LEMMA InterruptsOnce ==
  ASSUME Found, BlocksInv, Interrupts, ~ Misplaced
  PROVE  \A p \in DOMAIN freed :
            freed'[p] = IF p \in Blocks /\ nodes[p].allocated # Unset THEN 1 ELSE 0
<1>1. /\ pc \notin {"clear", "free", "ended", "exited"}
      /\ pc = "store" => nodes[at].allocated = NULL
  BY DEF Misplaced, Interrupts
<1>2. \A p \in DOMAIN freed : freed[p] = 0
  BY <1>1 DEF BlocksInv, FreedInv
<1>3. \A p \in Blocks : /\ p \in DOMAIN freed /\ nodes[p].allocated # Unset
                        /\ Visits(p) = 1
  BY <1>1, BlocksAre, VisitedOnce
<1>4. ~ \E p \in Blocks : freed[p] > 0 \/ nodes[p].allocated = Unset
  <2>1. ~ (0 > 0)
    OBVIOUS
  <2>2. QED  BY <1>2, <1>3, <2>1
<1>5. freed' = [p \in DOMAIN freed |->
                  freed[p] + IF p \in Blocks THEN Visits(p) ELSE 0]
  BY <1>4 DEF Interrupts
<1>6. \A p \in DOMAIN freed : freed'[p] = IF p \in Blocks THEN 1 ELSE 0
  BY <1>2, <1>3, <1>5
<1>7. QED  BY <1>3, <1>6

LEMMA OnceStep ==
  ASSUME Found, BlocksInv, OnceInv, [SearchNext]_allVars PROVE OnceInv'
<1>1. CASE Frees
  BY <1>1, FreesOnce
<1>2. CASE UNCHANGED allVars
  BY <1>2 DEF allVars, searchVars, OnceInv, Blocks
<1>3. CASE Interrupts
  BY <1>3 DEF Interrupts, OnceInv
<1>4. CASE Prints
  <2>1. pc = "print" /\ freed' = freed
    BY <1>4 DEF Prints
  <2>2. \A p \in DOMAIN freed : freed[p] = 0
    BY <2>1 DEF BlocksInv, FreedInv
  <2>3. QED  BY <2>1, <2>2 DEF OnceInv
<1>5. CASE \/ TakesArguments \/ SkipsHidden \/ ReadsEntry \/ MatchesName \/ Tests
           \/ Descends \/ WalkReturns \/ GoesDown \/ HasRoom \/ Allocates \/ Reallocs
           \/ StoresBlock \/ PlacesEntry \/ Clears \/ Added
  <2>1. pc' # "free"
    BY <1>5 DEF TakesArguments, SkipsHidden, Walks, ReadsEntry, MatchesName, searchVars,
                Tests, Descends, WalkReturns, GoesDown, HasRoom, Allocates, Reallocs,
                StoresBlock, PlacesEntry, Clears, Added
  <2>2. QED  BY <2>1 DEF OnceInv
<1>6. QED  BY <1>1, <1>2, <1>3, <1>4, <1>5 DEF SearchNext, Runs

\* No entry is ever counted behind its block, and whoever frees the tree, main at
\* the end or the handler of SIGINT at any moment at which every pointer of it is
\* to a block of its own, frees each block once and nothing else.
THEOREM BlocksAreSound == SearchSpec => BlocksSound
<1> DEFINE Room == \A p \in DOMAIN nodes :
                      nodes[p].allocated # Unset =>
                        Len(nodes[p].subs) <= nodes[p].allocated
           Once == pc' = "ended" \/ (Interrupts /\ ~ Misplaced) =>
                     \A p \in DOMAIN freed :
                        freed'[p] = IF p \in Blocks /\ nodes[p].allocated # Unset
                                    THEN 1 ELSE 0
           Inv  == BlocksInv /\ FindInv /\ (pc # "exited" => OnceInv)
<1>1. SearchInit => Inv
  BY BlocksInvInit, FoundInit DEF SearchInit, OnceInv
<1>2. Inv /\ [SearchNext]_allVars => Inv'
  <2> SUFFICES ASSUME Inv, [SearchNext]_allVars PROVE Inv'
    OBVIOUS
  <2>1. BlocksInv' /\ FindInv'
    BY BlocksInvStep, FindStep
  <2>2. CASE pc = "exited"
    <3>1. pc' = "exited"
      BY <2>2 DEF SearchNext, Runs, TakesArguments, SkipsHidden, Walks, ReadsEntry,
                  MatchesName, Tests, Descends, WalkReturns, GoesDown, HasRoom, Allocates,
                  Reallocs, StoresBlock, PlacesEntry, Clears, Added, Prints, Frees,
                  Interrupts, allVars, searchVars
    <3>2. QED  BY <2>1, <3>1
  <2>3. CASE pc # "exited"
    BY <2>1, <2>3, OnceStep DEF FindInv
  <2>4. QED  BY <2>2, <2>3
<1>3. Inv /\ SearchNext => Once
  <2> SUFFICES ASSUME Inv, SearchNext PROVE Once
    OBVIOUS
  <2>1. CASE Interrupts
    <3>1. Found /\ pc' = "exited"
      BY <2>1 DEF Interrupts, FindInv
    <3>2. QED  BY <3>1, InterruptsOnce
  <2>2. CASE ~ Interrupts
    <3>1. ASSUME pc' = "ended" PROVE Frees
      BY <2>2, <3>1 DEF SearchNext, Runs, TakesArguments, SkipsHidden, Walks, ReadsEntry,
                MatchesName, searchVars, Tests, Descends, WalkReturns, GoesDown, HasRoom,
                Allocates, Reallocs, StoresBlock, PlacesEntry, Clears, Added, Prints
    <3>2. ASSUME Frees PROVE Found /\ OnceInv
      BY <3>2 DEF Frees, FindInv
    <3>3. QED  BY <2>2, <3>1, <3>2, FreesOnce
  <2>3. QED  BY <2>1, <2>2
<1>4. Inv /\ Inv' /\ [SearchNext]_allVars =>
        [/\ \A p \in DOMAIN nodes' :
              nodes'[p].allocated # Unset => Len(nodes'[p].subs) <= nodes'[p].allocated
         /\ pc' = "ended" \/ (Interrupts /\ ~ Misplaced) =>
              \A p \in DOMAIN freed :
                 freed'[p] = IF p \in Blocks /\ nodes[p].allocated # Unset
                             THEN 1 ELSE 0]_allVars
  <2>1. Inv' => Room'
    <3>1. BlocksInv' => Room'
      BY RoomAlways, PTL
    <3>2. QED  BY <3>1
  <2>2. QED  BY <1>3, <2>1
<1>5. QED
  <2> HIDE DEF Inv
  <2>1. QED  BY <1>1, <1>2, <1>4, PTL DEF SearchSpec, BlocksSound

-------------------------------------------------------------------------------
(* select_distinct() *)

\* The answer a to a distinct q of the table T, as DistinctIsRight has it.
DistinctRight(q, T, a) ==
  LET lines == Tail(a)
      first(line) == CHOOSE i \in Rows :
                        /\ Projection(q, T[i]) = line
                        /\ \A j \in Rows : Projection(q, T[j]) = line => i <= j
  IN /\ a[1] = q.columns
     /\ {lines[k] : k \in DOMAIN lines} = {Projection(q, T[i]) : i \in Rows}
     /\ \A k, l \in DOMAIN lines : k < l => first(lines[k]) < first(lines[l])

\* What is behind the first element of a list.
LEMMA TailOfList ==
  ASSUME NEW n \in Nat, n >= 1, NEW a, a = [k \in 1 .. n |-> a[k]]
  PROVE  /\ DOMAIN Tail(a) = 1 .. n - 1
         /\ \A k \in 1 .. n - 1 : Tail(a)[k] = a[k + 1]
<1> DEFINE S == {a[k] : k \in 1 .. n}
<1>1. a \in [1 .. n -> S]
  OBVIOUS
<1> HIDE DEF S
<1>2. a \in Seq(S) /\ DOMAIN a = 1 .. n /\ Len(a) = n
  <2>1. a \in Seq(S) /\ DOMAIN a = 1 .. n
    BY <1>1
  <2>2. DOMAIN a = 1 .. Len(a) /\ Len(a) \in Nat
    BY <2>1
  <2>3. QED  BY <2>1, <2>2
<1>3. a # <<>>
  BY <1>2
<1>4. Tail(a) \in Seq(S) /\ Len(Tail(a)) = n - 1
  BY <1>2, <1>3
<1>5. QED  BY <1>2, <1>3, <1>4

\* Of the rows with some property there is a first.
LEMMA FirstRow ==
  ASSUME NEW E \in SUBSET Rows, E # {}
  PROVE  \E r \in E : \A t \in E : r <= t
<1>1. tnum_of_row - 1 \in Int
  BY TableAssumption
<1>2. E \in SUBSET (0 .. tnum_of_row - 1) /\ E \in SUBSET Int
  BY <1>1 DEF Rows, RowNumbers
<1>3. IsFiniteSet(E)
  <2>1. IsFiniteSet(0 .. tnum_of_row - 1)
    BY <1>1, FS_Interval
  <2>2. QED  BY <1>2, <2>1, FS_Subset
<1>4. Cardinality(E) \in Nat /\ Cardinality(E) # 0
  BY <1>3, FS_CardinalityType, FS_EmptySet
<1>5. 1 \in 1 .. Cardinality(E)
  BY <1>4
<1>6. Nth(E, 1) \in E
  BY <1>2, <1>3, <1>5, NthCounts
<1>7. ASSUME NEW t \in E PROVE Nth(E, 1) <= t
  <2>1. PICK k \in 1 .. Cardinality(E) : Nth(E, k) = t
    BY <1>2, <1>3, NthCounts
  <2>2. CASE k = 1
    <3>1. t \in Int
      BY <1>2
    <3>2. QED  BY <2>1, <2>2, <3>1
  <2>3. CASE k # 1
    <3>1. 1 < k
      BY <1>4, <2>3
    <3>2. Nth(E, 1) < Nth(E, k)
      BY <1>2, <1>3, <1>5, <3>1, NthCounts
    <3>3. Nth(E, 1) \in Int /\ t \in Int
      BY <1>2, <1>6
    <3>4. QED  BY <2>1, <3>2, <3>3
  <2>4. QED  BY <2>2, <2>3
<1>8. QED  BY <1>6, <1>7

\* The rows a loop sends, of which row 0 is the first.
LEMMA SentInOrder ==
  ASSUME NEW S \in SUBSET RowNumbers, 0 \in S
  PROVE  /\ Cardinality(S) \in Nat /\ Cardinality(S) >= 1
         /\ Nth(S, 1) = 0
         /\ \A k \in 1 .. Cardinality(S) : Nth(S, k) \in S
         /\ \A k \in 2 .. Cardinality(S) : Nth(S, k) \in S \ {0}
         /\ \A r \in S \ {0} : \E k \in 2 .. Cardinality(S) : Nth(S, k) = r
         /\ \A k, l \in 1 .. Cardinality(S) : k < l => Nth(S, k) < Nth(S, l)
<1>1. tnum_of_row - 1 \in Int
  BY TableAssumption
<1>2. S \in SUBSET (0 .. tnum_of_row - 1) /\ S \in SUBSET Int
  BY <1>1 DEF RowNumbers
<1>3. IsFiniteSet(S)
  <2>1. IsFiniteSet(0 .. tnum_of_row - 1)
    BY <1>1, FS_Interval
  <2>2. QED  BY <1>2, <2>1, FS_Subset
<1> DEFINE n == Cardinality(S)
<1>4. n \in Nat /\ n # 0
  BY <1>3, FS_CardinalityType, FS_EmptySet
<1>5. /\ \A k \in 1 .. n : Nth(S, k) \in S
      /\ \A r \in S : \E k \in 1 .. n : Nth(S, k) = r
      /\ \A k, l \in 1 .. n : k < l => Nth(S, k) < Nth(S, l)
  BY <1>2, <1>3, NthCounts
<1> HIDE DEF n
<1>6. \A k \in 1 .. n : Nth(S, k) \in Int /\ Nth(S, k) >= 0
  <2>1. \A r \in S : r \in Int /\ r >= 0
    BY <1>1, <1>2
  <2>2. QED  BY <1>5, <2>1
<1>7. Nth(S, 1) = 0
  <2>1. PICK k \in 1 .. n : Nth(S, k) = 0
    BY <1>5
  <2>2. 1 \in 1 .. n /\ (k = 1 \/ 1 < k)
    BY <1>4
  <2>3. 1 < k => Nth(S, 1) < 0
    BY <1>5, <2>1, <2>2
  <2>4. ~ (Nth(S, 1) < 0)
    BY <1>6, <2>2
  <2>5. QED  BY <2>1, <2>2, <2>3, <2>4
<1>8. ASSUME NEW k \in 2 .. n PROVE Nth(S, k) \in S \ {0}
  <2>1. k \in 1 .. n /\ 1 \in 1 .. n /\ 1 < k
    BY <1>4
  <2>2. 0 < Nth(S, k)
    BY <1>5, <1>7, <2>1
  <2>3. QED  BY <1>5, <2>1, <2>2
<1>9. ASSUME NEW r \in S \ {0} PROVE \E k \in 2 .. n : Nth(S, k) = r
  <2>1. PICK k \in 1 .. n : Nth(S, k) = r
    BY <1>5
  <2>2. k # 1
    BY <1>7, <2>1
  <2>3. k \in 2 .. n
    BY <1>4, <2>2
  <2>4. QED  BY <2>1, <2>3
<1>10. n >= 1
  BY <1>4
<1>11. QED  BY <1>4, <1>5, <1>7, <1>8, <1>9, <1>10 DEF n

LEMMA DistinctAnswer ==
  ASSUME NEW q, q.type = "select_distinct", Valid(q), List(q.columns),
         NEW T, T[0] = Header
  PROVE  DistinctRight(q, Updated(q, T, 0), Response(q, T))
<1> DEFINE U == Updated(q, T, 0)
           a == Response(q, T)
           S == {r \in RowNumbers : is_distinct(q, T, r)}
           n == Cardinality(S)
           P(r) == Projection(q, T[r])
<1>1. \A r \in RowNumbers : U[r] = T[r]
  BY DEF Updated, UpdatesRow
<1>2. /\ S \in SUBSET RowNumbers
      /\ 0 \in S
  <2>1. 0 \in RowNumbers
    BY TableAssumption DEF RowNumbers
  <2>2. is_distinct(q, T, 0)
    BY DEF is_distinct
  <2>3. QED  BY <2>1, <2>2
<1>3. a = [k \in 1 .. n |-> Projection(q, U[Nth(S, k)])]
  <2>1. S = {r \in 0 .. tnum_of_row - 1 : Sends(q, T, r)}
    BY DEF Sends, RowNumbers
  <2>2. \A row : Line(q, row) = Projection(q, row)
    BY DEF Line
  <2>3. a = [k \in 1 .. n |-> Line(q, U[Nth(S, k)])]
    BY <2>1 DEF Response, ResponseFrom
  <2>4. QED  BY <2>2, <2>3
<1>4. \A r \in S : r \in RowNumbers /\ is_distinct(q, T, r)
  OBVIOUS
<1>5. ASSUME NEW i \in RowNumbers, is_distinct(q, T, i) PROVE i \in S
  BY <1>5
<1> HIDE DEF S
<1>6. /\ n \in Nat /\ n >= 1
      /\ Nth(S, 1) = 0
      /\ \A k \in 1 .. n : Nth(S, k) \in S
      /\ \A k \in 2 .. n : Nth(S, k) \in S \ {0}
      /\ \A r \in S \ {0} : \E k \in 2 .. n : Nth(S, k) = r
      /\ \A k, l \in 1 .. n : k < l => Nth(S, k) < Nth(S, l)
  BY <1>2, SentInOrder
<1> HIDE DEF U, n
<1>7. a = [k \in 1 .. n |-> P(Nth(S, k))]
  <2>1. \A k \in 1 .. n : U[Nth(S, k)] = T[Nth(S, k)]
    BY <1>1, <1>2, <1>6
  <2>2. QED  BY <1>3, <2>1
<1> HIDE DEF a
<1>8. a[1] = q.columns
  <2>1. a[1] = Projection(q, Header)
    BY <1>6, <1>7
  <2>2. \A j \in DOMAIN q.columns : Header[q.columns[j]] = q.columns[j]
    BY DEF Valid, Named, Header
  <2>3. Projection(q, Header) = [j \in DOMAIN q.columns |-> q.columns[j]]
    BY <2>2 DEF Projection, Project
  <2>4. q.columns = [j \in DOMAIN q.columns |-> q.columns[j]]
    BY DEF List
  <2>5. QED  BY <2>1, <2>3, <2>4
<1> DEFINE lines == Tail(a)
<1>9. /\ DOMAIN lines = 1 .. n - 1
      /\ \A k \in 1 .. n - 1 : lines[k] = P(Nth(S, k + 1))
  <2>1. \A k \in 1 .. n : a[k] = P(Nth(S, k))
    BY <1>7
  <2>2. a = [k \in 1 .. n |-> a[k]]
    BY <1>7, <2>1
  <2>3. /\ DOMAIN lines = 1 .. n - 1
        /\ \A k \in 1 .. n - 1 : lines[k] = a[k + 1]
    BY <1>6, <2>2, TailOfList
  <2>4. \A k \in 1 .. n - 1 : k + 1 \in 1 .. n
    BY <1>6
  <2>5. QED  BY <2>1, <2>3, <2>4
<1> HIDE DEF lines
\* The rows whose lines are sent, in the order of the lines.
<1> DEFINE row(k) == Nth(S, k + 1)
<1>10. ASSUME NEW k \in 1 .. n - 1
       PROVE  row(k) \in Rows /\ row(k) \in S /\ lines[k] = P(row(k))
  <2>1. k + 1 \in 2 .. n
    BY <1>6
  <2>2. QED  BY <1>2, <1>6, <1>9, <2>1 DEF Rows
<1>11. ASSUME NEW k \in 1 .. n - 1, NEW l \in 1 .. n - 1, k < l
       PROVE  row(k) < row(l)
  <2>1. k + 1 \in 1 .. n /\ l + 1 \in 1 .. n /\ k + 1 < l + 1
    BY <1>6, <1>11
  <2>2. QED  BY <1>6, <2>1
<1>12. ASSUME NEW r \in S, r # 0
       PROVE  \E k \in 1 .. n - 1 : row(k) = r
  <2>1. PICK m \in 2 .. n : Nth(S, m) = r
    BY <1>6, <1>12
  <2>2. m - 1 \in 1 .. n - 1 /\ (m - 1) + 1 = m
    BY <1>6
  <2>3. QED  BY <2>1, <2>2
<1> HIDE DEF row
\* Each is the first record with its values.
<1>13. ASSUME NEW r \in S, r \in Rows, NEW j \in Rows, P(j) = P(r)
       PROVE  r <= j
  <2>1. r \in Int /\ j \in Int /\ j >= 1 /\ r >= 1
    BY TableAssumption, <1>13 DEF Rows, RowNumbers
  <2>2. ~ (j < r)
    <3>1. \A k \in 1 .. r - 1 : P(k) # P(r)
      BY <1>4 DEF is_distinct
    <3>2. j < r => j \in 1 .. r - 1
      BY <2>1
    <3>3. QED  BY <1>13, <3>1, <3>2
  <2>3. QED  BY <2>1, <2>2
<1> DEFINE first(line) == CHOOSE i \in Rows :
                             /\ P(i) = line
                             /\ \A j \in Rows : P(j) = line => i <= j
<1>14. ASSUME NEW k \in 1 .. n - 1 PROVE first(lines[k]) = row(k)
  <2>1. /\ row(k) \in Rows /\ P(row(k)) = lines[k]
        /\ \A j \in Rows : P(j) = lines[k] => row(k) <= j
    BY <1>10, <1>13
  <2>2. ASSUME NEW i \in Rows, P(i) = lines[k],
               \A j \in Rows : P(j) = lines[k] => i <= j
        PROVE  i = row(k)
    <3>1. i <= row(k) /\ row(k) <= i
      BY <2>1, <2>2
    <3>2. i \in Int /\ row(k) \in Int
      BY TableAssumption, <2>1 DEF Rows, RowNumbers
    <3>3. QED  BY <3>1, <3>2
  <2>3. QED  BY <2>1, <2>2
<1> HIDE DEF first
<1>15. \A k, l \in 1 .. n - 1 : k < l => first(lines[k]) < first(lines[l])
  BY <1>11, <1>14
<1>16. {lines[k] : k \in 1 .. n - 1} = {P(i) : i \in Rows}
  <2>1. ASSUME NEW k \in 1 .. n - 1 PROVE \E i \in Rows : lines[k] = P(i)
    BY <1>10
  <2>2. ASSUME NEW i \in Rows PROVE \E k \in 1 .. n - 1 : P(i) = lines[k]
    <3> DEFINE E == {j \in Rows : P(j) = P(i)}
    <3>1. E \in SUBSET Rows /\ E # {}
      OBVIOUS
    <3>2. PICK r \in E : \A t \in E : r <= t
      <4> HIDE DEF E
      <4>1. QED  BY <3>1, FirstRow
    <3>3. r \in Rows /\ P(r) = P(i)
      OBVIOUS
    <3>4. r \in Int /\ r >= 1 /\ r <= tnum_of_row - 1 /\ tnum_of_row \in Int
      BY TableAssumption, <3>3 DEF Rows, RowNumbers
    <3>5. ASSUME NEW k \in 1 .. r - 1 PROVE P(k) # P(r)
      <4>1. k \in Rows /\ ~ (r <= k)
        BY <3>4 DEF Rows, RowNumbers
      <4>2. QED  BY <3>2, <3>3, <4>1
    <3>6. r \in S /\ r # 0
      <4>1. is_distinct(q, T, r)
        BY <3>5 DEF is_distinct
      <4>2. r \in RowNumbers
        BY <3>3 DEF Rows
      <4>3. QED  BY <1>5, <3>4, <4>1, <4>2
    <3>7. PICK k \in 1 .. n - 1 : row(k) = r
      BY <1>12, <3>6
    <3>8. QED  BY <1>10, <3>3, <3>7
  <2> HIDE DEF P
  <2>3. QED  BY <2>1, <2>2
<1>17. \A i \in Rows : Projection(q, U[i]) = P(i)
  BY <1>1 DEF Rows
<1>18. {Projection(q, U[i]) : i \in Rows} = {P(i) : i \in Rows}
  BY <1>17
<1>19. \A line : first(line) = CHOOSE i \in Rows :
                    /\ Projection(q, U[i]) = line
                    /\ \A j \in Rows : Projection(q, U[j]) = line => i <= j
  <2>1. ASSUME NEW line
        PROVE  \A i : (i \in Rows /\ P(i) = line
                         /\ \A j \in Rows : P(j) = line => i <= j)
                      <=> (i \in Rows /\ Projection(q, U[i]) = line
                             /\ \A j \in Rows : Projection(q, U[j]) = line => i <= j)
    BY <1>17
  <2>2. QED  BY <2>1 DEF first
<1> DEFINE firstOf(line) == CHOOSE i \in Rows :
                    /\ Projection(q, U[i]) = line
                    /\ \A j \in Rows : Projection(q, U[j]) = line => i <= j
<1>20. \A k, l \in DOMAIN lines : k < l => firstOf(lines[k]) < firstOf(lines[l])
  <2>1. \A line : first(line) = firstOf(line)
    BY <1>19
  <2> HIDE DEF firstOf
  <2>2. QED  BY <1>9, <1>15, <2>1
<1>21. {lines[k] : k \in DOMAIN lines} = {Projection(q, U[i]) : i \in Rows}
  BY <1>9, <1>16, <1>18
<1>22. DistinctRight(q, U, a)
  BY <1>8, <1>20, <1>21 DEF DistinctRight, lines
<1>23. QED  BY <1>22 DEF a, U

-------------------------------------------------------------------------------
(* update() *)

\* The answer a to an update q that made U of the table T, as UpdateIsRight
\* has it.
UpdateRight(q, T, U, a) ==
  LET hit == {i \in Rows : Matches(q, T[i])}
      sets == Assignments(q)
  IN /\ \A i \in Rows \ hit : U[i] = T[i]
     /\ Len(a) = 1 + Cardinality(hit)
     /\ {a[k] : k \in 2 .. Len(a)} = {Project(ColumnOrder, U[i]) : i \in hit}
     /\ \A i \in hit, j \in DOMAIN sets :
           \/ \E k \in j + 1 .. Len(sets) : sets[k][1] = sets[j][1]
           \/ U[i][sets[j][1]] = sets[j][2]

\* The assignments are all but the last of the list.
LEMMA AssignmentsAre ==
  ASSUME NEW q, List(q.set)
  PROVE  \E m \in Nat : /\ DOMAIN Assignments(q) = 1 .. m /\ Len(Assignments(q)) = m
                        /\ \A j \in 1 .. m : /\ j \in DOMAIN q.set
                                             /\ Assignments(q)[j] = q.set[j]
<1> DEFINE n == Len(q.set)
           s == q.set
<1>1. n \in Nat /\ s = [j \in 1 .. n |-> s[j]]
  BY DEF List
<1> HIDE DEF n, s
<1>2. PICK S : s \in Seq(S)
  BY <1>1, ListLength
<1>3. Len(s) = n
  BY <1>1, ListLength
<1>4. SubSeq(s, 1, n - 1) \in Seq(S)
  BY <1>1, <1>2, <1>3
<1> DEFINE m == IF n = 0 THEN 0 ELSE n - 1
<1>5. m \in Nat /\ \A j \in 1 .. m : j \in 1 .. n
  BY <1>1
<1>6. Len(SubSeq(s, 1, n - 1)) = m
  BY <1>1, <1>2, <1>3
<1>7. \A j \in 1 .. m : SubSeq(s, 1, n - 1)[j] = s[j]
  BY <1>1, <1>2, <1>3
<1>8. DOMAIN SubSeq(s, 1, n - 1) = 1 .. m
  BY <1>4, <1>6
<1>9. DOMAIN s = 1 .. n
  BY <1>1
<1> HIDE DEF m
<1>10. Assignments(q) = SubSeq(s, 1, n - 1)
  BY DEF Assignments, n, s
<1>11. QED  BY <1>5, <1>6, <1>7, <1>8, <1>9, <1>10 DEF s

\* Of the assignments to a column the last is what a row then has.
LEMMA LastAssigned ==
  ASSUME NEW q, List(q.set), q.type = "update", Valid(q), NEW row,
         NEW j \in DOMAIN Assignments(q),
         ~ \E k \in j + 1 .. Len(Assignments(q)) :
               Assignments(q)[k][1] = Assignments(q)[j][1]
  PROVE  Assigned(q, row)[Assignments(q)[j][1]] = Assignments(q)[j][2]
<1> DEFINE sets == Assignments(q)
           c    == sets[j][1]
           js   == {k \in DOMAIN sets : sets[k][1] = c}
<1>1. PICK m \in Nat : /\ DOMAIN sets = 1 .. m /\ Len(sets) = m
                       /\ \A k \in 1 .. m : k \in DOMAIN q.set /\ sets[k] = q.set[k]
  BY AssignmentsAre
<1>2. c \in Columns
  <2>1. j \in DOMAIN q.set /\ sets[j] = q.set[j]
    BY <1>1
  <2>2. c \in Named(q)
    BY <2>1 DEF Named
  <2>3. QED  BY <2>2 DEF Valid
<1>3. Assigned(q, row)[c] =
        IF js = {} THEN row[c]
        ELSE sets[CHOOSE l \in js : \A k \in js : k <= l][2]
  BY <1>2 DEF Assigned
<1>4. j \in js
  OBVIOUS
<1>5. ASSUME NEW k \in js PROVE k <= j
  <2>1. k \in 1 .. m /\ j \in 1 .. m /\ sets[k][1] = sets[j][1]
    BY <1>1
  <2>2. k \notin j + 1 .. m
    BY <1>1, <2>1
  <2>3. QED  BY <2>1, <2>2
<1>6. ASSUME NEW l \in js, \A k \in js : k <= l PROVE l = j
  <2>1. l \in 1 .. m /\ j \in 1 .. m
    BY <1>1
  <2>2. l <= j /\ j <= l
    BY <1>4, <1>5, <1>6
  <2>3. QED  BY <2>1, <2>2
<1> HIDE DEF js
<1>7. (CHOOSE l \in js : \A k \in js : k <= l) = j
  BY <1>4, <1>5, <1>6
<1>8. js # {}
  BY <1>4
<1>9. QED  BY <1>3, <1>7, <1>8

LEMMA UpdateAnswer ==
  ASSUME NEW q, q.type = "update", Valid(q), List(q.set), NEW T
  PROVE  UpdateRight(q, T, Updated(q, T, 0), Response(q, T))
<1> DEFINE U == Updated(q, T, 0)
           a == Response(q, T)
           hit == {i \in Rows : Matches(q, T[i])}
           S == {r \in RowNumbers : r = 0 \/ Matches(q, T[r])}
           n == Cardinality(S)
           L(r) == Project(ColumnOrder, U[r])
<1>1. ASSUME NEW i \in Rows
      PROVE  /\ i \in RowNumbers /\ i \in Int /\ i # 0 /\ i > 0 /\ i >= 0
             /\ U[i] = IF Matches(q, T[i]) THEN Assigned(q, T[i]) ELSE T[i]
  <2>1. i \in RowNumbers /\ i \in Int /\ i # 0 /\ i > 0 /\ i >= 0
    BY TableAssumption DEF Rows, RowNumbers
  <2>2. QED  BY <2>1 DEF Updated, UpdatesRow
<1>2. \A i \in Rows \ hit : U[i] = T[i]
  BY <1>1
<1>3. a = [k \in 1 .. n |-> L(Nth(S, k))]
  <2>1. S = {r \in 0 .. tnum_of_row - 1 : Sends(q, T, r)}
    BY DEF Sends, RowNumbers
  <2>2. \A row : Line(q, row) = Project(ColumnOrder, row)
    BY DEF Line
  <2>3. a = [k \in 1 .. n |-> Line(q, U[Nth(S, k)])]
    BY <2>1 DEF Response, ResponseFrom
  <2>4. QED  BY <2>2, <2>3
<1>4. S = hit \cup {0} /\ 0 \notin hit /\ 0 \in S /\ S \in SUBSET RowNumbers
  <2>1. 0 \in RowNumbers
    BY TableAssumption DEF RowNumbers
  <2>2. QED  BY <2>1 DEF Rows
<1>5. /\ n \in Nat /\ n >= 1
      /\ \A k \in 2 .. n : Nth(S, k) \in S \ {0}
      /\ \A r \in S \ {0} : \E k \in 2 .. n : Nth(S, k) = r
  <2> HIDE DEF S
  <2>1. QED  BY <1>4, SentInOrder
<1>6. n = 1 + Cardinality(hit)
  <2> HIDE DEF hit, S
  <2>1. IsFiniteSet(hit)
    <3>1. hit \in SUBSET (0 .. tnum_of_row - 1)
      BY <1>4 DEF RowNumbers
    <3>2. IsFiniteSet(0 .. tnum_of_row - 1)
      BY TableAssumption, FS_Interval
    <3>3. QED  BY <3>1, <3>2, FS_Subset
  <2>2. Cardinality(hit \cup {0}) = Cardinality(hit) + 1
    BY <1>4, <2>1, FS_AddElement
  <2>3. Cardinality(hit) \in Nat
    BY <2>1, FS_CardinalityType
  <2>4. QED  BY <1>4, <2>2, <2>3
<1>7. S \ {0} = hit
  BY <1>4
<1> HIDE DEF U, S, n, L
<1>8. Len(a) = n /\ \A k \in 1 .. n : a[k] = L(Nth(S, k))
  <2>1. \A k \in 1 .. n : a[k] = L(Nth(S, k))
    BY <1>3
  <2>2. a = [k \in 1 .. n |-> a[k]]
    BY <1>3, <2>1
  <2> HIDE DEF a
  <2>3. QED  BY <1>5, <2>1, <2>2, ListLength
<1>9. {a[k] : k \in 2 .. n} = {L(i) : i \in hit}
  <2>1. \A k \in 2 .. n : k \in 1 .. n
    BY <1>5
  <2>2. \A k \in 2 .. n : a[k] = L(Nth(S, k)) /\ Nth(S, k) \in hit
    BY <1>5, <1>7, <1>8, <2>1
  <2>3. \A i \in hit : \E k \in 2 .. n : Nth(S, k) = i
    BY <1>5, <1>7
  <2> HIDE DEF a, hit
  <2>4. QED  BY <2>2, <2>3
<1>10. ASSUME NEW i \in hit, NEW j \in DOMAIN Assignments(q)
       PROVE  \/ \E k \in j + 1 .. Len(Assignments(q)) :
                     Assignments(q)[k][1] = Assignments(q)[j][1]
              \/ U[i][Assignments(q)[j][1]] = Assignments(q)[j][2]
  <2>1. U[i] = Assigned(q, T[i])
    BY <1>1
  <2> HIDE DEF hit
  <2>2. QED  BY <2>1, LastAssigned
<1>11. Len(a) = 1 + Cardinality(hit)
  BY <1>6, <1>8
<1>12. {a[k] : k \in 2 .. Len(a)} = {Project(ColumnOrder, U[i]) : i \in hit}
  BY <1>8, <1>9 DEF L
<1> HIDE DEF a
<1>13. UpdateRight(q, T, U, a)
  BY <1>2, <1>10, <1>11, <1>12 DEF UpdateRight
<1>14. QED  BY <1>13 DEF U, a

-------------------------------------------------------------------------------
(* Texts of clients *)

\* The columns of the dataset have names, without commas.
LEMMA ColumnNames == \A c \in Columns : c # <<>> /\ Comma \notin Range(c)
<1>1. \A j \in DOMAIN ColumnOrder : ColumnOrder[j] \in Without({Comma}) \ {<<>>}
  <2>1. ColumnOrder \in Seq(Without({Comma}) \ {<<>>})
    BY FileAssumption
  <2>2. \A j \in 1 .. Len(ColumnOrder) : ColumnOrder[j] \in Without({Comma}) \ {<<>>}
    BY <2>1, ElementOfSeq
  <2>3. DOMAIN ColumnOrder = 1 .. Len(ColumnOrder)
    BY <2>1
  <2>4. QED  BY <2>2, <2>3
<1>2. QED  BY <1>1 DEF Columns, Without

LEMMA NamesAre ==
  ASSUME NEW x \in Names
  PROVE  /\ x \in Seq(Pieces) /\ x # <<>> /\ x # <<"*">> /\ x # <<"DISTINCT">>
         /\ Blank \notin Range(x) /\ Comma \notin Range(x) /\ Equals \notin Range(x)
<1>1. /\ x \in Seq(STRING) /\ {Blank, Comma, Equals} \cap Range(x) = {}
      /\ x # <<>> /\ x # <<"*">> /\ x # <<"DISTINCT">>
  BY DEF Names, Without
<1>2. x \in Seq(Pieces)
  BY <1>1, PiecesAre
<1>3. QED  BY <1>1, <1>2

\* A query for some columns.
LEMMA ColumnsAsked ==
  ASSUME NEW q \in Queries, q.type \in {"select_column", "select_distinct"}
  PROVE  /\ q = [type |-> q.type, columns |-> q.columns]
         /\ q.columns \in Seq(Names) /\ q.columns # <<>>
<1>1. q \in [type : {"select_column", "select_distinct"}, columns : Seq(Names) \ {<<>>}]
  BY QueryAssumption
<1>2. QED  BY <1>1

LEMMA ColumnsAreWords ==
  ASSUME NEW c \in Seq(Names), c # <<>>
  PROVE  /\ c \in Seq(Seq(Pieces)) /\ Len(c) \in Nat \ {0}
         /\ \A j \in 1 .. Len(c) : /\ c[j] \in Names /\ c[j] # <<>>
                                   /\ Blank \notin Range(c[j]) /\ Comma \notin Range(c[j])
<1>1. Names \subseteq Seq(Pieces)
  BY NamesAre
<1>2. c \in Seq(Seq(Pieces))
  BY <1>1, LongerAlphabet
<1>3. \A j \in 1 .. Len(c) : c[j] \in Names
  BY ElementOfSeq
<1>4. Len(c) \in Nat \ {0}
  OBVIOUS
<1>5. QED  BY <1>2, <1>3, <1>4, NamesAre

\* The words W of a query for the columns c that begins with the words ws.
Selects(W, ws, a, c) == /\ Len(W) >= a + 3 /\ \A i \in 1 .. a : W[i] = ws[i]
                        /\ W[a + 1] \in Names \/ Len(W[a + 1]) >= 2
                        /\ SameOrNoNames(ColumnWords(W, a + 1), c)

LEMMA SelectedWords ==
  ASSUME NEW t, NEW ws, NEW a \in Nat, a = Len(ws), ReadsAs(Pieces, t, ws, <<>>),
         NEW c \in Seq(Names), c # <<>>, NEW how
  PROVE  Selects(parse(Glued(Glued(t, Listed(c, how)), FromText)), ws, a, c)
<1>1. PICK n \in Nat \ {0} : n = Len(c)
  BY ColumnsAreWords
<1>2. /\ c \in Seq(Seq(Pieces))
      /\ \A j \in 1 .. n : /\ c[j] \in Names /\ c[j] # <<>>
                           /\ Blank \notin Range(c[j]) /\ Comma \notin Range(c[j])
  BY <1>1, ColumnsAreWords
<1>3. /\ ws \in Seq(Seq(Pieces)) /\ Blank \in Pieces /\ Comma \in Pieces
  BY PiecesAre DEF ReadsAs
<1>4. PICK cs, w : /\ ReadsAs(Pieces, t \o Listed(c, how), cs, w)
                   /\ ListWords(ws, c, how, n, cs, w)
  BY <1>1, <1>2, <1>3, ListRead
<1>5. cs \in Seq(Seq(Pieces)) /\ w \in Seq(Pieces)
  BY <1>4 DEF ReadsAs
<1>6. PICK from \in Seq(Pieces), name \in Seq(Pieces) : from = <<"FROM">> /\ name = <<"TABLE;">>
  <2>1. PICK x \in Pieces, y \in Pieces : x = "FROM" /\ y = "TABLE;"
    BY PiecesAre
  <2>2. <<x>> \in Seq(Pieces) /\ <<y>> \in Seq(Pieces)
    OBVIOUS
  <2>3. QED  BY <2>1, <2>2
<1> DEFINE W == FromBehind(cs, w, from, name)
<1>7. parse((t \o Listed(c, how)) \o FromText) = W
  <2>1. parse((t \o Listed(c, how)) \o FromText) = SelectWords(cs, w)
    BY <1>4, SelectRead
  <2>2. SelectWords(cs, w) = W
    BY <1>6 DEF SelectWords, FromBehind
  <2>3. QED  BY <2>1, <2>2
<1>8. PICK b \in Nat : b = Len(cs)
  BY <1>5
<1>9. GoOn(Pieces, W, cs, w, b)
  <2>1. Len(cs) = b /\ cs \in Seq(Seq(Pieces)) /\ w \in Seq(Pieces)
    BY <1>5, <1>8
  <2>2. QED  BY ONLY <2>1, BehindIs
<1>10. SameOrNoNames(ColumnWords(W, a + 1), c)
  <2>1. /\ Len(ws) = a /\ Comma \in Pieces /\ Len(c) = n
        /\ ws \in Seq(Seq(Pieces)) /\ c \in Seq(Seq(Pieces))
        /\ cs \in Seq(Seq(Pieces)) /\ w \in Seq(Pieces)
        /\ \A j \in 1 .. n : Comma \notin Range(c[j])
        /\ ListWords(ws, c, how, n, cs, w)
    BY <1>1, <1>2, <1>3, <1>4, <1>5
  <2>2. QED  BY ONLY <2>1, ColumnsTaken
<1> HIDE DEF W
<1>11. b >= a /\ Begin(W, ws, a, c[1])
  <2>1. /\ Len(ws) = a /\ Comma \in Pieces /\ Len(c) = n /\ b = Len(cs)
        /\ ws \in Seq(Seq(Pieces)) /\ c \in Seq(Seq(Pieces))
        /\ cs \in Seq(Seq(Pieces)) /\ w \in Seq(Pieces)
        /\ \A j \in 1 .. n : c[j] # <<>>
        /\ ListWords(ws, c, how, n, cs, w)
        /\ GoOn(Pieces, W, cs, w, b)
    BY <1>1, <1>2, <1>3, <1>4, <1>5, <1>8, <1>9
  <2>2. QED  BY ONLY <2>1, FirstOfList
<1>12. c[1] \in Names
  <2>1. 1 \in 1 .. n
    OBVIOUS
  <2>2. QED  BY <1>2, <2>1
<1>13. Len(W) >= a + 3
  BY <1>9, <1>11 DEF GoOn
<1>14. QED  BY <1>7, <1>10, <1>11, <1>12, <1>13 DEF Begin, Selects, Glued

\* A column with a name that the table does not have.
LEMMA NotAColumn ==
  ASSUME NEW q, q.type \in {"select_column", "select_distinct"},
         \E i \in DOMAIN q.columns : Comma \in Range(q.columns[i]) \/ q.columns[i] = <<>>
  PROVE  ~ Valid(q)
<1>1. PICK i \in DOMAIN q.columns : Comma \in Range(q.columns[i]) \/ q.columns[i] = <<>>
  OBVIOUS
<1>2. q.columns[i] \notin Columns
  BY <1>1, ColumnNames
<1>3. Named(q) = {q.columns[j] : j \in DOMAIN q.columns}
  BY DEF Named
<1>4. q.columns[i] \in Named(q)
  BY <1>3
<1>5. QED  BY <1>2, <1>4 DEF Valid

LEMMA SelectTaken ==
  ASSUME NEW q \in Queries, q.type \in {"select_column", "select_distinct"}, NEW how
  PROVE  LET taken == QueryOf(Written(q, how))
         IN taken = q \/ ~ Valid(taken)
<1> DEFINE c == q.columns
           taken == QueryOf(Written(q, how))
<1>1. q = [type |-> q.type, columns |-> c] /\ c \in Seq(Names) /\ c # <<>>
  BY ColumnsAsked
<1> HIDE DEF c
<1>2. CASE q.type = "select_column"
  <2>1. Written(q, how) = (SelectText \o Listed(c, how)) \o FromText
    BY <1>2 DEF Written, SelectText, FromText, c
  <2>2. PICK W : /\ parse((SelectText \o Listed(c, how)) \o FromText) = W
                 /\ Selects(W, SelectStart, 2, c)
    <3>1. /\ ReadsAs(Pieces, SelectText, SelectStart, <<>>)
          /\ 2 = Len(SelectStart) /\ 2 \in Nat /\ c \in Seq(Names) /\ c # <<>>
      BY <1>1, SelectStartsRead, SelectStartIs
    <3>2. Selects(parse(Glued(Glued(SelectText, Listed(c, how)), FromText)), SelectStart, 2, c)
      BY ONLY <3>1, SelectedWords
    <3>3. QED  BY <3>2 DEF Glued
  <2>3. W[2] = <<"SELECT">> /\ W[3] # <<"*">> /\ W[3] # <<"DISTINCT">>
    <3>1. 2 \in 1 .. 2 /\ 2 + 1 = 3
      OBVIOUS
    <3>2. W[2] = <<"SELECT">> /\ (W[3] \in Names \/ Len(W[3]) >= 2)
      BY <2>2, <3>1, SelectStartIs DEF Selects
    <3>3. W[3] \in Names => W[3] # <<"*">> /\ W[3] # <<"DISTINCT">>
      BY NamesAre
    <3>4. QED  BY <3>2, <3>3, LongWord
  <2>4. get_type(W) = "select_column"
    BY <2>3, TypeOfWords
  <2>5. taken = [type |-> "select_column", columns |-> ColumnWords(W, 3)]
    BY <2>1, <2>2, <2>4 DEF QueryOf
  <2>6. SameOrNoNames(ColumnWords(W, 3), c)
    BY <2>2 DEF Selects
  <2> HIDE DEF taken
  <2>7. CASE ColumnWords(W, 3) = c
    BY <1>1, <1>2, <2>5, <2>7 DEF taken
  <2>8. CASE ColumnWords(W, 3) # c
    <3>1. taken.type = "select_column" /\ taken.columns = ColumnWords(W, 3)
      BY <2>5
    <3>2. ~ Valid(taken)
      BY <2>6, <2>8, <3>1, NotAColumn DEF SameOrNoNames
    <3>3. QED  BY <3>2 DEF taken
  <2>9. QED  BY <2>7, <2>8
<1>3. CASE q.type = "select_distinct"
  <2> DEFINE ws == Append(SelectStart, <<"DISTINCT">>)
  <2>1. Written(q, how) = (DistinctText \o Listed(c, how)) \o FromText
    BY <1>3 DEF Written, SelectText, DistinctText, FromText, c
  <2>2. Len(ws) = 3 /\ ws[2] = <<"SELECT">> /\ ws[3] = <<"DISTINCT">>
    BY SelectStartIs
  <2>3. ReadsAs(Pieces, DistinctText, ws, <<>>)
    BY SelectStartsRead
  <2> HIDE DEF ws
  <2>4. PICK W : /\ parse((DistinctText \o Listed(c, how)) \o FromText) = W
                 /\ Selects(W, ws, 3, c)
    <3>1. /\ ReadsAs(Pieces, DistinctText, ws, <<>>)
          /\ 3 = Len(ws) /\ 3 \in Nat /\ c \in Seq(Names) /\ c # <<>>
      BY <1>1, <2>2, <2>3
    <3>2. Selects(parse(Glued(Glued(DistinctText, Listed(c, how)), FromText)), ws, 3, c)
      BY ONLY <3>1, SelectedWords
    <3>3. QED  BY <3>2 DEF Glued
  <2>5. W[2] = <<"SELECT">> /\ W[3] = <<"DISTINCT">>
    <3>1. 2 \in 1 .. 3 /\ 3 \in 1 .. 3
      OBVIOUS
    <3>2. QED  BY <2>2, <2>4, <3>1 DEF Selects
  <2>6. get_type(W) = "select_distinct"
    BY <2>5, TypeOfWords
  <2>7. taken = [type |-> "select_distinct", columns |-> ColumnWords(W, 4)]
    BY <2>1, <2>4, <2>6 DEF QueryOf
  <2>8. SameOrNoNames(ColumnWords(W, 4), c)
    BY <2>4 DEF Selects
  <2> HIDE DEF taken
  <2>9. CASE ColumnWords(W, 4) = c
    BY <1>1, <1>3, <2>7, <2>9 DEF taken
  <2>10. CASE ColumnWords(W, 4) # c
    <3>1. taken.type = "select_distinct" /\ taken.columns = ColumnWords(W, 4)
      BY <2>7
    <3>2. ~ Valid(taken)
      BY <2>8, <2>10, <3>1, NotAColumn DEF SameOrNoNames
    <3>3. QED  BY <3>2 DEF taken
  <2>11. QED  BY <2>9, <2>10
<1>4. QED  BY <1>2, <1>3

LEMMA StarTaken ==
  ASSUME NEW q \in Queries, q.type = "select_star", NEW how
  PROVE  QueryOf(Written(q, how)) = q
<1>1. q = [type |-> "select_star"]
  BY QueryAssumption
<1>2. ReadsAs(Pieces, SelectText \o <<"*">>, SelectStart, <<"*">>)
  <2>1. "*" # Blank /\ "*" \in Pieces /\ Blank \in Pieces
    BY PiecesAre DEF Blank
  <2>2. QED  BY <2>1, SelectStartsRead, PieceRead
<1>3. Written(q, how) = (SelectText \o <<"*">>) \o FromText
  BY <1>1 DEF Written, SelectText, FromText
<1>4. parse(Written(q, how)) = SelectWords(SelectStart, <<"*">>)
  BY <1>2, <1>3, SelectRead
<1>5. PICK w, from, name : w = <<"*">> /\ from = <<"FROM">> /\ name = <<"TABLE;">>
  OBVIOUS
<1>6. w \in Seq(Pieces) /\ from \in Seq(Pieces) /\ name \in Seq(Pieces)
  <2>1. PICK x \in Pieces, y \in Pieces, z \in Pieces : x = "*" /\ y = "FROM" /\ z = "TABLE;"
    BY PiecesAre
  <2>2. <<x>> \in Seq(Pieces) /\ <<y>> \in Seq(Pieces) /\ <<z>> \in Seq(Pieces)
    OBVIOUS
  <2>3. QED  BY <1>5, <2>1, <2>2
<1> DEFINE W == FromBehind(SelectStart, w, from, name)
<1>7. parse(Written(q, how)) = W
  BY <1>4, <1>5 DEF SelectWords, FromBehind
<1>8. GoOn(Pieces, W, SelectStart, w, 2)
  <2>1. SelectStart \in Seq(Seq(Pieces)) /\ Len(SelectStart) = 2 /\ 2 \in Nat
    BY SelectStartIs, SelectStartsRead DEF ReadsAs
  <2>2. QED  BY ONLY <1>6, <2>1, BehindIs
<1> HIDE DEF W
<1>9. W[2] = <<"SELECT">> /\ W[3] = <<"*">>
  <2>1. 2 \in 1 .. 2 /\ 2 + 1 = 3
    OBVIOUS
  <2>2. QED  BY <1>5, <1>8, <2>1, SelectStartIs DEF GoOn
<1>10. get_type(W) = "select_star"
  BY <1>9, TypeOfWords
<1>11. QED  BY <1>1, <1>7, <1>10 DEF QueryOf

LEMMA AssignmentWritten ==
  ASSUME NEW a \in Names \X Without({Blank, Apostrophe}), NEW how, how # "blank",
         NEW y, y = Assigning(a, how)
  PROVE  /\ y \in Seq(Pieces) /\ y # <<>> /\ Blank \notin Range(y)
         /\ WithComma(y) \in Seq(Pieces) /\ Sets(y, a) /\ Sets(WithComma(y), a)
<1>1. PICK u, v : /\ a = <<u, v>> /\ u = a[1] /\ v = a[2]
                  /\ u \in Names /\ v \in Without({Blank, Apostrophe})
  OBVIOUS
<1>2. u \in Seq(Pieces) /\ Blank \notin Range(u) /\ Equals \notin Range(u)
  BY <1>1, NamesAre
<1>3. v \in Seq(Pieces) /\ Blank \notin Range(v) /\ Apostrophe \notin Range(v)
  <2>1. v \in Seq(STRING) /\ {Blank, Apostrophe} \cap Range(v) = {}
    BY <1>1 DEF Without
  <2>2. QED  BY <2>1, PiecesAre
<1>4. PICK p \in Nat, q \in Nat : Len(u) = p /\ Len(v) = q
  BY <1>2, <1>3
<1>5. y = ((u \o <<Equals, Apostrophe>>) \o v) \o <<Apostrophe>>
  BY <1>1 DEF Assigning, MeantValue
<1>6. /\ Equals \in Pieces /\ Apostrophe \in Pieces /\ Comma \in Pieces
      /\ Blank # Equals /\ Blank # Apostrophe
  BY PiecesAre
<1>7. /\ y \in Seq(Pieces) /\ y # <<>> /\ Blank \notin Range(y) /\ WithComma(y) \in Seq(Pieces)
      /\ Assigns(y, u, p, v, q) /\ Assigns(WithComma(y), u, p, v, q)
  BY ONLY <1>2, <1>3, <1>4, <1>5, <1>6, AssigningIs
<1>8. get_colname_value(y) = <<u, v>> /\ contains(y, Equals)
  BY ONLY <1>2, <1>3, <1>4, <1>7, AssignedIs
<1>9. get_colname_value(WithComma(y)) = <<u, v>> /\ contains(WithComma(y), Equals)
  BY ONLY <1>2, <1>3, <1>4, <1>7, AssignedIs
<1>10. QED  BY <1>1, <1>7, <1>8, <1>9 DEF Sets

\* An update.
LEMMA AssignmentsAsked ==
  ASSUME NEW q \in Queries, q.type = "update"
  PROVE  /\ q = [type |-> "update", set |-> q.set]
         /\ q.set \in Seq(Names \X Without({Blank, Apostrophe})) /\ q.set # <<>>
<1>1. q \in [type : {"update"}, set : Seq(Names \X Without({Blank, Apostrophe})) \ {<<>>}]
  BY QueryAssumption
<1>2. QED  BY <1>1

LEMMA UpdateTaken ==
  ASSUME NEW q \in Queries, q.type = "update", NEW how, how \notin {"blank", "no_where"},
         ~ (how = "tight" /\ Len(q.set) > 2)
  PROVE  QueryOf(Written(q, how)) = q
<1> DEFINE A == q.set
           P == Names \X Without({Blank, Apostrophe})
           settings == [j \in DOMAIN A |-> Assigning(A[j], how)]
<1>1. q = [type |-> "update", set |-> A] /\ A \in Seq(P) /\ A # <<>>
  BY AssignmentsAsked
<1>2. PICK m \in Nat : Len(A) = m + 1
  <2>1. PICK n \in Nat : n = Len(A) /\ n # 0
    BY <1>1
  <2>2. n - 1 \in Nat /\ n = (n - 1) + 1
    BY <2>1
  <2>3. QED  BY <2>1, <2>2
<1>3. how = "tight" => m = 0 \/ m = 1
  BY <1>2
<1> HIDE DEF A
<1>4. DOMAIN A = 1 .. m + 1 /\ \A j \in 1 .. m + 1 : A[j] \in P
  <2>1. A \in Seq(P) /\ Len(A) = m + 1
    BY <1>1, <1>2
  <2> HIDE DEF P
  <2>2. QED  BY ONLY <2>1, ElementOfSeq, LenProperties
<1>5. \A j \in 1 .. m + 1 : Item(settings[j], A[j])
  <2>1. how # "blank"
    OBVIOUS
  <2>2. ASSUME NEW j \in 1 .. m + 1 PROVE Item(settings[j], A[j])
    <3>1. settings[j] = Assigning(A[j], how) /\ A[j] \in P
      BY <1>4
    <3>2. QED  BY <2>1, <3>1, AssignmentWritten DEF Item
  <2>3. QED  BY <2>2
<1>6. settings \in Seq(Seq(Pieces)) /\ Len(settings) = m + 1
  <2>1. \A j \in 1 .. m + 1 : settings[j] \in Seq(Pieces)
    BY <1>5 DEF Item
  <2> DEFINE x == settings
  <2>2. DOMAIN settings = 1 .. m + 1
    BY <1>4
  <2>3. settings = [j \in 1 .. m + 1 |-> settings[j]]
    BY <1>4
  <2>4. settings \in [1 .. m + 1 -> Seq(Pieces)]
    BY <2>1, <2>3
  <2>5. m + 1 \in Nat
    OBVIOUS
  <2> HIDE DEF settings
  <2>6. QED  BY <2>2, <2>4, <2>5, SeqDef
<1>7. Written(q, how) =
        UpdateText \o ((Listed(Front(settings), how) \o WhereText) \o Last(settings))
  <2>1. q.type = "update" /\ how # "no_where" /\ q.set = A
    BY DEF A
  <2>2. QED  BY <2>1 DEF Written, UpdateText, WhereText
<1> HIDE DEF settings
<1>8. PICK items, z : /\ items = Front(settings) /\ z = Last(settings)
                      /\ items \in Seq(Seq(Pieces)) /\ Len(items) = m
                      /\ (\A j \in 1 .. m : Item(items[j], A[j]))
                      /\ Item(z, A[m + 1])
  <2> DEFINE items == SubSeq(settings, 1, m)
  <2>1. Front(settings) = items /\ Last(settings) = settings[m + 1]
    BY <1>6 DEF Front, Last
  <2>2. \A j \in 1 .. m : settings[j] \in Seq(Pieces)
    <3>1. \A j \in 1 .. m : j \in 1 .. m + 1
      OBVIOUS
    <3>2. QED  BY <1>5, <3>1 DEF Item
  <2>3. /\ items \in Seq(Seq(Pieces)) /\ Len(items) = IF 1 <= m THEN m - 1 + 1 ELSE 0
        /\ \A i \in 1 .. m - 1 + 1 : items[i] = settings[1 + i - 1]
    BY <2>2, SubSeqProperties
  <2> HIDE DEF items
  <2>4. /\ (IF 1 <= m THEN m - 1 + 1 ELSE 0) = m /\ m - 1 + 1 = m
        /\ \A i \in 1 .. m : 1 + i - 1 = i /\ i \in 1 .. m + 1
        /\ m + 1 \in 1 .. m + 1
    OBVIOUS
  <2>5. Len(items) = m /\ \A i \in 1 .. m : items[i] = settings[i]
    BY <2>3, <2>4
  <2>6. \A j \in 1 .. m : Item(items[j], A[j])
    BY <1>5, <2>4, <2>5
  <2>7. Item(settings[m + 1], A[m + 1])
    BY <1>5, <2>4
  <2>8. QED  BY <2>1, <2>3, <2>5, <2>6, <2>7
<1> DEFINE L == Listed(items, how)
<1>9. L \in Seq(Pieces) /\ (m = 0 => L = <<>>)
  <2>1. Blank \in Pieces /\ Comma \in Pieces
    BY PiecesAre
  <2>2. QED  BY <1>8, <2>1, ListedTyped
<1>10. PICK cs, w : ReadsAs(Pieces, UpdateText \o L, cs, w) /\ Updating(Append(cs, w), A, m)
  <2>1. CASE m = 0
    <3>1. ReadsAs(Pieces, UpdateText, UpdateStart, <<>>) /\ Updating(UpdateStart, A, 0)
      BY UpdateStartRead
    <3>2. UpdateText \in Seq(Pieces)
      BY <3>1 DEF ReadsAs
    <3>3. UpdateText \o <<>> = UpdateText
      BY ONLY <3>2, ConcatEmptySeq
    <3>4. /\ <<>> \in Seq(Pieces) /\ ~ contains(<<>>, Equals) /\ 0 \in Nat
          /\ Updating(UpdateStart, A, 0)
      BY <3>1 DEF contains, Range
    <3>5. Updating(Append(UpdateStart, <<>>), A, 0)
      BY ONLY <3>4, UpdatingGrows
    <3>6. QED  BY <1>9, <2>1, <3>1, <3>3, <3>5
  <2>2. CASE m # 0
    <3>1. m \in Nat \ {0} /\ (how # "tight" \/ m = 1)
      BY <1>3, <2>2
    <3>2. PICK cs, w : /\ ReadsAs(Pieces, UpdateText \o L, cs, w)
                       /\ Updating(cs, A, m - 1) /\ w = items[m]
      <4>1. /\ items \in Seq(Seq(Pieces)) /\ Len(items) = m
            /\ \A j \in 1 .. m : Item(items[j], A[j])
        BY <1>8
      <4>2. \E cs, w : /\ ReadsAs(Pieces, UpdateText \o Listed(items, how), cs, w)
                       /\ Updating(cs, A, m - 1) /\ w = items[m]
        BY ONLY <3>1, <4>1, AssignmentsRead
      <4>3. QED  BY <4>2
    <3>3. Item(w, A[m])
      BY <1>8, <3>1, <3>2
    <3>4. /\ w \in Seq(Pieces) /\ Sets(w, A[m]) /\ m - 1 \in Nat /\ (m - 1) + 1 = m
          /\ Updating(cs, A, m - 1)
      BY <3>1, <3>2, <3>3 DEF Item
    <3>5. Updating(Append(cs, w), A, m)
      BY <3>4, UpdatingGrows
    <3>6. QED  BY <3>2, <3>5
  <2>3. QED  BY <2>1, <2>2
<1> HIDE DEF L
<1>11. Updating(parse(Glued(Glued(UpdateText \o L, WhereText), z)), A, m + 1)
  BY <1>8, <1>10, ConditionRead
<1>12. Written(q, how) = Glued(Glued(UpdateText \o L, WhereText), z)
  <2>1. /\ UpdateText \in Seq(Pieces) /\ WhereText \in Seq(Pieces) /\ z \in Seq(Pieces)
        /\ L \in Seq(Pieces)
    <3>1. UpdateText \in Seq(Pieces)
      BY UpdateStartRead DEF ReadsAs
    <3>2. WhereText \in Seq(Pieces)
      <4>1. PICK b \in Pieces, x \in Pieces : b = Blank /\ x = "WHERE"
        BY PiecesAre
      <4>2. <<b, x, b>> \in Seq(Pieces)
        OBVIOUS
      <4>3. QED  BY <4>1, <4>2 DEF WhereText
    <3>3. QED  BY <1>8, <1>9, <3>1, <3>2 DEF Item
  <2>2. PICK T \in Seq(Pieces), V \in Seq(Pieces), M \in Seq(Pieces), Z \in Seq(Pieces) :
          T = UpdateText /\ V = WhereText /\ M = L /\ Z = z
    BY <2>1
  <2>3. Glued(T, Glued(Glued(M, V), Z)) = Glued(Glued(Glued(T, M), V), Z)
    BY ONLY Regrouped
  <2>4. QED  BY <1>7, <1>8, <2>2, <2>3 DEF Glued, L
<1>13. A = [j \in 1 .. m + 1 |-> A[j]] /\ m + 1 \in Nat
  BY <1>1, <1>4
<1>14. QueryOf(Written(q, how)) = [type |-> "update", set |-> A]
  BY <1>11, <1>12, <1>13, UpdateRead
<1>15. QED  BY <1>1, <1>14

\* An assignment in any style.
LEMMA AssignmentTyped ==
  ASSUME NEW a \in Names \X Without({Blank, Apostrophe}), NEW how
  PROVE  Assigning(a, how) \in Seq(Pieces)
<1>1. PICK u, v : /\ a = <<u, v>> /\ u = a[1] /\ v = a[2]
                  /\ u \in Names /\ v \in Without({Blank, Apostrophe})
  OBVIOUS
<1>2. PICK e \in Pieces, p \in Pieces, b \in Pieces, x \in Pieces :
        e = Equals /\ p = Apostrophe /\ b = Blank /\ x = "x"
  BY PiecesAre
<1>3. PICK n \in Seq(Pieces) : n = u
  BY <1>1, NamesAre
<1>4. PICK w \in Seq(Pieces) : w = v
  <2>1. v \in Seq(STRING)
    BY <1>1 DEF Without
  <2>2. QED  BY <2>1, PiecesAre
<1>5. PICK y \in Seq(Pieces) : y = MeantValue(v, how)
  <2>1. w \o <<b, x>> \in Seq(Pieces)
    OBVIOUS
  <2>2. QED  BY <1>2, <1>4, <2>1 DEF MeantValue
<1>6. ((n \o <<e, p>>) \o y) \o <<p>> \in Seq(Pieces)
  <2>1. n \o <<e, p>> \in Seq(Pieces)
    OBVIOUS
  <2>2. PICK z \in Seq(Pieces) : z = n \o <<e, p>>
    BY <2>1
  <2>3. z \o y \in Seq(Pieces)
    OBVIOUS
  <2>4. PICK zz \in Seq(Pieces) : zz = z \o y
    BY <2>3
  <2>5. zz \o <<p>> \in Seq(Pieces)
    OBVIOUS
  <2>6. QED  BY <2>2, <2>4, <2>5
<1>7. QED  BY <1>1, <1>2, <1>3, <1>5, <1>6 DEF Assigning

LEMMA UpdateTyped ==
  ASSUME NEW q \in Queries, q.type = "update", NEW how
  PROVE  Written(q, how) \in Seq(Pieces)
<1> DEFINE A == q.set
           P == Names \X Without({Blank, Apostrophe})
           settings == [j \in DOMAIN A |-> Assigning(A[j], how)]
<1>1. q.type = "update" /\ A \in Seq(P) /\ A # <<>>
  BY AssignmentsAsked
<1>2. PICK m \in Nat : Len(A) = m + 1
  <2>1. PICK n \in Nat : n = Len(A) /\ n # 0
    BY <1>1
  <2>2. n - 1 \in Nat /\ n = (n - 1) + 1
    BY <2>1
  <2>3. QED  BY <2>1, <2>2
<1>3. DOMAIN A = 1 .. m + 1 /\ \A j \in 1 .. m + 1 : A[j] \in P
  <2> HIDE DEF A, P
  <2>1. QED  BY ONLY <1>1, <1>2, ElementOfSeq, LenProperties
<1>4. settings = [j \in 1 .. m + 1 |-> Assigning(A[j], how)]
  BY <1>3
<1>5. \A j \in 1 .. m + 1 : Assigning(A[j], how) \in Seq(Pieces)
  BY <1>3, AssignmentTyped
<1>6. PICK s \in Seq(Seq(Pieces)) : s = settings /\ Len(s) = m + 1
  <2>1. settings \in [1 .. m + 1 -> Seq(Pieces)] /\ DOMAIN settings = 1 .. m + 1
    BY <1>4, <1>5
  <2>2. m + 1 \in Nat
    OBVIOUS
  <2> HIDE DEF settings
  <2>3. settings \in Seq(Seq(Pieces)) /\ Len(settings) = m + 1
    BY ONLY <2>1, <2>2, SeqDef, LenProperties
  <2>4. QED  BY <2>3
<1>7. Written(q, how) =
        UpdateText \o IF how = "no_where" THEN Listed(settings, how)
                      ELSE (Listed(Front(settings), how) \o WhereText) \o Last(settings)
  BY <1>1 DEF Written, UpdateText, WhereText
<1> HIDE DEF settings, A
<1>8. PICK T \in Seq(Pieces), V \in Seq(Pieces) : T = UpdateText /\ V = WhereText
  <2>1. UpdateText \in Seq(Pieces)
    BY UpdateStartRead DEF ReadsAs
  <2>2. PICK b \in Pieces, x \in Pieces : b = Blank /\ x = "WHERE"
    BY PiecesAre
  <2>3. <<b, x, b>> \in Seq(Pieces)
    OBVIOUS
  <2>4. QED  BY <2>1, <2>2, <2>3 DEF WhereText
<1>9. PICK all \in Seq(Pieces) : all = Listed(s, how)
  <2>1. Blank \in Pieces /\ Comma \in Pieces
    BY PiecesAre
  <2>2. m + 1 \in Nat /\ Len(s) = m + 1
    BY <1>6
  <2>3. Listed(s, how) \in Seq(Pieces)
    BY ONLY <2>1, <2>2, ListedTyped
  <2>4. QED  BY <2>3
<1>10. PICK front \in Seq(Pieces) : front = Listed(Front(s), how)
  <2>1. \A j \in 1 .. m : s[j] \in Seq(Pieces)
    <3>1. \A j \in 1 .. m : j \in 1 .. Len(s)
      BY <1>6
    <3>2. QED  BY <3>1, ElementOfSeq
  <2>2. SubSeq(s, 1, m) \in Seq(Seq(Pieces)) /\ Len(SubSeq(s, 1, m)) = m
    <3>1. /\ SubSeq(s, 1, m) \in Seq(Seq(Pieces))
          /\ Len(SubSeq(s, 1, m)) = IF 1 <= m THEN m - 1 + 1 ELSE 0
      BY <2>1, SubSeqProperties
    <3>2. (IF 1 <= m THEN m - 1 + 1 ELSE 0) = m
      OBVIOUS
    <3>3. QED  BY <3>1, <3>2
  <2>3. Front(s) = SubSeq(s, 1, m)
    BY <1>6 DEF Front
  <2>4. Blank \in Pieces /\ Comma \in Pieces
    BY PiecesAre
  <2>5. PICK items \in Seq(Seq(Pieces)) : items = Front(s) /\ Len(items) = m
    BY <2>2, <2>3
  <2>6. m \in Nat /\ Len(items) = m
    BY <2>5
  <2>7. Listed(items, how) \in Seq(Pieces)
    BY ONLY <2>4, <2>6, ListedTyped
  <2>8. QED  BY <2>5, <2>7
<1>11. PICK z \in Seq(Pieces) : z = Last(s)
  <2>1. m + 1 \in 1 .. Len(s)
    BY <1>6
  <2>2. s[m + 1] \in Seq(Pieces)
    BY <2>1, ElementOfSeq
  <2>3. QED  BY <1>6, <2>2 DEF Last
<1>12. T \o all \in Seq(Pieces)
  OBVIOUS
<1>13. T \o ((front \o V) \o z) \in Seq(Pieces)
  OBVIOUS
<1>14. QED  BY <1>6, <1>7, <1>8, <1>9, <1>10, <1>11, <1>12, <1>13

-------------------------------------------------------------------------------
(* Lines of datasets *)

LEMMA LinesAre ==
  ASSUME NEW f \in Files
  PROVE  /\ f.lines \in Seq(Seq(STRING)) /\ Len(f.lines) \in Nat \ {0}
         /\ DOMAIN f.lines = 1 .. Len(f.lines)
         /\ \A i \in 1 .. Len(f.lines) :
               /\ f.lines[i] \in Seq(STRING) /\ WellQuoted(f.lines[i])
               /\ f.lines[i] # <<>> => Len(Fields(f.lines[i])) = Len(ColumnOrder)
         /\ Quote \notin Range(f.lines[1]) /\ Fields(f.lines[1]) = ColumnOrder
<1>1. /\ f.lines \in Seq(Seq(STRING)) \ {<<>>}
      /\ Quote \notin Range(f.lines[1]) /\ Fields(f.lines[1]) = ColumnOrder
      /\ \A i \in DOMAIN f.lines :
            /\ WellQuoted(f.lines[i])
            /\ f.lines[i] # <<>> => Len(Fields(f.lines[i])) = Len(ColumnOrder)
  BY FileAssumption
<1>2. PICK x : x = f.lines /\ x \in Seq(Seq(STRING)) /\ x # <<>>
  BY <1>1
<1>3. Len(x) \in Nat \ {0} /\ DOMAIN x = 1 .. Len(x)
  BY ONLY <1>2, LenProperties, EmptySeq
<1>4. \A i \in 1 .. Len(x) : x[i] \in Seq(STRING)
  BY ONLY <1>2, ElementOfSeq
<1>5. QED  BY <1>1, <1>2, <1>3, <1>4

\* The first line gives the names of the columns.
LEMMA FirstLineRead ==
  ASSUME NEW f \in Files
  PROVE  get_cells(f.lines[1]) = ColumnOrder /\ count_columns(f) = Len(ColumnOrder)
<1>1. PICK line \in Seq(STRING) : /\ line = f.lines[1] /\ WellQuoted(line)
                                  /\ Quote \notin Range(line) /\ Fields(line) = ColumnOrder
  <2>1. 1 \in 1 .. Len(f.lines)
    BY LinesAre
  <2>2. QED  BY <2>1, LinesAre
<1>2. PICK n \in Nat : n = Len(line)
  OBVIOUS
<1>3. PICK c \in Seq(Seq(STRING)), l \in Nat \ {0} : c = ColumnOrder /\ Len(c) = l
  BY <1>1, CellsListed
<1>4. c[l] # <<>>
  <2>1. \A j \in 1 .. Len(ColumnOrder) : ColumnOrder[j] \in Without({Comma}) \ {<<>>}
    BY FileAssumption, ElementOfSeq
  <2>2. l \in 1 .. l
    OBVIOUS
  <2>3. QED  BY <1>3, <2>1, <2>2
<1>5. CellsRead(line) = l
  <2>1. ~ (line = <<>> \/ EmptyLastCell(line))
    BY <1>1, <1>3, <1>4, LastFieldEmpty
  <2>2. QED  BY <1>1, <1>3, <2>1 DEF CellsRead
<1>6. get_cells(line) = SubSeq(c, 1, l)
  BY <1>1, <1>3, <1>5, LineRead DEF Cut
<1>7. SubSeq(c, 1, l) = c
  BY ONLY <1>3
<1>8. Separators(line) = {i \in DOMAIN line : line[i] = Comma}
  <2>1. \A i \in 1 .. n : line[i] # Quote
    BY <1>1, <1>2 DEF Range
  <2>2. ASSUME NEW i \in 1 .. n PROVE Quotes(line, i) % 2 = 0
    <3>1. 1 \in Nat \ {0} /\ i \in Nat /\ 1 <= i /\ \A k \in 1 .. i - 1 : k \in 1 .. n
      OBVIOUS
    <3>2. \A k \in 1 .. i - 1 : line[k] # Quote
      BY <2>1, <3>1
    <3>3. Quotes(line, i) = Quotes(line, 1)
      BY <3>1, <3>2, NoQuotes
    <3>4. Quotes(line, 1) = 0
      BY <3>1, QuotesAre
    <3>5. QED  BY <3>3, <3>4
  <2>3. DOMAIN line = 1 .. n
    BY <1>2
  <2>4. Separators(line) \in SUBSET (1 .. n)
    BY <1>2, SeparatorsAre
  <2>5. \A i \in 1 .. n : i \in Separators(line) <=> line[i] = Comma
    BY <1>2, <2>2, SeparatorsAre
  <2>6. QED  BY <2>3, <2>4, <2>5
<1>9. Len(Fields(line)) = Cardinality(Separators(line)) + 1
  <2>1. Separators(line) \in SUBSET (1 .. n)
    BY <1>2, SeparatorsAre
  <2>2. Cardinality(Separators(line)) \in Nat
    BY <2>1, EndsAre
  <2>3. QED  BY <1>2, <2>2, FieldsAre
<1>10. count_columns(f) = 1 + Cardinality(Separators(line))
  BY <1>1, <1>8 DEF count_columns
<1>11. count_columns(f) = l
  <2>1. Cardinality(Separators(line)) + 1 = l
    BY <1>1, <1>3, <1>9
  <2>2. Cardinality(Separators(line)) \in Nat
    <3>1. Separators(line) \in SUBSET (1 .. n)
      BY <1>2, SeparatorsAre
    <3>2. QED  BY <3>1, EndsAre
  <2>3. QED  BY <1>10, <2>1, <2>2
<1>12. QED  BY <1>1, <1>3, <1>6, <1>7, <1>11

\* The lines that are counted are the records, but for a short one at the end.
LEMMA LinesCounted ==
  ASSUME NEW f \in Files, NEW l \in Nat, l = Len(f.lines),
         NEW records, records = {i \in 1 .. l : f.lines[i] # <<>>}
  PROVE  \E counted \in SUBSET records :
            /\ count_lines(f) = Cardinality(counted)
            /\ ~ ShortEnd(f) => counted = records
<1> DEFINE strlen(i) == IF i < l \/ f.newline THEN Len(f.lines[i]) + 1 ELSE Len(f.lines[i])
           counted == {i \in 1 .. l : strlen(i) > 1}
<1>1. DOMAIN f.lines = 1 .. l /\ \A i \in 1 .. l : f.lines[i] \in Seq(STRING)
  BY LinesAre
<1>2. count_lines(f) = Cardinality(counted)
  BY <1>1 DEF count_lines
<1>3. ASSUME NEW i \in 1 .. l PROVE strlen(i) > 1 => f.lines[i] # <<>>
  <2>1. f.lines[i] = <<>> => Len(f.lines[i]) = 0
    OBVIOUS
  <2>2. PICK k \in Nat : k = Len(f.lines[i])
    BY <1>1
  <2>3. QED  BY <2>1, <2>2
<1>4. ASSUME NEW i \in 1 .. l, ~ ShortEnd(f), f.lines[i] # <<>> PROVE strlen(i) > 1
  <2>1. PICK x \in Seq(STRING) : x = f.lines[i] /\ x # <<>>
    BY <1>1, <1>4
  <2>2. PICK k \in Nat \ {0} : k = Len(x)
    BY ONLY <2>1, EmptySeq, LenProperties
  <2>3. CASE i < l \/ f.newline
    BY <2>1, <2>2, <2>3
  <2>4. CASE ~ (i < l \/ f.newline)
    <3>1. i = l
      BY <2>4
    <3>2. k # 1
      BY <1>4, <2>1, <2>2, <2>4, <3>1 DEF ShortEnd, Last
    <3>3. strlen(i) = k
      BY <2>1, <2>2, <2>4
    <3>4. k > 1
      BY <3>2
    <3>5. QED  BY <3>3, <3>4
  <2>5. QED  BY <2>3, <2>4
<1> HIDE DEF strlen
<1>5. counted \in SUBSET records
  BY <1>3
<1>6. ~ ShortEnd(f) => counted = records
  BY <1>4, <1>5
<1>7. QED  BY <1>2, <1>5, <1>6

LEMMA NoMoreCells ==
  ASSUME NEW f \in Files, NEW i \in 1 .. Len(f.lines)
  PROVE  Len(get_cells(f.lines[i])) <= count_columns(f)
<1>1. PICK line \in Seq(STRING) :
        /\ line = f.lines[i] /\ WellQuoted(line)
        /\ line # <<>> => Len(Fields(line)) = Len(ColumnOrder)
  BY LinesAre
<1>2. /\ Len(get_cells(line)) = CellsRead(line) /\ CellsRead(line) \in 0 .. Len(Fields(line))
      /\ Len(Fields(line)) \in Nat \ {0}
  BY <1>1, CellsListed
<1>3. PICK c \in Nat : c = Len(ColumnOrder) /\ c = count_columns(f)
  <2>1. Len(ColumnOrder) \in Nat
    BY FileAssumption
  <2>2. QED  BY <2>1, FirstLineRead
<1>4. CASE line = <<>>
  <2>1. Separators(line) = {}
    <3>1. Len(line) = 0
      BY <1>4
    <3>2. Separators(line) \in SUBSET (1 .. 0)
      <4>1. line \in Seq(STRING) /\ 0 \in Nat
        OBVIOUS
      <4>2. QED  BY ONLY <3>1, <4>1, SeparatorsAre
    <3>3. QED  BY <3>2
  <2>2. Cardinality(Separators(line)) = 0
    BY <2>1, FS_EmptySet
  <2>3. Len(Fields(line)) = 1
    <3>1. PICK n \in Nat, m \in Nat : n = Len(line) /\ m = Cardinality(Separators(line))
      BY <2>2
    <3>2. Len(Fields(line)) = m + 1
      BY <3>1, FieldsAre
    <3>3. QED  BY <2>2, <3>1, <3>2
  <2>4. CellsRead(line) = 0
    BY <1>4, <2>3 DEF CellsRead
  <2>5. QED  BY <1>1, <1>2, <1>3, <2>4
<1>5. CASE line # <<>>
  BY <1>1, <1>2, <1>3, <1>5
<1>6. QED  BY <1>4, <1>5

\* The table is overrun only by a blank line before a record, or by a short one
\* at the end.
LEMMA OverrunsOnly ==
  ASSUME NEW f \in Files, Overruns(f)
  PROVE  BlankInside(f) \/ ShortEnd(f)
<1>1. PICK l \in Nat : l = Len(f.lines) /\ DOMAIN f.lines = 1 .. l
  BY LinesAre
<1> DEFINE records == {i \in 1 .. l : f.lines[i] # <<>>}
<1>2. PICK i \in 1 .. l : i > count_lines(f) /\ f.lines[i] # <<>>
  <2>1. \A i \in 1 .. l : ~ (Len(get_cells(f.lines[i])) > count_columns(f))
    <3>1. ASSUME NEW i \in 1 .. l PROVE ~ (Len(get_cells(f.lines[i])) > count_columns(f))
      <4>1. Len(get_cells(f.lines[i])) <= count_columns(f)
        BY <1>1, NoMoreCells
      <4>2. PICK a \in Nat : a = Len(get_cells(f.lines[i]))
        <5>1. f.lines[i] \in Seq(STRING) /\ WellQuoted(f.lines[i])
          BY <1>1, LinesAre
        <5>2. /\ Len(get_cells(f.lines[i])) = CellsRead(f.lines[i])
              /\ CellsRead(f.lines[i]) \in 0 .. Len(Fields(f.lines[i]))
              /\ Len(Fields(f.lines[i])) \in Nat \ {0}
          BY <5>1, CellsListed
        <5>3. QED  BY <5>2
      <4>3. PICK b \in Nat : b = count_columns(f)
        <5>1. Len(ColumnOrder) \in Nat
          BY FileAssumption
        <5>2. QED  BY <5>1, FirstLineRead
      <4>4. QED  BY <4>1, <4>2, <4>3
    <3>2. QED  BY <3>1
  <2>2. QED  BY <1>1, <2>1 DEF Overruns
<1>3. ASSUME ~ BlankInside(f), ~ ShortEnd(f) PROVE FALSE
  <2>1. count_lines(f) = Cardinality(records)
    BY <1>1, <1>3, LinesCounted
  <2>2. 1 .. i \subseteq records
    <3>1. ASSUME NEW j \in 1 .. i, f.lines[j] = <<>> PROVE FALSE
      <4>1. j \in 1 .. l /\ j # i
        BY <1>2, <3>1
      <4>2. j < i
        BY <4>1
      <4>3. BlankInside(f)
        BY <1>1, <1>2, <3>1, <4>1, <4>2 DEF BlankInside
      <4>4. QED  BY <1>3, <4>3
    <3>2. \A j \in 1 .. i : j \in 1 .. l
      OBVIOUS
    <3>3. QED  BY <3>1, <3>2
  <2>3. IsFiniteSet(records) /\ Cardinality(records) \in Nat
    <3>1. records \in SUBSET (1 .. l)
      OBVIOUS
    <3> HIDE DEF records
    <3>2. QED  BY <3>1, EndsAre
  <2>4. Cardinality(1 .. i) = i
    <3>1. i \in Nat
      OBVIOUS
    <3>2. QED  BY <3>1, FS_Interval
  <2> HIDE DEF records
  <2>5. Cardinality(1 .. i) <= Cardinality(records)
    BY <2>2, <2>3, FS_Subset
  <2>6. QED  BY <1>2, <2>1, <2>3, <2>4, <2>5
<1>4. QED  BY <1>3

\* The records are the lines that are counted, when none is written past the
\* table.
LEMMA RecordsAre ==
  ASSUME NEW f \in Files, ~ Overruns(f)
  PROVE  /\ count_lines(f) \in Nat
         /\ \A k \in 1 .. count_lines(f) : k \in 1 .. Len(f.lines) /\ f.lines[k] # <<>>
         /\ Records(f) = [k \in 1 .. count_lines(f) |-> f.lines[k]]
<1>1. PICK l \in Nat : l = Len(f.lines) /\ DOMAIN f.lines = 1 .. l
  BY LinesAre
<1>2. PICK N \in SUBSET (1 .. l) : N = {i \in 1 .. l : f.lines[i] # <<>>}
  OBVIOUS
<1>3. IsFiniteSet(N) /\ Cardinality(N) \in Nat
  BY EndsAre
<1>4. PICK counted \in SUBSET N : count_lines(f) = Cardinality(counted)
  BY <1>1, <1>2, LinesCounted
<1>5. counted \in SUBSET (1 .. l)
  OBVIOUS
<1>6. PICK c \in Nat : c = count_lines(f) /\ c = Cardinality(counted)
  BY <1>4, <1>5, EndsAre
<1>7. N \subseteq 1 .. c
  <2>1. \A i \in 1 .. l : ~ (i > c /\ f.lines[i] # <<>>)
    BY <1>1, <1>6 DEF Overruns
  <2>2. QED  BY <1>2, <2>1
<1>8. IsFiniteSet(1 .. c) /\ Cardinality(1 .. c) = c
  BY FS_Interval
<1>9. c <= Cardinality(N)
  BY <1>3, <1>6, FS_Subset
<1>10. N \in SUBSET (1 .. c)
  BY <1>7
<1>11. Cardinality(N) <= Cardinality(1 .. c)
  BY ONLY <1>8, <1>10, FS_Subset
<1>12. Cardinality(1 .. c) = Cardinality(N)
  BY <1>3, <1>8, <1>9, <1>11
<1>13. N = 1 .. c
  BY ONLY <1>8, <1>10, <1>12, FS_Subset
<1>14. Records(f) = Kept(f.lines, 1 .. c)
  <2>1. {i \in DOMAIN f.lines : f.lines[i] # <<>>} = 1 .. c
    BY <1>1, <1>2, <1>13
  <2>2. QED  BY <2>1 DEF Records
<1>15. Kept(f.lines, 1 .. c) = [k \in 1 .. c |-> f.lines[Nth(1 .. c, k)]]
  BY <1>8 DEF Kept
<1>16. \A k \in 1 .. c : Nth(1 .. c, k) = k
  BY NthOfAll
<1>17. [k \in 1 .. c |-> f.lines[Nth(1 .. c, k)]] = [k \in 1 .. c |-> f.lines[k]]
  BY <1>16
<1>18. \A k \in 1 .. c : k \in 1 .. l /\ f.lines[k] # <<>>
  BY <1>2, <1>13
<1>19. QED  BY <1>1, <1>6, <1>14, <1>15, <1>17, <1>18

\* Where TableIsFile says that T is what a reader takes from f.
IsTableOf(T, f) ==
  LET lines == Records(f)
  IN /\ DOMAIN T = 0 .. Len(lines) - 1
     /\ \A r \in DOMAIN T, j \in DOMAIN ColumnOrder :
           \/ T[r][ColumnOrder[j]] = Fields(lines[r + 1])[j]
           \/ j = Len(ColumnOrder) /\ EmptyLastCell(lines[r + 1])

\* A cell is found by the name of its column.
LEMMA CellByName ==
  ASSUME NEW T, NEW r \in DOMAIN T, NEW j \in DOMAIN ColumnOrder
  PROVE  ByName(T)[r][ColumnOrder[j]] = T[r][j]
<1>1. ColumnOrder[j] \in Columns
  BY DEF Columns
<1>2. \A k \in DOMAIN ColumnOrder : ColumnOrder[k] = ColumnOrder[j] => k = j
  BY FileAssumption
<1>3. (CHOOSE k \in DOMAIN ColumnOrder : ColumnOrder[k] = ColumnOrder[j]) = j
  BY <1>2
<1>4. QED  BY <1>1, <1>3 DEF ByName

\* get_table() gives the table of the file.
LEMMA TableLoaded ==
  ASSUME NEW f \in Files, ~ Overruns(f), NEW garbage
  PROVE  IsTableOf(ByName(get_table(f, garbage)), f)
<1> DEFINE T == get_table(f, garbage)
<1>1. PICK c \in Nat :
        /\ c = count_lines(f)
        /\ \A k \in 1 .. c : k \in 1 .. Len(f.lines) /\ f.lines[k] # <<>>
        /\ Records(f) = [k \in 1 .. c |-> f.lines[k]]
  BY RecordsAre
<1>2. PICK C \in Nat : C = Len(ColumnOrder) /\ C = count_columns(f) /\ DOMAIN ColumnOrder = 1 .. C
  <2>1. ColumnOrder \in Seq(Without({Comma}) \ {<<>>})
    BY FileAssumption
  <2>2. Len(ColumnOrder) \in Nat /\ DOMAIN ColumnOrder = 1 .. Len(ColumnOrder)
    BY ONLY <2>1, LenProperties
  <2>3. QED  BY <2>2, FirstLineRead
<1>3. Len(Records(f)) = c
  <2>1. \A k \in 1 .. c : f.lines[k] \in Seq(STRING)
    BY <1>1, LinesAre
  <2>2. [k \in 1 .. c |-> f.lines[k]] \in Seq(Seq(STRING))
    BY ONLY <2>1, c \in Nat, IsASeq
  <2>3. DOMAIN [k \in 1 .. c |-> f.lines[k]] = 1 .. c
    OBVIOUS
  <2>4. Len([k \in 1 .. c |-> f.lines[k]]) = c
    BY <2>2, <2>3, LenProperties
  <2>5. QED  BY <1>1, <2>4
<1>4. DOMAIN T = 0 .. c - 1
  BY <1>1 DEF get_table
<1>5. DOMAIN ByName(T) = 0 .. c - 1
  <2> HIDE DEF T
  <2>1. QED  BY <1>4 DEF ByName
<1>6. ASSUME NEW r \in 0 .. c - 1, NEW j \in 1 .. C
      PROVE  \/ ByName(T)[r][ColumnOrder[j]] = Fields(Records(f)[r + 1])[j]
             \/ j = C /\ EmptyLastCell(Records(f)[r + 1])
  <2>1. r + 1 \in 1 .. c
    OBVIOUS
  <2>2. PICK line \in Seq(STRING) :
          /\ line = f.lines[r + 1] /\ line = Records(f)[r + 1] /\ WellQuoted(line)
          /\ line # <<>> /\ Len(Fields(line)) = C
    <3>1. r + 1 \in 1 .. Len(f.lines) /\ f.lines[r + 1] # <<>>
      BY <1>1, <2>1
    <3>2. /\ f.lines[r + 1] \in Seq(STRING) /\ WellQuoted(f.lines[r + 1])
          /\ Len(Fields(f.lines[r + 1])) = Len(ColumnOrder)
      BY <3>1, LinesAre
    <3>3. f.lines[r + 1] = Records(f)[r + 1]
      BY <1>1, <2>1
    <3>4. QED  BY <1>2, <3>1, <3>2, <3>3
  <2>3. T[r] = [i \in 1 .. C |-> IF i \in DOMAIN get_cells(line) THEN get_cells(line)[i]
                                 ELSE garbage]
    BY <1>1, <1>2, <2>2 DEF get_table
  <2>4. ByName(T)[r][ColumnOrder[j]] = T[r][j]
    <3>1. r \in DOMAIN T /\ j \in DOMAIN ColumnOrder
      BY <1>2, <1>4
    <3> HIDE DEF T
    <3>2. QED  BY <3>1, CellByName
  <2>5. /\ DOMAIN get_cells(line) = 1 .. CellsRead(line)
        /\ \A i \in 1 .. CellsRead(line) : get_cells(line)[i] = Fields(line)[i]
    BY <2>2, CellsListed
  <2>6. CellsRead(line) = IF EmptyLastCell(line) THEN C - 1 ELSE C
    BY <2>2 DEF CellsRead
  <2> HIDE DEF T
  <2>7. CASE j \in 1 .. CellsRead(line)
    BY <2>2, <2>3, <2>4, <2>5, <2>7
  <2>8. CASE j \notin 1 .. CellsRead(line)
    BY <2>2, <2>6, <2>8
  <2>9. QED  BY <2>7, <2>8
<1> HIDE DEF T
<1>7. QED  BY <1>2, <1>3, <1>5, <1>6 DEF IsTableOf, T

-------------------------------------------------------------------------------
(* The server of one query *)

AnsweredRight == answered # <<>> /\ query.type = "select_distinct" =>
                   DistinctRight(query, table, answered)

\* Nothing is answered before the query; row 0 of the table is the header.  What
\* has been read is the file, and what is carried out was meant.
SqlInv ==
  /\ file \in Files
  /\ process \in {"starting", "running", "exited", "undefined"} => answered = <<>>
  /\ process \in {"starting", "running", "exited", "undefined", "answered"}
  /\ process = "running" /\ DOMAIN table = RowNumbers => table[0] = Header
  /\ AnsweredRight
  /\ UnderstoodOrRefused
  /\ TableIsFile

\* What is read from the first line is the names of the columns.
LEMMA HeaderIsRead ==
  ASSUME NEW f \in Files, NEW garbage,
         DOMAIN ByName(get_table(f, garbage)) = RowNumbers
  PROVE  ByName(get_table(f, garbage))[0] = Header
<1> DEFINE T == get_table(f, garbage)
<1>1. 0 \in DOMAIN T
  <2>1. DOMAIN ByName(T) = DOMAIN T
    BY DEF ByName
  <2>2. 0 \in RowNumbers
    BY TableAssumption DEF RowNumbers
  <2>3. QED  BY <2>1, <2>2
<1>2. T[0] = [j \in 1 .. Len(ColumnOrder) |-> ColumnOrder[j]]
  <2>1. get_cells(f.lines[0 + 1]) = ColumnOrder
    BY FirstLineRead
  <2>2. DOMAIN ColumnOrder = 1 .. Len(ColumnOrder)
    BY TableAssumption
  <2>3. 0 \in 0 .. count_lines(f) - 1
    BY <1>1 DEF get_table
  <2>4. T[0] = [j \in 1 .. count_columns(f) |->
                  IF j \in DOMAIN get_cells(f.lines[0 + 1])
                  THEN get_cells(f.lines[0 + 1])[j] ELSE garbage]
    BY <2>3 DEF get_table
  <2>5. count_columns(f) = Len(ColumnOrder)
    BY FirstLineRead
  <2>6. QED  BY <2>1, <2>2, <2>4, <2>5
<1> HIDE DEF T
<1>3. ByName(T)[0] = [c \in Columns |->
                        T[0][CHOOSE j \in DOMAIN ColumnOrder : ColumnOrder[j] = c]]
  BY <1>1 DEF ByName
<1>4. ASSUME NEW c \in Columns
      PROVE  T[0][CHOOSE j \in DOMAIN ColumnOrder : ColumnOrder[j] = c] = c
  <2> DEFINE place == CHOOSE j \in DOMAIN ColumnOrder : ColumnOrder[j] = c
  <2>1. \E j \in DOMAIN ColumnOrder : ColumnOrder[j] = c
    BY DEF Columns
  <2>2. place \in DOMAIN ColumnOrder /\ ColumnOrder[place] = c
    BY <2>1
  <2>3. DOMAIN ColumnOrder = 1 .. Len(ColumnOrder)
    BY TableAssumption
  <2> HIDE DEF place
  <2>4. T[0][place] = c
    BY <1>2, <2>2, <2>3
  <2>5. QED  BY <2>4 DEF place
<1>5. QED  BY <1>3, <1>4 DEF Header, T

LEMMA SqlInvInit == Init => SqlInv
BY DEF Init, SqlInv, AnsweredRight, UnderstoodOrRefused, TableIsFile

LEMMA ColumnsAreList ==
  ASSUME NEW q \in Queries, q.type = "select_distinct" PROVE List(q.columns)
<1>1. q.columns \in Seq(Names)
  BY QueryAssumption
<1>2. PICK x \in Seq(Names) : x = q.columns
  BY <1>1
<1>3. Len(x) \in Nat /\ x = [j \in 1 .. Len(x) |-> x[j]]
  OBVIOUS
<1>4. QED  BY <1>2, <1>3 DEF List

\* What a query that is carried out names or assigns is a list.
LEMMA AskedListed ==
  ASSUME NEW q \in Queries, NEW how, Valid(QueryOf(Written(q, how)))
  PROVE  LET taken == QueryOf(Written(q, how))
         IN /\ taken.type = "update" => List(taken.set)
            /\ taken.type = "select_distinct" => List(taken.columns)
<1> DEFINE taken == QueryOf(Written(q, how))
<1>1. q.type \in {"select_star", "select_column", "select_distinct", "update"}
  BY QueryAssumption
<1>2. CASE q.type = "update"
  <2>1. Written(q, how) \in Seq(Pieces)
    BY <1>2, UpdateTyped
  <2>2. QED  BY <2>1, TakenListed
<1>3. CASE q.type # "update"
  <2>1. taken = q
    <3>1. q.type = "select_star" => taken = q
      BY StarTaken
    <3>2. q.type \in {"select_column", "select_distinct"} => taken = q
      BY SelectTaken
    <3>3. QED  BY <1>1, <1>3, <3>1, <3>2
  <2> HIDE DEF taken
  <2>2. taken.type = "update" => List(taken.set)
    BY <1>3, <2>1
  <2>3. taken.type = "select_distinct" => List(taken.columns)
    BY <2>1, ColumnsAreList
  <2>4. QED  BY <2>2, <2>3 DEF taken
<1>4. QED  BY <1>2, <1>3

LEMMA MeantIs ==
  ASSUME NEW q \in Queries, NEW how
  PROVE  /\ q.type # "update" => Meant(q, how) = q
         /\ q.type = "update" => /\ Meant(q, how).type = "update"
                                 /\ Len(Meant(q, how).set) = Len(q.set)
                                 /\ how # "blank" => Meant(q, how) = q
<1>1. q.type # "update" => Meant(q, how) = q
  BY DEF Meant
<1>2. ASSUME q.type = "update"
      PROVE  /\ Meant(q, how).type = "update"
             /\ Len(Meant(q, how).set) = Len(q.set)
             /\ how # "blank" => Meant(q, how) = q
  <2> DEFINE P == Names \X Without({Blank, Apostrophe})
             B == [j \in DOMAIN q.set |-> <<q.set[j][1], MeantValue(q.set[j][2], how)>>]
  <2>1. q = [type |-> "update", set |-> q.set] /\ q.set \in Seq(P)
    BY <1>2, AssignmentsAsked
  <2>2. PICK A : A = q.set /\ A \in Seq(P) /\ q = [type |-> "update", set |-> A]
    BY <2>1
  <2>3. PICK n \in Nat : n = Len(A) /\ DOMAIN A = 1 .. n /\ A = [j \in 1 .. n |-> A[j]]
    <3> HIDE DEF P
    <3>1. PICK a \in Seq(P) : a = A
      BY <2>2
    <3>2. Len(a) \in Nat /\ DOMAIN a = 1 .. Len(a) /\ a = [j \in 1 .. Len(a) |-> a[j]]
      OBVIOUS
    <3>3. QED  BY <3>1, <3>2
  <2>4. Meant(q, how) = [type |-> "update", set |-> B]
    <3> HIDE DEF B
    <3>1. Meant(q, how) = [q EXCEPT !.set = B]
      BY <1>2 DEF Meant, B
    <3>2. QED  BY <2>2, <3>1
  <2>5. B = [j \in 1 .. n |-> <<A[j][1], MeantValue(A[j][2], how)>>]
    BY <2>2, <2>3
  <2>6. Len(B) = n
    <3>1. B = [j \in 1 .. n |-> B[j]]
      BY <2>5
    <3> HIDE DEF B
    <3>2. QED  BY ONLY <3>1, n \in Nat, ListLength
  <2>7. ASSUME how # "blank" PROVE B = A
    <3>1. \A j \in 1 .. n : A[j] \in P
      <4> HIDE DEF P
      <4>1. QED  BY ONLY <2>2, <2>3, ElementOfSeq
    <3>2. \A j \in 1 .. n : <<A[j][1], A[j][2]>> = A[j]
      BY <3>1
    <3>3. \A w : MeantValue(w, how) = w
      BY <2>7 DEF MeantValue
    <3> HIDE DEF B
    <3>4. B = [j \in 1 .. n |-> A[j]]
      BY <2>5, <3>2, <3>3
    <3>5. QED  BY ONLY <2>3, <3>4
  <2> HIDE DEF B
  <2>8. QED  BY <2>2, <2>3, <2>4, <2>6, <2>7
<1>3. QED  BY <1>1, <1>2

\* What is carried out is what is meant, but for some updates.
LEMMA AskUnderstood ==
  ASSUME NEW q \in Queries, NEW how \in Styles, Ask(q, how), Valid(query')
  PROVE  \/ query' = meant'
         \/ meant'.type = "update" /\ style' \in {"blank", "no_where"}
         \/ meant'.type = "update" /\ style' = "tight" /\ Len(meant'.set) > 2
<1>1. style' = how /\ meant' = Meant(q, how) /\ query' = QueryOf(Written(q, how))
  BY DEF Ask
<1>2. q.type \in {"select_star", "select_column", "select_distinct", "update"}
  BY QueryAssumption
<1>3. CASE q.type # "update"
  <2>1. QueryOf(Written(q, how)) = q
    <3>1. q.type = "select_star" => QueryOf(Written(q, how)) = q
      BY StarTaken
    <3>2. q.type \in {"select_column", "select_distinct"} => QueryOf(Written(q, how)) = q
      BY <1>1, SelectTaken
    <3>3. QED  BY <1>2, <1>3, <3>1, <3>2
  <2>2. Meant(q, how) = q
    BY <1>3, MeantIs
  <2>3. QED  BY <1>1, <2>1, <2>2
<1>4. CASE q.type = "update"
  <2>1. Meant(q, how).type = "update" /\ Len(Meant(q, how).set) = Len(q.set)
    BY <1>4, MeantIs
  <2>2. CASE how \in {"blank", "no_where"}
    BY <1>1, <2>1, <2>2
  <2>3. CASE how = "tight" /\ Len(q.set) > 2
    BY <1>1, <2>1, <2>3
  <2>4. CASE how \notin {"blank", "no_where"} /\ ~ (how = "tight" /\ Len(q.set) > 2)
    <3>1. QueryOf(Written(q, how)) = q
      BY <1>4, <2>4, UpdateTaken
    <3>2. Meant(q, how) = q
      BY <1>4, <2>4, MeantIs
    <3>3. QED  BY <1>1, <3>1, <3>2
  <2>5. QED  BY <2>2, <2>3, <2>4
<1>5. QED  BY <1>3, <1>4

LEMMA AskUpdates ==
  ASSUME NEW q \in Queries, NEW how \in Styles, Ask(q, how),
         process' = "answered", query'.type = "update"
  PROVE  UpdateRight(query', table, table', answered')
<1>1. /\ Valid(query') /\ List(query'.set)
      /\ table' = Updated(query', table, 0) /\ answered' = Response(query', table)
  <2>1. /\ query' = QueryOf(Written(q, how)) /\ Valid(query')
        /\ table' = Updated(query', table, 0) /\ answered' = Response(query', table)
    BY DEF Ask
  <2>2. List(query'.set)
    BY <2>1, AskedListed
  <2>3. QED  BY <2>1, <2>2
<1>2. PICK meantHere : meantHere = query'
  OBVIOUS
<1>3. UpdateRight(meantHere, table, Updated(meantHere, table, 0),
                  Response(meantHere, table))
  BY <1>1, <1>2, UpdateAnswer
<1>4. QED  BY <1>1, <1>2, <1>3

LEMMA AskDistinct ==
  ASSUME NEW q \in Queries, NEW how \in Styles, Ask(q, how), SqlInv,
         process' = "answered", query'.type = "select_distinct"
  PROVE  DistinctRight(query', table', answered')
<1>1. /\ Valid(query') /\ List(query'.columns) /\ table[0] = Header
      /\ table' = Updated(query', table, 0) /\ answered' = Response(query', table)
  <2>1. /\ query' = QueryOf(Written(q, how)) /\ Valid(query') /\ table[0] = Header
        /\ table' = Updated(query', table, 0) /\ answered' = Response(query', table)
    BY DEF Ask, SqlInv
  <2>2. List(query'.columns)
    BY <2>1, AskedListed
  <2>3. QED  BY <2>1, <2>2
<1>2. PICK taken : taken = query'
  OBVIOUS
<1>3. DistinctRight(taken, Updated(taken, table, 0), Response(taken, table))
  BY <1>1, <1>2, DistinctAnswer
<1>4. QED  BY <1>1, <1>2, <1>3

LEMMA SqlInvStep == SqlInv /\ [Next]_queryVars => SqlInv'
<1> SUFFICES ASSUME SqlInv, [Next]_queryVars
             PROVE  SqlInv'
  OBVIOUS
<1>1. CASE Load
  <2>1. file' = file /\ answered' = answered /\ answered = <<>>
    BY <1>1 DEF Load, SqlInv
  <2>2. process' \in {"running", "undefined"}
    BY <1>1 DEF Load
  <2>3. ASSUME process' = "running", DOMAIN table' = RowNumbers
        PROVE  table'[0] = Header
    <3>1. \E garbage : table' = ByName(get_table(file, garbage))
      BY <1>1, <2>3 DEF Load
    <3>2. file \in Files
      BY DEF SqlInv
    <3>3. QED  BY <2>3, <3>1, <3>2, HeaderIsRead
  <2>4. AnsweredRight'
    BY <2>1 DEF AnsweredRight
  <2>5. UnderstoodOrRefused'
    BY <2>1 DEF UnderstoodOrRefused
  <2>6. TableIsFile'
    <3>1. CASE Overruns(file)
      <4>1. process' = "undefined" /\ file \in Files
        BY <1>1, <3>1 DEF Load, SqlInv
      <4>2. BlankInside(file) \/ ShortEnd(file)
        BY <3>1, <4>1, OverrunsOnly
      <4>3. QED  BY <2>1, <4>1, <4>2 DEF TableIsFile
    <3>2. CASE ~ Overruns(file)
      <4>1. PICK garbage : table' = ByName(get_table(file, garbage))
        BY <1>1, <3>2 DEF Load
      <4>2. process' = "running" /\ file \in Files
        BY <1>1, <3>2 DEF Load, SqlInv
      <4>3. IsTableOf(table', file')
        BY <2>1, <3>2, <4>1, <4>2, TableLoaded
      <4>4. QED  BY <4>2, <4>3 DEF TableIsFile, IsTableOf
    <3>3. QED  BY <3>1, <3>2
  <2>7. QED  BY <2>1, <2>2, <2>3, <2>4, <2>5, <2>6 DEF SqlInv
<1>2. ASSUME NEW q \in Queries, NEW how \in Styles, Ask(q, how)
      PROVE  SqlInv'
  <2>1. file' = file /\ answered = <<>>
    BY <1>2 DEF Ask, SqlInv
  <2>2. CASE Valid(query')
    <3>1. process' = "answered"
      BY <1>2, <2>2 DEF Ask
    <3>2. query'.type = "select_distinct" => DistinctRight(query', table', answered')
      BY <1>2, <3>1, AskDistinct
    <3>3. AnsweredRight'
      BY <3>2 DEF AnsweredRight
    <3>4. UnderstoodOrRefused'
      BY <1>2, <2>2, AskUnderstood DEF UnderstoodOrRefused
    <3>5. TableIsFile'
      BY <3>1 DEF TableIsFile
    <3>6. QED  BY <2>1, <3>1, <3>3, <3>4, <3>5 DEF SqlInv
  <2>3. CASE ~ Valid(query')
    <3>1. process' = "exited" /\ answered' = <<>>
      BY <1>2, <2>1, <2>3 DEF Ask
    <3>2. AnsweredRight'
      BY <3>1 DEF AnsweredRight
    <3>3. UnderstoodOrRefused'
      BY <3>1 DEF UnderstoodOrRefused
    <3>4. TableIsFile'
      BY <3>1 DEF TableIsFile
    <3>5. QED  BY <2>1, <3>1, <3>2, <3>3, <3>4 DEF SqlInv
  <2>4. QED  BY <2>2, <2>3
<1>3. CASE UNCHANGED queryVars
  <2>1. /\ file' = file /\ process' = process /\ table' = table /\ style' = style
        /\ meant' = meant /\ query' = query /\ answered' = answered
    BY <1>3 DEF queryVars
  <2>2. AnsweredRight'
    <3>1. AnsweredRight
      BY DEF SqlInv
    <3>2. QED  BY <2>1, <3>1 DEF AnsweredRight
  <2>3. UnderstoodOrRefused'
    <3>1. UnderstoodOrRefused
      BY DEF SqlInv
    <3>2. QED  BY <2>1, <3>1 DEF UnderstoodOrRefused
  <2>4. TableIsFile'
    <3>1. TableIsFile
      BY DEF SqlInv
    <3>2. QED  BY <2>1, <3>1 DEF TableIsFile
  <2>5. QED  BY <2>1, <2>2, <2>3, <2>4 DEF SqlInv
<1>4. QED  BY <1>1, <1>2, <1>3 DEF Next

\* The table is the file: for any dataset whose first line names the columns and
\* whose quotes open and close cells, get_table() reads every cell of every
\* record, but for an empty one at the end of a line; and it writes past the
\* table only if a blank line comes before a record, or a line of one character
\* without a '\n' at the end.
THEOREM FileIsLoaded == Spec => []TableIsFile
<1>1. SqlInv => TableIsFile
  BY DEF SqlInv
<1>2. QED  BY <1>1, SqlInvInit, SqlInvStep, PTL DEF Spec

\* A text, however long, is taken apart into the query its client means, or the
\* server exits; but for updates with a blank in a value, with more than one
\* assignment that are not separated by blanks, or without a condition.
THEOREM QueryIsUnderstood == Spec => []UnderstoodOrRefused
<1>1. SqlInv => UnderstoodOrRefused
  BY DEF SqlInv
<1>2. QED  BY <1>1, SqlInvInit, SqlInvStep, PTL DEF Spec

\* A client that asks for the distinct values of some columns gets, after
\* their names, every combination some record has, once only, in the order of
\* the first records to have them.
THEOREM DistinctIsAnswered == Spec => []DistinctIsRight
<1>1. SqlInv => DistinctIsRight
  BY DEF SqlInv, AnsweredRight, DistinctIsRight, DistinctRight
<1>2. QED  BY <1>1, SqlInvInit, SqlInvStep, PTL DEF Spec

\* An update changes the records that meet its condition, in the columns it
\* assigns to and to the last value for each, and nothing else; it sends these
\* records, as they then are, and no other.
THEOREM UpdateIsAnswered == Spec => UpdateIsRight
<1>1. ASSUME Next, process' = "answered", query'.type = "update"
      PROVE  UpdateRight(query', table, table', answered')
  <2>1. ~ Load
    BY <1>1 DEF Load
  <2>2. \E q \in Queries, how \in Styles : Ask(q, how)
    BY <1>1, <2>1 DEF Next
  <2>3. QED  BY <1>1, <2>2, AskUpdates
<1>2. [Next]_queryVars =>
      [process' = "answered" /\ query'.type = "update" =>
         LET hit == {i \in Rows : Matches(query', table[i])}
             sets == Assignments(query')
         IN /\ \A i \in Rows \ hit : table'[i] = table[i]
            /\ Len(answered') = 1 + Cardinality(hit)
            /\ {answered'[k] : k \in 2 .. Len(answered')}
                 = {Project(ColumnOrder, table'[i]) : i \in hit}
            /\ \A i \in hit, j \in DOMAIN sets :
                  \/ \E k \in j + 1 .. Len(sets) : sets[k][1] = sets[j][1]
                  \/ table'[i][sets[j][1]] = sets[j][2]]_queryVars
  BY <1>1 DEF UpdateRight
<1>3. QED  BY <1>2, PTL DEF Spec, UpdateIsRight
=============================================================================
