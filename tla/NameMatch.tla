----------------------------- MODULE NameMatch -----------------------------
(***************************************************************************)
(* is_match() of hw1: does a file name match the name given with -f, in    *)
(* which a + after a character stands for more of that character?  One     *)
(* step of the module is one turn of the while loop; make_lover_case() is  *)
(* done to both strings before the first.  Indices count from 1, so that a *)
(* string of n characters ends with its '\0' at n + 1.                     *)
(***************************************************************************)
EXTENDS Integers, Sequences

CONSTANTS Characters,  \* of names and patterns, in upper and lower case
          Lower,       \* what make_lover_case() makes of each
          Patterns,    \* arguments of -f
          FileNames    \* names that readdir() returns

Plus == "+"
Nul  == "\\0"

ASSUME NameAssumption ==
  /\ Nul \notin Characters /\ Plus \in Characters
  /\ Lower \in [Characters -> Characters]
  /\ \A c \in Characters : Lower[c] = Plus <=> c = Plus
  /\ Patterns \subseteq Seq(Characters) /\ FileNames \subseteq Seq(Characters)

VARIABLES syntax,   \* lower_syntax
          exp,      \* lower_exp
          s_index, e_index,
          result    \* "none" before the first call, "running", "yes" or "no"

matchVars == <<syntax, exp, s_index, e_index, result>>

make_lover_case(mix) == [i \in DOMAIN mix |-> Lower[mix[i]]]

MatchInit == /\ syntax \in {make_lover_case(p) : p \in Patterns}
             /\ exp = <<>> /\ s_index = 1 /\ e_index = 1
             /\ result = "none"

Calls(name) == /\ exp' = make_lover_case(name)
               /\ s_index' = 1 /\ e_index' = 1
               /\ result' = "running"
               /\ UNCHANGED syntax

\* lower_exp[ e_index ], which may be the '\0' at its end; what lies behind that
\* makes no difference to the answer.
Char == IF e_index <= Len(exp) THEN exp[e_index] ELSE Nul

InLoop == result = "running" /\ s_index <= Len(syntax)

Advances == /\ InLoop /\ syntax[s_index] = Char
            /\ s_index' = s_index + 1 /\ e_index' = e_index + 1
            /\ UNCHANGED <<syntax, exp, result>>

AtPlus == InLoop /\ syntax[s_index] = Plus /\ Char # Plus

\* Is the next character of the name the one before the +?  A + that stands first
\* has lower_syntax[-1] before it, which nobody has assigned: it may be any
\* character, or the '\0', which leads past the end of the name (once: a bound).
Repeats    == IF s_index = 1 THEN e_index <= Len(exp) + 1
              ELSE syntax[s_index - 1] = Char
RepeatsNot == s_index > 1 => syntax[s_index - 1] # Char

\* Mutant: the + is left with the character that it repeats.
TakesLastMore ==
  /\ AtPlus /\ Repeats
  /\ s_index' = s_index + 1 /\ e_index' = e_index + 1
  /\ UNCHANGED <<syntax, exp, result>>

TakesMore == /\ AtPlus /\ Repeats
             /\ e_index' = e_index + 1
             /\ UNCHANGED <<syntax, exp, s_index, result>>

\* Mutant: s_index stays at the +.
StaysAtPlus == AtPlus /\ RepeatsNot /\ UNCHANGED matchVars

LeavesPlus == /\ AtPlus /\ RepeatsNot
              /\ s_index' = s_index + 1
              /\ UNCHANGED <<syntax, exp, e_index, result>>

Differs == /\ InLoop /\ syntax[s_index] \notin {Char, Plus}
           /\ result' = "no"
           /\ UNCHANGED <<syntax, exp, s_index, e_index>>

Returns == /\ result = "running" /\ s_index > Len(syntax)
           /\ result' = IF e_index = Len(exp) + 1 THEN "yes" ELSE "no"
           /\ UNCHANGED <<syntax, exp, s_index, e_index>>

is_match == Advances \/ TakesMore \/ LeavesPlus \/ Differs \/ Returns

MatchNext == \/ result # "running" /\ \E name \in FileNames : Calls(name)
             \/ is_match

MatchSpec == MatchInit /\ [][MatchNext]_matchVars
-------------------------------------------------------------------------------
(* What a pattern denotes *)

Places(p) == {k \in 1 .. Len(p) : p[k] # Plus}

\* A reading r says of each character of the name for which character of the
\* pattern it stands: in order, none left out that is no +, and several for one
\* only where a + follows it.
Reading(p, n, r) ==
  /\ \A i \in 1 .. Len(n) : n[i] = p[r[i]]
  /\ \A i, j \in 1 .. Len(n) :
        i < j => \/ r[i] < r[j]
                 \/ r[i] = r[j] /\ r[i] + 1 <= Len(p) /\ p[r[i] + 1] = Plus
  /\ \A k \in Places(p) : \E i \in 1 .. Len(n) : r[i] = k

Denotes(p, n) == \E r \in [1 .. Len(n) -> Places(p)] : Reading(p, n, r)

\* a+a: after the + the character it repeats.
NeedsToGoBack(p) ==
  \E i, k \in Places(p) : /\ i + 1 < k /\ p[i] = p[k]
                          /\ \A l \in i + 1 .. k - 1 : p[l] = Plus

LeadsWithPlus(p) == p # <<>> /\ p[1] = Plus

\* A name with a + of its own, which stands for a + of the pattern: a+ for a+.
HasPlus(n) == \E i \in 1 .. Len(n) : n[i] = Plus

Literal(p, n) ==
  HasPlus(n) /\ \E r \in [1 .. Len(n) -> 1 .. Len(p)] : Reading(p, n, r)

\* The answers that may be wrong.
WrongYes(p, n) == Literal(p, n) \/ LeadsWithPlus(p)
WrongNo(p)     == NeedsToGoBack(p) \/ LeadsWithPlus(p)

\* is_match() of hw1 answers yes to the names that the pattern denotes, and to no
\* others, with three exceptions: where a + is followed by the character it
\* repeats, the loop takes what it should leave and does not go back; a + of the
\* name is compared with the + of the pattern; and a + that stands first is
\* compared with what lies before the string.
MatchIsRight ==
  /\ result = "yes" => Denotes(syntax, exp) \/ WrongYes(syntax, exp)
  /\ result = "no" => ~ Denotes(syntax, exp) \/ WrongNo(syntax)
=============================================================================
