---------------------------- MODULE MCFileSearch ----------------------------
(* Directories of up to three levels with a hidden entry, every outcome of  *)
(* stat() for the entries at the top, and patterns and names of up to three *)
(* characters, among them a name with a + and a pattern that begins with    *)
(* one.                                                                     *)
EXTENDS FileSearch

SomeCharacters == {"a", "A", "b", "+", "."}
SomeLower == [c \in SomeCharacters |-> IF c = "A" THEN "a" ELSE c]

SomePatterns == {<<"A">>, <<"a", "+">>, <<"a", "+", "b">>, <<"a", "+", "a">>,
                 <<"b", "+", "+", "a">>, <<"+", "a">>}

a == <<"a">>  aaa == <<"a", "A", "a">>  aab == <<"a", "a", "b">>
bba == <<"b", "b", "a">>  aplus == <<"A", "+">>  hidden == <<".", "a">>

SomeNames == {a, aaa, aab, bba, aplus, hidden}

File(type, stat, opens) == [ftype |-> type, stat |-> stat, opens |-> opens]
Stats == {"right", "wrong", "fails"}

SomeDirectories ==
  { (<<hidden>> :> File("d", "right", TRUE))
      @@ (<<hidden, a>> :> File("f", "right", TRUE))
      @@ (<<aaa>> :> File("f", s, TRUE))
      @@ (<<bba>> :> File("l", t, TRUE))
      @@ (<<a>> :> File(type, "right", opens))
      @@ (<<a, aaa>> :> File("f", t, TRUE))
      @@ (<<a, aab>> :> File("d", "wrong", TRUE))
      @@ (<<a, aab, aplus>> :> File("f", "right", TRUE)) :
    s, t \in Stats, type \in {"d", "?"}, opens \in BOOLEAN }

SomeArguments == {<<"w", "f">>, <<"b", "w">>, <<"w", "f", "b">>, <<"w", "t">>,
                  <<"w", "w">>, <<"f", "b">>, <<"w">>, <<"w", "?">>}
=============================================================================
