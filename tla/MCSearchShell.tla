--------------------------- MODULE MCSearchShell ---------------------------
(* An instance of SearchShell for TLC: letters a and b, an uppercase A, and *)
(* a file of each sort.  Paths are numbered in the order of the walk.       *)
EXTENDS SearchShell

LowerCase == "a" :> "a" @@ "b" :> "b" @@ "A" :> "a"
Texts ==
  2 :> <<"a", "-", "b", "-">> @@ 4 :> <<"A", "-", "a", "-">> @@ 6 :> <<"-", "b", "-", "a">>
  @@ 8 :> <<"b", "#">> @@ 9 :> <<"b", "b", "-">> @@ 10 :> <<"a", "-", "0", "b", "-">> @@ 11 :> <<>>

(* A tree of directories (1, 3, 5), one with special files (7), one with   *)
(* more entries than are read, one with an empty file.                     *)
Nested == 1 :> {2, 3, 10} @@ 3 :> {4, 5, 6} @@ 5 :> {}
Special == 1 :> {2, 7, 10}
Crowded == 1 :> {2, 4, 6, 9}
WithEmpty == 1 :> {8, 9, 11}
SomeTrees == {Nested, Special, Crowded, WithEmpty}

SomeQueries == {<<>>, <<<<"a">>>>, <<<<"a">>, <<"b">>>>, <<<<"b">>, <<"a">>>>, <<<<"a">>, <<"a">>>>,
                <<<<"b">>, <<"a", "b">>>>, <<<<"b", "b">>, <<"a">>>>}
=============================================================================
