-------------------------- MODULE MCQueryProcessor --------------------------
(* An instance of QueryProcessor for TLC.                                   *)
EXTENDS QueryProcessor
CONSTANTS c1, c2, whale, ocean, ship, d1, d2

H(d, n) == [doc_id |-> d, num_positions |-> n]
Apart == whale :> <<H(d1, 2)>> @@ ocean :> <<H(d2, 1)>> @@ ship :> <<H(d2, 1), H(d1, 3)>>
Joint == whale :> <<H(d1, 1), H(d2, 2)>> @@ ocean :> <<H(d2, 1), H(d1, 1)>> @@ ship :> <<>>
TwoContents == {Apart, Joint}
SomeQueries == {<<>>, <<whale>>, <<whale, ocean>>, <<ship, whale, ocean>>, <<ocean, ocean>>, <<whale, ship>>}
=============================================================================
