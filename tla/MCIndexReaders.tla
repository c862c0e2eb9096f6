--------------------------- MODULE MCIndexReaders ---------------------------
(* An instance of IndexFile and its readers for TLC.  hale has the hash of  *)
(* ship and its length, sea the hash of whale; boat is a word of no index.  *)
EXTENDS IndexReaders, TLC
CONSTANTS whale, ship, sea, hale, boat, n1, n2, n3

Hashes == whale :> 7 @@ ship :> 4 @@ sea :> 7 @@ hale :> 4 @@ boat :> 5
Sizes == whale :> 5 @@ ship :> 4 @@ sea :> 3 @@ hale :> 4 @@ boat :> 32767
         @@ n1 :> 1 @@ n2 :> 32767 @@ n3 :> 9

D(d, n) == [key |-> d, name |-> n]
P(d, s) == [key |-> d, positions |-> s]
W(w, t) == [word |-> w, key |-> Hashes[w], postings |-> t]

(* Postings with empty buckets, one bucket, chains of two and of three.     *)
Sparse == << <<>>, <<P(1, <<0, 9>>)>>, <<>> >>
Chained == << <<P(2, <<3>>)>>, <<P(3, <<0>>), P(1, <<4, 5, 6>>)>> >>
Single == << <<P(3, <<1>>), P(1, <<2>>), P(2, <<7, 8>>)>> >>

SomeDocTables == { << <<D(3, n3)>>, <<D(1, n1)>>, <<D(2, n2)>> >>,
                   << <<D(2, n1)>>, <<D(1, n2), D(3, n3)>> >>,
                   << <<>> >> }
IndexOver(p, q, r) ==
  { << <<W(ship, p)>>, <<>>, <<>>, <<W(whale, q)>> >>,
    << <<W(whale, p), W(boat, q), W(ship, r)>> >>,
    << <<>>, <<W(hale, p), W(sea, r)>>, <<W(boat, q)>> >> }
SomeMemIndexes == {<< <<>>, <<>> >>} \cup UNION {IndexOver(p, q, r) : p, q, r \in {Sparse, Chained, Single}}
=============================================================================
