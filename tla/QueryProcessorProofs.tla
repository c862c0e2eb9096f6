------------------------ MODULE QueryProcessorProofs ------------------------
(***************************************************************************)
(* Safety of QueryProcessor for every number of clients and index files,   *)
(* every contents of the files and every set of queries.                   *)
(***************************************************************************)
EXTENDS QueryProcessor, OperatorLemmas, SequenceTheorems

(* In an index file that holds x, document d has the first k words of the  *)
(* query q, and has them so many times.                                    *)
HasWords(x, q, d, k) == \A j \in 1..k : d \in DocsOf(x, q[j])
RankTo(x, q, d, k) == SumFunctionOnSet([j \in DOMAIN q |-> Occurrences(x, q[j], d)], 1..k)

(* list is what merging the lists of the first k words comes to.           *)
Merged(x, q, list, k) ==
  /\ \A m \in DOMAIN list : /\ HasWords(x, q, list[m].doc_id, k)
                            /\ list[m].num_positions = RankTo(x, q, list[m].doc_id, k)
  /\ \A m, n \in DOMAIN list : list[m].doc_id = list[n].doc_id => m = n
  /\ \A d \in Docs : HasWords(x, q, d, k) => \E m \in DOMAIN list : list[m].doc_id = d

(* res is what the first n of the index files fs have for the query.       *)
Gathered(fs, q, res, n) ==
  /\ \A m \in DOMAIN res : /\ res[m].index \in 1..n /\ HasWords(fs[res[m].index], q, res[m].doc, Len(q))
                           /\ res[m].rank = RankTo(fs[res[m].index], q, res[m].doc, Len(q))
  /\ \A k, m \in DOMAIN res : res[k].index = res[m].index /\ res[k].doc = res[m].doc => k = m
  /\ \A i \in 1..n : \A d \in Docs :
       HasWords(fs[i], q, d, Len(q)) => \E m \in DOMAIN res : res[m].index = i /\ res[m].doc = d

(* A query has gone through the files before its index, and through the    *)
(* words before its word; a list that has run empty stays so.              *)
ClientInv(c) ==
  /\ pc[c] \in {"opening", "opened", "following", "collect"} => index[c] <= NumIndexes
  /\ pc[c] \in {"none", "opening", "opened"} => query[c] = <<>>
  /\ c \in Busy => query[c] # <<>> /\ Gathered(files, query[c], final_result[c], index[c] - 1)
  /\ pc[c] = "following" => /\ isValid[c] /\ word[c] \in 2..Len(query[c]) + 1 /\ id_list[c] # <<>>
                            /\ Merged(files[index[c]], query[c], id_list[c], word[c] - 1)
  /\ pc[c] = "collect" => /\ \A d \in Docs : ~ HasWords(files[index[c]], query[c], d, Len(query[c]))
                          /\ isValid[c] => id_list[c] = <<>>
  /\ pc[c] = "ready" /\ query[c] # <<>> => /\ Gathered(files, query[c], final_result[c], NumIndexes)
                                           /\ Descending(final_result[c])

Hit == [index : 1..NumIndexes, doc : Docs, rank : Nat]

-----------------------------------------------------------------------------
(* What an index file holds.                                               *)
LEMMA DocsOfWord ==
  ASSUME NEW x \in Contents, NEW w \in Words
  PROVE  /\ x[w] \in Seq(Header) /\ Len(x[w]) \in Nat /\ DOMAIN x[w] = 1..Len(x[w])
         /\ \A m \in DOMAIN x[w] : /\ x[w][m] \in Header /\ x[w][m].doc_id \in Docs /\ x[w][m].num_positions \in Nat
                                   /\ x[w][m].doc_id \in DocsOf(x, w)
                                   /\ Occurrences(x, w, x[w][m].doc_id) = x[w][m].num_positions
         /\ \A d \in DocsOf(x, w) : \E m \in DOMAIN x[w] : x[w][m].doc_id = d
         /\ \A k, l \in DOMAIN x[w] : x[w][k].doc_id = x[w][l].doc_id => k = l
<1>1. x[w] \in Seq(Header)
  BY ContentsAssumption
<1>2. Len(x[w]) \in Nat /\ DOMAIN x[w] = 1..Len(x[w]) /\ \A m \in DOMAIN x[w] : x[w][m] \in Header
  BY <1>1
<1>3. \A k, l \in DOMAIN x[w] : x[w][k].doc_id = x[w][l].doc_id => k = l
  BY ContentsAssumption
<1>4. \A d \in DocsOf(x, w) : \E m \in DOMAIN x[w] : x[w][m].doc_id = d
  BY DEF DocsOf, Range
<1>5. ASSUME NEW m \in DOMAIN x[w]
      PROVE  x[w][m].doc_id \in DocsOf(x, w) /\ Occurrences(x, w, x[w][m].doc_id) = x[w][m].num_positions
  <2>1. x[w][m] \in Range(x[w])
    BY DEF Range
  <2>2. \A h \in Range(x[w]) : h.doc_id = x[w][m].doc_id => h = x[w][m]
    BY <1>3 DEF Range
  <2> QED BY <2>1, <2>2, Zenon DEF DocsOf, Occurrences
<1>6. \A h \in Header : h.doc_id \in Docs /\ h.num_positions \in Nat
  BY DEF Header
<1> QED BY <1>1, <1>2, <1>3, <1>4, <1>5, <1>6

LEMMA RankGrows ==
  ASSUME NEW x \in Contents, NEW q \in Seq(Words), NEW k \in Nat, NEW d, k + 1 <= Len(q), HasWords(x, q, d, k + 1)
  PROVE  /\ HasWords(x, q, d, k) /\ RankTo(x, q, d, k) \in Nat
         /\ RankTo(x, q, d, k + 1) = RankTo(x, q, d, k) + Occurrences(x, q[k + 1], d)
         /\ Occurrences(x, q[k + 1], d) \in Nat
         /\ k = 0 => RankTo(x, q, d, k) = 0
<1> DEFINE f == [m \in DOMAIN q |-> Occurrences(x, q[m], d)]
           S == 1..k + 1
<1>1. S \subseteq DOMAIN q /\ IsFiniteSet(S) /\ k + 1 \in S /\ S \ {k + 1} = 1..k
  <2>1. IsFiniteSet(S)
    BY FS_Interval
  <2>2. DOMAIN q = 1..Len(q) /\ Len(q) \in Nat
    OBVIOUS
  <2> QED BY <2>1, <2>2
<1>2. \A m \in S : f[m] = Occurrences(x, q[m], d) /\ f[m] \in Nat
  <2> SUFFICES ASSUME NEW m \in S PROVE f[m] = Occurrences(x, q[m], d) /\ f[m] \in Nat
    OBVIOUS
  <2>1. m \in DOMAIN q /\ q[m] \in Words /\ d \in DocsOf(x, q[m])
    BY <1>1 DEF HasWords
  <2>2. Occurrences(x, q[m], d) \in Nat
    <3> DEFINE w == q[m]
    <3>1. w \in Words /\ d \in DocsOf(x, w)
      BY <2>1
    <3> HIDE DEF w
    <3>2. PICK n \in DOMAIN x[w] : x[w][n].doc_id = d
      BY <3>1, DocsOfWord
    <3>3. Occurrences(x, w, x[w][n].doc_id) = x[w][n].num_positions /\ x[w][n].num_positions \in Nat
      BY <3>1, <3>2, DocsOfWord
    <3> QED BY <3>2, <3>3 DEF w
  <2> QED BY <2>1, <2>2
<1>3. IsFiniteSet(1..k) /\ (k = 0 => 1..k = {}) /\ \A m \in 1..k : f[m] \in Nat
  <2> HIDE DEF f
  <2> QED BY <1>2, FS_Interval
<1> HIDE DEF f, S
<1>4. SumFunctionOnSet(f, S) = f[k + 1] + SumFunctionOnSet(f, 1..k) /\ SumFunctionOnSet(f, 1..k) \in Nat
  <2>1. \A m \in S : f[m] \in Nat
    BY <1>2
  <2>2. \A a \in S : /\ SumFunctionOnSet(f, S \ {a}) \in Nat
                     /\ SumFunctionOnSet(f, S) = f[a] + SumFunctionOnSet(f, S \ {a})
    <3>1. IsFiniteSet(S)
      BY <1>1
    <3> QED BY <2>1, <3>1, SumSplits
  <2> QED BY <1>1, <2>2
<1>5. k = 0 => SumFunctionOnSet(f, 1..k) = 0
  BY <1>3, SumSplits
<1>6. RankTo(x, q, d, k + 1) = SumFunctionOnSet(f, S) /\ RankTo(x, q, d, k) = SumFunctionOnSet(f, 1..k)
  BY DEF RankTo, f, S
<1>7. HasWords(x, q, d, k)
  BY DEF HasWords
<1> QED BY <1>1, <1>2, <1>4, <1>5, <1>6, <1>7

(* The list of the first word.                                             *)
LEMMA FirstMerged ==
  ASSUME NEW x \in Contents, NEW q \in Seq(Words), q # <<>>
  PROVE  Merged(x, q, x[q[1]], 1)
<1>1. Len(q) \in Nat /\ Len(q) # 0
  BY EmptySeq
<1>2. q[1] \in Words
  BY <1>1
<1> DEFINE w == q[1]
<1>3. ASSUME NEW d \in DocsOf(x, w) PROVE HasWords(x, q, d, 1) /\ RankTo(x, q, d, 1) = Occurrences(x, w, d)
  <2>1. HasWords(x, q, d, 0 + 1)
    BY DEF HasWords
  <2>2. 0 + 1 <= Len(q) /\ 0 \in Nat
    BY <1>1
  <2>3. /\ RankTo(x, q, d, 0) = 0 /\ Occurrences(x, q[0 + 1], d) \in Nat
        /\ RankTo(x, q, d, 0 + 1) = RankTo(x, q, d, 0) + Occurrences(x, q[0 + 1], d)
    BY <2>1, <2>2, RankGrows
  <2> QED BY <2>1, <2>3
<1>4. \A d : HasWords(x, q, d, 1) => d \in DocsOf(x, w)
  BY DEF HasWords
<1> HIDE DEF w
<1>5. w \in Words
  BY <1>2 DEF w
<1>6. \A m \in DOMAIN x[w] : HasWords(x, q, x[w][m].doc_id, 1) /\ x[w][m].num_positions = RankTo(x, q, x[w][m].doc_id, 1)
  BY <1>3, <1>5, DocsOfWord
<1>7. \A k, l \in DOMAIN x[w] : x[w][k].doc_id = x[w][l].doc_id => k = l
  BY <1>5, DocsOfWord
<1>8. \A d \in Docs : HasWords(x, q, d, 1) => \E m \in DOMAIN x[w] : x[w][m].doc_id = d
  BY <1>4, <1>5, DocsOfWord
<1> QED BY <1>6, <1>7, <1>8 DEF Merged, w

(* The place of a document's header in a list, or 0.                       *)
Place(list, d) == SelectInSeq(list, LAMBDA g : g.doc_id = d)

LEMMA PlaceFound ==
  ASSUME NEW list \in Seq(Header), NEW d
  PROVE  /\ Place(list, d) # 0 => Place(list, d) \in DOMAIN list /\ list[Place(list, d)].doc_id = d
         /\ Place(list, d) = 0 => \A m \in DOMAIN list : list[m].doc_id # d
<1> DEFINE I == {m \in 1..Len(list) : list[m].doc_id = d}
<1>1. Place(list, d) = IF I # {} THEN Min(I) ELSE 0
  BY Zenon DEF Place, SelectInSeq
<1>2. I \in SUBSET Nat /\ DOMAIN list = 1..Len(list) /\ 0 \notin I
  OBVIOUS
<1>3. I # {} => Min(I) \in I
  <2> HIDE DEF I
  <2> QED BY <1>2, LeastNatural
<1>4. \A m : m \in I <=> m \in DOMAIN list /\ list[m].doc_id = d
  BY <1>2
<1> HIDE DEF I
<1>5. CASE I # {}
  BY <1>1, <1>3, <1>4, <1>5
<1>6. CASE I = {}
  BY <1>1, <1>2, <1>4, <1>6
<1> QED BY <1>5, <1>6

LEMMA InOrderSorts ==
  \A S : S \subseteq Nat /\ IsFiniteSet(S) => InOrder(S) \in SetToSeqs(S)
  BY AscendingRow, Zenon DEF InOrder

LEMMA MergeMerges ==
  ASSUME NEW x \in Contents, NEW q \in Seq(Words), NEW k \in Nat, k + 1 <= Len(q), k # 0,
         NEW list \in Seq(Header), Merged(x, q, list, k)
  PROVE  MergeResult(list, x[q[k + 1]]) \in Seq(Header) /\ Merged(x, q, MergeResult(list, x[q[k + 1]]), k + 1)
<1> DEFINE w == q[k + 1]
           At2(m) == Place(x[w], list[m].doc_id)
           K == {m \in DOMAIN list : At2(m) # 0}
           both == InOrder(K)
           merged == MergeResult(list, x[w])
<1>1. w \in Words
  <2>1. k + 1 \in 1..Len(q)
    OBVIOUS
  <2> QED BY <2>1, ElementOfSeq
<1>2. x[w] \in Seq(Header)
  BY <1>1, DocsOfWord
<1>3. DOMAIN list = 1..Len(list) /\ Len(list) \in Nat /\ \A m \in DOMAIN list : list[m] \in Header
  OBVIOUS
<1>4. both \in SetToSeqs(K) /\ IsFiniteSet(K)
  <2>1. K \in SUBSET (1..Len(list))
    BY <1>3
  <2>2. K \subseteq Nat
    BY <2>1
  <2>3. IsFiniteSet(1..Len(list))
    BY <1>3, FS_Interval
  <2> HIDE DEF K
  <2>4. IsFiniteSet(K)
    BY <2>1, <2>3, FS_Subset
  <2> QED BY <2>2, <2>4, InOrderSorts
<1>5. \A n \in DOMAIN both : both[n] \in K
  <2> HIDE DEF both, K
  <2> QED BY <1>4, RowIsSequence
<1>6. DOMAIN both = 1..Len(both) /\ Len(both) \in Nat
  <2> HIDE DEF both, K
  <2> QED BY <1>4, RowIsSequence
<1>7. /\ \A n, l \in DOMAIN both : both[n] = both[l] => n = l
      /\ \A m \in K : \E n \in DOMAIN both : both[n] = m
  <2> HIDE DEF both, K
  <2> QED BY <1>4, RowIsBijective
<1>8. merged = [n \in DOMAIN both |-> [list[both[n]] EXCEPT !.num_positions = @ + x[w][At2(both[n])].num_positions]]
  BY Zenon DEF MergeResult, Place
<1>9. ASSUME NEW m \in K
      PROVE  /\ m \in DOMAIN list /\ list[m] \in Header
             /\ HasWords(x, q, list[m].doc_id, k + 1)
             /\ [list[m] EXCEPT !.num_positions = @ + x[w][At2(m)].num_positions]
                  = [doc_id |-> list[m].doc_id, num_positions |-> RankTo(x, q, list[m].doc_id, k + 1)]
             /\ list[m].doc_id \in Docs /\ RankTo(x, q, list[m].doc_id, k + 1) \in Nat
  <2> DEFINE d == list[m].doc_id
             l == At2(m)
  <2>1. m \in DOMAIN list /\ list[m] \in Header /\ l # 0
    BY <1>3
  <2>2. HasWords(x, q, d, k) /\ list[m].num_positions = RankTo(x, q, d, k)
    BY <2>1 DEF Merged
  <2>3. l \in DOMAIN x[w] /\ x[w][l].doc_id = d
    <3> HIDE DEF d
    <3>1. l = Place(x[w], d)
      BY DEF d
    <3> HIDE DEF l, w
    <3> QED BY <1>2, <2>1, <3>1, PlaceFound
  <2> HIDE DEF l, d, K, both, merged
  <2>4. d \in DocsOf(x, w) /\ Occurrences(x, w, d) = x[w][l].num_positions /\ x[w][l].num_positions \in Nat
    <3> HIDE DEF w
    <3>1. /\ x[w][l].doc_id \in DocsOf(x, w) /\ Occurrences(x, w, x[w][l].doc_id) = x[w][l].num_positions
          /\ x[w][l].num_positions \in Nat
      BY <1>1, <2>3, DocsOfWord
    <3> QED BY <2>3, <3>1
  <2>5. HasWords(x, q, d, k + 1)
    <3>1. \A j \in 1..k + 1 : j \in 1..k \/ j = k + 1
      OBVIOUS
    <3> QED BY <2>2, <2>4, <3>1, Zenon DEF HasWords, w
  <2>6. RankTo(x, q, d, k + 1) = list[m].num_positions + x[w][l].num_positions /\ RankTo(x, q, d, k) \in Nat
    <3>1. RankTo(x, q, d, k + 1) = RankTo(x, q, d, k) + Occurrences(x, q[k + 1], d) /\ RankTo(x, q, d, k) \in Nat
      BY <2>5, RankGrows
    <3> QED BY <2>2, <2>4, <3>1 DEF w
  <2>7. list[m] = [doc_id |-> d, num_positions |-> list[m].num_positions] /\ d \in Docs /\ list[m].num_positions \in Nat
    BY <2>1 DEF Header, d
  <2>8. [list[m] EXCEPT !.num_positions = @ + x[w][l].num_positions]
          = [doc_id |-> d, num_positions |-> list[m].num_positions + x[w][l].num_positions]
    BY <2>7
  <2> QED BY <2>1, <2>4, <2>5, <2>6, <2>7, <2>8 DEF d, l
<1>10. ASSUME NEW n \in DOMAIN both
       PROVE  /\ both[n] \in DOMAIN list
              /\ merged[n].doc_id = list[both[n]].doc_id
              /\ merged[n].num_positions = RankTo(x, q, list[both[n]].doc_id, k + 1)
              /\ HasWords(x, q, list[both[n]].doc_id, k + 1)
              /\ merged[n] \in Header
  <2>1. both[n] \in K
    BY <1>5
  <2>2. merged[n] = [list[both[n]] EXCEPT !.num_positions = @ + x[w][At2(both[n])].num_positions]
    BY <1>8
  <2> HIDE DEF K, both, merged, At2
  <2> DEFINE m == both[n]
             r == RankTo(x, q, list[m].doc_id, k + 1)
  <2>3. /\ m \in DOMAIN list /\ HasWords(x, q, list[m].doc_id, k + 1)
        /\ merged[n] = [doc_id |-> list[m].doc_id, num_positions |-> r]
        /\ list[m].doc_id \in Docs /\ r \in Nat
    BY <1>9, <2>1, <2>2, Zenon
  <2> HIDE DEF r
  <2>4. merged[n].doc_id = list[m].doc_id /\ merged[n].num_positions = r /\ merged[n] \in Header
    BY <2>3 DEF Header
  <2> QED BY <2>3, <2>4 DEF r
<1>11. merged \in Seq(Header) /\ DOMAIN merged = DOMAIN both
  <2>1. DOMAIN merged = 1..Len(both)
    BY <1>6, <1>8
  <2>2. merged \in [1..Len(both) -> Header]
    <3>1. merged = [n \in 1..Len(both) |-> merged[n]]
      BY <1>6, <1>8
    <3> HIDE DEF merged, both
    <3> QED BY <1>6, <1>10, <3>1
  <2> HIDE DEF merged, both
  <2> QED BY <1>6, <2>1, <2>2
<1>12. ASSUME NEW n \in DOMAIN both, NEW l \in DOMAIN both, merged[n].doc_id = merged[l].doc_id PROVE n = l
  <2> HIDE DEF K, both, merged
  <2>1. list[both[n]].doc_id = list[both[l]].doc_id
    BY <1>10, <1>12
  <2>2. both[n] = both[l]
    BY <1>10, <2>1 DEF Merged
  <2> QED BY <1>7, <2>2
<1>13. ASSUME NEW d \in Docs, HasWords(x, q, d, k + 1) PROVE \E n \in DOMAIN both : merged[n].doc_id = d
  <2>1. HasWords(x, q, d, k) /\ d \in DocsOf(x, w)
    BY <1>13 DEF HasWords
  <2>2. PICK m \in DOMAIN list : list[m].doc_id = d
    BY <2>1 DEF Merged
  <2>3. m \in K
    <3>1. \E l \in DOMAIN x[w] : x[w][l].doc_id = d
      <4> HIDE DEF w
      <4> QED BY <1>1, <2>1, DocsOfWord
    <3>2. Place(x[w], d) # 0
      <4> HIDE DEF w
      <4> QED BY <1>2, <3>1, PlaceFound
    <3> QED BY <2>2, <3>2
  <2>4. PICK n \in DOMAIN both : both[n] = m
    BY <1>7, <2>3
  <2> HIDE DEF K, both, merged
  <2> QED BY <1>10, <2>2, <2>4
<1> HIDE DEF merged, both, K
<1>14. Merged(x, q, merged, k + 1)
  BY <1>10, <1>11, <1>12, <1>13 DEF Merged
<1> QED BY <1>11, <1>14 DEF merged

-----------------------------------------------------------------------------
(* A file without a document that has all the words has no results.        *)
LEMMA GatheredSkips ==
  ASSUME NEW fs, NEW q, NEW res, NEW n \in Nat, Gathered(fs, q, res, n), \A d \in Docs : ~ HasWords(fs[n + 1], q, d, Len(q))
  PROVE  Gathered(fs, q, res, n + 1)
<1>1. \A k \in 1..n + 1 : k \in 1..n \/ k = n + 1
  OBVIOUS
<1>2. 1..n \subseteq 1..n + 1
  OBVIOUS
<1> QED BY <1>1, <1>2, Zenon DEF Gathered

(* The results of a file are added to those of the files before it.        *)
HitsOf(n, list) == [k \in DOMAIN list |-> [index |-> n, doc |-> list[k].doc_id, rank |-> list[k].num_positions]]

LEMMA GatheredAppends ==
  ASSUME NEW fs, NEW q, NEW res \in Seq(Hit), NEW n \in Nat, n < NumIndexes, Gathered(fs, q, res, n),
         NEW list \in Seq(Header), Merged(fs[n + 1], q, list, Len(q))
  PROVE  /\ res \o HitsOf(n + 1, list) \in Seq(Hit)
         /\ Gathered(fs, q, res \o HitsOf(n + 1, list), n + 1)
<1> DEFINE hits == HitsOf(n + 1, list)
           all == res \o hits
<1>1. /\ DOMAIN list = 1..Len(list) /\ Len(list) \in Nat /\ \A k \in 1..Len(list) : list[k] \in Header
      /\ DOMAIN res = 1..Len(res) /\ Len(res) \in Nat
  OBVIOUS
<1>2. n + 1 \in 1..NumIndexes
  BY CountsAssumption
<1>3. \A k \in 1..Len(list) : /\ hits[k] = [index |-> n + 1, doc |-> list[k].doc_id, rank |-> list[k].num_positions]
                              /\ hits[k] \in Hit
  <2> SUFFICES ASSUME NEW k \in 1..Len(list)
               PROVE  /\ hits[k] = [index |-> n + 1, doc |-> list[k].doc_id, rank |-> list[k].num_positions]
                      /\ hits[k] \in Hit
    OBVIOUS
  <2>1. hits[k] = [index |-> n + 1, doc |-> list[k].doc_id, rank |-> list[k].num_positions]
    BY <1>1 DEF HitsOf
  <2>2. list[k].doc_id \in Docs /\ list[k].num_positions \in Nat
    BY <1>1 DEF Header
  <2> HIDE DEF hits
  <2> QED BY <1>2, <2>1, <2>2 DEF Hit
<1>4. hits \in Seq(Hit) /\ Len(hits) = Len(list)
  <2>1. hits = [k \in 1..Len(list) |-> hits[k]]
    BY <1>1 DEF HitsOf
  <2> HIDE DEF hits
  <2> QED BY <1>1, <1>3, <2>1
<1> HIDE DEF hits
<1>5. /\ all \in Seq(Hit) /\ Len(all) = Len(res) + Len(list) /\ DOMAIN all = 1..Len(res) + Len(list)
      /\ \A m \in 1..Len(res) + Len(list) : all[m] = IF m <= Len(res) THEN res[m] ELSE hits[m - Len(res)]
  <2>1. /\ all \in Seq(Hit) /\ Len(all) = Len(res) + Len(hits)
        /\ \A m \in 1..Len(res) + Len(hits) : all[m] = IF m <= Len(res) THEN res[m] ELSE hits[m - Len(res)]
    BY <1>4, ConcatProperties
  <2> HIDE DEF all
  <2>2. DOMAIN all = 1..Len(all)
    BY <2>1
  <2> QED BY <1>4, <2>1, <2>2
<1> HIDE DEF all
<1>6. \A m \in DOMAIN res : m \in DOMAIN all /\ all[m] = res[m]
  BY <1>1, <1>5
<1>7. \A k \in DOMAIN list : Len(res) + k \in DOMAIN all /\ all[Len(res) + k] = hits[k]
  <2> SUFFICES ASSUME NEW k \in DOMAIN list PROVE Len(res) + k \in DOMAIN all /\ all[Len(res) + k] = hits[k]
    OBVIOUS
  <2>1. Len(res) + k \in 1..Len(res) + Len(list) /\ ~ (Len(res) + k <= Len(res)) /\ Len(res) + k - Len(res) = k
    BY <1>1
  <2> QED BY <1>5, <2>1
<1>8. \A m \in DOMAIN all : m \in DOMAIN res \/ \E k \in DOMAIN list : m = Len(res) + k
  <2> SUFFICES ASSUME NEW m \in DOMAIN all, m \notin DOMAIN res PROVE \E k \in DOMAIN list : m = Len(res) + k
    OBVIOUS
  <2>1. m - Len(res) \in DOMAIN list /\ m = Len(res) + (m - Len(res))
    BY <1>1, <1>5
  <2> QED BY <2>1
<1>9. \A m \in DOMAIN res : /\ res[m].index \in 1..n /\ HasWords(fs[res[m].index], q, res[m].doc, Len(q))
                            /\ res[m].rank = RankTo(fs[res[m].index], q, res[m].doc, Len(q))
  BY DEF Gathered
<1>10. \A k \in DOMAIN list : /\ hits[k].index = n + 1 /\ hits[k].doc = list[k].doc_id
                              /\ HasWords(fs[n + 1], q, list[k].doc_id, Len(q))
                              /\ hits[k].rank = RankTo(fs[n + 1], q, list[k].doc_id, Len(q))
  <2> SUFFICES ASSUME NEW k \in DOMAIN list
               PROVE  /\ hits[k].index = n + 1 /\ hits[k].doc = list[k].doc_id
                      /\ HasWords(fs[n + 1], q, list[k].doc_id, Len(q))
                      /\ hits[k].rank = RankTo(fs[n + 1], q, list[k].doc_id, Len(q))
    OBVIOUS
  <2>1. hits[k].index = n + 1 /\ hits[k].doc = list[k].doc_id /\ hits[k].rank = list[k].num_positions
    <3>1. hits[k] = [index |-> n + 1, doc |-> list[k].doc_id, rank |-> list[k].num_positions]
      BY <1>1, <1>3
    <3> QED BY <3>1
  <2>2. HasWords(fs[n + 1], q, list[k].doc_id, Len(q)) /\ list[k].num_positions = RankTo(fs[n + 1], q, list[k].doc_id, Len(q))
    BY Zenon DEF Merged
  <2> QED BY <2>1, <2>2
<1>11. ASSUME NEW m \in DOMAIN all
       PROVE  /\ all[m].index \in 1..n + 1 /\ HasWords(fs[all[m].index], q, all[m].doc, Len(q))
              /\ all[m].rank = RankTo(fs[all[m].index], q, all[m].doc, Len(q))
  <2>1. CASE m \in DOMAIN res
    <3>1. all[m] = res[m] /\ res[m].index \in 1..n + 1
      BY <1>6, <1>9, <2>1
    <3> QED BY <1>9, <2>1, <3>1
  <2>2. CASE m \notin DOMAIN res
    <3>1. PICK k \in DOMAIN list : m = Len(res) + k
      BY <1>8, <2>2
    <3>2. all[m] = hits[k] /\ n + 1 \in 1..n + 1
      BY <1>7, <3>1
    <3> QED BY <1>10, <3>1, <3>2
  <2> QED BY <2>1, <2>2
<1>12. ASSUME NEW k \in DOMAIN all, NEW m \in DOMAIN all, all[k].index = all[m].index, all[k].doc = all[m].doc PROVE k = m
  <2>1. \A a \in DOMAIN res : \A b \in DOMAIN list : all[a].index # all[Len(res) + b].index
    <3>1. \A a \in DOMAIN res : all[a].index \in 1..n
      BY <1>6, <1>9
    <3>2. \A b \in DOMAIN list : all[Len(res) + b].index = n + 1
      BY <1>7, <1>10
    <3>3. n + 1 \notin 1..n
      OBVIOUS
    <3> QED BY <3>1, <3>2, <3>3, Zenon
  <2>2. CASE k \in DOMAIN res /\ m \in DOMAIN res
    BY <1>6, <1>12, <2>2 DEF Gathered
  <2>3. CASE k \notin DOMAIN res /\ m \notin DOMAIN res
    <3>1. PICK a \in DOMAIN list : k = Len(res) + a
      BY <1>8, <2>3
    <3>2. PICK b \in DOMAIN list : m = Len(res) + b
      BY <1>8, <2>3
    <3>3. list[a].doc_id = list[b].doc_id
      BY <1>7, <1>10, <1>12, <3>1, <3>2
    <3> QED BY <3>1, <3>2, <3>3 DEF Merged
  <2> QED BY <1>8, <1>12, <2>1, <2>2, <2>3
<1>13. ASSUME NEW i \in 1..n + 1, NEW d \in Docs, HasWords(fs[i], q, d, Len(q))
       PROVE  \E m \in DOMAIN all : all[m].index = i /\ all[m].doc = d
  <2>1. CASE i = n + 1
    <3>1. PICK k \in DOMAIN list : list[k].doc_id = d
      BY <1>13, <2>1 DEF Merged
    <3> QED BY <1>7, <1>10, <2>1, <3>1
  <2>2. CASE i # n + 1
    <3>1. i \in 1..n
      BY <2>2
    <3>2. PICK m \in DOMAIN res : res[m].index = i /\ res[m].doc = d
      BY <1>13, <3>1 DEF Gathered
    <3> QED BY <1>6, <3>2
  <2> QED BY <2>1, <2>2
<1>14. Gathered(fs, q, all, n + 1)
  BY <1>11, <1>12, <1>13, Zenon DEF Gathered
<1> QED BY <1>5, <1>14 DEF all, hits

(* Sorting rearranges the results.                                         *)
LEMMA SortArranges ==
  ASSUME NEW fs, NEW q, NEW n, NEW res \in Seq(Hit), Gathered(fs, q, res, n), NEW s \in Arrangements(res)
  PROVE  s \in Seq(Hit) /\ Gathered(fs, q, s, n)
<1> DEFINE D == DOMAIN res
<1>1. D = 1..Len(res) /\ Len(res) \in Nat /\ \A k \in D : res[k] \in Hit
  OBVIOUS
<1>2. PICK p \in Bijection(D, D) : s = [k \in D |-> res[p[k]]]
  BY DEF Arrangements
<1> HIDE DEF D
<1>3. p \in [D -> D] /\ \A w \in D : \E v \in D : p[v] = w
  BY DEF Bijection, Surjection
<1>4. \A k, l \in D : p[k] = p[l] => k = l
  BY DEF Bijection, Injection, IsInjective
<1>5. DOMAIN s = D /\ \A k \in D : p[k] \in D /\ s[k] = res[p[k]]
  BY <1>2, <1>3
<1>6. s \in Seq(Hit)
  <2>1. s \in [1..Len(res) -> Hit]
    BY <1>1, <1>2, <1>5
  <2> QED BY <1>1, <2>1
<1>7. \A k \in D : /\ s[k].index \in 1..n /\ HasWords(fs[s[k].index], q, s[k].doc, Len(q))
                   /\ s[k].rank = RankTo(fs[s[k].index], q, s[k].doc, Len(q))
  <2>1. \A m \in D : /\ res[m].index \in 1..n /\ HasWords(fs[res[m].index], q, res[m].doc, Len(q))
                     /\ res[m].rank = RankTo(fs[res[m].index], q, res[m].doc, Len(q))
    BY DEF Gathered, D
  <2> QED BY <1>5, <2>1
<1>8. ASSUME NEW k \in D, NEW l \in D, s[k].index = s[l].index, s[k].doc = s[l].doc PROVE k = l
  <2>1. p[k] = p[l]
    <3>1. \A a, b \in D : res[a].index = res[b].index /\ res[a].doc = res[b].doc => a = b
      BY DEF Gathered, D
    <3> QED BY <1>5, <1>8, <3>1
  <2> QED BY <1>4, <2>1
<1>9. ASSUME NEW i \in 1..n, NEW d \in Docs, HasWords(fs[i], q, d, Len(q)) PROVE \E k \in D : s[k].index = i /\ s[k].doc = d
  <2>1. PICK m \in D : res[m].index = i /\ res[m].doc = d
    BY <1>9 DEF Gathered, D
  <2>2. PICK k \in D : p[k] = m
    BY <1>3
  <2> QED BY <1>5, <2>1, <2>2
<1>10. Gathered(fs, q, s, n)
  BY <1>5, <1>7, <1>8, <1>9 DEF Gathered
<1> QED BY <1>6, <1>10

LEMMA AllDocs ==
  ASSUME NEW x, NEW q \in Seq(Words)
  PROVE  DocsOfAll(x, q) = {d \in Docs : HasWords(x, q, d, Len(q))}
<1>1. \A d : (\A w \in Range(q) : d \in DocsOf(x, w)) <=> HasWords(x, q, d, Len(q))
  <2>1. \A w : w \in Range(q) <=> \E j \in 1..Len(q) : w = q[j]
    BY DEF Range
  <2> QED BY <2>1, Zenon DEF HasWords
<1> QED BY <1>1, Zenon DEF DocsOfAll

(* What has been gathered from all files is the answer.                    *)
LEMMA GatheredIsAnswer ==
  ASSUME NEW q \in Seq(Words), NEW res \in Seq(Hit), Gathered(files, q, res, NumIndexes)
  PROVE  Range(res) = Matches(q) /\ IsInjective(res)
<1>1. DOMAIN res = 1..Len(res) /\ \A m \in DOMAIN res : res[m] \in Hit
  OBVIOUS
<1>2. \A i, d : Rank(files[i], d, q) = RankTo(files[i], q, d, Len(q))
  <2>1. DOMAIN q = 1..Len(q)
    OBVIOUS
  <2> QED BY <2>1, Zenon DEF Rank, RankTo, SumFunction
<1> DEFINE HitOf(i, d) == [index |-> i, doc |-> d, rank |-> Rank(files[i], d, q)]
<1>3. ASSUME NEW r \in Range(res) PROVE \E i \in 1..NumIndexes : \E d \in DocsOfAll(files[i], q) : r = HitOf(i, d)
  <2>1. PICK m \in DOMAIN res : r = res[m]
    BY DEF Range
  <2>2. r = [index |-> r.index, doc |-> r.doc, rank |-> r.rank] /\ r.index \in 1..NumIndexes /\ r.doc \in Docs
    BY <1>1, <2>1 DEF Hit
  <2>3. HasWords(files[r.index], q, r.doc, Len(q)) /\ r.rank = RankTo(files[r.index], q, r.doc, Len(q))
    BY <2>1 DEF Gathered
  <2>4. r.doc \in DocsOfAll(files[r.index], q)
    BY <2>2, <2>3, AllDocs
  <2>5. r = HitOf(r.index, r.doc)
    BY <1>2, <2>2, <2>3
  <2> HIDE DEF HitOf
  <2> QED BY <2>2, <2>4, <2>5
<1>4. ASSUME NEW i \in 1..NumIndexes, NEW d \in DocsOfAll(files[i], q) PROVE HitOf(i, d) \in Range(res)
  <2>1. d \in Docs /\ HasWords(files[i], q, d, Len(q))
    BY AllDocs
  <2>2. PICK m \in DOMAIN res : res[m].index = i /\ res[m].doc = d
    BY <2>1 DEF Gathered
  <2>3. res[m] = [index |-> res[m].index, doc |-> res[m].doc, rank |-> res[m].rank]
    BY <1>1 DEF Hit
  <2>4. res[m].rank = RankTo(files[res[m].index], q, res[m].doc, Len(q))
    BY DEF Gathered
  <2>5. HitOf(i, d) = res[m]
    BY <1>2, <2>2, <2>3, <2>4
  <2> HIDE DEF HitOf
  <2> QED BY <2>5 DEF Range
<1>5. Matches(q) = UNION {{HitOf(i, d) : d \in DocsOfAll(files[i], q)} : i \in 1..NumIndexes}
  BY DEF Matches
<1> HIDE DEF HitOf
<1>6. Range(res) = Matches(q)
  BY <1>3, <1>4, <1>5
<1>7. IsInjective(res)
  <2>1. \A k, m \in DOMAIN res : res[k].index = res[m].index /\ res[k].doc = res[m].doc => k = m
    BY DEF Gathered
  <2> QED BY <2>1, Zenon DEF IsInjective
<1> QED BY <1>6, <1>7

-----------------------------------------------------------------------------
(* The readers that a query leaves behind.                                 *)
LEMMA Leaves ==
  ASSUME NEW x, NEW q \in Seq(Words)
  PROVE  LeavesReader(x, q) <=>
           \E k \in 2..Len(q) : (\A j \in 1..k : x[q[j]] # <<>>) /\ \A d \in Docs : ~ HasWords(x, q, d, k)
<1>1. ASSUME NEW k \in 2..Len(q) PROVE DocsOfAll(x, SubSeq(q, 1, k)) = {} <=> \A d \in Docs : ~ HasWords(x, q, d, k)
  <2> DEFINE p == SubSeq(q, 1, k)
  <2>1. p \in Seq(Words) /\ Len(p) = k /\ \A j \in 1..k : p[j] = q[j]
    <3>1. 1 \in 1..Len(q) + 1 /\ k \in 1 - 1..Len(q) /\ Len(q) \in Nat
      OBVIOUS
    <3>2. p \in Seq(Words) /\ Len(p) = k - 1 + 1 /\ \A j \in 1..k - 1 + 1 : p[j] = q[1 + j - 1]
      BY <3>1, SubSeqProperties
    <3> HIDE DEF p
    <3> QED BY <3>2
  <2> HIDE DEF p
  <2>2. \A d : HasWords(x, p, d, Len(p)) <=> HasWords(x, q, d, k)
    BY <2>1 DEF HasWords
  <2>3. DocsOfAll(x, p) = {d \in Docs : HasWords(x, p, d, Len(p))}
    BY <2>1, AllDocs
  <2>4. DocsOfAll(x, p) = {} <=> \A d \in Docs : ~ HasWords(x, q, d, k)
    BY <2>2, <2>3
  <2> QED BY <2>4 DEF p
<1> QED BY <1>1, Zenon DEF LeavesReader

LEMMA LeftGrows ==
  ASSUME NEW q, NEW n \in Nat
  PROVE  /\ LeftBy(q, 1..n) \in Nat /\ LeftBy(q, 1..n + 1) \in Nat
         /\ LeavesReader(files[n + 1], q) => LeftBy(q, 1..n + 1) = LeftBy(q, 1..n) + 1
         /\ ~ LeavesReader(files[n + 1], q) => LeftBy(q, 1..n + 1) = LeftBy(q, 1..n)
         /\ n = 0 => LeftBy(q, 1..n) = 0
<1> DEFINE L(k) == {i \in 1..k : LeavesReader(files[i], q)}
<1>1. L(n) \in SUBSET (1..n) /\ IsFiniteSet(1..n) /\ (n = 0 => L(n) = {})
  BY FS_Interval
<1>2. n + 1 \notin L(n)
  OBVIOUS
<1>3. /\ LeavesReader(files[n + 1], q) => L(n + 1) = L(n) \cup {n + 1}
      /\ ~ LeavesReader(files[n + 1], q) => L(n + 1) = L(n)
  <2>1. \A k \in 1..n + 1 : k \in 1..n \/ k = n + 1
    OBVIOUS
  <2>2. \A k \in 1..n : k \in 1..n + 1
    OBVIOUS
  <2>3. n + 1 \in 1..n + 1
    OBVIOUS
  <2> QED BY <2>1, <2>2, <2>3
<1>4. LeftBy(q, 1..n) = Cardinality(L(n)) /\ LeftBy(q, 1..n + 1) = Cardinality(L(n + 1))
  BY DEF LeftBy
<1> HIDE DEF L
<1>5. IsFiniteSet(L(n)) /\ Cardinality(L(n)) \in Nat
  BY <1>1, FS_Subset, FS_CardinalityType
<1>6. Cardinality(L(n) \cup {n + 1}) = Cardinality(L(n)) + 1
  BY <1>2, <1>5, FS_AddElement
<1>7. n = 0 => Cardinality(L(n)) = 0
  BY <1>1, FS_EmptySet
<1>8. LeavesReader(files[n + 1], q) => LeftBy(q, 1..n + 1) = LeftBy(q, 1..n) + 1
  BY <1>3, <1>4, <1>6
<1>9. ~ LeavesReader(files[n + 1], q) => LeftBy(q, 1..n + 1) = LeftBy(q, 1..n)
  BY <1>3, <1>4
<1>10. LeftBy(q, 1..n) \in Nat /\ (n = 0 => LeftBy(q, 1..n) = 0)
  BY <1>4, <1>5, <1>7
<1>11. LeftBy(q, 1..n + 1) \in Nat
  BY <1>8, <1>9, <1>10
<1> QED BY <1>8, <1>9, <1>10, <1>11

-----------------------------------------------------------------------------
FdsInv == fds = SumFunction([c \in Clients |-> Held(c)]) + Left
IInv == TypeOK /\ FdsInv /\ \A c \in Clients : ClientInv(c)

LEMMA InitIInv == Init => IInv
<1> SUFFICES ASSUME Init PROVE IInv
  OBVIOUS
<1>1. \A S : <<>> \in Seq(S)
  OBVIOUS
<1>2. TypeOK
  <2>1. NumIndexes \in Nat \ {0} /\ MaxFds \in Nat
    BY CountsAssumption
  <2>2. 1 \in 1..NumIndexes + 1 /\ 0 \in 0..MaxFds
    BY <2>1
  <2> QED BY <1>1, <2>2 DEF Init, TypeOK
<1>3. \A c \in Clients : ClientInv(c)
  BY DEF Init, ClientInv, Busy
<1>4. FdsInv
  <2> DEFINE zero == [c \in Clients |-> 0]
  <2>1. IsFiniteSet(Clients) /\ \A c \in Clients : zero[c] \in Nat
    BY ClientsAssumption
  <2>2. SumFunctionOnSet(zero, Clients) = 0
    <3>1. \A c \in Clients : zero[c] = 0
      OBVIOUS
    <3> HIDE DEF zero
    <3> QED BY <2>1, <3>1, SumOfZeros
  <2>3. [c \in Clients |-> Held(c)] = zero /\ [c \in Clients |-> LeftSoFar(c)] = zero
    BY DEF Init, Held, LeftSoFar, Busy
  <2>4. SumFunction([k \in DOMAIN answered |-> LeftBy(answered[k], 1..NumIndexes)]) = 0
    <3> DEFINE f == [k \in DOMAIN answered |-> LeftBy(answered[k], 1..NumIndexes)]
    <3>1. DOMAIN f = {}
      BY DEF Init
    <3> HIDE DEF f
    <3>2. IsFiniteSet({}) /\ \A x \in {} : f[x] \in Nat
      BY FS_EmptySet
    <3>3. SumFunctionOnSet(f, {}) = 0
      BY <3>2, SumSplits
    <3> QED BY <3>1, <3>3 DEF SumFunction, f
  <2> QED BY <2>2, <2>3, <2>4 DEF Init, FdsInv, Left, SumFunction
<1> QED BY <1>2, <1>3, <1>4 DEF IInv

(* A step of one client leaves the files and the other clients alone.      *)
Unmoved(d) ==
  /\ pc'[d] = pc[d] /\ index'[d] = index[d] /\ query'[d] = query[d] /\ word'[d] = word[d]
  /\ id_list'[d] = id_list[d] /\ isValid'[d] = isValid[d] /\ final_result'[d] = final_result[d]
Only(c) == UNCHANGED files /\ \A d \in Clients : d # c => Unmoved(d)

LEMMA Frame ==
  ASSUME NEW d \in Clients, UNCHANGED files, Unmoved(d)
  PROVE  ClientInv(d)' = ClientInv(d) /\ Held(d)' = Held(d) /\ LeftSoFar(d)' = LeftSoFar(d)
<1>1. d \in Busy' <=> d \in Busy
  BY DEF Unmoved, Busy
<1>2. ClientInv(d)' = ClientInv(d)
  BY <1>1 DEF Unmoved, ClientInv, Descending
<1>3. Held(d)' = Held(d)
  BY DEF Unmoved, Held
<1>4. LeftSoFar(d)' = LeftSoFar(d)
  <2>1. \A q, S : LeftBy(q, S)' = LeftBy(q, S)
    BY DEF LeftBy
  <2>2. LeftBy(query[d], 1..index[d])' = LeftBy(query[d], 1..index[d])
    BY DEF LeftBy, Unmoved
  <2>3. LeftBy(query[d], 1..index[d] - 1)' = LeftBy(query[d], 1..index[d] - 1)
    BY DEF LeftBy, Unmoved
  <2> QED BY <1>1, <2>2, <2>3 DEF Unmoved, LeftSoFar
<1> QED BY <1>2, <1>3, <1>4

LEMMA ClientsInv ==
  ASSUME IInv, NEW c \in Clients, Only(c), ClientInv(c)'
  PROVE  \A d \in Clients : ClientInv(d)'
<1> SUFFICES ASSUME NEW d \in Clients, d # c PROVE ClientInv(d)'
  OBVIOUS
<1>1. ClientInv(d) /\ UNCHANGED files /\ Unmoved(d)
  BY DEF IInv, Only
<1> QED BY <1>1, Frame

(* What a client holds and has left so far are numbers.                    *)
LEMMA Counted ==
  ASSUME TypeOK, NEW c \in Clients
  PROVE  Held(c) \in Nat /\ LeftSoFar(c) \in Nat
<1>1. index[c] \in 1..NumIndexes + 1 /\ NumIndexes \in Nat \ {0} /\ pc[c] \in {"none", "opening", "opened", "ready", "first", "following", "collect"}
  BY CountsAssumption DEF TypeOK
<1>2. index[c] \in Nat /\ index[c] - 1 \in Nat
  BY <1>1
<1>3. \A n \in Nat : LeftBy(query[c], 1..n) \in Nat
  BY LeftGrows
<1>4. Held(c) \in Nat
  BY <1>1 DEF Held
<1>5. LeftBy(query[c], 1..index[c]) \in Nat /\ LeftBy(query[c], 1..index[c] - 1) \in Nat
  BY <1>2, <1>3
<1> QED BY <1>4, <1>5 DEF LeftSoFar

LeftByAnswered == SumFunction([k \in DOMAIN answered |-> LeftBy(answered[k], 1..NumIndexes)])
SumHeld == SumFunction([c \in Clients |-> Held(c)])
SumLeftSoFar == SumFunction([c \in Clients |-> LeftSoFar(c)])

LEMMA Sums ==
  ASSUME IInv
  PROVE  /\ fds = SumHeld + (LeftByAnswered + SumLeftSoFar)
         /\ fds \in Nat /\ SumHeld \in Nat /\ LeftByAnswered \in Nat /\ SumLeftSoFar \in Nat
         /\ \A c \in Clients : Held(c) <= fds
<1>1. TypeOK /\ FdsInv /\ NumIndexes \in Nat \ {0} /\ fds \in Nat
  <2>1. fds \in 0..MaxFds
    BY DEF IInv, TypeOK
  <2> QED BY <2>1, CountsAssumption DEF IInv
<1> DEFINE h == [c \in Clients |-> Held(c)]
           l == [c \in Clients |-> LeftSoFar(c)]
           a == [k \in DOMAIN answered |-> LeftBy(answered[k], 1..NumIndexes)]
<1>2. /\ \A c \in Clients : h[c] \in Nat /\ h[c] = Held(c)
      /\ \A c \in Clients : l[c] \in Nat
  BY <1>1, Counted
<1>3. \A k \in DOMAIN answered : a[k] \in Nat
  BY <1>1, LeftGrows
<1>4. IsFiniteSet(Clients) /\ IsFiniteSet(DOMAIN answered)
  <2>1. Len(answered) \in Nat /\ DOMAIN answered = 1..Len(answered)
    <3>1. answered \in Seq(Queries)
      BY <1>1 DEF TypeOK
    <3> QED BY <3>1
  <2> QED BY <2>1, ClientsAssumption, FS_Interval
<1>5. SumHeld = SumFunctionOnSet(h, Clients) /\ SumLeftSoFar = SumFunctionOnSet(l, Clients)
      /\ LeftByAnswered = SumFunctionOnSet(a, DOMAIN answered)
  BY DEF SumHeld, SumLeftSoFar, LeftByAnswered, SumFunction
<1> HIDE DEF h, l, a
<1>6. SumLeftSoFar \in Nat
  BY <1>2, <1>4, <1>5, SumSplits
<1>7. LeftByAnswered \in Nat
  <2>1. SumFunctionOnSet(a, DOMAIN answered) \in Nat
    BY <1>3, <1>4, SumSplits
  <2> QED BY <1>5, <2>1
<1>8. SumHeld \in Nat /\ \A c \in Clients : Held(c) <= SumHeld
  <2>1. /\ SumFunctionOnSet(h, Clients) \in Nat
        /\ \A c \in Clients : /\ SumFunctionOnSet(h, Clients \ {c}) \in Nat
                              /\ SumFunctionOnSet(h, Clients) = h[c] + SumFunctionOnSet(h, Clients \ {c})
    BY <1>2, <1>4, SumSplits
  <2>2. ASSUME NEW c \in Clients PROVE Held(c) <= SumHeld
    <3>1. SumHeld = Held(c) + SumFunctionOnSet(h, Clients \ {c}) /\ Held(c) \in Nat /\ SumFunctionOnSet(h, Clients \ {c}) \in Nat
      BY <1>2, <1>5, <2>1
    <3> QED BY <3>1
  <2> QED BY <1>5, <2>1, <2>2
<1>9. fds = SumHeld + (LeftByAnswered + SumLeftSoFar)
  BY <1>1 DEF FdsInv, Left, SumHeld, LeftByAnswered, SumLeftSoFar
<1>10. \A c \in Clients : Held(c) <= fds
  <2> SUFFICES ASSUME NEW c \in Clients PROVE Held(c) <= fds
    OBVIOUS
  <2>1. Held(c) <= SumHeld /\ Held(c) \in Nat
    BY <1>1, <1>8, Counted
  <2> QED BY <1>1, <1>6, <1>7, <1>8, <1>9, <2>1
<1> QED BY <1>1, <1>6, <1>7, <1>8, <1>9, <1>10

(* A step of a client changes the sums by what it changes of its own.      *)
LEMMA SumsChange ==
  ASSUME IInv, NEW c \in Clients, Only(c), Held(c)' \in Nat, LeftSoFar(c)' \in Nat
  PROVE  /\ SumHeld' \in Nat /\ SumLeftSoFar' \in Nat
         /\ SumHeld + Held(c)' = SumHeld' + Held(c)
         /\ SumLeftSoFar + LeftSoFar(c)' = SumLeftSoFar' + LeftSoFar(c)
<1> DEFINE h == [d \in Clients |-> Held(d)]
           l == [d \in Clients |-> LeftSoFar(d)]
           h2 == [d \in Clients |-> Held(d)']
           l2 == [d \in Clients |-> LeftSoFar(d)']
<1>1. ASSUME NEW d \in Clients
      PROVE  /\ h[d] \in Nat /\ l[d] \in Nat /\ h2[d] \in Nat /\ l2[d] \in Nat
             /\ d # c => h[d] = h2[d] /\ l[d] = l2[d]
  <2>1. Held(d) \in Nat /\ LeftSoFar(d) \in Nat
    BY Counted DEF IInv
  <2>2. d # c => Held(d)' = Held(d) /\ LeftSoFar(d)' = LeftSoFar(d)
    BY Frame DEF Only
  <2> QED BY <2>1, <2>2
<1>2. h[c] = Held(c) /\ l[c] = LeftSoFar(c) /\ h2[c] = Held(c)' /\ l2[c] = LeftSoFar(c)'
  OBVIOUS
<1>3. /\ SumHeld = SumFunctionOnSet(h, Clients) /\ SumLeftSoFar = SumFunctionOnSet(l, Clients)
      /\ SumHeld' = SumFunctionOnSet(h2, Clients) /\ SumLeftSoFar' = SumFunctionOnSet(l2, Clients)
  BY DEF SumHeld, SumLeftSoFar, SumFunction
<1> HIDE DEF h, l, h2, l2
<1>4. /\ \A d \in Clients : h[d] \in Nat
      /\ \A d \in Clients : h2[d] \in Nat
      /\ \A d \in Clients : l[d] \in Nat
      /\ \A d \in Clients : l2[d] \in Nat
      /\ \A d \in Clients : d # c => h[d] = h2[d]
      /\ \A d \in Clients : d # c => l[d] = l2[d]
  BY <1>1
<1>5. SumFunctionOnSet(h, Clients) + h2[c] = SumFunctionOnSet(h2, Clients) + h[c]
  BY <1>4, ClientsAssumption, SumChanges
<1>6. SumFunctionOnSet(l, Clients) + l2[c] = SumFunctionOnSet(l2, Clients) + l[c]
  BY <1>4, ClientsAssumption, SumChanges
<1>7. SumFunctionOnSet(h2, Clients) \in Nat
  BY <1>4, ClientsAssumption, SumSplits
<1>8. SumFunctionOnSet(l2, Clients) \in Nat
  BY <1>4, ClientsAssumption, SumSplits
<1> QED BY <1>2, <1>3, <1>5, <1>6, <1>7, <1>8

(* Every descriptor is accounted for when a step opens as many as it       *)
(* comes to hold and to leave.                                             *)
LEMMA FdsStep ==
  ASSUME IInv, NEW c \in Clients, Only(c), UNCHANGED answered, Held(c)' \in Nat, LeftSoFar(c)' \in Nat,
         fds' \in Int, fds' + Held(c) + LeftSoFar(c) = fds + Held(c)' + LeftSoFar(c)'
  PROVE  FdsInv' /\ fds' >= 0
<1>1. /\ fds = SumHeld + (LeftByAnswered + SumLeftSoFar)
      /\ fds \in Nat /\ SumHeld \in Nat /\ LeftByAnswered \in Nat /\ SumLeftSoFar \in Nat
  BY Sums
<1>2. LeftByAnswered' = LeftByAnswered
  BY DEF LeftByAnswered, LeftBy, Only
<1>3. Held(c) \in Nat /\ LeftSoFar(c) \in Nat
  BY Counted DEF IInv
<1>4. /\ SumHeld' \in Nat /\ SumLeftSoFar' \in Nat
      /\ SumHeld + Held(c)' = SumHeld' + Held(c)
      /\ SumLeftSoFar + LeftSoFar(c)' = SumLeftSoFar' + LeftSoFar(c)
  BY SumsChange
<1> DEFINE a == SumHeld' b == SumLeftSoFar' p == Held(c)' q == LeftSoFar(c)' e == fds'
<1>5. a \in Nat /\ b \in Nat /\ p \in Nat /\ q \in Nat /\ e \in Int
      /\ SumHeld + p = a + Held(c) /\ SumLeftSoFar + q = b + LeftSoFar(c) /\ e + Held(c) + LeftSoFar(c) = fds + p + q
  BY <1>4
<1> HIDE DEF a, b, p, q, e
<1>6. e = a + (LeftByAnswered + b) /\ e >= 0
  BY <1>1, <1>3, <1>5
<1>7. FdsInv' <=> e = a + (LeftByAnswered' + b)
  BY DEF FdsInv, Left, SumHeld, LeftByAnswered, SumLeftSoFar, e, a, b
<1> QED BY <1>2, <1>6, <1>7 DEF e

-----------------------------------------------------------------------------
LEMMA Reassemble ==
  ASSUME IInv, NEW c \in Clients, Only(c), TypeOK', FdsInv', ClientInv(c)'
  PROVE  IInv'
<1>1. \A d \in Clients : ClientInv(d)'
  BY ClientsInv
<1> QED BY <1>1 DEF IInv

LEMMA ExitStep == ASSUME IInv, NEW why \in {"descriptors", "empty query"}, Exit(why) PROVE IInv'
<1>1. exited' = why /\ UNCHANGED <<files, fds, pc, index, query, word, id_list, isValid, final_result, answered>>
  BY DEF Exit, queryVars
<1>2. TypeOK'
  BY <1>1 DEF IInv, TypeOK
<1>3. \A d \in Clients : Unmoved(d)
  BY <1>1 DEF Unmoved
<1>4. \A d \in Clients : ClientInv(d)' /\ Held(d)' = Held(d) /\ LeftSoFar(d)' = LeftSoFar(d)
  <2> SUFFICES ASSUME NEW d \in Clients PROVE ClientInv(d)' /\ Held(d)' = Held(d) /\ LeftSoFar(d)' = LeftSoFar(d)
    OBVIOUS
  <2> QED BY <1>1, <1>3, Frame DEF IInv
<1>5. FdsInv'
  <2>1. /\ [d \in Clients |-> Held(d)]' = [d \in Clients |-> Held(d)]
        /\ [d \in Clients |-> LeftSoFar(d)]' = [d \in Clients |-> LeftSoFar(d)]
    BY <1>4
  <2>2. LeftByAnswered' = LeftByAnswered
    BY <1>1 DEF LeftByAnswered, LeftBy
  <2> QED BY <1>1, <2>1, <2>2 DEF IInv, FdsInv, Left, LeftByAnswered
<1> QED BY <1>2, <1>4, <1>5 DEF IInv

(* The types of a client's variables, and of their bounds.                 *)
LEMMA Typed ==
  ASSUME IInv, NEW c \in Clients
  PROVE  /\ NumIndexes \in Nat \ {0} /\ MaxFds \in Nat /\ fds \in 0..MaxFds /\ index[c] \in 1..NumIndexes + 1
         /\ query[c] \in Seq(Words) /\ Len(query[c]) \in Nat /\ word[c] \in Nat
         /\ id_list[c] \in Seq(Header) /\ final_result[c] \in Seq(Hit)
         /\ Held(c) \in Nat /\ LeftSoFar(c) \in Nat /\ Held(c) <= fds
<1>1. TypeOK
  BY DEF IInv
<1>2. query[c] \in Seq(Words)
  <2>1. <<>> \in Seq(Words)
    BY EmptySeq
  <2> QED BY <1>1, <2>1, QueriesAssumption DEF TypeOK
<1>3. Held(c) \in Nat /\ LeftSoFar(c) \in Nat
  BY <1>1, Counted
<1>4. Held(c) <= fds
  BY Sums
<1>5. Len(query[c]) \in Nat
  BY <1>2
<1>6. NumIndexes \in Nat \ {0} /\ MaxFds \in Nat /\ fds \in 0..MaxFds /\ index[c] \in 1..NumIndexes + 1 /\ word[c] \in Nat
  BY <1>1, CountsAssumption DEF TypeOK
<1>7. id_list[c] \in Seq(Header) /\ final_result[c] \in Seq(Hit)
  BY <1>1 DEF TypeOK, Hit
<1> QED BY <1>2, <1>3, <1>4, <1>5, <1>6, <1>7

(* The constructor and the destructor.                                     *)
LEMMA LifeStep ==
  ASSUME IInv, NEW c \in Clients, New(c) \/ OpenIndexFile(c) \/ NewReaders(c) \/ Delete(c)
  PROVE  IInv'
<1> DEFINE n == index[c]
<1>0. /\ NumIndexes \in Nat \ {0} /\ MaxFds \in Nat /\ fds \in 0..MaxFds /\ n \in 1..NumIndexes + 1
      /\ Held(c) \in Nat /\ LeftSoFar(c) \in Nat /\ Held(c) <= fds
  BY Typed
<1>1. TypeOK /\ ClientInv(c)
  BY DEF IInv
<1> DEFINE Places == {"none", "opening", "opened", "ready", "first", "following", "collect"}
<1>2. /\ pc \in [Clients -> Places] /\ index \in [Clients -> 1..NumIndexes + 1]
      /\ query \in [Clients -> Queries \cup {<<>>}]
      /\ final_result \in [Clients -> Seq(Hit)]
  BY <1>1 DEF TypeOK, Hit
<1>3. CASE New(c)
  <2>1. /\ pc[c] = "none" /\ pc' = [pc EXCEPT ![c] = "opening"] /\ index' = [index EXCEPT ![c] = 1]
        /\ UNCHANGED <<files, fds, exited, query, word, id_list, isValid, final_result, answered>>
    BY <1>3 DEF New, At, Goto, queryVars
  <2>2. pc'[c] = "opening" /\ index'[c] = 1 /\ 1 \in 1..NumIndexes + 1
    BY <1>0, <1>2, <2>1
  <2>3. TypeOK'
    BY <1>1, <2>1, <2>2 DEF TypeOK
  <2>4. Only(c)
    BY <1>2, <2>1 DEF Only, Unmoved
  <2>5. ClientInv(c)'
    BY <1>0, <1>1, <2>1, <2>2 DEF ClientInv, Busy
  <2>6. /\ Held(c) = 0 /\ Held(c)' = 0 /\ LeftSoFar(c) = 0 /\ LeftSoFar(c)' = 0
    BY <2>1, <2>2 DEF Held, LeftSoFar, Busy
  <2>7. FdsInv'
    BY <1>0, <2>1, <2>4, <2>6, FdsStep
  <2> QED BY <2>3, <2>4, <2>5, <2>7, Reassemble
<1>4. CASE OpenIndexFile(c)
  <2>1. CASE RunsOut(1)
    BY <2>1, ExitStep DEF RunsOut
  <2>2. CASE ~ RunsOut(1)
    <3>1. /\ pc[c] = "opening" /\ pc' = [pc EXCEPT ![c] = "opened"] /\ fds' = fds + 1 /\ fds + 1 <= MaxFds
          /\ UNCHANGED <<files, exited, index, query, word, id_list, isValid, final_result, answered>>
      BY <1>4, <2>2 DEF OpenIndexFile, At, Goto, queryVars, Available
    <3>2. pc'[c] = "opened" /\ index'[c] = n /\ fds' \in 0..MaxFds
      BY <1>0, <1>2, <3>1
    <3>3. TypeOK'
      BY <1>1, <3>1, <3>2 DEF TypeOK
    <3>4. Only(c)
      BY <1>2, <3>1 DEF Only, Unmoved
    <3>5. ClientInv(c)'
      BY <1>1, <3>1, <3>2 DEF ClientInv, Busy
    <3>6. /\ Held(c) = 2 * (n - 1) /\ Held(c)' = 2 * (n - 1) + 1 /\ LeftSoFar(c) = 0 /\ LeftSoFar(c)' = 0
      BY <3>1, <3>2 DEF Held, LeftSoFar, Busy
    <3>7. FdsInv'
      BY <1>0, <3>1, <3>2, <3>4, <3>6, FdsStep
    <3> QED BY <3>3, <3>4, <3>5, <3>7, Reassemble
  <2> QED BY <2>1, <2>2
<1>5. CASE NewReaders(c)
  <2>1. CASE RunsOut(2)
    BY <2>1, ExitStep DEF RunsOut
  <2>2. CASE ~ RunsOut(2)
    <3>1. /\ pc[c] = "opened" /\ pc' = [pc EXCEPT ![c] = IF n = NumIndexes THEN "ready" ELSE "opening"]
          /\ fds' = fds + 1 /\ fds + 2 <= MaxFds /\ index' = [index EXCEPT ![c] = n + 1]
          /\ UNCHANGED <<files, exited, query, word, id_list, isValid, final_result, answered>>
      BY <1>0, <1>5, <2>2 DEF NewReaders, At, Goto, queryVars, Available, ClosedByFileIndexReader
    <3>2. n <= NumIndexes
      BY <1>1, <3>1 DEF ClientInv
    <3>3. /\ index'[c] = n + 1 /\ fds' \in 0..MaxFds /\ n + 1 \in 1..NumIndexes + 1
          /\ pc'[c] = IF n = NumIndexes THEN "ready" ELSE "opening"
      BY <1>0, <1>2, <3>1, <3>2
    <3>4. TypeOK'
      BY <1>1, <3>1, <3>3 DEF TypeOK
    <3>5. Only(c)
      BY <1>2, <3>1 DEF Only, Unmoved
    <3>6. query[c] = <<>>
      BY <1>1, <3>1 DEF ClientInv
    <3>7. ClientInv(c)'
      BY <1>0, <1>1, <3>1, <3>2, <3>3, <3>6 DEF ClientInv, Busy
    <3>8. /\ Held(c) = 2 * (n - 1) + 1 /\ Held(c)' = 2 * n /\ LeftSoFar(c) = 0 /\ LeftSoFar(c)' = 0
      <4>1. c \notin Busy /\ c \notin Busy'
        BY <3>1, <3>3 DEF Busy
      <4>2. LeftSoFar(c) = 0 /\ LeftSoFar(c)' = 0
        BY <3>1, <3>3, <4>1 DEF LeftSoFar
      <4>3. Held(c) = 2 * (n - 1) + 1
        BY <3>1 DEF Held
      <4>4. index'[c] - 1 = n
        BY <1>0, <3>3
      <4>5. Held(c)' = 2 * n
        <5>1. CASE n = NumIndexes
          <6>1. pc'[c] = "ready"
            BY <3>3, <5>1
          <6> QED BY <5>1, <6>1 DEF Held
        <5>2. CASE n # NumIndexes
          <6>1. pc'[c] = "opening" /\ index'[c] - 1 = n
            <7>1. pc'[c] = "opening"
              BY <3>3, <5>2
            <7> QED BY <4>4, <7>1
          <6> QED BY <6>1 DEF Held
        <5> QED BY <5>1, <5>2
      <4> QED BY <4>2, <4>3, <4>5
    <3>9. FdsInv'
      BY <1>0, <3>1, <3>3, <3>5, <3>8, FdsStep
    <3> QED BY <3>4, <3>5, <3>7, <3>9, Reassemble
  <2> QED BY <2>1, <2>2
<1>6. CASE Delete(c)
  <2>1. /\ pc[c] = "ready" /\ pc' = [pc EXCEPT ![c] = "none"] /\ fds' = fds - 2 * NumIndexes
        /\ query' = [query EXCEPT ![c] = <<>>] /\ final_result' = [final_result EXCEPT ![c] = <<>>]
        /\ UNCHANGED <<files, exited, index, word, id_list, isValid, answered>>
    BY <1>6 DEF Delete, At, Goto, ClosedByDelete
  <2>2. pc'[c] = "none" /\ Held(c) = 2 * NumIndexes
    BY <1>2, <2>1 DEF Held
  <2>3. fds' \in 0..MaxFds
    BY <1>0, <2>1, <2>2
  <2>4. TypeOK'
    <3>1. <<>> \in Seq(Hit)
      BY EmptySeq
    <3>2. query' \in [Clients -> Queries \cup {<<>>}] /\ final_result' \in [Clients -> Seq(Hit)]
      BY <1>2, <2>1, <3>1
    <3> QED BY <1>1, <2>1, <2>2, <2>3, <3>2 DEF TypeOK, Hit
  <2>5. Only(c)
    BY <1>2, <2>1 DEF Only, Unmoved
  <2>6. ClientInv(c)'
    BY <1>2, <2>1, <2>2 DEF ClientInv, Busy
  <2>7. Held(c)' = 0 /\ LeftSoFar(c) = 0 /\ LeftSoFar(c)' = 0
    BY <2>1, <2>2 DEF Held, LeftSoFar, Busy
  <2>8. FdsInv'
    BY <1>0, <2>1, <2>2, <2>3, <2>5, <2>7, FdsStep
  <2> QED BY <2>4, <2>5, <2>6, <2>8, Reassemble
<1> QED BY <1>3, <1>4, <1>5, <1>6

(* What a client has left so far, after a step and before it.              *)
LEMMA LeftAfter ==
  ASSUME NEW c \in Clients, UNCHANGED files, NEW n \in Nat, index'[c] = n + 1, NEW q, query'[c] = q
  PROVE  /\ pc'[c] \in {"first", "following"} => LeftSoFar(c)' = LeftBy(q, 1..n)
         /\ pc'[c] = "collect" => LeftSoFar(c)' = LeftBy(q, 1..n + 1)
<1>1. index'[c] - 1 = n
  OBVIOUS
<1>2. \A S : LeftBy(q, S) = Cardinality({i \in S : LeavesReader(files[i], query'[c])})
  BY DEF LeftBy
<1>3. LeftBy(query[c], 1..index[c] - 1)' = LeftBy(q, 1..n) /\ LeftBy(query[c], 1..index[c])' = LeftBy(q, 1..n + 1)
  BY <1>1, <1>2, Zenon DEF LeftBy
<1> QED BY <1>3 DEF LeftSoFar, Busy

LEMMA LeftBefore ==
  ASSUME NEW c \in Clients, NEW n \in Nat, index[c] = n + 1, NEW q, query[c] = q
  PROVE  /\ pc[c] \in {"first", "following"} => LeftSoFar(c) = LeftBy(q, 1..n)
         /\ pc[c] = "collect" => LeftSoFar(c) = LeftBy(q, 1..n + 1)
<1>1. index[c] - 1 = n
  OBVIOUS
<1>2. LeftBy(query[c], 1..index[c] - 1) = LeftBy(q, 1..n) /\ LeftBy(query[c], 1..index[c]) = LeftBy(q, 1..n + 1)
  BY <1>1, Zenon
<1> QED BY <1>2 DEF LeftSoFar, Busy

(* A query is asked.                                                       *)
LEMMA ProcessQueryStep ==
  ASSUME IInv, NEW c \in Clients, NEW q \in Queries, ProcessQuery(c, q)
  PROVE  IInv'
<1>0. /\ NumIndexes \in Nat \ {0} /\ MaxFds \in Nat /\ fds \in 0..MaxFds
      /\ Held(c) \in Nat /\ LeftSoFar(c) \in Nat /\ Held(c) <= fds
  BY Typed
<1>1. TypeOK /\ ClientInv(c)
  BY DEF IInv
<1> DEFINE Places == {"none", "opening", "opened", "ready", "first", "following", "collect"}
<1>2. /\ pc \in [Clients -> Places] /\ index \in [Clients -> 1..NumIndexes + 1]
      /\ query \in [Clients -> Queries \cup {<<>>}]
      /\ final_result \in [Clients -> Seq(Hit)]
  BY <1>1 DEF TypeOK, Hit
<1>3. CASE Exit("empty query")
  BY <1>3, ExitStep
<1>4. CASE ~ Exit("empty query")
  <2>1. /\ pc[c] = "ready" /\ pc' = [pc EXCEPT ![c] = "first"] /\ index' = [index EXCEPT ![c] = 1] /\ q # <<>>
        /\ query' = [query EXCEPT ![c] = q] /\ final_result' = [final_result EXCEPT ![c] = <<>>]
        /\ UNCHANGED <<files, fds, exited, word, id_list, isValid, answered>>
    BY <1>4 DEF ProcessQuery, At, Goto
  <2>2. pc'[c] = "first" /\ index'[c] = 1 /\ query'[c] = q /\ final_result'[c] = <<>> /\ 1 \in 1..NumIndexes + 1
    BY <1>0, <1>2, <2>1
  <2>3. TypeOK'
    <3>1. <<>> \in Seq(Hit)
      BY EmptySeq
    <3>2. query' \in [Clients -> Queries \cup {<<>>}] /\ final_result' \in [Clients -> Seq(Hit)]
      BY <1>2, <2>1, <3>1
    <3> QED BY <1>1, <2>1, <2>2, <3>2 DEF TypeOK, Hit
  <2>4. Only(c)
    BY <1>2, <2>1 DEF Only, Unmoved
  <2>5. Gathered(files, q, <<>>, 0)
    BY DEF Gathered
  <2>6. ClientInv(c)'
    BY <2>1, <2>2, <2>5 DEF ClientInv, Busy
  <2>7. Held(c) = 2 * NumIndexes /\ Held(c)' = 2 * NumIndexes /\ LeftSoFar(c) = 0
    BY <2>1, <2>2 DEF Held, LeftSoFar, Busy
  <2>8. LeftSoFar(c)' = 0
    <3>1. LeftBy(q, 1..0) = 0
      BY LeftGrows
    <3>2. LeftSoFar(c)' = LeftBy(q, 1..0)
      <4>1. UNCHANGED files /\ 0 \in Nat /\ index'[c] = 0 + 1 /\ query'[c] = q /\ pc'[c] \in {"first", "following"}
        BY <2>1, <2>2
      <4> QED BY <4>1, LeftAfter
    <3> QED BY <3>1, <3>2
  <2>9. FdsInv'
    BY <1>0, <2>1, <2>4, <2>7, <2>8, FdsStep
  <2> QED BY <2>3, <2>4, <2>6, <2>9, Reassemble
<1> QED BY <1>3, <1>4

(* What holds while a query is being answered.                             *)
LEMMA Answering ==
  ASSUME IInv, NEW c \in Busy
  PROVE  /\ c \in Clients /\ query[c] \in Seq(Words) /\ query[c] \in Queries /\ Len(query[c]) \in Nat \ {0}
         /\ \A j \in 1..Len(query[c]) : query[c][j] \in Words
         /\ index[c] - 1 \in Nat /\ index[c] - 1 + 1 = index[c]
         /\ Gathered(files, query[c], final_result[c], index[c] - 1)
         /\ index[c] <= NumIndexes => files[index[c]] \in Contents
<1>1. c \in Clients /\ TypeOK /\ ClientInv(c)
  BY DEF Busy, IInv
<1>2. query[c] \in Seq(Words) /\ Len(query[c]) \in Nat /\ index[c] \in 1..NumIndexes + 1 /\ NumIndexes \in Nat
  BY <1>1, Typed
<1>3. query[c] # <<>> /\ Gathered(files, query[c], final_result[c], index[c] - 1)
  BY <1>1 DEF ClientInv
<1>4. query[c] \in Queries
  BY <1>1, <1>3 DEF TypeOK
<1>5. Len(query[c]) # 0
  BY <1>2, <1>3, EmptySeq
<1>6. \A j \in 1..Len(query[c]) : query[c][j] \in Words
  BY <1>2
<1>7. index[c] - 1 \in Nat /\ index[c] - 1 + 1 = index[c]
  BY <1>2
<1>8. index[c] <= NumIndexes => files[index[c]] \in Contents
  <2>1. files \in [1..NumIndexes -> Contents]
    BY <1>1 DEF TypeOK
  <2> QED BY <1>2, <2>1
<1> QED BY <1>1, <1>2, <1>3, <1>4, <1>5, <1>6, <1>7, <1>8

(* A word without a table in the file has no documents there.              *)
LEMMA NoTable ==
  ASSUME NEW x, NEW q, NEW n \in Nat, NEW j \in 1..n, x[q[j]] = <<>>, NEW d
  PROVE  ~ HasWords(x, q, d, n)
<1>1. Range(<<>>) = {}
  BY DEF Range
<1>2. DocsOf(x, q[j]) = {}
  BY <1>1 DEF DocsOf
<1> QED BY <1>2 DEF HasWords

(* The first word is looked up in the file.                                *)
LEMMA LookupFirstStep ==
  ASSUME IInv, NEW c \in Clients, LookupFirst(c)
  PROVE  IInv'
<1> DEFINE q == query[c]
           n == index[c] - 1
           x == files[n + 1]
           res == final_result[c]
<1>1. pc[c] = "first" /\ index[c] <= NumIndexes /\ c \in Busy
  BY DEF LookupFirst, At, Busy
<1>2. /\ q \in Seq(Words) /\ Len(q) \in Nat \ {0} /\ q[1] \in Words /\ n \in Nat /\ index[c] = n + 1
      /\ Gathered(files, q, res, n) /\ x \in Contents /\ q # <<>> /\ q \in Queries
  <2>1. 1 \in 1..Len(q)
    BY <1>1, Answering
  <2>2. q # <<>>
    BY <1>1 DEF IInv, ClientInv
  <2> QED BY <1>1, <2>1, <2>2, Answering
<1>3. /\ NumIndexes \in Nat \ {0} /\ MaxFds \in Nat /\ fds \in 0..MaxFds
      /\ Held(c) \in Nat /\ LeftSoFar(c) \in Nat /\ Held(c) <= fds
  BY Typed
<1>4. TypeOK
  BY DEF IInv
<1> DEFINE Places == {"none", "opening", "opened", "ready", "first", "following", "collect"}
<1>5. /\ pc \in [Clients -> Places] /\ index \in [Clients -> 1..NumIndexes + 1]
      /\ word \in [Clients -> Nat] /\ id_list \in [Clients -> Seq(Header)] /\ isValid \in [Clients -> BOOLEAN]
  BY <1>4 DEF TypeOK
<1> HIDE DEF q, n, x, res
<1>6. Held(c) = 2 * NumIndexes /\ LeftSoFar(c) = LeftBy(q, 1..n)
  BY <1>1, <1>2, LeftBefore DEF Held, q
<1>7. LeftBy(q, 1..n) \in Nat
  BY <1>2, LeftGrows
<1>8. Found(c, 1) <=> x[q[1]] # <<>>
  BY <1>2 DEF Found, GetDocIDList, x, q
<1>9. CASE ~ Found(c, 1)
  <2>1. /\ index' = [index EXCEPT ![c] = n + 2]
        /\ UNCHANGED <<files, fds, exited, pc, query, word, id_list, isValid, final_result, answered>>
    BY <1>2, <1>5, <1>9 DEF LookupFirst, queryVars
  <2>2. index'[c] = n + 1 + 1 /\ n + 1 \in Nat /\ n + 1 + 1 - 1 = n + 1 /\ pc'[c] = "first" /\ query'[c] = q /\ final_result'[c] = res
        /\ n + 2 \in 1..NumIndexes + 1
    BY <1>1, <1>2, <1>3, <1>5, <2>1 DEF q, res
  <2>3. TypeOK'
    BY <1>4, <2>1, <2>2 DEF TypeOK
  <2>4. Only(c)
    BY <1>5, <2>1 DEF Only, Unmoved
  <2>5. Gathered(files, q, res, n + 1)
    <3>1. \A d \in Docs : ~ HasWords(files[n + 1], q, d, Len(q))
      <4>1. Len(q) \in Nat /\ 1 \in 1..Len(q) /\ x[q[1]] = <<>>
        BY <1>2, <1>8, <1>9
      <4> QED BY <4>1, NoTable DEF x
    <3> QED BY <1>2, <3>1, GatheredSkips
  <2>6. ClientInv(c)'
    <3>1. index'[c] - 1 = n + 1
      BY <2>2
    <3> QED BY <1>2, <2>1, <2>2, <2>5, <3>1 DEF ClientInv, Busy
  <2>7. LeftBy(q, 1..n + 1) = LeftBy(q, 1..n)
    <3>1. ~ LeavesReader(files[n + 1], q)
      <4>1. \A k \in 2..Len(q) : 1 \in 1..k
        BY <1>2
      <4> QED BY <1>8, <1>9, <4>1 DEF LeavesReader, x
    <3> QED BY <1>2, <3>1, LeftGrows
  <2>8. Held(c)' = 2 * NumIndexes
    BY <2>2 DEF Held
  <2>9. LeftSoFar(c)' = LeftBy(q, 1..n + 1)
    BY <2>1, <2>2, LeftAfter
  <2>10. FdsInv'
    BY <1>3, <1>6, <1>7, <2>1, <2>4, <2>7, <2>8, <2>9, FdsStep
  <2> QED BY <2>3, <2>4, <2>6, <2>10, Reassemble
<1>10. CASE Found(c, 1) /\ RunsOut(1)
  BY <1>10, ExitStep DEF RunsOut
<1>11. CASE Found(c, 1) /\ ~ RunsOut(1)
  <2>1. /\ fds + 1 <= MaxFds /\ fds' = fds + 1
        /\ id_list' = [id_list EXCEPT ![c] = x[q[1]]] /\ isValid' = [isValid EXCEPT ![c] = TRUE]
        /\ word' = [word EXCEPT ![c] = 2] /\ pc' = [pc EXCEPT ![c] = "following"]
        /\ UNCHANGED <<files, exited, index, query, final_result, answered>>
    BY <1>2, <1>11 DEF LookupFirst, Available, GetDocIDList, Goto, x, q
  <2>2. /\ index'[c] = n + 1 /\ pc'[c] = "following" /\ query'[c] = q /\ final_result'[c] = res /\ word'[c] = 2
        /\ isValid'[c] = TRUE /\ id_list'[c] = x[q[1]] /\ fds' \in 0..MaxFds
    BY <1>2, <1>3, <1>5, <2>1 DEF q, res
  <2>3. TypeOK'
    <3>1. x[q[1]] \in Seq(Header)
      BY <1>2, DocsOfWord
    <3>2. 2 \in 1..Len(q) + 1
      BY <1>2
    <3>3. \A d \in Clients : word'[d] \in 1..Len(query'[d]) + 1 \/ pc'[d] # "following"
      <4>1. \A d \in Clients : word[d] \in 1..Len(query[d]) + 1 \/ pc[d] # "following"
        BY <1>4 DEF TypeOK
      <4>2. \A d \in Clients : d # c => word'[d] = word[d] /\ query'[d] = query[d] /\ pc'[d] = pc[d]
        BY <1>5, <2>1
      <4> QED BY <2>2, <3>2, <4>1, <4>2
    <3>4. word' \in [Clients -> Nat] /\ id_list' \in [Clients -> Seq(Header)] /\ isValid' \in [Clients -> BOOLEAN] /\ pc' \in [Clients -> Places]
      BY <1>5, <2>1, <3>1
    <3> QED BY <1>4, <2>1, <2>2, <3>3, <3>4 DEF TypeOK
  <2>4. Only(c)
    BY <1>5, <2>1 DEF Only, Unmoved
  <2>5. Merged(x, q, x[q[1]], 1) /\ x[q[1]] # <<>>
    BY <1>2, <1>8, <1>11, FirstMerged
  <2>6. ClientInv(c)'
    <3>1. index'[c] - 1 = n /\ word'[c] - 1 = 1 /\ 2 \in 2..Len(q) + 1 /\ n + 1 <= NumIndexes
      BY <1>1, <1>2, <2>2
    <3>2. files'[index'[c]] = x
      BY <2>1, <2>2 DEF x
    <3> QED BY <1>2, <2>1, <2>2, <2>5, <3>1, <3>2 DEF ClientInv, Busy
  <2>7. Held(c)' = 2 * NumIndexes + 1
    BY <2>2 DEF Held
  <2>8. LeftSoFar(c)' = LeftBy(q, 1..n)
    BY <1>2, <2>1, <2>2, LeftAfter
  <2>9. FdsInv'
    BY <1>3, <1>6, <1>7, <2>1, <2>4, <2>7, <2>8, FdsStep
  <2> QED BY <2>3, <2>4, <2>6, <2>9, Reassemble
<1> QED BY <1>9, <1>10, <1>11

(* A list with documents says that the words so far have tables and share  *)
(* a document.                                                             *)
LEMMA ListHas ==
  ASSUME NEW x, NEW q, NEW k \in Nat, NEW list \in Seq(Header), list # <<>>, Merged(x, q, list, k)
  PROVE  /\ \A j \in 1..k : x[q[j]] # <<>>
         /\ \A m \in 1..k : \E d \in Docs : HasWords(x, q, d, m)
<1> DEFINE d == list[1].doc_id
<1>1. 1 \in DOMAIN list /\ list[1] \in Header
  <2>1. Len(list) \in Nat /\ Len(list) # 0 /\ DOMAIN list = 1..Len(list)
    BY EmptySeq
  <2> QED BY <2>1
<1>2. d \in Docs
  BY <1>1 DEF Header
<1>3. HasWords(x, q, d, k)
  BY <1>1 DEF Merged
<1> HIDE DEF d
<1>4. ASSUME NEW j \in 1..k PROVE x[q[j]] # <<>>
  <2>1. d \in DocsOf(x, q[j])
    BY <1>3 DEF HasWords
  <2> QED BY <2>1 DEF DocsOf, Range
<1>5. ASSUME NEW m \in 1..k PROVE HasWords(x, q, d, m)
  BY <1>3 DEF HasWords
<1> QED BY <1>2, <1>4, <1>5

(* A following word is looked up in the file.                              *)
LEMMA LookupFollowingStep ==
  ASSUME IInv, NEW c \in Clients, LookupFollowing(c)
  PROVE  IInv'
<1> DEFINE q == query[c]
           n == index[c] - 1
           k == word[c] - 1
           x == files[n + 1]
           res == final_result[c]
           list == id_list[c]
           merged == MergeResult(list, x[q[k + 1]])
<1>1. pc[c] = "following" /\ word[c] <= Len(query[c]) /\ c \in Busy /\ ClientInv(c)
  BY DEF LookupFollowing, At, Busy, IInv
<1>2. /\ q \in Seq(Words) /\ Len(q) \in Nat \ {0} /\ n \in Nat /\ index[c] = n + 1 /\ n + 1 <= NumIndexes
      /\ Gathered(files, q, res, n) /\ x \in Contents /\ q # <<>> /\ q \in Queries
  <2>1. q # <<>> /\ index[c] <= NumIndexes
    BY <1>1 DEF ClientInv
  <2> QED BY <1>1, <2>1, Answering
<1>3. /\ NumIndexes \in Nat \ {0} /\ MaxFds \in Nat /\ fds \in 0..MaxFds
      /\ Held(c) \in Nat /\ LeftSoFar(c) \in Nat /\ Held(c) <= fds /\ word[c] \in Nat /\ list \in Seq(Header)
  BY Typed
<1>4. /\ k \in Nat /\ k # 0 /\ k + 1 <= Len(q) /\ word[c] = k + 1 /\ k + 1 \in 1..Len(q) /\ k + 1 \in 2..Len(q)
      /\ isValid[c] /\ list # <<>> /\ Merged(x, q, list, k)
  <2>1. /\ word[c] \in 2..Len(query[c]) + 1 /\ isValid[c] /\ id_list[c] # <<>>
        /\ Merged(files[index[c]], query[c], id_list[c], word[c] - 1)
    BY <1>1 DEF ClientInv
  <2>2. word[c] \in Nat /\ k \in Nat /\ k # 0 /\ k + 1 = word[c]
    BY <1>2, <2>1
  <2> QED BY <1>1, <1>2, <2>1, <2>2
<1>5. TypeOK
  BY DEF IInv
<1> DEFINE Places == {"none", "opening", "opened", "ready", "first", "following", "collect"}
<1>6. /\ pc \in [Clients -> Places] /\ index \in [Clients -> 1..NumIndexes + 1]
      /\ word \in [Clients -> Nat] /\ id_list \in [Clients -> Seq(Header)] /\ isValid \in [Clients -> BOOLEAN]
      /\ \A d \in Clients : word[d] \in 1..Len(query[d]) + 1 \/ pc[d] # "following"
  BY <1>5 DEF TypeOK
<1>7. merged \in Seq(Header) /\ Merged(x, q, merged, k + 1)
  <2> HIDE DEF q, k, x, list
  <2> QED BY <1>2, <1>3, <1>4, MergeMerges
<1> HIDE DEF q, n, k, x, res, list, merged
<1>8. Held(c) = 2 * NumIndexes + 1 /\ LeftSoFar(c) = LeftBy(q, 1..n)
  BY <1>1, <1>2, LeftBefore DEF Held, q
<1>9. LeftBy(q, 1..n) \in Nat /\ LeftBy(q, 1..n + 1) \in Nat
  BY <1>2, LeftGrows
<1>10. Found(c, word[c]) <=> x[q[k + 1]] # <<>>
  BY <1>2, <1>4 DEF Found, GetDocIDList, x, q
<1>11. CASE ~ Found(c, word[c])
  <2>1. /\ isValid' = [isValid EXCEPT ![c] = FALSE] /\ pc' = [pc EXCEPT ![c] = "collect"]
        /\ UNCHANGED <<files, fds, exited, index, query, word, id_list, final_result, answered>>
    BY <1>11 DEF LookupFollowing, NotFound, Goto
  <2>2. /\ index'[c] = n + 1 /\ pc'[c] = "collect" /\ query'[c] = q /\ final_result'[c] = res /\ isValid'[c] = FALSE
    BY <1>2, <1>6, <2>1 DEF q, res
  <2>3. TypeOK'
    <3>1. \A d \in Clients : word'[d] \in 1..Len(query'[d]) + 1 \/ pc'[d] # "following"
      <4>1. \A d \in Clients : d # c => pc'[d] = pc[d]
        BY <1>6, <2>1
      <4> QED BY <1>6, <2>1, <2>2, <4>1
    <3>2. pc' \in [Clients -> Places] /\ isValid' \in [Clients -> BOOLEAN]
      BY <1>6, <2>1
    <3> QED BY <1>5, <2>1, <3>1, <3>2 DEF TypeOK
  <2>4. Only(c)
    BY <1>6, <2>1 DEF Only, Unmoved
  <2>5. \A d \in Docs : ~ HasWords(x, q, d, Len(q))
    BY <1>2, <1>4, <1>10, <1>11, NoTable
  <2>6. ClientInv(c)'
    <3>1. index'[c] - 1 = n /\ files'[index'[c]] = x
      BY <1>2, <2>1, <2>2 DEF x
    <3> QED BY <1>2, <2>1, <2>2, <2>5, <3>1 DEF ClientInv, Busy
  <2>7. LeftBy(q, 1..n + 1) = LeftBy(q, 1..n)
    <3>1. ~ LeavesReader(x, q)
      <4> SUFFICES ASSUME LeavesReader(x, q) PROVE FALSE
        OBVIOUS
      <4>1. PICK m \in 2..Len(q) : (\A j \in 1..m : x[q[j]] # <<>>) /\ \A d \in Docs : ~ HasWords(x, q, d, m)
        BY <1>2, Leaves
      <4>2. ~ (k + 1 \in 1..m)
        BY <1>10, <1>11, <4>1
      <4>3. m \in 1..k
        BY <1>2, <1>4, <4>2
      <4> QED BY <1>3, <1>4, <4>1, <4>3, ListHas
    <3> QED BY <1>2, <3>1, LeftGrows DEF x
  <2>8. Held(c)' = 2 * NumIndexes + 1
    BY <2>2 DEF Held
  <2>9. LeftSoFar(c)' = LeftBy(q, 1..n + 1)
    BY <1>2, <2>1, <2>2, LeftAfter
  <2>10. FdsInv'
    BY <1>3, <1>8, <1>9, <2>1, <2>4, <2>7, <2>8, <2>9, FdsStep
  <2> QED BY <2>3, <2>4, <2>6, <2>10, Reassemble
<1>12. CASE Found(c, word[c]) /\ RunsOut(1)
  BY <1>12, ExitStep DEF RunsOut
<1>13. CASE Found(c, word[c]) /\ ~ RunsOut(1)
  <2>1. /\ fds + 1 <= MaxFds /\ id_list' = [id_list EXCEPT ![c] = merged]
        /\ IF merged = <<>> THEN pc' = [pc EXCEPT ![c] = "collect"] /\ UNCHANGED word
                            ELSE word' = [word EXCEPT ![c] = k + 2] /\ UNCHANGED pc
        /\ fds' = IF merged = <<>> THEN fds + 1 ELSE fds
        /\ UNCHANGED <<files, exited, index, query, isValid, final_result, answered>>
    <3>1. GetDocIDList(c, word[c]) = x[q[k + 1]]
      BY <1>2, <1>4 DEF GetDocIDList, x, q
    <3>2. word[c] + 1 = k + 2
      BY <1>4
    <3> QED BY <1>13, <3>1, <3>2 DEF LookupFollowing, Available, KeepsReader, Goto, merged, list
  <2>2. /\ index'[c] = n + 1 /\ query'[c] = q /\ final_result'[c] = res /\ isValid'[c] = isValid[c] /\ id_list'[c] = merged
        /\ fds' \in 0..MaxFds
    BY <1>2, <1>3, <1>6, <2>1 DEF q, res
  <2>3. Only(c)
    BY <1>6, <2>1 DEF Only, Unmoved
  <2>4. index'[c] - 1 = n /\ files'[index'[c]] = x
    BY <1>2, <2>1, <2>2 DEF x
  <2>5. id_list' \in [Clients -> Seq(Header)] /\ \A d \in Clients : d # c => pc'[d] = pc[d] /\ word'[d] = word[d]
    BY <1>6, <1>7, <2>1
  <2>6. CASE merged = <<>>
    <3>1. pc' = [pc EXCEPT ![c] = "collect"] /\ word' = word /\ fds' = fds + 1 /\ pc'[c] = "collect"
      BY <1>6, <2>1, <2>6
    <3>2. TypeOK'
      <4>1. \A d \in Clients : word'[d] \in 1..Len(query'[d]) + 1 \/ pc'[d] # "following"
        BY <1>6, <2>1, <2>5, <3>1
      <4> QED BY <1>5, <2>1, <2>2, <2>5, <3>1, <4>1 DEF TypeOK
    <3>3. \A d \in Docs : ~ HasWords(x, q, d, k + 1)
      <4>1. DOMAIN merged = {}
        BY <2>6
      <4> QED BY <1>7, <4>1 DEF Merged
    <3>4. \A d \in Docs : ~ HasWords(x, q, d, Len(q))
      BY <1>2, <1>4, <3>3 DEF HasWords
    <3>5. ClientInv(c)'
      BY <1>2, <1>4, <2>1, <2>2, <2>4, <2>6, <3>1, <3>4 DEF ClientInv, Busy
    <3>6. LeftBy(q, 1..n + 1) = LeftBy(q, 1..n) + 1
      <4>1. \A j \in 1..k : x[q[j]] # <<>>
        BY <1>3, <1>4, ListHas
      <4>2. \A j \in 1..k + 1 : j \in 1..k \/ j = k + 1
        BY <1>4
      <4>3. \A j \in 1..k + 1 : x[q[j]] # <<>>
        BY <1>10, <1>13, <4>1, <4>2
      <4>4. LeavesReader(x, q)
        BY <1>2, <1>4, <3>3, <4>3, Leaves
      <4> QED BY <1>2, <4>4, LeftGrows DEF x
    <3>7. Held(c)' = 2 * NumIndexes + 1
      BY <3>1 DEF Held
    <3>8. LeftSoFar(c)' = LeftBy(q, 1..n + 1)
      BY <1>2, <2>1, <2>2, <3>1, LeftAfter
    <3>9. FdsInv'
      <4>1. Held(c)' \in Nat /\ Held(c)' = Held(c) /\ fds' \in Int /\ fds \in Int
        BY <1>3, <1>8, <3>1, <3>7
      <4>2. LeftSoFar(c)' \in Nat /\ LeftSoFar(c)' = LeftSoFar(c) + 1
        BY <1>8, <1>9, <3>6, <3>8
      <4>3. fds' + Held(c) + LeftSoFar(c) = fds + Held(c)' + LeftSoFar(c)'
        BY <1>3, <3>1, <4>1, <4>2
      <4> QED BY <2>1, <2>3, <4>1, <4>2, <4>3, FdsStep
    <3> QED BY <2>3, <3>2, <3>5, <3>9, Reassemble
  <2>7. CASE merged # <<>>
    <3>1. word' = [word EXCEPT ![c] = k + 2] /\ pc' = pc /\ fds' = fds /\ pc'[c] = "following" /\ word'[c] = k + 2
          /\ k + 2 \in 2..Len(q) + 1 /\ k + 2 \in 1..Len(q) + 1 /\ k + 2 \in Nat /\ k + 2 - 1 = k + 1
      BY <1>1, <1>2, <1>4, <1>6, <2>1, <2>7
    <3>2. TypeOK'
      <4>1. \A d \in Clients : word'[d] \in 1..Len(query'[d]) + 1 \/ pc'[d] # "following"
        BY <1>6, <2>1, <2>2, <2>5, <3>1
      <4>2. word' \in [Clients -> Nat]
        BY <1>6, <3>1
      <4> QED BY <1>5, <2>1, <2>2, <2>5, <3>1, <4>1, <4>2 DEF TypeOK
    <3>3. ClientInv(c)'
      BY <1>2, <1>4, <1>7, <2>1, <2>2, <2>4, <2>7, <3>1 DEF ClientInv, Busy
    <3>4. Held(c)' = 2 * NumIndexes + 1
      BY <3>1 DEF Held
    <3>5. LeftSoFar(c)' = LeftBy(q, 1..n)
      BY <1>2, <2>1, <2>2, <3>1, LeftAfter
    <3>6. FdsInv'
      BY <1>3, <1>8, <1>9, <2>1, <2>3, <3>1, <3>4, <3>5, FdsStep
    <3> QED BY <2>3, <3>2, <3>3, <3>6, Reassemble
  <2> QED BY <2>6, <2>7
<1> QED BY <1>11, <1>12, <1>13

(* What the file had for the query is added to the result.                 *)
LEMMA CollectStep ==
  ASSUME IInv, NEW c \in Clients, Collect(c)
  PROVE  IInv'
<1> DEFINE q == query[c]
           n == index[c] - 1
           x == files[n + 1]
           res == final_result[c]
           list == id_list[c]
           all == IF isValid[c] THEN res \o HitsOf(n + 1, list) ELSE res
<1>1. /\ pc[c] = "collect" \/ (pc[c] = "following" /\ word[c] > Len(query[c]))
      /\ c \in Busy /\ ClientInv(c)
  BY DEF Collect, At, Busy, IInv
<1>2. /\ q \in Seq(Words) /\ Len(q) \in Nat \ {0} /\ n \in Nat /\ index[c] = n + 1 /\ n + 1 <= NumIndexes
      /\ Gathered(files, q, res, n) /\ x \in Contents /\ q # <<>> /\ q \in Queries
  <2>1. q # <<>> /\ index[c] <= NumIndexes
    BY <1>1 DEF ClientInv
  <2> QED BY <1>1, <2>1, Answering
<1>3. /\ NumIndexes \in Nat \ {0} /\ MaxFds \in Nat /\ fds \in 0..MaxFds /\ Held(c) \in Nat /\ Held(c) <= fds
      /\ list \in Seq(Header) /\ res \in Seq(Hit)
  BY Typed
<1>4. TypeOK
  BY DEF IInv
<1> DEFINE Places == {"none", "opening", "opened", "ready", "first", "following", "collect"}
<1>5. /\ pc \in [Clients -> Places] /\ index \in [Clients -> 1..NumIndexes + 1] /\ final_result \in [Clients -> Seq(Hit)]
      /\ \A d \in Clients : word[d] \in 1..Len(query[d]) + 1 \/ pc[d] # "following"
  BY <1>4 DEF TypeOK, Hit
<1>6. /\ pc[c] = "following" => isValid[c] /\ list # <<>> /\ Merged(x, q, list, Len(q))
      /\ pc[c] = "collect" => (\A d \in Docs : ~ HasWords(x, q, d, Len(q))) /\ (isValid[c] => list = <<>>)
  <2>1. pc[c] = "following" => isValid[c] /\ list # <<>> /\ Merged(files[index[c]], q, list, word[c] - 1)
                               /\ word[c] \in 2..Len(q) + 1
    BY <1>1 DEF ClientInv
  <2>2. pc[c] = "following" => word[c] - 1 = Len(q)
    BY <1>1, <1>2, <2>1
  <2>3. pc[c] = "collect" => (\A d \in Docs : ~ HasWords(files[index[c]], q, d, Len(q))) /\ (isValid[c] => list = <<>>)
    BY <1>1 DEF ClientInv
  <2> QED BY <1>2, <2>1, <2>2, <2>3
<1> HIDE DEF q, n, x, res, list
<1>7. /\ isValid[c] => Merged(x, q, list, Len(q))
      /\ ~ isValid[c] => \A d \in Docs : ~ HasWords(x, q, d, Len(q))
  <2>1. pc[c] = "collect" /\ isValid[c] => Merged(x, q, list, Len(q))
    BY <1>6 DEF Merged
  <2> QED BY <1>1, <1>6, <2>1
<1>8. all \in Seq(Hit) /\ Gathered(files, q, all, n + 1)
  <2>1. CASE isValid[c]
    <3>1. Merged(files[n + 1], q, list, Len(q)) /\ n < NumIndexes
      BY <1>2, <1>3, <1>7, <2>1 DEF x
    <3> QED BY <1>2, <1>3, <2>1, <3>1, GatheredAppends
  <2>2. CASE ~ isValid[c]
    BY <1>2, <1>3, <1>7, <2>2, GatheredSkips DEF x
  <2> QED BY <2>1, <2>2
<1>9. /\ final_result' = [final_result EXCEPT ![c] = all] /\ fds' = fds - 1 /\ index' = [index EXCEPT ![c] = n + 2]
      /\ pc' = [pc EXCEPT ![c] = "first"]
      /\ UNCHANGED <<files, exited, query, word, id_list, isValid, answered>>
  <2>1. Hits(c) = HitsOf(n + 1, list)
    BY <1>2 DEF Hits, HitsOf, list
  <2>2. final_result' = IF isValid[c] THEN [final_result EXCEPT ![c] = res \o HitsOf(n + 1, list)] ELSE final_result
    BY <2>1 DEF Collect, res
  <2>3. final_result = [final_result EXCEPT ![c] = res]
    BY <1>5 DEF res
  <2>4. final_result' = [final_result EXCEPT ![c] = all]
    BY <2>2, <2>3
  <2>5. /\ fds' = fds - 1 /\ index' = [index EXCEPT ![c] = index[c] + 1] /\ pc' = [pc EXCEPT ![c] = "first"]
        /\ UNCHANGED <<files, exited, query, word, id_list, isValid, answered>>
    BY DEF Collect, Goto
  <2>6. index[c] + 1 = n + 2
    BY <1>2
  <2> QED BY <2>4, <2>5, <2>6
<1> HIDE DEF all
<1>10. /\ final_result'[c] = all /\ index'[c] = n + 2 /\ pc'[c] = "first" /\ query'[c] = q /\ n + 2 \in 1..NumIndexes + 1
       /\ n + 2 = n + 1 + 1 /\ n + 1 \in Nat /\ n + 2 - 1 = n + 1 /\ Held(c) = 2 * NumIndexes + 1 /\ fds' \in 0..MaxFds
  <2>1. Held(c) = 2 * NumIndexes + 1
    BY <1>1 DEF Held
  <2>2. fds' \in 0..MaxFds
    BY <1>3, <1>9, <2>1
  <2> QED BY <1>2, <1>3, <1>5, <1>9, <2>1, <2>2 DEF q
<1>11. TypeOK'
  <2>1. final_result' \in [Clients -> Seq(Hit)] /\ pc' \in [Clients -> Places] /\ index' \in [Clients -> 1..NumIndexes + 1]
    BY <1>5, <1>8, <1>9, <1>10
  <2>2. \A d \in Clients : word'[d] \in 1..Len(query'[d]) + 1 \/ pc'[d] # "following"
    BY <1>5, <1>9, <1>10
  <2> QED BY <1>4, <1>9, <1>10, <2>1, <2>2 DEF TypeOK, Hit
<1>12. Only(c)
  BY <1>5, <1>9 DEF Only, Unmoved
<1>13. ClientInv(c)'
  BY <1>2, <1>8, <1>9, <1>10 DEF ClientInv, Busy
<1>14. Held(c)' = 2 * NumIndexes
  BY <1>10 DEF Held
<1>15. LeftSoFar(c)' = LeftBy(q, 1..n + 1) /\ LeftBy(q, 1..n + 1) \in Nat
  BY <1>2, <1>9, <1>10, LeftAfter, LeftGrows
<1>16. LeftSoFar(c) = LeftBy(q, 1..n + 1)
  <2>1. CASE pc[c] = "collect"
    BY <1>2, <2>1, LeftBefore DEF q
  <2>2. CASE pc[c] = "following"
    <3>1. LeftSoFar(c) = LeftBy(q, 1..n)
      BY <1>2, <2>2, LeftBefore DEF q
    <3>2. ~ LeavesReader(x, q)
      <4> SUFFICES ASSUME LeavesReader(x, q) PROVE FALSE
        OBVIOUS
      <4>1. PICK m \in 2..Len(q) : \A d \in Docs : ~ HasWords(x, q, d, m)
        BY <1>2, Leaves
      <4>2. m \in 1..Len(q) /\ Len(q) \in Nat
        BY <1>2
      <4> QED BY <1>3, <1>6, <2>2, <4>1, <4>2, ListHas
    <3>3. LeftBy(q, 1..n + 1) = LeftBy(q, 1..n)
      BY <1>2, <3>2, LeftGrows DEF x
    <3> QED BY <3>1, <3>3
  <2> QED BY <1>1, <2>1, <2>2
<1>17. FdsInv'
  <2>1. Held(c)' \in Nat /\ LeftSoFar(c)' \in Nat /\ fds' \in Int
    BY <1>3, <1>10, <1>14, <1>15
  <2>2. fds' + Held(c) + LeftSoFar(c) = fds + Held(c)' + LeftSoFar(c)'
    BY <1>3, <1>9, <1>10, <1>14, <1>15, <1>16
  <2> QED BY <1>9, <1>12, <2>1, <2>2, FdsStep
<1> QED BY <1>11, <1>12, <1>13, <1>17, Reassemble

(* What the answered queries have left grows by what the new one has.      *)
LEMMA AnsweredGrows ==
  ASSUME TypeOK, UNCHANGED files, NEW q \in Queries, answered' = Append(answered, q)
  PROVE  /\ answered' \in Seq(Queries)
         /\ LeftByAnswered' = LeftByAnswered + LeftBy(q, 1..NumIndexes)
<1> DEFINE L == Len(answered)
           LeftIn(y) == LeftBy(y, 1..NumIndexes)
           a == [k \in 1..L |-> LeftIn(answered[k])]
           b == [k \in 1..L + 1 |-> LeftIn(answered'[k])]
<1>1. answered \in Seq(Queries) /\ L \in Nat /\ DOMAIN answered = 1..L
  <2>1. answered \in Seq(Queries)
    BY DEF TypeOK
  <2> QED BY <2>1
<1>2. /\ answered' \in Seq(Queries) /\ Len(answered') = L + 1 /\ answered'[L + 1] = q
      /\ \A k \in 1..L : answered'[k] = answered[k]
  BY <1>1, AppendProperties
<1>3. DOMAIN answered' = 1..L + 1
  BY <1>2
<1>4. \A y : LeftIn(y) \in Nat
  BY CountsAssumption, LeftGrows
<1>5. LeftByAnswered = SumFunctionOnSet(a, 1..L)
  <2>1. DOMAIN a = 1..L
    OBVIOUS
  <2> QED BY <1>1, <2>1 DEF LeftByAnswered, SumFunction
<1>6. LeftByAnswered' = SumFunctionOnSet(b, 1..L + 1)
  <2>1. b = [k \in DOMAIN answered |-> LeftBy(answered[k], 1..NumIndexes)]'
    BY <1>3, Zenon DEF LeftBy
  <2>2. DOMAIN b = 1..L + 1
    OBVIOUS
  <2> HIDE DEF b
  <2> QED BY <2>1, <2>2, Zenon DEF LeftByAnswered, SumFunction
<1>7. /\ \A k \in 1..L : a[k] \in Nat /\ a[k] = b[k]
      /\ \A k \in 1..L + 1 : b[k] \in Nat
      /\ b[L + 1] = LeftIn(q) /\ L + 1 \in 1..L + 1 /\ (1..L + 1) \ {L + 1} = 1..L
  <2> HIDE DEF LeftIn, L
  <2>1. \A k \in 1..L : k \in 1..L + 1
    BY <1>1
  <2>2. L + 1 \in 1..L + 1 /\ (1..L + 1) \ {L + 1} = 1..L
    BY <1>1
  <2> QED BY <1>2, <1>4, <2>1, <2>2
<1>8. IsFiniteSet(1..L) /\ IsFiniteSet(1..L + 1)
  BY <1>1, FS_Interval
<1> HIDE DEF a, b, L, LeftIn
<1>9. SumFunctionOnSet(a, 1..L) = SumFunctionOnSet(b, 1..L)
  BY <1>7, <1>8, SumCongruent
<1>10. SumFunctionOnSet(b, 1..L + 1) = b[L + 1] + SumFunctionOnSet(b, (1..L + 1) \ {L + 1})
  <2>1. \A k \in 1..L + 1 : b[k] \in Nat
    BY <1>7
  <2>2. \A k \in 1..L + 1 : SumFunctionOnSet(b, 1..L + 1) = b[k] + SumFunctionOnSet(b, (1..L + 1) \ {k})
    BY <1>8, <2>1, SumSplits
  <2> QED BY <1>7, <2>2
<1>11. SumFunctionOnSet(b, 1..L) \in Nat
  <2>1. \A k \in 1..L : b[k] \in Nat
    BY <1>7
  <2> QED BY <1>8, <2>1, SumSplits
<1>12. LeftByAnswered' = LeftByAnswered + LeftIn(q)
  <2>1. LeftByAnswered' = b[L + 1] + SumFunctionOnSet(b, 1..L)
    BY <1>6, <1>7, <1>10, Zenon
  <2>2. LeftByAnswered = SumFunctionOnSet(b, 1..L)
    BY <1>5, <1>9
  <2> QED BY <1>4, <1>7, <1>11, <2>1, <2>2
<1> QED BY <1>2, <1>12 DEF LeftIn

(* The result is sorted and returned.                                      *)
LEMMA SortResultStep ==
  ASSUME IInv, NEW c \in Clients, SortResult(c)
  PROVE  IInv'
<1> DEFINE q == query[c]
           res == final_result[c]
<1>1. pc[c] = "first" /\ index[c] > NumIndexes /\ c \in Busy
  BY DEF SortResult, At, Busy
<1>2. NumIndexes \in Nat \ {0} /\ index[c] = NumIndexes + 1 /\ index[c] - 1 = NumIndexes /\ res \in Seq(Hit) /\ fds \in 0..MaxFds
      /\ MaxFds \in Nat
  BY <1>1, Typed
<1>3. q \in Queries /\ Gathered(files, q, res, NumIndexes) /\ q # <<>>
  <2>1. Gathered(files, q, res, index[c] - 1) /\ q \in Queries
    BY <1>1, Answering
  <2>2. q # <<>>
    BY <1>1 DEF IInv, ClientInv
  <2> QED BY <1>2, <2>1, <2>2
<1>4. TypeOK
  BY DEF IInv
<1> DEFINE Places == {"none", "opening", "opened", "ready", "first", "following", "collect"}
<1>5. pc \in [Clients -> Places] /\ final_result \in [Clients -> Seq(Hit)]
  BY <1>4 DEF TypeOK, Hit
<1>6. PICK s \in Arrangements(res) : Descending(s) /\ final_result' = [final_result EXCEPT ![c] = s]
  BY DEF SortResult
<1> HIDE DEF q, res
<1>7. /\ answered' = Append(answered, q) /\ pc' = [pc EXCEPT ![c] = "ready"]
      /\ UNCHANGED <<files, fds, exited, index, query, word, id_list, isValid>>
  BY DEF SortResult, Goto, q
<1>8. s \in Seq(Hit) /\ Gathered(files, q, s, NumIndexes)
  BY <1>2, <1>3, <1>6, SortArranges
<1>9. pc'[c] = "ready" /\ query'[c] = q /\ final_result'[c] = s
  BY <1>5, <1>6, <1>7 DEF q
<1>10. TypeOK'
  <2>1. answered' \in Seq(Queries)
    BY <1>3, <1>4, <1>7, AnsweredGrows
  <2>2. final_result' \in [Clients -> Seq(Hit)] /\ pc' \in [Clients -> Places]
    BY <1>5, <1>6, <1>7, <1>8
  <2>3. \A d \in Clients : word'[d] \in 1..Len(query'[d]) + 1 \/ pc'[d] # "following"
    BY <1>4, <1>5, <1>7, <1>9 DEF TypeOK
  <2> QED BY <1>4, <1>7, <2>1, <2>2, <2>3 DEF TypeOK, Hit
<1>11. Only(c)
  BY <1>5, <1>6, <1>7 DEF Only, Unmoved
<1>12. ClientInv(c)'
  BY <1>6, <1>7, <1>8, <1>9 DEF ClientInv, Busy, Descending
<1>13. FdsInv'
  <2> DEFINE a == SumHeld' b == SumLeftSoFar' e == LeftByAnswered' l == LeftBy(q, 1..NumIndexes)
  <2>1. Held(c) = 2 * NumIndexes /\ Held(c)' = 2 * NumIndexes /\ LeftSoFar(c)' = 0
    BY <1>1, <1>9 DEF Held, LeftSoFar, Busy
  <2>2. LeftSoFar(c) = l /\ l \in Nat
    BY <1>1, <1>2, LeftBefore, LeftGrows DEF q
  <2>3. /\ fds = SumHeld + (LeftByAnswered + SumLeftSoFar)
        /\ SumHeld \in Nat /\ LeftByAnswered \in Nat /\ SumLeftSoFar \in Nat
    BY Sums
  <2>4. e = LeftByAnswered + l
    BY <1>3, <1>4, <1>7, AnsweredGrows
  <2>5. Held(c)' \in Nat /\ LeftSoFar(c)' \in Nat
    BY <1>2, <2>1
  <2>6. a \in Nat /\ b \in Nat /\ SumHeld + Held(c)' = a + Held(c) /\ SumLeftSoFar + LeftSoFar(c)' = b + LeftSoFar(c)
    BY <1>11, <2>5, SumsChange
  <2>7. a = SumHeld /\ SumLeftSoFar = b + l
    <3> HIDE DEF a, b, l
    <3> QED BY <1>2, <2>1, <2>2, <2>3, <2>6
  <2>8. FdsInv' <=> fds = a + (e + b)
    BY <1>7 DEF FdsInv, Left, SumHeld, LeftByAnswered, SumLeftSoFar
  <2> HIDE DEF a, b, e, l
  <2> QED BY <2>2, <2>3, <2>4, <2>6, <2>7, <2>8
<1> QED BY <1>10, <1>11, <1>12, <1>13, Reassemble

-----------------------------------------------------------------------------
LEMMA StepIInv == IInv /\ [Next]_vars => IInv'
<1> SUFFICES ASSUME IInv, [Next]_vars PROVE IInv'
  OBVIOUS
<1>1. CASE Next
  <2>1. PICK c \in Clients : \/ New(c) \/ OpenIndexFile(c) \/ NewReaders(c) \/ Delete(c)
                             \/ \E q \in Queries : ProcessQuery(c, q)
                             \/ LookupFirst(c) \/ LookupFollowing(c) \/ Collect(c) \/ SortResult(c)
    BY <1>1 DEF Next
  <2> QED BY <2>1, LifeStep, ProcessQueryStep, LookupFirstStep, LookupFollowingStep, CollectStep, SortResultStep
<1>2. CASE UNCHANGED vars
  <2>1. UNCHANGED <<files, fds, exited, pc, index, query, word, id_list, isValid, final_result, answered>>
    BY <1>2 DEF vars, queryVars
  <2>2. TypeOK'
    BY <2>1 DEF IInv, TypeOK
  <2>3. \A d \in Clients : ClientInv(d)' /\ Held(d)' = Held(d) /\ LeftSoFar(d)' = LeftSoFar(d)
    <3> SUFFICES ASSUME NEW d \in Clients PROVE ClientInv(d)' /\ Held(d)' = Held(d) /\ LeftSoFar(d)' = LeftSoFar(d)
      OBVIOUS
    <3>1. Unmoved(d)
      BY <2>1 DEF Unmoved
    <3> QED BY <2>1, <3>1, Frame DEF IInv
  <2>4. FdsInv'
    <3>1. /\ [d \in Clients |-> Held(d)]' = [d \in Clients |-> Held(d)]
          /\ [d \in Clients |-> LeftSoFar(d)]' = [d \in Clients |-> LeftSoFar(d)]
      BY <2>3
    <3>2. LeftByAnswered' = LeftByAnswered
      BY <2>1 DEF LeftByAnswered, LeftBy
    <3> QED BY <2>1, <3>1, <3>2 DEF IInv, FdsInv, Left, LeftByAnswered
  <2> QED BY <2>2, <2>3, <2>4 DEF IInv
<1> QED BY <1>1, <1>2

(* The invariant holds of every behaviour of the clients.                  *)
THEOREM Invariance == Spec => []IInv
  BY InitIInv, StepIInv, PTL DEF Spec

(* A query that has returned has found, in every index file, exactly the   *)
(* documents that hold all its words, each once and with the sum of its    *)
(* words' occurrences, in descending order, whatever was asked before and  *)
(* by whom (QueryProcessor.h:44-60).                                       *)
THEOREM ResultsAreRight == Spec => []ResultIsConjunction
<1>1. ASSUME IInv PROVE ResultIsConjunction
  <2> SUFFICES ASSUME NEW c \in Clients, pc[c] = "ready", query[c] # <<>>
               PROVE  /\ Range(final_result[c]) = Matches(query[c])
                      /\ IsInjective(final_result[c])
                      /\ Descending(final_result[c])
    BY DEF ResultIsConjunction
  <2>1. query[c] \in Seq(Words) /\ final_result[c] \in Seq(Hit)
    BY <1>1, Typed
  <2>2. Gathered(files, query[c], final_result[c], NumIndexes) /\ Descending(final_result[c])
    BY <1>1 DEF IInv, ClientInv
  <2> QED BY <2>1, <2>2, GatheredIsAnswer
<1> QED BY <1>1, Invariance, PTL

(* Every open descriptor is held by a client or was left behind by a query *)
(* whose words all have tables in a file but no document there in common;  *)
(* no other query, answer or deletion loses a reader, and none is closed   *)
(* twice (QueryProcessor.cc:87-122).                                       *)
THEOREM DescriptorsAreAccountedFor == Spec => []DescriptorsAccountedFor
<1>1. ASSUME IInv PROVE DescriptorsAccountedFor
  BY <1>1 DEF IInv, FdsInv, DescriptorsAccountedFor
<1> QED BY <1>1, Invariance, PTL
=============================================================================
