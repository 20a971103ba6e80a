---------------------------- MODULE CatalogProof ----------------------------
(***************************************************************************)
(* Proofs about the modules TextRules, Catalog and Queries, for any        *)
(* requests, bodies, keys, rows and readers, and for texts of any length:  *)
(* first the lemmas on texts, then what the write requests do to answers   *)
(* and rows, then what the read requests are told and what a search finds. *)
(***************************************************************************)
EXTENDS Queries, FiniteSetTheorems, SequenceTheorems, TLAPS

-----------------------------------------------------------------------------
(* 1. SLUGS OF NAMES                                                       *)

(* A set of numbers that is not empty has a smallest member, and one that  *)
(* is bounded a largest.                                                   *)
LEMMA Smallest ==
  ASSUME NEW T, T \subseteq Nat, T # {}
  PROVE  \E m \in T : \A k \in T : m <= k
  <1>1. PICK m \in T : \A k \in T : ~(<<k, m>> \in OpToRel(<, Nat))
    BY NatLessThanWellFounded, WFMin
  <1>2. ASSUME NEW k \in T PROVE m <= k
    <2>1. <<k, m>> \in Nat \X Nat /\ ~(<<k, m>> \in OpToRel(<, Nat))
      BY <1>1
    <2>2. ~(k < m)
      BY <2>1 DEF OpToRel
    <2>3. QED
      BY <2>2
  <1>3. QED
    BY <1>1, <1>2

(* The same for the largest of numbers that are bounded. *)
LEMMA Largest ==
  ASSUME NEW n \in Nat, NEW T, T \subseteq 0..n, T # {}
  PROVE  \E m \in T : \A k \in T : k <= m
  <1> DEFINE below == {i \in 0..n : n - i \in T}
  <1>1. PICK t \in T : TRUE
    OBVIOUS
  <1>2. t \in 0..n /\ n - t \in 0..n /\ n - (n - t) = t
    OBVIOUS
  <1>3. below \subseteq Nat /\ below # {}
    BY <1>2
  <1>4. PICK i \in below : \A k \in below : i <= k
    BY <1>3, Smallest
  <1>5. i \in 0..n /\ n - i \in T
    BY <1>4
  <1>6. ASSUME NEW k \in T PROVE k <= n - i
    <2>1. k \in 0..n /\ n - k \in 0..n /\ n - (n - k) = k
      OBVIOUS
    <2>2. i <= n - k
      BY <1>4, <2>1
    <2>3. QED
      BY <1>5, <2>1, <2>2
  <1>7. QED
    BY <1>5, <1>6

(* Min and Max of the community modules are those members. *)
LEMMA MinMax ==
  ASSUME NEW n \in Nat, NEW T, T \subseteq 0..n, T # {}
  PROVE  /\ Min(T) \in T /\ \A k \in T : Min(T) <= k
         /\ Max(T) \in T /\ \A k \in T : k <= Max(T)
  <1>0. T \subseteq Nat
    OBVIOUS
  <1>1. \E m \in T : \A k \in T : m =< k
    BY <1>0, Smallest
  <1>2. \E m \in T : \A k \in T : m >= k
    BY Largest
  <1>3. Min(T) \in T /\ \A k \in T : Min(T) =< k
    BY <1>1 DEF Min
  <1>4. Max(T) \in T /\ \A k \in T : Max(T) >= k
    BY <1>2 DEF Max
  <1>5. QED
    BY <1>3, <1>4

-----------------------------------------------------------------------------

(* How many members of P are at most p. *)
Rank(P, p) == Cardinality({q \in P : q <= p})

(* A rank is a number between 1 and the size of the set. *)
LEMMA RankType ==
  ASSUME NEW n \in Nat, NEW P, P \subseteq 1..n, NEW p
  PROVE  /\ IsFiniteSet({q \in P : q <= p})
         /\ Rank(P, p) \in Nat /\ Rank(P, p) <= Cardinality(P)
         /\ IsFiniteSet(P) /\ Cardinality(P) \in Nat
  <1>1. IsFiniteSet(1..n)
    BY FS_Interval
  <1>2. IsFiniteSet(P)
    BY <1>1, FS_Subset
  <1>3. {q \in P : q <= p} \in SUBSET P
    OBVIOUS
  <1>4. IsFiniteSet({q \in P : q <= p}) /\ Cardinality({q \in P : q <= p}) <= Cardinality(P)
    BY <1>2, <1>3, FS_Subset
  <1>5. QED
    BY <1>2, <1>4, FS_CardinalityType DEF Rank

(* One position further, one more member or none. *)
LEMMA RankStep ==
  ASSUME NEW n \in Nat, NEW P, P \subseteq 1..n, NEW p \in 1..n
  PROVE  /\ p \in P => Rank(P, p) = Rank(P, p - 1) + 1
         /\ p \notin P => Rank(P, p) = Rank(P, p - 1)
  <1>0. \A q \in P : q \in 1..n
    OBVIOUS
  <1>1. CASE p \notin P
    <2>1. \A q \in P : q <= p <=> q <= p - 1
      BY <1>0, <1>1
    <2>3. {q \in P : q <= p} = {q \in P : q <= p - 1}
      BY <2>1
    <2>2. QED
      BY <1>1, <2>3 DEF Rank
  <1>2. CASE p \in P
    <2> DEFINE T == {q \in P : q <= p - 1}
    <2>0. \A q \in P : q <= p <=> (q <= p - 1 \/ q = p)
      BY <1>0
    <2>5. ~(p <= p - 1)
      OBVIOUS
    <2>1. {q \in P : q <= p} = T \cup {p} /\ p \notin T
      BY <1>2, <2>0, <2>5
    <2>2. IsFiniteSet(T)
      BY RankType
    <2>3. Cardinality(T \cup {p}) = Cardinality(T) + 1
      BY <2>1, <2>2, FS_AddElement
    <2>4. QED
      BY <1>2, <2>1, <2>3 DEF Rank
  <1>3. QED
    BY <1>1, <1>2

(* A later member has a higher rank. *)
LEMMA RankGrows ==
  ASSUME NEW n \in Nat, NEW P, P \subseteq 1..n, NEW p \in P, NEW q \in P, p < q
  PROVE  Rank(P, p) < Rank(P, q)
  <1>1. p \in 1..n /\ q \in 1..n /\ q - 1 \in Nat
    OBVIOUS
  <1>0. \A k \in P : k \in Nat
    OBVIOUS
  <1>8. \A k \in P : k <= p => k <= q - 1
    BY <1>0, <1>1
  <1>2. {k \in P : k <= p} \in SUBSET {k \in P : k <= q - 1}
    BY <1>8
  <1>3. IsFiniteSet({k \in P : k <= q - 1})
    BY RankType
  <1>4. Rank(P, p) <= Rank(P, q - 1)
    BY <1>2, <1>3, FS_Subset DEF Rank
  <1>5. Rank(P, q) = Rank(P, q - 1) + 1
    BY <1>1, RankStep
  <1>6. Rank(P, p) \in Nat /\ Rank(P, q - 1) \in Nat
    BY RankType
  <1>7. QED
    BY <1>4, <1>5, <1>6

(* Every number up to the size of P is the rank of a member. *)
LEMMA RankOnto ==
  ASSUME NEW n \in Nat, NEW P, P \subseteq 1..n, NEW k \in 1..Cardinality(P)
  PROVE  \E p \in P : Rank(P, p) = k
  <1> DEFINE T == {p \in 0..n : Rank(P, p) >= k}
  <1>1. Cardinality(P) \in Nat
    BY RankType
  <1>0. \A q \in P : q \in 1..n /\ q <= n /\ ~(q <= 0)
    OBVIOUS
  <1>2. {q \in P : q <= n} = P
    BY <1>0
  <1>3. Rank(P, n) >= k
    BY <1>1, <1>2 DEF Rank
  <1>4. T \subseteq Nat /\ T # {}
    BY <1>3
  <1>5. PICK p \in T : \A q \in T : p <= q
    BY <1>4, Smallest
  <1>6. p \in 0..n /\ Rank(P, p) >= k
    BY <1>5
  <1>7. p # 0
    <2>1. {q \in P : q <= 0} = {}
      BY <1>0
    <2>2. Rank(P, 0) = 0
      BY <2>1, FS_EmptySet DEF Rank
    <2>3. QED
      BY <1>6, <2>2
  <1>8. p \in 1..n /\ p - 1 \in 0..n
    BY <1>6, <1>7
  <1>9. ~(p - 1 \in T)
    BY <1>5, <1>8
  <1>10. ~(Rank(P, p - 1) >= k)
    BY <1>8, <1>9
  <1>11. Rank(P, p) \in Nat /\ Rank(P, p - 1) \in Nat
    BY RankType
  <1>12. /\ p \in P => Rank(P, p) = Rank(P, p - 1) + 1
         /\ p \notin P => Rank(P, p) = Rank(P, p - 1)
    BY <1>8, RankStep
  <1> HIDE DEF T
  <1>14. p \in P /\ Rank(P, p) = k
    BY <1>1, <1>6, <1>10, <1>11, <1>12
  <1>13. QED
    BY <1>14

(* The position that At takes the k-th character from. *)
Pick(P, k) == CHOOSE p \in P : Rank(P, p) = k

(* At reads the positions of P in their order and leaves none out. *)
LEMMA PickProperties ==
  ASSUME NEW n \in Nat, NEW P, P \subseteq 1..n
  PROVE  /\ Cardinality(P) \in Nat
         /\ \A k \in 1..Cardinality(P) : Pick(P, k) \in P
         /\ \A j, k \in 1..Cardinality(P) : j < k => Pick(P, j) < Pick(P, k)
         /\ \A k \in 1..Cardinality(P), p \in P :
              k + 1 \in 1..Cardinality(P) => ~(Pick(P, k) < p /\ p < Pick(P, k + 1))
  <1>1. Cardinality(P) \in Nat
    BY RankType
  <1>2. ASSUME NEW k \in 1..Cardinality(P) PROVE Pick(P, k) \in P /\ Rank(P, Pick(P, k)) = k
    BY RankOnto DEF Pick
  <1>3. ASSUME NEW j \in 1..Cardinality(P), NEW k \in 1..Cardinality(P), j < k
        PROVE  Pick(P, j) < Pick(P, k)
    <2>1. /\ Pick(P, j) \in P /\ Rank(P, Pick(P, j)) = j
          /\ Pick(P, k) \in P /\ Rank(P, Pick(P, k)) = k
      BY <1>2
    <2>2. ASSUME Pick(P, k) < Pick(P, j) PROVE FALSE
      <3>1. Rank(P, Pick(P, k)) < Rank(P, Pick(P, j))
        BY <2>1, <2>2, RankGrows
      <3>2. QED
        BY <1>1, <1>3, <2>1, <3>1
    <2>3. Pick(P, j) # Pick(P, k)
      BY <2>1, <1>3, <1>1
    <2>4. Pick(P, j) \in Nat /\ Pick(P, k) \in Nat
      <3>1. \A p \in P : p \in Nat
        OBVIOUS
      <3>2. QED
        BY <2>1, <3>1
    <2>5. QED
      BY <2>2, <2>3, <2>4
  <1>4. ASSUME NEW k \in 1..Cardinality(P), NEW p \in P, k + 1 \in 1..Cardinality(P),
               Pick(P, k) < p, p < Pick(P, k + 1)
        PROVE  FALSE
    <2>1. /\ Pick(P, k) \in P /\ Rank(P, Pick(P, k)) = k
          /\ Pick(P, k + 1) \in P /\ Rank(P, Pick(P, k + 1)) = k + 1
      BY <1>2, <1>4
    <2>2. k < Rank(P, p)
      BY <2>1, <1>4, RankGrows
    <2>3. Rank(P, p) < k + 1
      BY <2>1, <1>4, RankGrows
    <2>4. Rank(P, p) \in Nat
      BY RankType
    <2>5. QED
      BY <1>1, <2>2, <2>3, <2>4
  <1>5. QED
    BY <1>1, <1>2, <1>3, <1>4

(* At keeps the characters at the places of P, in their order. *)
LEMMA AtProperties ==
  ASSUME NEW S, NEW text \in Seq(S), NEW P, P \subseteq 1..Len(text)
  PROVE  /\ At(text, P) \in Seq({text[p] : p \in P})
         /\ Len(At(text, P)) = Cardinality(P)
         /\ \A k \in 1..Cardinality(P) : At(text, P)[k] = text[Pick(P, k)]
  <1>1. Len(text) \in Nat
    BY LenProperties
  <1>2. Cardinality(P) \in Nat /\ \A k \in 1..Cardinality(P) : Pick(P, k) \in P
    BY <1>1, PickProperties
  <1>3. At(text, P) = [k \in 1..Cardinality(P) |-> text[Pick(P, k)]]
    BY DEF At, Pick, Rank
  <1>4. QED
    BY <1>2, <1>3

-----------------------------------------------------------------------------

(* What strip leaves: nothing but texts without a character of C at either *)
(* end, taken from the text as they stand.                                 *)
LEMMA StripProperties ==
  ASSUME NEW S, NEW text \in Seq(S), NEW C
  PROVE  \/ Strip(text, C) = <<>> /\ \A i \in 1..Len(text) : text[i] \in C
         \/ \E a \in 1..Len(text), b \in 1..Len(text) :
              /\ a <= b /\ text[a] \notin C /\ text[b] \notin C
              /\ \A i \in 1..Len(text) : text[i] \notin C => a <= i /\ i <= b
              /\ Strip(text, C) = SubSeq(text, a, b)
              /\ Strip(text, C) \in Seq(S) /\ Len(Strip(text, C)) = b - a + 1
              /\ \A i \in 1..b - a + 1 : Strip(text, C)[i] = text[a + i - 1]
  <1> DEFINE kept == {i \in DOMAIN text : text[i] \notin C}
             s == Strip(text, C)
  <1>1. Len(text) \in Nat /\ DOMAIN text = 1..Len(text)
    BY LenProperties
  <1>2. CASE kept = {}
    BY <1>1, <1>2 DEF Strip
  <1>3. CASE kept # {}
    <2> DEFINE a == Min(kept)
               b == Max(kept)
    <2>1. kept \subseteq 0..Len(text)
      BY <1>1
    <2>2. a \in kept /\ (\A k \in kept : a <= k) /\ b \in kept /\ (\A k \in kept : k <= b)
      <3> HIDE DEF kept
      <3>1. QED
        BY <1>1, <1>3, <2>1, MinMax
    <2>3. s = SubSeq(text, a, b)
      BY <1>3 DEF Strip
    <2> HIDE DEF a, b, s
    <2>4. /\ a \in 1..Len(text) /\ b \in 1..Len(text) /\ a <= b
          /\ text[a] \notin C /\ text[b] \notin C
          /\ \A i \in 1..Len(text) : text[i] \notin C => a <= i /\ i <= b
      BY <1>1, <2>2
    <2>5. \A i \in a..b : i \in 1..Len(text)
      BY <1>1, <2>4
    <2>6. \A i \in a..b : text[i] \in S
      BY <2>5, ElementOfSeq
    <2>7. /\ SubSeq(text, a, b) \in Seq(S)
          /\ Len(SubSeq(text, a, b)) = IF a <= b THEN b - a + 1 ELSE 0
          /\ \A i \in 1..b - a + 1 : SubSeq(text, a, b)[i] = text[a + i - 1]
      <3>1. a \in Int /\ b \in Int
        BY <2>4
      <3>2. QED
        BY <2>6, <3>1, SubSeqProperties
    <2>8. QED
      BY <2>3, <2>4, <2>7 DEF s
  <1>4. QED
    BY <1>2, <1>3

(* What strip leaves is a text. *)
LEMMA StripType ==
  ASSUME NEW S, NEW text \in Seq(S), NEW C
  PROVE  Strip(text, C) \in Seq(S)
  <1>1. <<>> \in Seq(S)
    BY EmptySeq
  <1>2. Strip(text, C) = <<>> \/ Strip(text, C) \in Seq(S)
    BY StripProperties
  <1>3. QED
    BY <1>1, <1>2

(* A text that needs no stripping is left alone. *)
LEMMA StripNothing ==
  ASSUME NEW S, NEW text \in Seq(S), NEW C,
         text # <<>> => text[1] \notin C /\ text[Len(text)] \notin C
  PROVE  Strip(text, C) = text
  <1>1. Len(text) \in Nat /\ (Len(text) = 0 <=> text = <<>>)
    BY LenProperties, EmptySeq
  <1>2. CASE text = <<>>
    <2>1. \A a \in 1..Len(text) : FALSE
      BY <1>1, <1>2
    <2>2. QED
      BY <1>2, <2>1, StripProperties
  <1>3. CASE text # <<>>
    <2>1. 1 \in 1..Len(text) /\ Len(text) \in 1..Len(text)
      BY <1>1, <1>3
    <2>2. PICK a \in 1..Len(text), b \in 1..Len(text) :
             /\ \A i \in 1..Len(text) : text[i] \notin C => a <= i /\ i <= b
             /\ Strip(text, C) = SubSeq(text, a, b)
      BY <1>3, <2>1, StripProperties
    <2>3. a = 1 /\ b = Len(text)
      BY <1>3, <2>1, <2>2
    <2>4. QED
      BY <2>2, <2>3, SubSeqFull
  <1>4. QED
    BY <1>2, <1>3

(* Stripping twice is stripping once. *)
LEMMA StripTwice ==
  ASSUME NEW S, NEW text \in Seq(S), NEW C
  PROVE  Strip(Strip(text, C), C) = Strip(text, C)
  <1> DEFINE s == Strip(text, C)
  <1>1. s \in Seq(S)
    BY StripType
  <1>2. s # <<>> => s[1] \notin C /\ s[Len(s)] \notin C
    <2> SUFFICES ASSUME s # <<>> PROVE s[1] \notin C /\ s[Len(s)] \notin C
      OBVIOUS
    <2>1. PICK a \in 1..Len(text), b \in 1..Len(text) :
             /\ a <= b /\ text[a] \notin C /\ text[b] \notin C
             /\ Len(s) = b - a + 1
             /\ \A i \in 1..b - a + 1 : s[i] = text[a + i - 1]
      BY StripProperties
    <2> HIDE DEF s
    <2>2. 1 \in 1..b - a + 1 /\ b - a + 1 \in 1..b - a + 1 /\ a + 1 - 1 = a
          /\ a + (b - a + 1) - 1 = b
      BY <2>1
    <2>3. QED
      BY <2>1, <2>2
  <1> HIDE DEF s
  <1>3. Strip(s, C) = s
    BY <1>1, <1>2, StripNothing
  <1>4. QED
    BY <1>3 DEF s

-----------------------------------------------------------------------------

(* The steps of from_name, each on the text that the one before it leaves: *)
(* the characters that are kept, hyphens for white space, one hyphen for a *)
(* run of them.                                                            *)
Usable == Alnum \cup White \cup {"-"}
KeptOf(low) == At(low, {i \in DOMAIN low : low[i] \in Usable})
HyphensOf(kept) == [i \in DOMAIN kept |-> IF kept[i] \in White THEN "-" ELSE kept[i]]
OnceIn(hyphens) == {i \in DOMAIN hyphens : i > 1 => {hyphens[i - 1], hyphens[i]} # {"-"}}
OnceOf(hyphens) == At(hyphens, OnceIn(hyphens))

(* ToSlug is the last of these steps. *)
LEMMA ToSlugSteps ==
  ASSUME NEW name
  PROVE  LET slug == Strip(OnceOf(HyphensOf(KeptOf(Lower(name)))), {"-"})
         IN  ToSlug(name) = IF slug = <<>> THEN DefaultSlug ELSE slug
  BY DEF ToSlug, OnceOf, OnceIn, HyphensOf, KeptOf, Usable

(* The characters that are left are those a slug may have. *)
LEMMA SlugAlphabet ==
  ASSUME NEW name \in Seq(Chars)
  PROVE  HyphensOf(KeptOf(Lower(name))) \in Seq(Alnum \cup {"-"})
  <1> DEFINE low == Lower(name)
             P == {i \in DOMAIN low : low[i] \in Usable}
             kept == At(low, P)
  <1>1. Len(name) \in Nat /\ DOMAIN name = 1..Len(name) /\ \A i \in 1..Len(name) : name[i] \in Chars
    BY LenProperties, ElementOfSeq
  <1>2. low = [i \in 1..Len(name) |-> IF name[i] = Capital THEN "a" ELSE name[i]]
    BY <1>1 DEF Lower
  <1>3. low \in Seq(Chars)
    BY <1>1, <1>2 DEF Chars, Alnum
  <1>4. P \subseteq 1..Len(low) /\ \A p \in P : low[p] \in Chars /\ low[p] \in Usable
    BY <1>3, LenProperties, ElementOfSeq
  <1> HIDE DEF low, P
  <1>5. kept \in Seq({low[p] : p \in P})
    BY <1>3, <1>4, AtProperties
  <1>6. {low[p] : p \in P} \subseteq Usable
    BY <1>4
  <1>7. kept \in Seq(Usable)
    BY <1>5, <1>6
  <1>8. Len(kept) \in Nat /\ DOMAIN kept = 1..Len(kept) /\ \A i \in 1..Len(kept) : kept[i] \in Usable
    BY <1>7, LenProperties, ElementOfSeq
  <1> HIDE DEF kept
  <1>9. \A i \in 1..Len(kept) :
          (IF kept[i] \in White THEN "-" ELSE kept[i]) \in Alnum \cup {"-"}
    BY <1>8 DEF Usable
  <1>10. HyphensOf(kept) \in Seq(Alnum \cup {"-"})
    BY <1>8, <1>9 DEF HyphensOf
  <1>11. QED
    BY <1>10 DEF kept, low, P, KeptOf

(* Of two neighbours that are left at least one is not a hyphen: had both  *)
(* been hyphens, the character before the second one would have stayed     *)
(* between them.                                                           *)
LEMMA NoTwoHyphens ==
  ASSUME NEW hyphens \in Seq(Alnum \cup {"-"})
  PROVE  /\ OnceOf(hyphens) \in Seq(Alnum \cup {"-"})
         /\ \A k \in 1..Len(OnceOf(hyphens)) : k + 1 \in 1..Len(OnceOf(hyphens)) =>
              ~(OnceOf(hyphens)[k] = "-" /\ OnceOf(hyphens)[k + 1] = "-")
  <1> DEFINE P == OnceIn(hyphens)
             once == At(hyphens, P)
  <1>1. /\ Len(hyphens) \in Nat /\ DOMAIN hyphens = 1..Len(hyphens)
        /\ \A i \in 1..Len(hyphens) : hyphens[i] \in Alnum \cup {"-"}
    BY LenProperties, ElementOfSeq
  <1>2. P \subseteq 1..Len(hyphens) /\ \A p \in P : hyphens[p] \in Alnum \cup {"-"}
    BY <1>1 DEF OnceIn
  <1>3. \A p \in 1..Len(hyphens) : p \in P <=> (p > 1 => {hyphens[p - 1], hyphens[p]} # {"-"})
    BY <1>1 DEF OnceIn
  <1> HIDE DEF P
  <1>4. /\ once \in Seq({hyphens[p] : p \in P}) /\ Len(once) = Cardinality(P)
        /\ \A k \in 1..Cardinality(P) : once[k] = hyphens[Pick(P, k)]
    BY <1>2, AtProperties
  <1>5. once \in Seq(Alnum \cup {"-"})
    <2>1. {hyphens[p] : p \in P} \subseteq Alnum \cup {"-"}
      BY <1>2
    <2>2. QED
      BY <1>4, <2>1
  <1>6. /\ Cardinality(P) \in Nat
        /\ \A k \in 1..Cardinality(P) : Pick(P, k) \in P
        /\ \A j, k \in 1..Cardinality(P) : j < k => Pick(P, j) < Pick(P, k)
        /\ \A k \in 1..Cardinality(P), p \in P :
              k + 1 \in 1..Cardinality(P) => ~(Pick(P, k) < p /\ p < Pick(P, k + 1))
    BY <1>1, <1>2, PickProperties
  <1> HIDE DEF once
  <1>7. ASSUME NEW k \in 1..Cardinality(P), k + 1 \in 1..Cardinality(P),
               once[k] = "-", once[k + 1] = "-"
        PROVE  FALSE
    <2> DEFINE p == Pick(P, k)
               q == Pick(P, k + 1)
    <2>1. p \in P /\ q \in P /\ p < q /\ hyphens[p] = "-" /\ hyphens[q] = "-"
      BY <1>4, <1>6, <1>7
    <2>2. \A i \in P : ~(p < i /\ i < q)
      BY <1>6, <1>7
    <2> HIDE DEF p, q
    <2>3. p \in 1..Len(hyphens) /\ q \in 1..Len(hyphens)
      BY <1>2, <2>1
    <2>4. q > 1 /\ q - 1 \in 1..Len(hyphens)
      BY <1>1, <2>1, <2>3
    <2>5. hyphens[q - 1] # "-"
      BY <1>3, <2>1, <2>3, <2>4
    <2>6. q - 1 \in P
      BY <1>3, <2>4, <2>5
    <2>7. p < q - 1 /\ q - 1 < q
      <3>1. p # q - 1
        BY <2>1, <2>5
      <3>2. QED
        BY <1>1, <2>1, <2>3, <3>1
    <2>8. QED
      BY <2>2, <2>6, <2>7
  <1>8. QED
    BY <1>4, <1>5, <1>7 DEF OnceOf, once, P

(* What remains of such a text between its first and its last character    *)
(* that is not a hyphen is safe in a URL.                                  *)
LEMMA StrippedIsUrlSafe ==
  ASSUME NEW text \in Seq(Alnum \cup {"-"}),
         \A k \in 1..Len(text) : k + 1 \in 1..Len(text) => ~(text[k] = "-" /\ text[k + 1] = "-"),
         Strip(text, {"-"}) # <<>>
  PROVE  UrlSafe(Strip(text, {"-"}))
  <1> DEFINE s == Strip(text, {"-"})
  <1>1. PICK a \in 1..Len(text), b \in 1..Len(text) :
           /\ a <= b /\ text[a] # "-" /\ text[b] # "-"
           /\ s \in Seq(Alnum \cup {"-"}) /\ Len(s) = b - a + 1
           /\ \A i \in 1..b - a + 1 : s[i] = text[a + i - 1]
    BY StripProperties
  <1>2. s # <<>>
    OBVIOUS
  <1> HIDE DEF s
  <1>3. Len(text) \in Nat /\ Len(s) \in Nat /\ DOMAIN s = 1..Len(s)
    BY <1>1, LenProperties
  <1>4. ASSUME NEW i \in 1..Len(s), s[i] \notin Alnum
        PROVE  s[i] = "-" /\ 1 < i /\ i < Len(s) /\ s[i + 1] # "-"
    <2>1. s[i] = "-"
      BY <1>1, <1>4, ElementOfSeq
    <2>2. a + i - 1 \in 1..Len(text) /\ text[a + i - 1] = "-"
      BY <1>1, <1>3, <2>1
    <2>3. a + i - 1 # a /\ a + i - 1 # b
      BY <1>1, <2>2
    <2>4. 1 < i /\ i < Len(s)
      BY <1>1, <1>3, <2>3
    <2>5. i + 1 \in 1..b - a + 1 /\ a + (i + 1) - 1 = (a + i - 1) + 1
          /\ (a + i - 1) + 1 \in 1..Len(text)
      BY <1>1, <1>3, <2>4
    <2>6. s[i + 1] = text[(a + i - 1) + 1]
      BY <1>1, <2>5
    <2>7. text[(a + i - 1) + 1] # "-"
      BY <2>2, <2>5
    <2>8. QED
      BY <2>1, <2>4, <2>6, <2>7
  <1>5. UrlSafe(s)
    BY <1>2, <1>3, <1>4 DEF UrlSafe
  <1>6. QED
    BY <1>5 DEF s

(* Every character of a text is taken, in its place. *)
LEMMA AtEverywhere ==
  ASSUME NEW S, NEW text \in Seq(S)
  PROVE  At(text, DOMAIN text) = text
  <1> DEFINE n == Len(text)
  <1>1. n \in Nat /\ DOMAIN text = 1..n /\ text \in [1..n -> S]
    BY LenProperties
  <1> HIDE DEF n
  <1>2. Cardinality(1..n) = n
    BY <1>1, FS_Interval
  <1>3. ASSUME NEW p \in 1..n PROVE Rank(1..n, p) = p
    <2>1. {q \in 1..n : q <= p} = 1..p
      BY <1>1
    <2>2. Cardinality(1..p) = p
      BY FS_Interval
    <2>3. QED
      BY <2>1, <2>2 DEF Rank
  <1>4. ASSUME NEW k \in 1..n PROVE Pick(1..n, k) = k
    BY <1>3 DEF Pick
  <1>5. At(text, 1..n) = [k \in 1..n |-> text[k]]
    <2>1. At(text, 1..n) = [k \in 1..Cardinality(1..n) |-> text[Pick(1..n, k)]]
      BY DEF At, Pick, Rank
    <2>2. QED
      BY <1>2, <1>4, <2>1
  <1>6. QED
    BY <1>1, <1>5

(* A slug is its own slug. *)
LEMMA SlugOfSlug ==
  ASSUME NEW slug \in Seq(Alnum \cup {"-"}), UrlSafe(slug)
  PROVE  ToSlug(slug) = slug
  <1> DEFINE n == Len(slug)
  <1>1. n \in Nat /\ DOMAIN slug = 1..n /\ slug \in [1..n -> Alnum \cup {"-"}]
    BY LenProperties
  <1>2. \A i \in 1..n : slug[i] \in Alnum \cup {"-"}
    BY <1>1
  <1>3. \A i \in 1..n : slug[i] \in Alnum \/ (slug[i] = "-" /\ 1 < i /\ i < n /\ slug[i + 1] # "-")
    BY <1>1 DEF UrlSafe
  <1>4. slug # <<>> /\ n > 0
    BY EmptySeq DEF UrlSafe
  <1> HIDE DEF n
  <1>5. Lower(slug) = slug
    <2>1. \A i \in 1..n : slug[i] # Capital
      BY <1>2 DEF Alnum, Capital
    <2>2. Lower(slug) = [i \in 1..n |-> slug[i]]
      BY <1>1, <2>1 DEF Lower
    <2>3. QED
      BY <1>1, <2>2
  <1>6. KeptOf(slug) = slug
    <2>1. {i \in DOMAIN slug : slug[i] \in Usable} = DOMAIN slug
      BY <1>1, <1>2 DEF Usable
    <2>2. QED
      BY <2>1, AtEverywhere DEF KeptOf
  <1>7. HyphensOf(slug) = slug
    <2>1. \A i \in 1..n : slug[i] \notin White
      BY <1>2 DEF Alnum, White
    <2>2. HyphensOf(slug) = [i \in 1..n |-> slug[i]]
      BY <1>1, <2>1 DEF HyphensOf
    <2>3. QED
      BY <1>1, <2>2
  <1>8. OnceOf(slug) = slug
    <2>1. ASSUME NEW i \in 1..n, i > 1 PROVE {slug[i - 1], slug[i]} # {"-"}
      <3>1. i - 1 \in 1..n /\ (i - 1) + 1 = i
        BY <1>1, <2>1
      <3>2. slug[i - 1] # "-" \/ slug[i] # "-"
        BY <1>3, <3>1 DEF Alnum
      <3>3. QED
        BY <3>2
    <2>2. OnceIn(slug) = DOMAIN slug
      BY <1>1, <2>1 DEF OnceIn
    <2>3. QED
      BY <2>2, AtEverywhere DEF OnceOf
  <1>9. Strip(slug, {"-"}) = slug
    <2>1. slug[1] # "-" /\ slug[n] # "-"
      <3>1. 1 \in 1..n /\ n \in 1..n /\ ~(1 < 1) /\ ~(n < n)
        BY <1>1, <1>4
      <3>2. slug[1] \in Alnum /\ slug[n] \in Alnum
        BY <1>3, <3>1
      <3>3. QED
        BY <3>2 DEF Alnum
    <2>2. slug # <<>> => slug[1] \notin {"-"} /\ slug[Len(slug)] \notin {"-"}
      BY <2>1 DEF n
    <2>3. QED
      BY <2>2, StripNothing
  <1>10. QED
    BY <1>4, <1>5, <1>6, <1>7, <1>8, <1>9, ToSlugSteps

(* Whatever the name and however long, its slug is one that the pattern of *)
(* CategorySlug and the schema accept, and deriving it again changes       *)
(* nothing (category_value_objects.py:35-59).                              *)
THEOREM SlugOfAnyName ==
  ASSUME NEW name \in Seq(Chars)
  PROVE  UrlSafe(ToSlug(name)) /\ ToSlug(ToSlug(name)) = ToSlug(name)
  <1> DEFINE hyphens == HyphensOf(KeptOf(Lower(name)))
             slug == Strip(OnceOf(hyphens), {"-"})
  <1>1. hyphens \in Seq(Alnum \cup {"-"})
    BY SlugAlphabet
  <1> HIDE DEF hyphens
  <1>2. /\ OnceOf(hyphens) \in Seq(Alnum \cup {"-"})
        /\ \A k \in 1..Len(OnceOf(hyphens)) : k + 1 \in 1..Len(OnceOf(hyphens)) =>
              ~(OnceOf(hyphens)[k] = "-" /\ OnceOf(hyphens)[k + 1] = "-")
    BY <1>1, NoTwoHyphens
  <1>3. ToSlug(name) = IF slug = <<>> THEN DefaultSlug ELSE slug
    BY ToSlugSteps DEF hyphens
  <1>4. ToSlug(name) \in Seq(Alnum \cup {"-"}) /\ UrlSafe(ToSlug(name))
    <2>1. CASE slug = <<>>
      <3>1. DefaultSlug \in Seq(Alnum \cup {"-"}) /\ UrlSafe(DefaultSlug)
        BY DEF DefaultSlug, UrlSafe, Alnum
      <3>2. QED
        BY <1>3, <2>1, <3>1
    <2>2. CASE slug # <<>>
      <3>1. UrlSafe(slug)
        BY <1>2, <2>2, StrippedIsUrlSafe
      <3>2. slug \in Seq(Alnum \cup {"-"})
        BY <1>2, StripType
      <3>3. QED
        BY <1>3, <2>2, <3>1, <3>2
    <2>3. QED
      BY <2>1, <2>2
  <1>5. QED
    BY <1>4, SlugOfSlug

(* The same for the names that the model checker goes through. *)
THEOREM SlugRulesHold ==
  ASSUME TextLength \in Nat
  PROVE  SlugRules
  <1> SUFFICES ASSUME NEW name \in TextsUpTo(TextLength)
               PROVE  /\ UrlSafe(ToSlug(StoredName(name)))
                      /\ ValidSlug(ToSlug(StoredName(name)))
                      /\ ToSlug(ToSlug(StoredName(name))) = ToSlug(StoredName(name))
    BY DEF SlugRules
  <1>1. name \in Seq(Chars)
    <2>1. PICK k \in 0..TextLength : name \in [1..k -> Chars]
      BY DEF TextsUpTo
    <2>2. QED
      BY <2>1
  <1>2. StoredName(name) \in Seq(Chars)
    BY <1>1, StripType DEF StoredName
  <1>3. QED
    BY <1>2, SlugOfAnyName DEF ValidSlug

-----------------------------------------------------------------------------
(* 2. LIKE AND THE MEMBERSHIP TEST OF PYTHON                               *)

(* The places from which text matches pattern[i] and what follows it, when *)
(* those for the later places are known: one equation of Like.             *)
LikeStep(pattern, text, later, i) ==
  LET n == Len(text)
  IN  CASE i > Len(pattern) -> {n + 1}
        [] i <= Len(pattern) /\ pattern[i] = "percent" -> {j \in 1..n + 1 : \E k \in later[i + 1] : j <= k}
        [] i <= Len(pattern) /\ pattern[i] = "underscore" -> {j \in 1..n : j + 1 \in later[i + 1]}
        [] i < Len(pattern) /\ pattern[i] = "escape" ->
             {j \in 1..n : pattern[i + 1] = text[j] /\ j + 1 \in later[i + 2]}
        [] OTHER -> {j \in 1..n : pattern[i] = text[j] /\ j + 1 \in later[i + 1]}

(* The same for a pattern without escapes and underscores.                 *)
PlainStep(pattern, text, i, next) ==
  IF i > Len(pattern) THEN {Len(text) + 1}
  ELSE IF pattern[i] = "percent" THEN {j \in 1..Len(text) + 1 : \E k \in next : j <= k}
  ELSE {j \in 1..Len(text) : pattern[i] = text[j] /\ j + 1 \in next}

(* In a pattern without them the two steps are one. *)
LEMMA LikeStepPlain ==
  ASSUME NEW pattern, NEW text, NEW later, Len(pattern) \in Nat, NEW i \in 1..Len(pattern) + 1,
         i <= Len(pattern) => pattern[i] \notin {"escape", "underscore"}
  PROVE  LikeStep(pattern, text, later, i) = PlainStep(pattern, text, i, later[i + 1])
  <1> DEFINE n == Len(text)
             end == {n + 1}
             any == {j \in 1..n + 1 : \E k \in later[i + 1] : j <= k}
             one == {j \in 1..n : j + 1 \in later[i + 1]}
             escaped == {j \in 1..n : pattern[i + 1] = text[j] /\ j + 1 \in later[i + 2]}
             same == {j \in 1..n : pattern[i] = text[j] /\ j + 1 \in later[i + 1]}
  <1>1. LikeStep(pattern, text, later, i) =
          CASE i > Len(pattern) -> end
            [] i <= Len(pattern) /\ pattern[i] = "percent" -> any
            [] i <= Len(pattern) /\ pattern[i] = "underscore" -> one
            [] i < Len(pattern) /\ pattern[i] = "escape" -> escaped
            [] OTHER -> same
    BY Zenon DEF LikeStep
  <1>2. PlainStep(pattern, text, i, later[i + 1]) =
          IF i > Len(pattern) THEN end ELSE IF pattern[i] = "percent" THEN any ELSE same
    BY Zenon DEF PlainStep
  <1> HIDE DEF end, any, one, escaped, same
  <1>3. i > Len(pattern) <=> ~(i <= Len(pattern))
    OBVIOUS
  <1>4. CASE i > Len(pattern)
    <2>1. ~(i < Len(pattern)) /\ ~(i <= Len(pattern))
      BY <1>4
    <2>2. QED
      BY <1>1, <1>2, <1>4, <2>1, Zenon
  <1>5. CASE i <= Len(pattern)
    <2>1. pattern[i] # "escape" /\ pattern[i] # "underscore"
      BY <1>5
    <2>2. QED
      BY <1>1, <1>2, <1>3, <1>5, <2>1, Zenon
  <1>6. QED
    BY <1>3, <1>4, <1>5

(* A function that solves the equations of Like tells what Like says.      *)
LEMMA LikeSolved ==
  ASSUME NEW pattern, NEW text, Len(pattern) \in Nat, NEW f,
         f = [i \in 1..Len(pattern) + 1 |-> PlainStep(pattern, text, i, f[i + 1])],
         \A i \in 1..Len(pattern) : pattern[i] \notin {"escape", "underscore"}
  PROVE  Like(pattern, text) <=> 1 \in f[1]
  <1> DEFINE m == Len(pattern)
             Solves(g) == g = [i \in 1..m + 1 |-> LikeStep(pattern, text, g, i)]
             from == CHOOSE g : Solves(g)
  <1>1. Solves(from)
    <2>1. \A i \in 1..m + 1 : LikeStep(pattern, text, f, i) = PlainStep(pattern, text, i, f[i + 1])
      BY LikeStepPlain
    <2>2. Solves(f)
      BY <2>1, Zenon
    <2>3. QED
      BY <2>2, Zenon
  <1>2. Like(pattern, text) <=> 1 \in from[1]
    BY DEF Like, LikeStep
  <1> HIDE DEF from
  <1>3. ASSUME NEW i \in 1..m + 1
        PROVE  from[i] = PlainStep(pattern, text, i, from[i + 1])
    <2>1. from[i] = LikeStep(pattern, text, from, i)
      BY <1>1
    <2>2. QED
      BY <2>1, LikeStepPlain
  <1>4. \A i \in 1..m + 1 : f[i] = PlainStep(pattern, text, i, f[i + 1])
    BY Zenon
  <1> HIDE DEF Solves
  <1>5. from[1] = f[1]
    <2> DEFINE T == {i \in 1..m + 1 : from[i] # f[i]}
    <2>1. SUFFICES ASSUME T # {} PROVE FALSE
      OBVIOUS
    <2>2. T \subseteq 0..m + 1 /\ m + 1 \in Nat
      OBVIOUS
    <2>3. PICK i \in T : \A k \in T : k <= i
      BY <2>1, <2>2, Largest
    <2>4. i \in 1..m + 1 /\ from[i] # f[i]
      BY <2>3
    <2>5. i <= m => i + 1 \in 1..m + 1 /\ from[i + 1] = f[i + 1]
      BY <2>3, <2>4
    <2>6. CASE i > m
      <3>1. PlainStep(pattern, text, i, from[i + 1]) = PlainStep(pattern, text, i, f[i + 1])
        BY <2>6, Zenon DEF PlainStep
      <3>2. QED
        BY <1>3, <1>4, <2>4, <3>1
    <2>7. CASE i <= m
      <3>1. PlainStep(pattern, text, i, from[i + 1]) = PlainStep(pattern, text, i, f[i + 1])
        BY <2>5, <2>7, Zenon
      <3>2. QED
        BY <1>3, <1>4, <2>4, <3>1
    <2>8. QED
      BY <2>4, <2>6, <2>7
  <1>6. QED
    BY <1>2, <1>5

Pattern(keyword) == <<"percent">> \o keyword \o <<"percent">>

(* A keyword between two percent signs, place by place. *)
LEMMA PatternIs ==
  ASSUME NEW keyword \in Seq(Chars)
  PROVE  /\ Len(keyword) \in Nat /\ Len(Pattern(keyword)) = Len(keyword) + 2
         /\ Pattern(keyword)[1] = "percent" /\ Pattern(keyword)[Len(keyword) + 2] = "percent"
         /\ \A i \in 2..Len(keyword) + 1 :
              /\ i - 1 \in DOMAIN keyword /\ Pattern(keyword)[i] = keyword[i - 1]
              /\ Plain(keyword) => keyword[i - 1] \notin Wild
  <1>1. Len(keyword) \in Nat /\ DOMAIN keyword = 1..Len(keyword)
    BY LenProperties
  <1>2. <<"percent">> \in Seq(Chars) /\ Len(<<"percent">>) = 1 /\ <<"percent">>[1] = "percent"
    BY DEF Chars, Wild
  <1>3. /\ <<"percent">> \o keyword \in Seq(Chars)
        /\ Len(<<"percent">> \o keyword) = Len(keyword) + 1
        /\ \A i \in 1..Len(keyword) + 1 : (<<"percent">> \o keyword)[i] =
             IF i <= 1 THEN <<"percent">>[i] ELSE keyword[i - 1]
    BY <1>1, <1>2, ConcatProperties
  <1> DEFINE s == <<"percent">> \o keyword
             p == <<"percent">>
  <1> HIDE DEF s, p
  <1>4. /\ Len(s \o p) = Len(s) + Len(p)
        /\ \A i \in 1..Len(s) + Len(p) : (s \o p)[i] = IF i <= Len(s) THEN s[i] ELSE p[i - Len(s)]
    BY <1>2, <1>3, ConcatProperties DEF s, p
  <1>5. Pattern(keyword) = s \o p /\ Len(p) = 1 /\ p[1] = "percent"
    BY <1>2 DEF s, p, Pattern
  <1>6. /\ Len(s) = Len(keyword) + 1
        /\ \A i \in 1..Len(keyword) + 1 : s[i] = IF i <= 1 THEN "percent" ELSE keyword[i - 1]
    <2>1. ASSUME NEW i \in 1..Len(keyword) + 1
          PROVE  s[i] = IF i <= 1 THEN "percent" ELSE keyword[i - 1]
      <3>1. s[i] = IF i <= 1 THEN <<"percent">>[i] ELSE keyword[i - 1]
        BY <1>3 DEF s
      <3>2. i <= 1 => i = 1
        OBVIOUS
      <3>3. QED
        BY <1>2, <3>1, <3>2
    <2>2. QED
      BY <1>3, <2>1 DEF s
  <1>7. \A i \in 2..Len(keyword) + 1 : i - 1 \in DOMAIN keyword
    BY <1>1
  <1>8. \A i \in 2..Len(keyword) + 1 : Plain(keyword) => keyword[i - 1] \notin Wild
    BY <1>7 DEF Plain
  <1>9. /\ Len(s \o p) = Len(keyword) + 2
        /\ (s \o p)[1] = "percent" /\ (s \o p)[Len(keyword) + 2] = "percent"
        /\ \A i \in 2..Len(keyword) + 1 : (s \o p)[i] = keyword[i - 1]
    BY <1>1, <1>4, <1>5, <1>6
  <1>10. QED
    BY <1>1, <1>5, <1>7, <1>8, <1>9

(* The places of text after which the rest of the keyword follows. *)
Rest(keyword, text, i) ==
  {j \in 1..Len(text) + 1 : /\ j + (Len(keyword) + 2 - i) <= Len(text) + 1
                            /\ \A t \in i..Len(keyword) + 1 : text[j + (t - i)] = keyword[t - 1]}

(* Where the rest of a keyword follows: its first character, and then the  *)
(* rest of it.                                                             *)
LEMMA RestStep ==
  ASSUME NEW keyword \in Seq(Chars), NEW text \in Seq(Chars), NEW i \in 2..Len(keyword) + 1
  PROVE  Rest(keyword, text, i) =
           {j \in 1..Len(text) : keyword[i - 1] = text[j] /\ j + 1 \in Rest(keyword, text, i + 1)}
  <1> DEFINE n == Len(keyword)
             m == Len(text)
  <1>1. n \in Nat /\ m \in Nat /\ i \in Int /\ 2 <= i /\ i <= n + 1
    BY LenProperties
  <1>2. ASSUME NEW j \in 1..m + 1, j \in Rest(keyword, text, i)
        PROVE  j \in 1..m /\ keyword[i - 1] = text[j] /\ j + 1 \in Rest(keyword, text, i + 1)
    <2>1. /\ j + (n + 2 - i) <= m + 1
          /\ \A t \in i..n + 1 : text[j + (t - i)] = keyword[t - 1]
      BY <1>2 DEF Rest
    <2>2. j \in 1..m /\ (j + 1) + (n + 2 - (i + 1)) <= m + 1 /\ j + 1 \in 1..m + 1
      BY <1>1, <2>1
    <2>3. i \in i..n + 1 /\ j + (i - i) = j
      BY <1>1
    <2>4. \A t \in i + 1..n + 1 : t \in i..n + 1 /\ (j + 1) + (t - (i + 1)) = j + (t - i)
      BY <1>1
    <2>5. \A t \in i + 1..n + 1 : text[(j + 1) + (t - (i + 1))] = keyword[t - 1]
      BY <2>1, <2>4
    <2>6. text[j] = keyword[i - 1]
      BY <2>1, <2>3
    <2>7. QED
      BY <2>2, <2>5, <2>6 DEF Rest
  <1>3. ASSUME NEW j \in 1..m, keyword[i - 1] = text[j], j + 1 \in Rest(keyword, text, i + 1)
        PROVE  j \in Rest(keyword, text, i)
    <2>1. /\ (j + 1) + (n + 2 - (i + 1)) <= m + 1
          /\ \A t \in i + 1..n + 1 : text[(j + 1) + (t - (i + 1))] = keyword[t - 1]
      BY <1>3 DEF Rest
    <2>2. j \in 1..m + 1 /\ j + (n + 2 - i) <= m + 1
      BY <1>1, <2>1
    <2>3. ASSUME NEW t \in i..n + 1 PROVE text[j + (t - i)] = keyword[t - 1]
      <3>1. CASE t = i
        <4>1. j + (t - i) = j
          BY <1>1, <3>1
        <4>2. QED
          BY <1>3, <3>1, <4>1
      <3>2. CASE t # i
        <4>1. t \in i + 1..n + 1 /\ (j + 1) + (t - (i + 1)) = j + (t - i)
          BY <1>1, <3>2
        <4>2. QED
          BY <2>1, <4>1
      <3>3. QED
        BY <3>1, <3>2
    <2>4. QED
      BY <2>2, <2>3 DEF Rest
  <1>4. \A j \in Rest(keyword, text, i) : j \in 1..m + 1
    BY DEF Rest
  <1>5. QED
    BY <1>2, <1>3, <1>4

(* The whole keyword follows some place exactly when it lies in the text. *)
LEMMA RestWithin ==
  ASSUME NEW keyword \in Seq(Chars), NEW text \in Seq(Chars)
  PROVE  Rest(keyword, text, 2) # {} <=> Within(keyword, text)
  <1> DEFINE n == Len(keyword)
             m == Len(text)
  <1>1. n \in Nat /\ m \in Nat /\ keyword \in [1..n -> Chars] /\ text \in [1..m -> Chars]
    BY LenProperties
  <1>2. ASSUME NEW k \in 0..m, k + n <= m
        PROVE  /\ SubSeq(text, k + 1, k + n) \in Seq(Chars)
               /\ Len(SubSeq(text, k + 1, k + n)) = n
               /\ \A t \in 1..n : SubSeq(text, k + 1, k + n)[t] = text[k + t]
    <2>1. k + 1 \in Int /\ k + n \in Int /\ \A i \in k + 1..k + n : i \in 1..m
      BY <1>1, <1>2
    <2>2. \A i \in k + 1..k + n : text[i] \in Chars
      BY <1>1, <2>1
    <2> DEFINE s == SubSeq(text, k + 1, k + n)
    <2>3. /\ s \in Seq(Chars)
          /\ Len(s) = IF k + 1 <= k + n THEN (k + n) - (k + 1) + 1 ELSE 0
          /\ \A i \in 1..(k + n) - (k + 1) + 1 : s[i] = text[(k + 1) + i - 1]
      BY <2>1, <2>2, SubSeqProperties
    <2> HIDE DEF s
    <2>4. Len(s) = n
      BY <1>1, <2>3
    <2>5. \A t \in 1..n : t \in 1..(k + n) - (k + 1) + 1 /\ (k + 1) + t - 1 = k + t
      BY <1>1
    <2>6. \A t \in 1..n : s[t] = text[k + t]
      BY <2>3, <2>5
    <2>7. QED
      BY <2>3, <2>4, <2>6 DEF s
  <1>3. ASSUME NEW j \in Rest(keyword, text, 2) PROVE Within(keyword, text)
    <2>1. /\ j \in 1..m + 1 /\ j + (n + 2 - 2) <= m + 1
          /\ \A t \in 2..n + 1 : text[j + (t - 2)] = keyword[t - 1]
      BY <1>3 DEF Rest
    <2> DEFINE k == j - 1
    <2>2. k \in 0..m /\ k + n <= m
      BY <1>1, <2>1
    <2>3. \A t \in 1..n : t + 1 \in 2..n + 1 /\ j + ((t + 1) - 2) = k + t /\ (t + 1) - 1 = t
      BY <1>1, <2>1
    <2>4. \A t \in 1..n : text[k + t] = keyword[t]
      BY <2>1, <2>3
    <2> HIDE DEF k
    <2>5. SubSeq(text, k + 1, k + n) = keyword
      <3> DEFINE s == SubSeq(text, k + 1, k + n)
      <3>1. s \in Seq(Chars) /\ Len(s) = n /\ \A t \in 1..n : s[t] = keyword[t]
        BY <1>2, <2>2, <2>4
      <3> HIDE DEF s
      <3>2. s = keyword
        BY <3>1, SeqEqual
      <3>3. QED
        BY <3>2 DEF s
    <2>6. QED
      BY <2>2, <2>5 DEF Within
  <1>4. ASSUME Within(keyword, text) PROVE Rest(keyword, text, 2) # {}
    <2>1. PICK k \in 0..m : k + n <= m /\ SubSeq(text, k + 1, k + n) = keyword
      BY <1>4 DEF Within
    <2>2. \A t \in 1..n : text[k + t] = keyword[t]
      BY <1>2, <2>1
    <2>3. k + 1 \in 1..m + 1 /\ (k + 1) + (n + 2 - 2) <= m + 1
      BY <1>1, <2>1
    <2>4. \A t \in 2..n + 1 : t - 1 \in 1..n /\ (k + 1) + (t - 2) = k + (t - 1)
      BY <1>1, <2>1
    <2>5. \A t \in 2..n + 1 : text[(k + 1) + (t - 2)] = keyword[t - 1]
      BY <2>2, <2>4
    <2>6. k + 1 \in Rest(keyword, text, 2)
      BY <2>3, <2>5 DEF Rest
    <2>7. QED
      BY <2>6
  <1>5. QED
    BY <1>3, <1>4

(* The equations of Like, solved for such a pattern. *)
LEMMA ContainsIsWithin ==
  ASSUME NEW keyword \in Seq(Chars), Plain(keyword), NEW text \in Seq(Chars)
  PROVE  Like(Pattern(keyword), text) <=> Within(keyword, text)
  <1> DEFINE n == Len(keyword)
             m == Len(text)
             p == Pattern(keyword)
             first == {j \in 1..m + 1 : \E k \in Rest(keyword, text, 2) : j <= k}
             f == [i \in 1..n + 3 |->
                     IF i = 1 THEN first
                     ELSE IF i = n + 3 THEN {m + 1} ELSE Rest(keyword, text, i)]
  <1>1. /\ n \in Nat /\ m \in Nat /\ Len(p) = n + 2
        /\ p[1] = "percent" /\ p[n + 2] = "percent"
        /\ \A i \in 2..n + 1 : p[i] = keyword[i - 1] /\ p[i] \notin Wild
    BY PatternIs, LenProperties
  <1> HIDE DEF p
  <1>2. f[1] = first /\ f[n + 3] = {m + 1} /\ \A i \in 2..n + 2 : f[i] = Rest(keyword, text, i)
    BY <1>1
  <1>10. f = [i \in 1..n + 3 |-> f[i]]
    OBVIOUS
  <1>3. \A i \in 1..n + 2 : p[i] \notin {"escape", "underscore"}
    <2>1. \A i \in 1..n + 2 : i = 1 \/ i = n + 2 \/ i \in 2..n + 1
      BY <1>1
    <2>2. QED
      BY <1>1, <2>1 DEF Wild
  <1>4. Rest(keyword, text, n + 2) = 1..m + 1
    <2>1. \A t \in n + 2..n + 1 : FALSE
      BY <1>1
    <2>2. \A j \in 1..m + 1 : j + (n + 2 - (n + 2)) <= m + 1
      BY <1>1
    <2>3. QED
      BY <2>1, <2>2 DEF Rest
  <1> HIDE DEF f
  <1>5. ASSUME NEW i \in 1..n + 3 PROVE f[i] = PlainStep(p, text, i, f[i + 1])
    <2>1. CASE i = n + 3
      <3>1. i > Len(p)
        BY <1>1, <2>1
      <3>2. QED
        BY <1>2, <2>1, <3>1 DEF PlainStep
    <2>2. CASE i = n + 2
      <3>1. ~(i > Len(p)) /\ p[i] = "percent" /\ f[i + 1] = {m + 1}
        BY <1>1, <1>2, <2>2
      <3>2. {j \in 1..m + 1 : \E k \in {m + 1} : j <= k} = 1..m + 1
        BY <1>1
      <3>3. f[i] = 1..m + 1
        BY <1>1, <1>2, <1>4, <2>2
      <3>4. QED
        BY <3>1, <3>2, <3>3 DEF PlainStep
    <2>3. CASE i \in 2..n + 1
      <3>1. ~(i > Len(p)) /\ p[i] # "percent" /\ p[i] = keyword[i - 1]
        BY <1>1, <2>3 DEF Wild
      <3>2. f[i] = Rest(keyword, text, i) /\ f[i + 1] = Rest(keyword, text, i + 1)
        BY <1>1, <1>2, <2>3
      <3>3. f[i] = {j \in 1..m : p[i] = text[j] /\ j + 1 \in f[i + 1]}
        BY <2>3, <3>1, <3>2, RestStep
      <3>4. QED
        BY <3>1, <3>3 DEF PlainStep
    <2>4. CASE i = 1
      <3>1. ~(i > Len(p)) /\ p[i] = "percent" /\ 2 \in 2..n + 2 /\ f[i + 1] = Rest(keyword, text, 2)
        BY <1>1, <1>2, <2>4
      <3>2. QED
        BY <1>2, <2>4, <3>1 DEF PlainStep
    <2>5. QED
      BY <1>1, <2>1, <2>2, <2>3, <2>4
  <1>6. f = [i \in 1..Len(p) + 1 |-> PlainStep(p, text, i, f[i + 1])]
    <2>1. Len(p) + 1 = n + 3
      BY <1>1
    <2>2. QED
      BY <1>5, <1>10, <2>1
  <1>7. Like(p, text) <=> 1 \in f[1]
    <2>1. Len(p) \in Nat
      BY <1>1
    <2>2. \A i \in 1..Len(p) : p[i] \notin {"escape", "underscore"}
      BY <1>1, <1>3
    <2> HIDE DEF n, m
    <2>3. QED
      BY <2>1, <2>2, <1>6, LikeSolved, Zenon
  <1>8. 1 \in f[1] <=> Rest(keyword, text, 2) # {}
    <2>1. \A k \in Rest(keyword, text, 2) : k \in 1..m + 1
      BY DEF Rest
    <2>2. 1 \in 1..m + 1 /\ \A k \in 1..m + 1 : 1 <= k
      BY <1>1
    <2>3. QED
      BY <1>2, <2>1, <2>2
  <1>9. QED
    BY <1>7, <1>8, RestWithin DEF p

(* Lower neither leaves the alphabet nor adds a wild character. *)
LEMMA LowerPlain ==
  ASSUME NEW text \in Seq(Chars)
  PROVE  Lower(text) \in Seq(Chars) /\ (Plain(text) => Plain(Lower(text)))
  <1>1. Len(text) \in Nat /\ DOMAIN text = 1..Len(text) /\ \A i \in 1..Len(text) : text[i] \in Chars
    BY LenProperties, ElementOfSeq
  <1>2. Lower(text) = [i \in 1..Len(text) |-> IF text[i] = Capital THEN "a" ELSE text[i]]
    BY <1>1 DEF Lower
  <1>3. Lower(text) \in Seq(Chars)
    BY <1>1, <1>2 DEF Chars, Alnum
  <1>4. \A i \in 1..Len(text) : Lower(text)[i] = IF text[i] = Capital THEN "a" ELSE text[i]
    BY <1>2
  <1>5. DOMAIN Lower(text) = 1..Len(text)
    BY <1>2
  <1>6. Plain(text) => Plain(Lower(text))
    BY <1>1, <1>4, <1>5 DEF Plain, Wild
  <1>7. QED
    BY <1>3, <1>6

(* What LIKE makes of a keyword without wild characters is what Python's   *)
(* "in" makes of it, whatever the name and however long either is          *)
(* (specification_translator.py:71, item_specifications.py).               *)
THEOREM LikeIsIn ==
  ASSUME NEW keyword \in Seq(Chars), Plain(keyword), NEW text \in Seq(Chars)
  PROVE  SqlContains(Lower(keyword), text) = Within(Lower(keyword), Lower(text))
  <1>1. Lower(keyword) \in Seq(Chars) /\ Plain(Lower(keyword)) /\ Lower(text) \in Seq(Chars)
    BY LowerPlain
  <1>2. Like(Pattern(Lower(keyword)), Lower(text)) <=> Within(Lower(keyword), Lower(text))
    BY <1>1, ContainsIsWithin
  <1>3. SqlContains(Lower(keyword), text) = Like(Pattern(Lower(keyword)), Lower(text))
    BY DEF SqlContains, Pattern
  <1>4. SqlContains(Lower(keyword), text) \in BOOLEAN /\ Within(Lower(keyword), Lower(text)) \in BOOLEAN
    BY DEF SqlContains, Like, Within
  <1>5. QED
    BY <1>2, <1>3, <1>4

(* The equation of a place looks at later places alone. *)
LEMMA LikeStepSame ==
  ASSUME NEW pattern, NEW text, Len(pattern) \in Nat, NEW v, NEW w,
         NEW i \in 1..Len(pattern) + 1,
         \A j \in i + 1..Len(pattern) + 1 : v[j] = w[j]
  PROVE  LikeStep(pattern, text, v, i) = LikeStep(pattern, text, w, i)
  <1>1. i <= Len(pattern) => v[i + 1] = w[i + 1]
    OBVIOUS
  <1>2. i < Len(pattern) => v[i + 2] = w[i + 2]
    OBVIOUS
  <1>3. i < Len(pattern) => i <= Len(pattern)
    OBVIOUS
  <1>4. i > Len(pattern) <=> ~(i <= Len(pattern))
    OBVIOUS
  <1> DEFINE end == {Len(text) + 1}
             any(u) == {j \in 1..Len(text) + 1 : \E k \in u[i + 1] : j <= k}
             one(u) == {j \in 1..Len(text) : j + 1 \in u[i + 1]}
             escaped(u) == {j \in 1..Len(text) : pattern[i + 1] = text[j] /\ j + 1 \in u[i + 2]}
             same(u) == {j \in 1..Len(text) : pattern[i] = text[j] /\ j + 1 \in u[i + 1]}
  <1>5. \A u : LikeStep(pattern, text, u, i) =
          CASE i > Len(pattern) -> end
            [] i <= Len(pattern) /\ pattern[i] = "percent" -> any(u)
            [] i <= Len(pattern) /\ pattern[i] = "underscore" -> one(u)
            [] i < Len(pattern) /\ pattern[i] = "escape" -> escaped(u)
            [] OTHER -> same(u)
    BY Zenon DEF LikeStep
  <1>6. /\ i <= Len(pattern) => any(v) = any(w) /\ one(v) = one(w) /\ same(v) = same(w)
        /\ i < Len(pattern) => escaped(v) = escaped(w)
    BY <1>1, <1>2, Zenon
  <1> HIDE DEF end, any, one, escaped, same
  <1>7. CASE i <= Len(pattern)
    BY <1>3, <1>4, <1>5, <1>6, <1>7
  <1>8. CASE ~(i <= Len(pattern))
    BY <1>3, <1>4, <1>5, <1>8
  <1>9. QED
    BY <1>7, <1>8

(* The equations of Like have a solution for every pattern: one for the    *)
(* last k places extends to the place before them.                         *)
LEMMA LikeExists ==
  ASSUME NEW pattern, NEW text, Len(pattern) \in Nat
  PROVE  \E f : f = [i \in 1..Len(pattern) + 1 |-> LikeStep(pattern, text, f, i)]
  <1> DEFINE m == Len(pattern)
             EndOf(k) == m + 2 - k..m + 1
             Solved(f, k) == f = [i \in EndOf(k) |-> LikeStep(pattern, text, f, i)]
             T == {k \in 0..m + 1 : \E f : Solved(f, k)}
  <1>1. 0 \in T
    <2>1. EndOf(0) = {}
      OBVIOUS
    <2>2. Solved([i \in {} |-> {}], 0)
      BY <2>1
    <2> HIDE DEF Solved
    <2>3. \E f : Solved(f, 0)
      BY <2>2, Zenon
    <2>4. QED
      BY <2>3
  <1>2. PICK k \in T : \A j \in T : j <= k
    <2> HIDE DEF Solved
    <2>1. T \subseteq 0..m + 1 /\ T # {} /\ m + 1 \in Nat
      BY <1>1
    <2> HIDE DEF T
    <2>2. QED
      BY <2>1, Largest
  <1>3. k \in 0..m + 1
    BY <1>2
  <1>4. PICK f : Solved(f, k)
    BY <1>2
  <1>5. \A i \in EndOf(k) : f[i] = LikeStep(pattern, text, f, i)
    BY <1>4, Zenon
  <1>6. CASE k = m + 1
    <2>1. EndOf(k) = 1..m + 1
      BY <1>6
    <2>2. QED
      BY <1>4, <2>1
  <1>7. CASE k # m + 1
    <2> DEFINE first == m + 1 - k
               g == [i \in EndOf(k + 1) |->
                       IF i = first THEN LikeStep(pattern, text, f, first) ELSE f[i]]
    <2>1. /\ k + 1 \in 0..m + 1 /\ first \in 1..m + 1 /\ first \in EndOf(k + 1)
          /\ \A i \in EndOf(k) : i # first /\ i \in EndOf(k + 1)
          /\ \A i \in EndOf(k + 1) : i \in 1..m + 1 /\ (i # first => i \in EndOf(k))
          /\ \A i \in EndOf(k + 1) : \A j \in i + 1..m + 1 : j \in EndOf(k)
      BY <1>3, <1>7
    <2>2. DOMAIN g = EndOf(k + 1) /\ g = [i \in EndOf(k + 1) |-> g[i]]
      OBVIOUS
    <2>3. \A i \in EndOf(k + 1) :
            g[i] = IF i = first THEN LikeStep(pattern, text, f, first) ELSE f[i]
      BY Zenon
    <2> HIDE DEF g
    <2>4. \A i \in EndOf(k) : g[i] = f[i]
      BY <2>1, <2>3
    <2> HIDE DEF first, EndOf
    <2>5. ASSUME NEW i \in EndOf(k + 1) PROVE g[i] = LikeStep(pattern, text, g, i)
      <3>1. \A j \in i + 1..m + 1 : f[j] = g[j]
        BY <2>1, <2>4
      <3>2. LikeStep(pattern, text, f, i) = LikeStep(pattern, text, g, i)
        BY <2>1, <3>1, LikeStepSame
      <3>3. g[i] = LikeStep(pattern, text, f, i)
        BY <1>5, <2>1, <2>3
      <3>4. QED
        BY <3>2, <3>3
    <2>6. Solved(g, k + 1)
      BY <2>2, <2>5, Zenon
    <2> HIDE DEF Solved
    <2>7. \E u : Solved(u, k + 1)
      BY <2>6, Zenon
    <2>8. k + 1 \in T
      BY <2>1, <2>7
    <2>9. QED
      BY <1>2, <1>3, <2>8
  <1>8. QED
    BY <1>6, <1>7

(* LIKE matches wherever the keyword stands as it is: a percent sign and   *)
(* an underscore match themselves.                                         *)
LEMMA WithinIsContained ==
  ASSUME NEW keyword \in Seq(Chars), Unescaped(keyword), NEW text \in Seq(Chars),
         Within(keyword, text)
  PROVE  Like(Pattern(keyword), text)
  <1> DEFINE n == Len(keyword)
             m == Len(text)
             p == Pattern(keyword)
             Solves(g) == g = [i \in 1..Len(p) + 1 |-> LikeStep(p, text, g, i)]
             from == CHOOSE g : Solves(g)
  <1>1. /\ n \in Nat /\ m \in Nat /\ Len(p) = n + 2
        /\ p[1] = "percent" /\ p[n + 2] = "percent"
        /\ \A i \in 2..n + 1 : p[i] = keyword[i - 1] /\ p[i] # "escape"
    <2>1. \A i \in 2..n + 1 : i - 1 \in DOMAIN keyword /\ p[i] = keyword[i - 1]
      BY PatternIs
    <2>2. QED
      BY <2>1, PatternIs, LenProperties DEF Unescaped
  <1>2. Like(p, text) <=> 1 \in from[1]
    BY DEF Like, LikeStep
  <1> HIDE DEF p
  <1>3. Solves(from)
    <2>1. Len(p) \in Nat
      BY <1>1
    <2>2. \E g : Solves(g)
      BY <2>1, LikeExists
    <2>3. QED
      BY <2>2, Zenon
  <1> HIDE DEF from
  <1>4. \A i \in 1..n + 3 : from[i] = LikeStep(p, text, from, i)
    <2>1. Len(p) + 1 = n + 3
      BY <1>1
    <2>2. QED
      BY <1>3, <2>1
  <1> HIDE DEF Solves
  <1>5. from[n + 3] = {m + 1}
    <2>1. n + 3 \in 1..n + 3 /\ n + 3 > Len(p) /\ ~(n + 3 <= Len(p)) /\ ~(n + 3 < Len(p))
      BY <1>1
    <2>2. LikeStep(p, text, from, n + 3) = {m + 1}
      BY <2>1 DEF LikeStep
    <2>3. QED
      BY <1>4, <2>1, <2>2
  <1>6. ASSUME NEW i \in 1..n + 2, p[i] = "percent"
        PROVE  from[i] = {j \in 1..m + 1 : \E k \in from[i + 1] : j <= k}
    <2>1. i \in 1..n + 3 /\ ~(i > Len(p)) /\ i <= Len(p)
      BY <1>1
    <2>2. LikeStep(p, text, from, i) = {j \in 1..m + 1 : \E k \in from[i + 1] : j <= k}
      BY <1>6, <2>1 DEF LikeStep
    <2>3. QED
      BY <1>4, <2>1, <2>2
  <1>7. ASSUME NEW i \in 2..n + 1, NEW j \in 1..m, p[i] = text[j], j + 1 \in from[i + 1]
        PROVE  j \in from[i]
    <2>1. i \in 1..n + 3 /\ i \in 1..n + 2 /\ ~(i > Len(p)) /\ i <= Len(p) /\ p[i] # "escape"
      BY <1>1
    <2>2. CASE p[i] = "percent"
      <3>1. j \in 1..m + 1 /\ j <= j + 1
        BY <1>1
      <3>2. QED
        BY <1>6, <1>7, <2>1, <2>2, <3>1
    <2>3. CASE p[i] = "underscore"
      <3>1. LikeStep(p, text, from, i) = {l \in 1..m : l + 1 \in from[i + 1]}
        BY <2>1, <2>3 DEF LikeStep
      <3>2. QED
        BY <1>4, <1>7, <2>1, <3>1
    <2>4. CASE p[i] # "percent" /\ p[i] # "underscore"
      <3>1. LikeStep(p, text, from, i) =
              {l \in 1..m : p[i] = text[l] /\ l + 1 \in from[i + 1]}
        BY <2>1, <2>4 DEF LikeStep
      <3>2. QED
        BY <1>4, <1>7, <2>1, <3>1
    <2>5. QED
      BY <2>2, <2>3, <2>4
  <1>8. 1..m + 1 \subseteq from[n + 2]
    <2>1. n + 2 \in 1..n + 2 /\ n + 2 + 1 = n + 3
      BY <1>1
    <2>2. \A j \in 1..m + 1 : j <= m + 1
      BY <1>1
    <2>3. QED
      BY <1>1, <1>5, <1>6, <2>1, <2>2
  <1>9. \A i \in 2..n + 2 : Rest(keyword, text, i) \subseteq from[i]
    <2> DEFINE T == {i \in 2..n + 2 : ~(Rest(keyword, text, i) \subseteq from[i])}
    <2>1. SUFFICES ASSUME T # {} PROVE FALSE
      OBVIOUS
    <2>2. T \subseteq 0..n + 2 /\ n + 2 \in Nat
      BY <1>1
    <2>3. PICK i \in T : \A k \in T : k <= i
      BY <2>1, <2>2, Largest
    <2>4. i \in 2..n + 2 /\ ~(Rest(keyword, text, i) \subseteq from[i])
      BY <2>3
    <2>5. i # n + 2
      BY <1>8, <2>4 DEF Rest
    <2>6. i \in 2..n + 1 /\ i + 1 \in 2..n + 2 /\ ~(i + 1 <= i)
      BY <1>1, <2>4, <2>5
    <2>7. Rest(keyword, text, i + 1) \subseteq from[i + 1]
      BY <2>3, <2>6
    <2>8. \A j \in Rest(keyword, text, i) :
            j \in 1..m /\ keyword[i - 1] = text[j] /\ j + 1 \in Rest(keyword, text, i + 1)
      BY <2>6, RestStep
    <2>9. QED
      BY <1>1, <1>7, <2>4, <2>6, <2>7, <2>8
  <1>10. PICK k : k \in Rest(keyword, text, 2)
    BY RestWithin
  <1>11. k \in from[2] /\ k \in 1..m + 1
    <2>1. 2 \in 2..n + 2
      BY <1>1
    <2>2. QED
      BY <1>9, <1>10, <2>1 DEF Rest
  <1>12. 1 \in from[1]
    <2>1. 1 \in 1..n + 2 /\ 1 + 1 = 2 /\ 1 \in 1..m + 1 /\ 1 <= k
      BY <1>1, <1>11
    <2>2. QED
      BY <1>1, <1>6, <1>11, <2>1
  <1>13. QED
    BY <1>2, <1>12 DEF p

(* A name that has the keyword in it is one that LIKE finds, whatever      *)
(* percent signs and underscores the keyword has: only a backslash makes   *)
(* it miss one (specification_translator.py:71, item_specifications.py:73).*)
THEOREM LikeFindsNoLess ==
  ASSUME NEW keyword \in Seq(Chars), Unescaped(keyword), NEW text \in Seq(Chars),
         Within(Lower(keyword), Lower(text))
  PROVE  SqlContains(Lower(keyword), text)
  <1>1. Lower(keyword) \in Seq(Chars) /\ Lower(text) \in Seq(Chars)
    BY LowerPlain
  <1>2. Unescaped(Lower(keyword))
    BY DEF Unescaped, Lower, Capital
  <1>3. QED
    BY <1>1, <1>2, WithinIsContained DEF SqlContains, Pattern

(* The same for the keywords and names that the model checker goes through. *)
THEOREM LikeRulesHold ==
  ASSUME TextLength \in Nat
  PROVE  LikeRules
  <1> SUFFICES ASSUME NEW keyword \in TextsUpTo(TextLength \div 2),
                      NEW text \in TextsUpTo(TextLength \div 2),
                      NEW found, found = SqlContains(Lower(keyword), text),
                      NEW named, named = Within(Lower(keyword), Lower(text))
               PROVE  /\ Plain(keyword) => found = named
                      /\ Unescaped(keyword) /\ named => found
    BY DEF LikeRules
  <1>1. TextLength \div 2 \in Nat
    OBVIOUS
  <1> DEFINE n == TextLength \div 2
  <1> HIDE DEF n
  <1>2. \A t \in TextsUpTo(n) : t \in Seq(Chars)
    <2> SUFFICES ASSUME NEW t \in TextsUpTo(n) PROVE t \in Seq(Chars)
      OBVIOUS
    <2>1. PICK k \in 0..n : t \in [1..k -> Chars]
      BY DEF TextsUpTo
    <2>2. k \in Nat
      BY <1>1 DEF n
    <2>3. QED
      BY <2>1, <2>2
  <1>3. QED
    BY <1>2, LikeIsIn, LikeFindsNoLess DEF n

-----------------------------------------------------------------------------
(* 3. THE ANSWERS OF THE WRITE REQUESTS                                    *)

Types == {"Created", "Updated", "Deleted"}

(* The places in the outbox that request r has filled. *)
By(r) == {k \in DOMAIN outbox : outbox[k].by = r}

(* Phases and answers have an entry for every request, and what a request  *)
(* carries to its commit is an event of its own.                           *)
ShapeInv ==
  /\ phase \in [Requests -> {"idle", "found", "saved", "answered", "lost"}]
  /\ status \in [Requests -> {0, 200, 201, 204, 404, 422, 500}]
  /\ DOMAIN session = Requests
  /\ \E S : outbox \in Seq(S)

CarriedInv ==
  \A r \in Requests : phase[r] \in {"found", "saved"} =>
    session[r].event.by = r /\ session[r].event.type \in Types

(* A request without an answer has committed nothing.                      *)
PendingInv == \A r \in Requests : phase[r] \notin {"answered", "lost"} => status[r] = 0 /\ By(r) = {}

(* The answer of one request is honest about the events. *)
Honest(r) ==
  CASE status[r] \in {200, 201} ->
         \E k \in By(r) : By(r) = {k} /\ SuccessOf[outbox[k].type] = status[r]
    [] status[r] = 204 -> \A k \in By(r) : By(r) = {k} /\ outbox[k].type = "Deleted"
    [] phase[r] = "lost" -> \E k \in By(r) : By(r) = {k}
    [] OTHER -> By(r) = {}

AnswersInv == \A r \in Requests : Honest(r)

Inv == ShapeInv /\ CarriedInv /\ PendingInv /\ AnswersInv

-----------------------------------------------------------------------------

(* The invariant of the answers holds at first. *)
LEMMA InitInv == Init => Inv
  <1> SUFFICES ASSUME Init PROVE Inv
    OBVIOUS
  <1>1. outbox \in Seq({}) /\ DOMAIN outbox = {}
    BY DEF Init
  <1>2. ShapeInv
    BY <1>1 DEF Init, ShapeInv
  <1>3. CarriedInv
    BY DEF Init, CarriedInv
  <1>4. PendingInv
    BY <1>1 DEF Init, PendingInv, By
  <1>5. AnswersInv
    BY <1>1 DEF Init, AnswersInv, Honest, By
  <1>6. QED
    BY <1>2, <1>3, <1>4, <1>5 DEF Inv

(* What an event carries for the request that recorded it. *)
LEMMA EventOf ==
  ASSUME NEW r, NEW type, NEW id, NEW told
  PROVE  Event(r, type, id, told).by = r /\ Event(r, type, id, told).type = type
  BY DEF Event

(* Every step of a request is one of four things: it gets an answer that   *)
(* promises nothing, it reads its row, it saves, or it commits and is told *)
(* so or not.                                                              *)
Refusal(r) == /\ phase[r] \notin {"answered", "lost"}
              /\ \E code \in {204, 404, 422, 500} : Refuse(r, code)
Reading(r) ==
  /\ phase[r] = "idle"
  /\ \E place \in {"found", "saved"} : phase' = [phase EXCEPT ![r] = place]
  /\ \E s : /\ session' = [session EXCEPT ![r] = s]
            /\ s.event.by = r /\ s.event.type \in Types
  /\ UNCHANGED <<outbox, status>>
Saving(r) ==
  /\ phase[r] = "found" /\ phase' = [phase EXCEPT ![r] = "saved"]
  /\ UNCHANGED <<outbox, session, status>>
Success(r) ==
  /\ phase[r] = "saved"
  /\ outbox' = Append(outbox, session[r].event)
  /\ \/ Answer(r, SuccessOf[session[r].event.type])
     \/ End(r, "lost", 500)

Kind(r) == Refusal(r) \/ Reading(r) \/ Saving(r) \/ Success(r)

(* The first step of a creation is a refusal or a read. *)
LEMMA CreateKind ==
  ASSUME NEW r \in Requests, NEW id, NEW body, NEW new, Create(r, id, body, new)
  PROVE  Kind(r)
  <1>1. CASE ~Valid(body)
    BY <1>1 DEF Create, Kind, Refusal, StatusOf
  <1>2. CASE Valid(body)
    <2> DEFINE s == [found |-> new, aggregate |-> new, event |-> Event(r, "Created", id, new)]
    <2>1. s.event.by = r /\ s.event.type \in Types
      BY EventOf DEF Types
    <2>2. session' = [session EXCEPT ![r] = s]
      BY <1>2 DEF Create
    <2>3. Reading(r)
      <3> HIDE DEF s
      <3>1. QED
        BY <1>2, <2>1, <2>2 DEF Create, Reading
    <2>4. QED
      BY <2>3 DEF Kind
  <1>3. QED
    BY <1>1, <1>2

(* So is the first step of an update. *)
LEMMA UpdateKind ==
  ASSUME NEW r \in Requests, NEW id, NEW body, NEW updated,
         Update(r, id, body, updated)
  PROVE  Kind(r)
  <1>1. CASE ~Visible(id) \/ ~Valid(body)
    BY <1>1 DEF Update, Kind, Refusal, StatusOf
  <1>2. CASE Visible(id) /\ Valid(body)
    <2> DEFINE s == [found |-> rows[id], aggregate |-> updated,
                     event |-> Event(r, "Updated", id, body)]
    <2>1. s.event.by = r /\ s.event.type \in Types
      BY EventOf DEF Types
    <2>2. session' = [session EXCEPT ![r] = s]
      BY <1>2 DEF Update
    <2>3. Reading(r)
      <3> HIDE DEF s
      <3>1. QED
        BY <1>2, <2>1, <2>2 DEF Update, Reading
    <2>4. QED
      BY <2>3 DEF Kind
  <1>3. QED
    BY <1>1, <1>2

(* So is the first step of a deletion. *)
LEMMA DeleteKind ==
  ASSUME NEW r \in Requests, NEW id, Delete(r, id)
  PROVE  Kind(r)
  <1>1. CASE ~Visible(id)
    BY <1>1 DEF Delete, Kind, Refusal, SuccessOf
  <1>2. CASE Visible(id)
    <2> DEFINE s == [found |-> rows[id], aggregate |-> Deleted(rows[id]),
                     event |-> Event(r, "Deleted", id, <<>>)]
    <2>1. s.event.by = r /\ s.event.type \in Types
      BY EventOf DEF Types
    <2>2. session' = [session EXCEPT ![r] = s]
      BY <1>2 DEF Delete
    <2>3. Reading(r)
      <3> HIDE DEF s
      <3>1. QED
        BY <1>2, <2>1, <2>2 DEF Delete, Reading
    <2>4. QED
      BY <2>3 DEF Kind
  <1>3. QED
    BY <1>1, <1>2

(* A commit is refused or succeeds. *)
LEMMA CommitKind ==
  ASSUME NEW r \in Requests, Commit(r) \/ CommitUnanswered(r)
  PROVE  Kind(r)
  BY DEF Commit, CommitUnanswered, Record, Kind, Success, Refusal, StatusOf

(* Every step of the write requests is of one of the four kinds. *)
LEMMA WriteKind ==
  ASSUME Write
  PROVE  \E r \in Requests : Kind(r)
  <1>1. PICK r \in Requests :
          \/ PostCategory(r) \/ PutCategory(r) \/ DeleteCategory(r)
          \/ PostItem(r) \/ PutItem(r) \/ DeleteItem(r)
          \/ Save(r) \/ Commit(r) \/ CommitUnanswered(r) \/ Abort(r)
    BY DEF Write
  <1>2. CASE PostCategory(r) \/ PostItem(r)
    BY <1>2, CreateKind DEF PostCategory, PostItem
  <1>3. CASE PutCategory(r) \/ PutItem(r)
    BY <1>3, UpdateKind DEF PutCategory, PutItem
  <1>4. CASE DeleteCategory(r) \/ DeleteItem(r)
    BY <1>4, DeleteKind DEF DeleteCategory, DeleteItem
  <1>5. CASE Save(r)
    BY <1>5 DEF Save, Kind, Saving
  <1>6. CASE Commit(r) \/ CommitUnanswered(r)
    BY <1>6, CommitKind
  <1>7. CASE Abort(r)
    BY <1>7 DEF Abort, Kind, Refusal, StatusOf
  <1>8. QED
    BY <1>1, <1>2, <1>3, <1>4, <1>5, <1>6, <1>7
-----------------------------------------------------------------------------

(* What a request that is not r has committed stays what it was.           *)
LEMMA ByUnchanged ==
  ASSUME UNCHANGED outbox, NEW r
  PROVE  By(r)' = By(r)
  BY DEF By

(* A commit adds one place, and that to the request that commits alone.    *)
LEMMA ByAppended ==
  ASSUME ShapeInv, NEW e, outbox' = Append(outbox, e)
  PROVE  /\ \E S : outbox' \in Seq(S)
         /\ \A r : r # e.by => By(r)' = By(r)
         /\ \A r : \A k \in By(r) : outbox'[k] = outbox[k]
         /\ outbox'[Len(outbox) + 1] = e
         /\ By(e.by)' = By(e.by) \cup {Len(outbox) + 1}
  <1>1. PICK S : outbox \in Seq(S)
    BY DEF ShapeInv
  <1>2. outbox \in Seq(S \cup {e}) /\ e \in S \cup {e}
    BY <1>1
  <1>3. /\ outbox' \in Seq(S \cup {e})
        /\ Len(outbox') = Len(outbox) + 1
        /\ \A k \in 1..Len(outbox) : outbox'[k] = outbox[k]
        /\ outbox'[Len(outbox) + 1] = e
    <2>1. outbox' = Append(outbox, e)
      OBVIOUS
    <2>2. QED
      BY <1>2, <2>1, AppendProperties
  <1>4. /\ Len(outbox) \in Nat
        /\ DOMAIN outbox = 1..Len(outbox) /\ DOMAIN outbox' = 1..Len(outbox')
    BY <1>2, <1>3, LenProperties
  <1>5. DOMAIN outbox' = DOMAIN outbox \cup {Len(outbox) + 1}
        /\ Len(outbox) + 1 \notin DOMAIN outbox
    BY <1>3, <1>4
  <1>6. QED
    BY <1>3, <1>4, <1>5 DEF By

(* Steps that commit nothing. *)
LEMMA QuietStep ==
  ASSUME Inv, NEW r \in Requests, Refusal(r) \/ Reading(r) \/ Saving(r)
  PROVE  Inv'
  <1>1. UNCHANGED outbox /\ (\A q \in Requests : By(q)' = By(q))
    BY ByUnchanged DEF Refusal, Refuse, Reading, Saving
  <1>2. ShapeInv'
    BY <1>1 DEF Inv, ShapeInv, Refusal, Refuse, Answer, End, Reading, Saving
  <1>3. CarriedInv'
    <2>1. CASE Refusal(r)
      BY <2>1 DEF Inv, ShapeInv, CarriedInv, Refusal, Refuse, Answer, End
    <2>2. CASE Reading(r)
      BY <2>2 DEF Inv, ShapeInv, CarriedInv, Reading
    <2>3. CASE Saving(r)
      BY <2>3 DEF Inv, ShapeInv, CarriedInv, Saving
    <2>4. QED
      BY <2>1, <2>2, <2>3
  <1>4. PendingInv'
    BY <1>1 DEF Inv, ShapeInv, PendingInv, Refusal, Refuse, Answer, End, Reading, Saving
  <1>5. ASSUME NEW q \in Requests PROVE Honest(q)'
    <2>1. CASE Refusal(r) /\ q = r
      <3>1. By(r) = {} /\ status'[r] \in {204, 404, 422, 500} /\ phase'[r] = "answered"
        BY <2>1 DEF Inv, ShapeInv, PendingInv, Refusal, Refuse, Answer, End
      <3>2. QED
        BY <1>1, <2>1, <3>1 DEF Honest
    <2>2. CASE ~(Refusal(r) /\ q = r)
      <3>1. status'[q] = status[q] /\ (phase'[q] = "lost" <=> phase[q] = "lost")
        BY <2>2 DEF Inv, ShapeInv, Refusal, Refuse, Answer, End, Reading, Saving
      <3>2. Honest(q)
        BY DEF Inv, AnswersInv
      <3>3. QED
        BY <1>1, <3>1, <3>2 DEF Honest
    <2>3. QED
      BY <2>1, <2>2
  <1>6. AnswersInv'
    BY <1>5 DEF AnswersInv
  <1>7. QED
    BY <1>2, <1>3, <1>4, <1>6 DEF Inv

(* The commit of a request: its place is the only one it has, and holds    *)
(* the event its answer stands for.                                        *)
LEMMA SuccessStep ==
  ASSUME Inv, NEW r \in Requests, Success(r)
  PROVE  Inv'
  <1> DEFINE e == session[r].event
             n == Len(outbox) + 1
  <1>1. e.by = r /\ e.type \in Types /\ By(r) = {}
    BY DEF Inv, CarriedInv, PendingInv, Success
  <1>2. outbox' = Append(outbox, e)
    BY DEF Success
  <1>3. SuccessOf[e.type] \in {200, 201, 204}
        /\ (SuccessOf[e.type] = 204 => e.type = "Deleted")
    BY <1>1 DEF SuccessOf, Types
  <1> HIDE DEF e
  <1>4. /\ \E S : outbox' \in Seq(S)
        /\ \A q : q # r => By(q)' = By(q)
        /\ \A q : \A k \in By(q) : outbox'[k] = outbox[k]
        /\ outbox'[n] = e /\ By(r)' = {n}
    BY <1>1, <1>2, ByAppended DEF Inv
  <1> HIDE DEF n
  <1>5. PICK how \in {"answered", "lost"}, code \in {200, 201, 204, 500} :
          /\ phase' = [phase EXCEPT ![r] = how]
          /\ status' = [status EXCEPT ![r] = code]
          /\ session' = [session EXCEPT ![r] = <<>>]
          /\ \/ how = "answered" /\ code = SuccessOf[e.type]
             \/ how = "lost" /\ code = 500
    BY <1>3 DEF Success, Answer, End, e
  <1>6. ShapeInv'
    BY <1>4, <1>5 DEF Inv, ShapeInv
  <1>7. CarriedInv'
    BY <1>5 DEF Inv, ShapeInv, CarriedInv
  <1>8. PendingInv'
    BY <1>4, <1>5 DEF Inv, ShapeInv, PendingInv
  <1>9. ASSUME NEW q \in Requests PROVE Honest(q)'
    <2>1. CASE q = r
      <3>1. status'[r] = code /\ phase'[r] = how
        BY <1>5 DEF Inv, ShapeInv
      <3>2. outbox'[n] = e /\ By(q)' = {n}
        BY <1>4, <2>1
      <3>3. CASE how = "lost"
        BY <1>5, <2>1, <3>1, <3>2, <3>3 DEF Honest
      <3>4. CASE how = "answered" /\ code \in {200, 201}
        BY <1>5, <2>1, <3>1, <3>2, <3>4 DEF Honest
      <3>5. CASE how = "answered" /\ code = 204
        BY <1>3, <1>5, <2>1, <3>1, <3>2, <3>5 DEF Honest
      <3>6. QED
        BY <1>3, <1>5, <3>3, <3>4, <3>5
    <2>2. CASE q # r
      <3>1. status'[q] = status[q] /\ phase'[q] = phase[q] /\ Honest(q)
        BY <1>5, <2>2 DEF Inv, ShapeInv, AnswersInv
      <3>2. QED
        BY <1>4, <2>2, <3>1 DEF Honest
    <2>3. QED
      BY <2>1, <2>2
  <1>10. AnswersInv'
    BY <1>9 DEF AnswersInv
  <1>11. QED
    BY <1>6, <1>7, <1>8, <1>10 DEF Inv

(* Every step keeps the invariant of the answers. *)
LEMMA NextInv == Inv /\ [Write]_vars => Inv'
  <1> SUFFICES ASSUME Inv, [Write]_vars PROVE Inv'
    OBVIOUS
  <1>1. CASE Write
    BY <1>1, WriteKind, QuietStep, SuccessStep DEF Kind
  <1>2. CASE UNCHANGED vars
    BY <1>2 DEF vars, Inv, ShapeInv, CarriedInv, PendingInv, By, AnswersInv, Honest
  <1>3. QED
    BY <1>1, <1>2

-----------------------------------------------------------------------------
(* 4. ROWS, THE EVENTS THAT TELL THEM, AND THE REQUESTS BETWEEN            *)

(* What the columns of a row may hold, whoever has written them. *)
Fits(id, columns) ==
  /\ DOMAIN columns \subseteq Columns(id)
  /\ "name" \in DOMAIN columns => columns.name \in Seq(Chars)
  /\ "slug" \in DOMAIN columns => UrlSafe(columns.slug)
  /\ "price" \in DOMAIN columns => columns.price \in Int
  /\ "deleted" \in DOMAIN columns => columns.deleted \in BOOLEAN

Whole(id, row) == DOMAIN row = Columns(id) /\ Fits(id, row)

(* A row as the table stores it: its price is one the column can hold. *)
InTable(id, row) == Whole(id, row) /\ ("price" \in DOMAIN row => Rounded(row.price) = row.price)

(* What the price column has rounded, it rounds no further. *)
LEMMA RoundedTwice ==
  ASSUME NEW price \in Int
  PROVE  Rounded(price) \in Int /\ Rounded(Rounded(price)) = Rounded(price)
  <1> DEFINE k == (2 * price + Scale) \div (2 * Scale)
  <1>1. Scale \in Nat \ {0}
    BY PricesAssumption
  <1>2. k \in Int /\ Rounded(price) = Scale * k
    BY <1>1 DEF Rounded
  <1> HIDE DEF k
  <1>3. (2 * (Scale * k) + Scale) \div (2 * Scale) = k
    BY <1>1, <1>2
  <1>4. Rounded(Scale * k) = Scale * k
    BY <1>3 DEF Rounded
  <1>5. QED
    BY <1>1, <1>2, <1>4

(* Storing a row changes its price alone. *)
LEMMA StoredColumns ==
  ASSUME NEW row
  PROVE  /\ DOMAIN Stored(row) = DOMAIN row
         /\ \A c \in DOMAIN row : Stored(row)[c] = IF c = "price" THEN Rounded(row[c]) ELSE row[c]
  <1>1. CASE "price" \in DOMAIN row
    <2>1. Stored(row) = [row EXCEPT !.price = Rounded(@)]
      BY <1>1 DEF Stored
    <2>2. QED
      BY <2>1
  <1>2. CASE "price" \notin DOMAIN row
    BY <1>2 DEF Stored
  <1>3. QED
    BY <1>1, <1>2

(* A whole row, once stored, is one of the table. *)
LEMMA StoredInTable ==
  ASSUME NEW id, NEW row, Whole(id, row)
  PROVE  InTable(id, Stored(row))
  <1>1. /\ DOMAIN Stored(row) = DOMAIN row
        /\ \A c \in DOMAIN row : Stored(row)[c] = IF c = "price" THEN Rounded(row[c]) ELSE row[c]
    BY StoredColumns
  <1>2. Fits(id, Stored(row))
    BY <1>1, RoundedTwice DEF Whole, Fits
  <1>3. "price" \in DOMAIN row => Rounded(Stored(row).price) = Stored(row).price
    BY <1>1, RoundedTwice DEF Whole, Fits
  <1>4. QED
    BY <1>1, <1>2, <1>3 DEF Whole, InTable

(* A row of the table is stored as it is. *)
LEMMA StoredAgain ==
  ASSUME NEW id, NEW row, InTable(id, row), NEW c \in Columns(id)
  PROVE  Stored(row)[c] = row[c]
  BY StoredColumns DEF InTable, Whole

(* The columns of the two tables, and what is not one of them. *)
LEMMA ColumnsAre ==
  /\ \A id \in CategoryIds : id \notin ItemIds /\ Columns(id) = {"name", "slug", "deleted"}
  /\ \A id \in ItemIds : id \notin CategoryIds /\ Columns(id) = {"name", "price", "category", "deleted"}
  BY CatalogAssumption DEF Columns

(* Columns that fit, written over a whole row, leave a whole row. *)
LEMMA WrittenWhole ==
  ASSUME NEW id, NEW columns, NEW row, Fits(id, columns), Whole(id, row)
  PROVE  Whole(id, Written(columns, row))
  <1>1. /\ DOMAIN Written(columns, row) = Columns(id)
        /\ \A c \in Columns(id) : Written(columns, row)[c] =
             IF c \in DOMAIN columns THEN columns[c] ELSE row[c]
    <2>1. DOMAIN columns \cup DOMAIN row = Columns(id)
      BY DEF Fits, Whole
    <2>2. QED
      BY <2>1 DEF Written
  <1> DEFINE w == Written(columns, row)
  <1> HIDE DEF w
  <1>2. Fits(id, w)
    BY <1>1 DEF w, Fits, Whole
  <1>3. QED
    BY <1>1, <1>2 DEF w, Whole

(* What a flush writes of an aggregate fits, and over the row it was       *)
(* compared with it is the aggregate again.                                *)
LEMMA DifferingFits ==
  ASSUME NEW id, NEW aggregate, NEW base, Whole(id, aggregate), DOMAIN base = Columns(id)
  PROVE  /\ Fits(id, Differing(aggregate, base))
         /\ \A c \in Columns(id) : Written(Differing(aggregate, base), base)[c] = aggregate[c]
  <1> DEFINE d == Differing(aggregate, base)
             D == {c \in DOMAIN aggregate : aggregate[c] # base[c]}
  <1>1. D \cap DOMAIN aggregate = D
    OBVIOUS
  <1>2. d = [c \in D |-> aggregate[c]]
    BY <1>1 DEF Differing, Only
  <1>3. DOMAIN d = D /\ D \subseteq Columns(id) /\ \A c \in D : d[c] = aggregate[c]
    BY <1>2 DEF Whole
  <1>4. \A c \in Columns(id) : c \in D <=> aggregate[c] # base[c]
    BY DEF Whole
  <1> HIDE DEF d, D
  <1>5. Fits(id, d)
    BY <1>3 DEF Fits, Whole
  <1>6. \A c \in Columns(id) : Written(d, base)[c] = aggregate[c]
    BY <1>3, <1>4 DEF Written
  <1>7. QED
    BY <1>5, <1>6 DEF d

(* The fields of the events and the types their hints name. *)
LEMMA HintsAre ==
  /\ \A id \in ItemIds, type \in {"Created", "Updated"} :
       /\ DOMAIN Hints(id)[type] = {"name", "price"}
       /\ Hints(id)[type]["name"].inner = "str" /\ Hints(id)[type]["price"].inner = "Decimal"
  /\ \A id \in CategoryIds, type \in {"Created", "Updated"} :
       /\ DOMAIN Hints(id)[type] = {"name", "slug"}
       /\ Hints(id)[type]["name"].inner = "str" /\ Hints(id)[type]["slug"].inner = "str"
  /\ \A id : DOMAIN Hints(id)["Deleted"] = {}
  <1>1. /\ \A type \in {"Created", "Updated"} :
             /\ DOMAIN ItemHints[type] = {"name", "price"}
             /\ ItemHints[type]["name"].inner = "str" /\ ItemHints[type]["price"].inner = "Decimal"
        /\ \A type \in {"Created", "Updated"} :
             /\ DOMAIN CategoryHints[type] = {"name", "slug"}
             /\ CategoryHints[type]["name"].inner = "str" /\ CategoryHints[type]["slug"].inner = "str"
    BY DEF ItemHints, CategoryHints, Required, Optional
  <1>2. DOMAIN ItemHints["Deleted"] = {} /\ DOMAIN CategoryHints["Deleted"] = {}
    BY DEF ItemHints, CategoryHints
  <1>3. QED
    BY <1>1, <1>2, ColumnsAre DEF Hints

(* None is told from every string and every number. *)
LEMMA Values ==
  ASSUME NEW v
  PROVE  /\ Str(v) # None /\ Str(v).is = v
         /\ Decimal(v) # None /\ Decimal(v).is = v
         /\ String(v) # Null /\ String(v).is = v
  <1>1. DOMAIN None = {"type"} /\ DOMAIN Null = {"json"}
    BY DEF None, Null
  <1>2. /\ DOMAIN Str(v) = {"type", "is"} /\ DOMAIN Decimal(v) = {"type", "is"}
        /\ DOMAIN String(v) = {"json", "is"}
    BY DEF Str, Decimal, String
  <1>3. Str(v).is = v /\ Decimal(v).is = v /\ String(v).is = v
    BY DEF Str, Decimal, String
  <1>4. QED
    BY <1>1, <1>2, <1>3

(* What deserialize or a JSON reader makes of a field is what the          *)
(* aggregate told of it.                                                   *)
LEMMA ToldBack ==
  ASSUME NEW r, NEW type, NEW id, NEW told,
         \A f \in DOMAIN Hints(id)[type] :
           Hints(id)[type][f].inner = IF f = "price" THEN "Decimal" ELSE "str"
  PROVE  LET H == Hints(id)[type]
             payload == Event(r, type, id, told).payload
         IN  /\ DOMAIN payload = DOMAIN H
             /\ \A f \in DOMAIN H :
                  LET value == IF f \in DOMAIN told THEN Typed(f, told[f]) ELSE None
                  IN  /\ Coerce(payload[f], H[f]) = value
                      /\ f # "price" => Loaded(payload[f]) = value
  <1> DEFINE H == Hints(id)[type]
             sent == [f \in DOMAIN H |-> IF f \in DOMAIN told THEN Typed(f, told[f]) ELSE None]
             p == Serialize(sent)
  <1>1. Event(r, type, id, told).payload = p
    BY DEF Event
  <1>2. DOMAIN sent = DOMAIN H
        /\ \A f \in DOMAIN H : sent[f] = IF f \in DOMAIN told THEN Typed(f, told[f]) ELSE None
    OBVIOUS
  <1> HIDE DEF sent
  <1>3. DOMAIN p = DOMAIN H /\ \A f \in DOMAIN H : p[f] = Dumped(sent[f])
    BY <1>2 DEF Serialize
  <1> HIDE DEF p
  <1>5. \A f \in DOMAIN H : H[f].inner = IF f = "price" THEN "Decimal" ELSE "str"
    OBVIOUS
  <1> HIDE DEF H
  <1> DEFINE value(f) == IF f \in DOMAIN told THEN Typed(f, told[f]) ELSE None
  <1>6. ASSUME NEW f \in DOMAIN H
        PROVE  Coerce(p[f], H[f]) = value(f) /\ (f # "price" => Loaded(p[f]) = value(f))
    <2>1. p[f] = Dumped(sent[f])
      BY <1>3, <1>6
    <2>2. CASE f \notin DOMAIN told
      <3>1. Dumped(sent[f]) = Null
        BY <1>2, <1>6, <2>2 DEF Dumped
      <3>2. QED
        BY <2>1, <2>2, <3>1 DEF Coerce, Loaded
    <2>3. CASE f \in DOMAIN told /\ f = "price"
      <3>1. Dumped(sent[f]) = String(told[f])
        BY <1>2, <1>6, <2>3, Values DEF Dumped, Typed
      <3>2. Coerce(String(told[f]), H[f]) = Decimal(told[f])
        BY <1>5, <1>6, <2>3, Values DEF Coerce
      <3>3. QED
        BY <2>1, <2>3, <3>1, <3>2 DEF Typed
    <2>4. CASE f \in DOMAIN told /\ f # "price"
      <3>1. Dumped(sent[f]) = String(told[f])
        BY <1>2, <1>6, <2>4, Values DEF Dumped, Typed
      <3>2. Coerce(String(told[f]), H[f]) = Str(told[f]) /\ Loaded(String(told[f])) = Str(told[f])
        BY <1>5, <1>6, <2>4, Values DEF Coerce, Loaded
      <3>3. QED
        BY <2>1, <2>4, <3>1, <3>2 DEF Typed
    <2>5. QED
      BY <2>2, <2>3, <2>4
  <1>7. QED
    BY <1>1, <1>3, <1>6 DEF H

(* What an item event makes of an item that its subscriber has. *)
LEMMA AppliedItem ==
  ASSUME NEW r, NEW type \in Types, NEW id \in ItemIds, NEW told, NEW row,
         type = "Deleted" => told = <<>>
  PROVE  LET new == Applied(row, Event(r, type, id, told))
         IN  /\ new["deleted"] = (type = "Deleted")
             /\ new["name"] = IF "name" \in DOMAIN told THEN StoredName(told["name"]) ELSE row.name
             /\ new["price"] = IF "price" \in DOMAIN told THEN Rounded(told["price"]) ELSE row.price
  <1> DEFINE e == Event(r, type, id, told)
             event == Deserialize("Item", type, e.payload)
             ToldOf(f) == f \in DOMAIN event /\ event[f] # None
  <1>1. e.id = id /\ e.type = type
    BY DEF Event
  <1>2. /\ DOMAIN event = IF type = "Deleted" THEN {} ELSE {"name", "price"}
        /\ \A f \in DOMAIN event : event[f] = IF f \in DOMAIN told THEN Typed(f, told[f]) ELSE None
    <2>1. \A f \in DOMAIN Hints(id)[type] :
            Hints(id)[type][f].inner = IF f = "price" THEN "Decimal" ELSE "str"
      BY HintsAre DEF Types
    <2>2. DOMAIN Hints(id)[type] = IF type = "Deleted" THEN {} ELSE {"name", "price"}
      BY HintsAre DEF Types
    <2>3. /\ DOMAIN e.payload = DOMAIN Hints(id)[type]
          /\ \A f \in DOMAIN Hints(id)[type] : Coerce(e.payload[f], Hints(id)[type][f]) =
               IF f \in DOMAIN told THEN Typed(f, told[f]) ELSE None
      BY <2>1, ToldBack
    <2>4. event = [f \in DOMAIN e.payload \cap DOMAIN Hints(id)[type] |->
                     Coerce(e.payload[f], Hints(id)[type][f])]
      BY DEF Deserialize, EVENT_REGISTRY, Hints
    <2> HIDE DEF e, event
    <2>5. QED
      BY <2>2, <2>3, <2>4
  <1>3. Applied(row, e) =
          [deleted |-> type = "Deleted",
           name |-> IF ToldOf("name") THEN StoredName(event.name.is) ELSE row.name,
           price |-> IF ~ToldOf("price") THEN row.price
                     ELSE IF event.price = Decimal(event.price.is)
                     THEN Rounded(event.price.is) ELSE -1]
    BY <1>1 DEF Applied
  <1>4. DOMAIN told = {} \/ type # "Deleted"
    OBVIOUS
  <1> HIDE DEF e, event
  <1>5. /\ ToldOf("name") <=> "name" \in DOMAIN told
        /\ ToldOf("name") => event.name.is = told["name"]
    BY <1>2, <1>4, Values DEF Typed
  <1>6. /\ ToldOf("price") <=> "price" \in DOMAIN told
        /\ ToldOf("price") => event.price = Decimal(told["price"]) /\ event.price.is = told["price"]
    BY <1>2, <1>4, Values DEF Typed
  <1> HIDE DEF ToldOf
  <1>7. /\ Applied(row, e)["deleted"] = (type = "Deleted")
        /\ Applied(row, e)["name"] = IF ToldOf("name") THEN StoredName(event.name.is) ELSE row.name
        /\ Applied(row, e)["price"] = IF ~ToldOf("price") THEN row.price
                     ELSE IF event.price = Decimal(event.price.is)
                     THEN Rounded(event.price.is) ELSE -1
    BY <1>3
  <1>8. QED
    BY <1>5, <1>6, <1>7 DEF e

(* What a category event in the outbox makes of a category. *)
LEMMA AppliedCategory ==
  ASSUME NEW r, NEW type \in Types, NEW id \in CategoryIds, NEW told, NEW row,
         type = "Deleted" => told = <<>>
  PROVE  LET new == Applied(row, Event(r, type, id, told))
             name == IF "name" \in DOMAIN told THEN StoredName(told["name"]) ELSE row.name
         IN  /\ new["deleted"] = (type = "Deleted")
             /\ new["name"] = name
             /\ new["slug"] = IF "slug" \in DOMAIN told THEN told["slug"]
                              ELSE IF "name" \in DOMAIN told THEN ToSlug(name) ELSE row.slug
  <1> DEFINE e == Event(r, type, id, told)
             event == [f \in DOMAIN e.payload |-> Loaded(e.payload[f])]
             ToldOf(f) == f \in DOMAIN event /\ event[f] # None
             nameOf == IF ToldOf("name") THEN StoredName(event.name.is) ELSE row.name
  <1>1. e.id = id /\ e.type = type /\ id \notin ItemIds
    BY ColumnsAre DEF Event
  <1>2. /\ DOMAIN event = IF type = "Deleted" THEN {} ELSE {"name", "slug"}
        /\ \A f \in DOMAIN event : event[f] = IF f \in DOMAIN told THEN Typed(f, told[f]) ELSE None
    <2>1. \A f \in DOMAIN Hints(id)[type] :
            Hints(id)[type][f].inner = IF f = "price" THEN "Decimal" ELSE "str"
      BY HintsAre DEF Types
    <2>2. DOMAIN Hints(id)[type] = IF type = "Deleted" THEN {} ELSE {"name", "slug"}
      BY HintsAre DEF Types
    <2>3. /\ DOMAIN e.payload = DOMAIN Hints(id)[type]
          /\ \A f \in DOMAIN Hints(id)[type] : f # "price" => Loaded(e.payload[f]) =
               IF f \in DOMAIN told THEN Typed(f, told[f]) ELSE None
      BY <2>1, ToldBack
    <2> HIDE DEF e
    <2>4. QED
      BY <2>2, <2>3
  <1>3. Applied(row, e) =
          [deleted |-> type = "Deleted", name |-> nameOf,
           slug |-> IF ToldOf("slug") THEN event.slug.is
                    ELSE IF ToldOf("name") THEN ToSlug(nameOf) ELSE row.slug]
    BY <1>1 DEF Applied
  <1>4. DOMAIN told = {} \/ type # "Deleted"
    OBVIOUS
  <1> HIDE DEF e, event
  <1>5. /\ ToldOf("name") <=> "name" \in DOMAIN told
        /\ ToldOf("name") => event.name.is = told["name"]
    BY <1>2, <1>4, Values DEF Typed
  <1>6. /\ ToldOf("slug") <=> "slug" \in DOMAIN told
        /\ ToldOf("slug") => event.slug.is = told["slug"]
    BY <1>2, <1>4, Values DEF Typed
  <1>7. nameOf = IF "name" \in DOMAIN told THEN StoredName(told["name"]) ELSE row.name
    BY <1>5
  <1> HIDE DEF ToldOf, nameOf
  <1>8. /\ Applied(row, e)["deleted"] = (type = "Deleted")
        /\ Applied(row, e)["name"] = nameOf
        /\ Applied(row, e)["slug"] = IF ToldOf("slug") THEN event.slug.is
                    ELSE IF ToldOf("name") THEN ToSlug(nameOf) ELSE row.slug
    BY <1>3
  <1>9. QED
    BY <1>5, <1>6, <1>7, <1>8 DEF e

(* An event that was applied once changes nothing when it is applied again. *)
Again(id, e) ==
  \A base, row :
    (\A c \in Columns(id) \ {"category"} : row[c] = Applied(base, e)[c]) =>
      \A c \in Columns(id) \ {"category"} : Applied(row, e)[c] = row[c]

(* So it is with the event of every request. *)
LEMMA AppliedAgain ==
  ASSUME NEW r, NEW type \in Types, NEW id \in Ids, NEW told, type = "Deleted" => told = <<>>
  PROVE  Again(id, Event(r, type, id, told))
  <1> DEFINE e == Event(r, type, id, told)
  <1> SUFFICES ASSUME NEW base, NEW row,
                      \A c \in Columns(id) \ {"category"} : row[c] = Applied(base, e)[c],
                      NEW c \in Columns(id) \ {"category"}
               PROVE  Applied(row, e)[c] = row[c]
    BY DEF Again
  <1> HIDE DEF e
  <1>1. CASE id \in ItemIds
    <2>1. \A known : /\ Applied(known, e)["deleted"] = (type = "Deleted")
                     /\ Applied(known, e)["name"] =
                          IF "name" \in DOMAIN told THEN StoredName(told["name"]) ELSE known.name
                     /\ Applied(known, e)["price"] =
                          IF "price" \in DOMAIN told THEN Rounded(told["price"]) ELSE known.price
      BY <1>1, AppliedItem DEF e
    <2>2. Columns(id) \ {"category"} = {"name", "price", "deleted"}
      BY <1>1, ColumnsAre
    <2>3. QED
      BY <2>1, <2>2
  <1>2. CASE id \in CategoryIds
    <2> DEFINE named(known) ==
          IF "name" \in DOMAIN told THEN StoredName(told["name"]) ELSE known.name
    <2>1. \A known : /\ Applied(known, e)["deleted"] = (type = "Deleted")
                     /\ Applied(known, e)["name"] = named(known)
                     /\ Applied(known, e)["slug"] =
                          IF "slug" \in DOMAIN told THEN told["slug"]
                          ELSE IF "name" \in DOMAIN told THEN ToSlug(named(known)) ELSE known.slug
      BY <1>2, AppliedCategory DEF e
    <2>2. Columns(id) \ {"category"} = {"name", "slug", "deleted"}
      BY <1>2, ColumnsAre
    <2>3. QED
      BY <2>1, <2>2
  <1>3. QED
    BY <1>1, <1>2 DEF Ids

(* The aggregate of a request fits its table, and its event makes the same *)
(* of the row that was found.                                              *)
Right(r, type, id, told, found, aggregate) ==
  /\ Whole(id, aggregate)
  /\ \A row : type = "Created" \/ row = found =>
       \A c \in Columns(id) \ {"category"} :
         Applied(row, Event(r, type, id, told))[c] = Stored(aggregate)[c]

(* A stored name is a text, stripped, with a slug that is safe in a URL. *)
LEMMA NameStored ==
  ASSUME NEW name \in Seq(Chars)
  PROVE  /\ StoredName(name) \in Seq(Chars) /\ StoredName(StoredName(name)) = StoredName(name)
         /\ UrlSafe(ToSlug(StoredName(name)))
  <1>1. StoredName(name) \in Seq(Chars)
    BY StripType DEF StoredName
  <1>2. StoredName(StoredName(name)) = StoredName(name)
    BY StripTwice DEF StoredName
  <1>3. QED
    BY <1>1, <1>2, SlugOfAnyName

(* Category.create and its event (category.py:53-93). *)
LEMMA NewCategoryRight ==
  ASSUME NEW r, NEW id \in CategoryIds, NEW body \in CategoryBodies, CreateCategoryRequest(body)
  PROVE  Right(r, "Created", id, NewCategory(body), NewCategory(body), NewCategory(body))
  <1> DEFINE new == NewCategory(body)
             name == StoredName(body.name)
             slug == Field(body, "slug", ToSlug(name))
  <1>1. body.name \in Seq(Chars) /\ ("slug" \in DOMAIN body => UrlSafe(body["slug"]))
    BY CatalogAssumption DEF CreateCategoryRequest, NameAndSlug
  <1>2. name \in Seq(Chars) /\ StoredName(name) = name /\ UrlSafe(ToSlug(name))
    BY <1>1, NameStored
  <1>3. UrlSafe(slug)
    BY <1>1, <1>2 DEF Field
  <1>4. new = [name |-> name, slug |-> slug, deleted |-> FALSE]
    BY DEF NewCategory
  <1> HIDE DEF name, slug
  <1>5. /\ DOMAIN new = {"name", "slug", "deleted"}
        /\ new["name"] = name /\ new["slug"] = slug /\ new["deleted"] = FALSE
    BY <1>4
  <1> HIDE DEF new
  <1>6. Whole(id, new)
    BY <1>2, <1>3, <1>5, ColumnsAre DEF Whole, Fits
  <1>7. ASSUME NEW row, NEW c \in Columns(id) \ {"category"}
        PROVE  Applied(row, Event(r, "Created", id, new))[c] = Stored(new)[c]
    <2>1. c \in {"name", "slug", "deleted"} /\ Stored(new)[c] = new[c]
      <3>1. c \in {"name", "slug", "deleted"}
        BY ColumnsAre
      <3>2. QED
        BY <1>5, <3>1, StoredColumns
    <2> DEFINE made == Applied(row, Event(r, "Created", id, new))
    <2>2. /\ made["deleted"] = ("Created" = "Deleted")
          /\ made["name"] = StoredName(new["name"]) /\ made["slug"] = new["slug"]
      BY <1>5, AppliedCategory DEF Types
    <2> HIDE DEF made
    <2>3. made[c] = new[c]
      BY <1>2, <1>5, <2>1, <2>2
    <2>4. QED
      BY <2>1, <2>3 DEF made
  <1>8. QED
    BY <1>6, <1>7 DEF Right, new

(* Item.create and its event (item.py:53-86). *)
LEMMA NewItemRight ==
  ASSUME NEW r, NEW id \in ItemIds, NEW body \in ItemBodies, CreateItemRequest(body)
  PROVE  Right(r, "Created", id, NewItem(body), NewItem(body), NewItem(body))
  <1> DEFINE new == NewItem(body)
             name == StoredName(body.name)
             category == Field(body, "category", NoCategory)
  <1>1. body.name \in Seq(Chars) /\ body.price \in Int
    BY CatalogAssumption DEF CreateItemRequest
  <1>2. name \in Seq(Chars) /\ StoredName(name) = name
    BY <1>1, NameStored
  <1>3. new = [name |-> name, price |-> body.price, category |-> category, deleted |-> FALSE]
    BY DEF NewItem
  <1> HIDE DEF name, category
  <1>4. /\ DOMAIN new = {"name", "price", "category", "deleted"}
        /\ new["name"] = name /\ new["price"] = body.price /\ new["deleted"] = FALSE
    BY <1>3
  <1> HIDE DEF new
  <1>5. Whole(id, new)
    BY <1>1, <1>2, <1>4, ColumnsAre DEF Whole, Fits
  <1>6. ASSUME NEW row, NEW c \in Columns(id) \ {"category"}
        PROVE  Applied(row, Event(r, "Created", id, new))[c] = Stored(new)[c]
    <2>1. c \in {"name", "price", "deleted"}
      BY ColumnsAre
    <2>2. Stored(new)[c] = IF c = "price" THEN Rounded(new[c]) ELSE new[c]
      BY <1>4, <2>1, StoredColumns
    <2> DEFINE made == Applied(row, Event(r, "Created", id, new))
    <2>3. /\ made["deleted"] = ("Created" = "Deleted")
          /\ made["name"] = StoredName(new["name"]) /\ made["price"] = Rounded(new["price"])
      BY <1>4, AppliedItem DEF Types
    <2> HIDE DEF made
    <2>4. made[c] = IF c = "price" THEN Rounded(new[c]) ELSE new[c]
      BY <1>2, <1>4, <2>1, <2>3
    <2>5. QED
      BY <2>2, <2>4 DEF made
  <1>7. QED
    BY <1>5, <1>6 DEF Right, new

(* Category.update and its event: a name without a slug derives the slug   *)
(* anew, on either side (category.py:95-127).                              *)
LEMMA UpdatedCategoryRight ==
  ASSUME NEW r, NEW id \in CategoryIds, NEW body \in CategoryBodies, UpdateCategoryRequest(body),
         NEW row, InTable(id, row), ~row.deleted
  PROVE  Right(r, "Updated", id, body, row, UpdatedCategory(row, body))
  <1> DEFINE new == UpdatedCategory(row, body)
             name == IF "name" \in DOMAIN body THEN StoredName(body["name"]) ELSE row.name
             slug == IF "slug" \in DOMAIN body THEN body["slug"]
                     ELSE IF "name" \in DOMAIN body THEN ToSlug(name) ELSE row.slug
  <1>1. /\ "name" \in DOMAIN body => body["name"] \in Seq(Chars)
        /\ "slug" \in DOMAIN body => UrlSafe(body["slug"])
    BY CatalogAssumption DEF UpdateCategoryRequest, NameAndSlug
  <1>2. /\ DOMAIN row = {"name", "slug", "deleted"}
        /\ row.name \in Seq(Chars) /\ UrlSafe(row.slug) /\ row.deleted \in BOOLEAN
    BY ColumnsAre DEF InTable, Whole, Fits
  <1>3. "name" \in DOMAIN body =>
          name \in Seq(Chars) /\ UrlSafe(ToSlug(name))
    BY <1>1, NameStored
  <1>4. name \in Seq(Chars) /\ UrlSafe(slug)
    BY <1>1, <1>2, <1>3
  <1>5. /\ DOMAIN new = {"name", "slug", "deleted"}
        /\ new["name"] = name /\ new["slug"] = slug /\ new["deleted"] = row["deleted"]
    <2>1. CASE "name" \notin DOMAIN body
      <3>1. new = [row EXCEPT !.slug = Field(body, "slug", row.slug)]
        BY <2>1 DEF UpdatedCategory
      <3>2. QED
        BY <1>2, <2>1, <3>1 DEF Field
    <2>2. CASE "name" \in DOMAIN body
      <3>1. new = [row EXCEPT !.name = StoredName(body.name),
                              !.slug = Field(body, "slug", ToSlug(StoredName(body.name)))]
        BY <2>2 DEF UpdatedCategory
      <3>2. QED
        BY <1>2, <2>2, <3>1 DEF Field
    <2>3. QED
      BY <2>1, <2>2
  <1> HIDE DEF new, slug
  <1>6. Whole(id, new)
    BY <1>2, <1>4, <1>5, ColumnsAre DEF Whole, Fits
  <1>7. ASSUME NEW c \in Columns(id) \ {"category"}
        PROVE  Applied(row, Event(r, "Updated", id, body))[c] = Stored(new)[c]
    <2>1. c \in {"name", "slug", "deleted"}
      BY ColumnsAre
    <2>2. Stored(new)[c] = new[c]
      BY <1>5, <2>1, StoredColumns
    <2> DEFINE made == Applied(row, Event(r, "Updated", id, body))
    <2>3. /\ made["deleted"] = ("Updated" = "Deleted")
          /\ made["name"] = name /\ made["slug"] = slug
      BY AppliedCategory DEF Types, slug
    <2> HIDE DEF made
    <2>4. row["deleted"] = FALSE
      BY <1>2
    <2>5. made[c] = new[c]
      BY <1>5, <2>1, <2>3, <2>4
    <2>6. QED
      BY <2>2, <2>5 DEF made
  <1>8. QED
    BY <1>6, <1>7 DEF Right, new

(* Item.update and its event (item.py:88-124). *)
LEMMA UpdatedItemRight ==
  ASSUME NEW r, NEW id \in ItemIds, NEW body \in ItemBodies,
         NEW row, InTable(id, row), ~row.deleted
  PROVE  Right(r, "Updated", id, body, row, UpdatedItem(row, body))
  <1> DEFINE new == UpdatedItem(row, body)
             name == IF "name" \in DOMAIN body THEN StoredName(body["name"]) ELSE row.name
             price == IF "price" \in DOMAIN body THEN body["price"] ELSE row.price
  <1>1. /\ "name" \in DOMAIN body => body["name"] \in Seq(Chars)
        /\ "price" \in DOMAIN body => body["price"] \in Int
    BY CatalogAssumption
  <1>2. /\ DOMAIN row = {"name", "price", "category", "deleted"}
        /\ row.name \in Seq(Chars) /\ row.price \in Int /\ Rounded(row.price) = row.price
        /\ row.deleted \in BOOLEAN
    BY ColumnsAre DEF InTable, Whole, Fits
  <1>3. name \in Seq(Chars) /\ price \in Int
    BY <1>1, <1>2, NameStored
  <1>4. /\ DOMAIN new = {"name", "price", "category", "deleted"}
        /\ new["name"] = name /\ new["price"] = price /\ new["deleted"] = row["deleted"]
    BY <1>2 DEF UpdatedItem, Field
  <1> HIDE DEF new
  <1>5. Whole(id, new)
    BY <1>2, <1>3, <1>4, ColumnsAre DEF Whole, Fits
  <1>6. ASSUME NEW c \in Columns(id) \ {"category"}
        PROVE  Applied(row, Event(r, "Updated", id, body))[c] = Stored(new)[c]
    <2>1. c \in {"name", "price", "deleted"}
      BY ColumnsAre
    <2>2. Stored(new)[c] = IF c = "price" THEN Rounded(new[c]) ELSE new[c]
      BY <1>4, <2>1, StoredColumns
    <2> DEFINE made == Applied(row, Event(r, "Updated", id, body))
    <2>3. /\ made["deleted"] = ("Updated" = "Deleted")
          /\ made["name"] = name
          /\ made["price"] = IF "price" \in DOMAIN body THEN Rounded(body["price"]) ELSE row.price
      BY AppliedItem DEF Types
    <2> HIDE DEF made
    <2>4. row["deleted"] = FALSE
      BY <1>2
    <2>5. made["price"] = Rounded(price)
      BY <1>2, <2>3
    <2>6. made[c] = IF c = "price" THEN Rounded(new[c]) ELSE new[c]
      BY <1>4, <2>1, <2>3, <2>4, <2>5
    <2>7. QED
      BY <2>2, <2>6 DEF made
  <1>7. QED
    BY <1>5, <1>6 DEF Right, new

(* mark_deleted and its event. *)
LEMMA DeletedRight ==
  ASSUME NEW r, NEW id \in Ids, NEW row, InTable(id, row)
  PROVE  Right(r, "Deleted", id, <<>>, row, Deleted(row))
  <1> DEFINE new == Deleted(row)
             made == Applied(row, Event(r, "Deleted", id, <<>>))
  <1>1. DOMAIN row = Columns(id) /\ Fits(id, row)
    BY DEF InTable, Whole
  <1>2. "deleted" \in Columns(id)
    BY DEF Columns
  <1>3. /\ DOMAIN new = Columns(id) /\ new["deleted"] = TRUE
        /\ \A c \in Columns(id) \ {"deleted"} : new[c] = row[c]
    BY <1>1, <1>2 DEF Deleted
  <1> HIDE DEF new
  <1>4. Whole(id, new)
    BY <1>1, <1>3 DEF Whole, Fits
  <1>5. ASSUME NEW c \in Columns(id) \ {"category"} PROVE made[c] = Stored(new)[c]
    <2>1. DOMAIN <<>> = {}
      OBVIOUS
    <2>2. Stored(new)[c] = IF c = "deleted" THEN TRUE ELSE row[c]
      <3>1. Stored(new)[c] = IF c = "price" THEN Rounded(new[c]) ELSE new[c]
        BY <1>3, StoredColumns
      <3>2. "price" \in DOMAIN row => Rounded(row["price"]) = row["price"]
        BY DEF InTable
      <3>3. QED
        BY <1>1, <1>3, <3>1, <3>2
    <2>3. CASE id \in ItemIds
      <3>1. /\ made["deleted"] = ("Deleted" = "Deleted") /\ made["name"] = row["name"]
            /\ made["price"] = row["price"]
        BY <2>1, <2>3, AppliedItem DEF Types
      <3> HIDE DEF made
      <3>2. QED
        BY <2>2, <2>3, <3>1, ColumnsAre
    <2>4. CASE id \in CategoryIds
      <3>1. /\ made["deleted"] = ("Deleted" = "Deleted") /\ made["name"] = row["name"]
            /\ made["slug"] = row["slug"]
        BY <2>1, <2>4, AppliedCategory DEF Types
      <3> HIDE DEF made
      <3>2. QED
        BY <2>2, <2>4, <3>1, ColumnsAre
    <2>5. QED
      BY <2>3, <2>4 DEF Ids
  <1> HIDE DEF made
  <1>6. QED
    BY <1>4, <1>5 DEF Right, new, made

(* The events on an aggregate, as many as are committed. *)
Seen(id) == Cardinality(EventsOn(id))

(* The rows are those of the tables, each as its table stores it. *)
RowsInv ==
  /\ DOMAIN rows \subseteq Ids /\ IsFiniteSet(DOMAIN rows)
  /\ \A id \in DOMAIN rows : InTable(id, rows[id])

(* What a request has read and made of it.  The event makes the aggregate  *)
(* of the row that was found, and that row is still the one in the table   *)
(* as long as no other event on it was committed.                          *)
Makes(s) ==
  /\ \A row : s.event.type = "Created" \/ row = s.found =>
       \A c \in Columns(s.event.id) \ {"category"} :
         Applied(row, s.event)[c] = Stored(s.aggregate)[c]
  /\ Again(s.event.id, s.event)

FoundOf(r) ==
  LET s == session[r]
      id == s.event.id
  IN  /\ id \in Ids /\ Whole(id, s.aggregate) /\ Makes(s)
      /\ s.event.saw \in Nat /\ s.event.saw <= Seen(id)
      /\ s.event.type # "Created" =>
           /\ id \in DOMAIN rows /\ InTable(id, s.found)
           /\ s.event.saw = Seen(id) => rows[id] = s.found
      /\ s.event.type = "Created" => phase[r] = "saved"
      /\ s.event.type = "Deleted" => s.aggregate = Deleted(s.found)
FoundInv == \A r \in Requests : phase[r] \in {"found", "saved"} => FoundOf(r)

(* What it is going to write: all of a new aggregate, and of another what  *)
(* makes the aggregate of the row it found, if that is still in the table. *)
SavedOf(r) ==
  LET s == session[r]
      id == s.event.id
  IN  /\ Fits(id, changes[r])
      /\ s.event.type = "Created" => changes[r] = s.aggregate
      /\ s.event.type # "Created" /\ s.event.saw = Seen(id) =>
           \A c \in Columns(id) : Written(changes[r], s.found)[c] = s.aggregate[c]
SavedInv == \A r \in Requests : phase[r] = "saved" => SavedOf(r)

TableInv == Inv /\ DOMAIN changes = Requests /\ RowsInv /\ FoundInv /\ SavedInv

-----------------------------------------------------------------------------

(* The events on an aggregate can be counted. *)
LEMMA SeenType ==
  ASSUME ShapeInv, NEW id
  PROVE  Seen(id) \in Nat
  <1>1. PICK S : outbox \in Seq(S)
    BY DEF ShapeInv
  <1>2. Len(outbox) \in Nat /\ DOMAIN outbox = 1..Len(outbox)
    BY <1>1, LenProperties
  <1>3. IsFiniteSet(1..Len(outbox))
    BY <1>2, FS_Interval
  <1>4. EventsOn(id) \in SUBSET (1..Len(outbox))
    BY <1>2 DEF EventsOn
  <1>5. IsFiniteSet(EventsOn(id))
    BY <1>3, <1>4, FS_Subset
  <1>6. QED
    BY <1>5, FS_CardinalityType DEF Seen

(* A commit adds one event, on one aggregate. *)
LEMMA SeenAppended ==
  ASSUME ShapeInv, NEW e, outbox' = Append(outbox, e)
  PROVE  /\ Seen(e.id)' = Seen(e.id) + 1
         /\ \A id : id # e.id => Seen(id)' = Seen(id)
         /\ outbox'[Len(outbox')] = e
  <1>1. PICK S : outbox \in Seq(S)
    BY DEF ShapeInv
  <1>2. outbox \in Seq(S \cup {e}) /\ e \in S \cup {e}
    BY <1>1
  <1>3. /\ outbox' \in Seq(S \cup {e})
        /\ Len(outbox') = Len(outbox) + 1
        /\ \A k \in 1..Len(outbox) : outbox'[k] = outbox[k]
        /\ outbox'[Len(outbox) + 1] = e
    BY <1>2, AppendProperties
  <1>4. /\ Len(outbox) \in Nat
        /\ DOMAIN outbox = 1..Len(outbox) /\ DOMAIN outbox' = 1..Len(outbox')
    BY <1>2, <1>3, LenProperties
  <1> DEFINE n == Len(outbox) + 1
  <1>5. DOMAIN outbox' = DOMAIN outbox \cup {n} /\ n \notin DOMAIN outbox
        /\ \A k \in DOMAIN outbox : outbox'[k] = outbox[k]
    BY <1>3, <1>4
  <1>6. outbox'[n] = e
    BY <1>3
  <1> HIDE DEF n
  <1>7. ASSUME NEW id, id # e.id PROVE EventsOn(id)' = EventsOn(id)
    BY <1>5, <1>6, <1>7 DEF EventsOn
  <1>8. EventsOn(e.id)' = EventsOn(e.id) \cup {n} /\ n \notin EventsOn(e.id)
    BY <1>5, <1>6 DEF EventsOn
  <1>9. IsFiniteSet(EventsOn(e.id))
    <2>1. IsFiniteSet(1..Len(outbox))
      BY <1>4, FS_Interval
    <2>2. EventsOn(e.id) \in SUBSET (1..Len(outbox))
      BY <1>4 DEF EventsOn
    <2>3. QED
      BY <2>1, <2>2, FS_Subset
  <1>10. Cardinality(EventsOn(e.id) \cup {n}) = Cardinality(EventsOn(e.id)) + 1
    BY <1>8, <1>9, FS_AddElement
  <1>11. outbox'[Len(outbox')] = e
    BY <1>3
  <1>12. QED
    BY <1>7, <1>8, <1>10, <1>11 DEF Seen

-----------------------------------------------------------------------------

(* The steps of a request as the tables see them. *)
Refuses(r) ==
  /\ phase' = [phase EXCEPT ![r] = "answered"] /\ session' = [session EXCEPT ![r] = <<>>]
  /\ changes' = [changes EXCEPT ![r] = <<>>] /\ UNCHANGED <<rows, outbox>>

ReadsAs(r, type, id, told, found, aggregate) ==
  /\ type \in Types /\ id \in Ids /\ Right(r, type, id, told, found, aggregate)
  /\ type = "Deleted" => told = <<>>
  /\ session' = [session EXCEPT ![r] =
       [found |-> found, aggregate |-> aggregate, event |-> Event(r, type, id, told)]]
  /\ UNCHANGED <<rows, outbox>>
  /\ type = "Created" =>
       /\ phase' = [phase EXCEPT ![r] = "saved"]
       /\ changes' = [changes EXCEPT ![r] = aggregate]
  /\ type # "Created" =>
       /\ phase' = [phase EXCEPT ![r] = "found"] /\ UNCHANGED changes
       /\ id \in DOMAIN rows /\ found = rows[id]
       /\ type = "Deleted" => aggregate = Deleted(found)
Reads(r) == \E type, id, told, found, aggregate : ReadsAs(r, type, id, told, found, aggregate)

Records(r) ==
  /\ phase[r] = "saved" /\ Record(r)
  /\ \E how \in {"answered", "lost"} : phase' = [phase EXCEPT ![r] = how]
  /\ session' = [session EXCEPT ![r] = <<>>] /\ changes' = [changes EXCEPT ![r] = <<>>]

TableKind(r) == Refuses(r) \/ Reads(r) \/ Save(r) \/ Records(r)

(* A creation is refused, or goes on with an aggregate its event tells. *)
LEMMA CreateReads ==
  ASSUME NEW r \in Requests, NEW id \in Ids, NEW body, NEW new,
         Create(r, id, body, new), Right(r, "Created", id, new, new, new)
  PROVE  TableKind(r)
  <1>1. CASE ~Valid(body)
    BY <1>1 DEF Create, Refuse, Answer, End, TableKind, Refuses
  <1>2. CASE Valid(body)
    <2>1. ReadsAs(r, "Created", id, new, new, new)
      BY <1>2 DEF Create, ReadsAs, Types
    <2>2. QED
      BY <2>1 DEF TableKind, Reads
  <1>3. QED
    BY <1>1, <1>2

(* So does an update. *)
LEMMA UpdateReads ==
  ASSUME NEW r \in Requests, NEW id \in Ids, NEW body, NEW updated,
         Update(r, id, body, updated),
         Visible(id) => Right(r, "Updated", id, body, rows[id], updated)
  PROVE  TableKind(r)
  <1>1. CASE ~Visible(id) \/ ~Valid(body)
    BY <1>1 DEF Update, Refuse, Answer, End, TableKind, Refuses
  <1>2. CASE Visible(id) /\ Valid(body)
    <2>1. ReadsAs(r, "Updated", id, body, rows[id], updated)
      BY <1>2 DEF Update, ReadsAs, Types, Visible
    <2>2. QED
      BY <2>1 DEF TableKind, Reads
  <1>3. QED
    BY <1>1, <1>2

(* So does a deletion. *)
LEMMA DeleteReads ==
  ASSUME RowsInv, NEW r \in Requests, NEW id \in Ids, Delete(r, id)
  PROVE  TableKind(r)
  <1>1. CASE ~Visible(id)
    BY <1>1 DEF Delete, Refuse, Answer, End, TableKind, Refuses
  <1>2. CASE Visible(id)
    <2>1. id \in DOMAIN rows /\ InTable(id, rows[id])
      BY <1>2 DEF Visible, RowsInv
    <2>2. Right(r, "Deleted", id, <<>>, rows[id], Deleted(rows[id]))
      BY <2>1, DeletedRight
    <2>3. ReadsAs(r, "Deleted", id, <<>>, rows[id], Deleted(rows[id]))
      BY <1>2, <2>1, <2>2 DEF Delete, ReadsAs, Types
    <2>4. QED
      BY <2>3 DEF TableKind, Reads
  <1>3. QED
    BY <1>1, <1>2

(* Every step of the write requests is a refusal, a read, a save or a      *)
(* commit.                                                                 *)
LEMMA TableKinds ==
  ASSUME RowsInv, Write
  PROVE  \E r \in Requests : TableKind(r)
  <1>1. PICK r \in Requests :
          \/ PostCategory(r) \/ PutCategory(r) \/ DeleteCategory(r)
          \/ PostItem(r) \/ PutItem(r) \/ DeleteItem(r)
          \/ Save(r) \/ Commit(r) \/ CommitUnanswered(r) \/ Abort(r)
    BY DEF Write
  <1>2. CASE PostCategory(r)
    <2>1. PICK id \in CategoryIds, body \in CategoryBodies :
            CreateCategoryRequest(body) /\ Create(r, id, body, NewCategory(body))
      BY <1>2 DEF PostCategory
    <2>2. QED
      BY <2>1, CreateReads, NewCategoryRight DEF Ids
  <1>3. CASE PostItem(r)
    <2>1. PICK id \in ItemIds, body \in ItemBodies :
            CreateItemRequest(body) /\ Create(r, id, body, NewItem(body))
      BY <1>3 DEF PostItem
    <2>2. QED
      BY <2>1, CreateReads, NewItemRight DEF Ids
  <1>4. CASE PutCategory(r)
    <2>1. PICK id \in CategoryIds, body \in CategoryBodies :
            /\ UpdateCategoryRequest(body)
            /\ Update(r, id, body, UpdatedCategory(rows[id], body))
      BY <1>4 DEF PutCategory
    <2>2. Visible(id) =>
            Right(r, "Updated", id, body, rows[id], UpdatedCategory(rows[id], body))
      BY <2>1, UpdatedCategoryRight DEF Visible, RowsInv
    <2>3. QED
      BY <2>1, <2>2, UpdateReads DEF Ids
  <1>5. CASE PutItem(r)
    <2>1. PICK id \in ItemIds, body \in ItemBodies :
            Update(r, id, body, UpdatedItem(rows[id], body))
      BY <1>5 DEF PutItem
    <2>2. Visible(id) => Right(r, "Updated", id, body, rows[id], UpdatedItem(rows[id], body))
      BY <2>1, UpdatedItemRight DEF Visible, RowsInv
    <2>3. QED
      BY <2>1, <2>2, UpdateReads DEF Ids
  <1>6. CASE DeleteCategory(r) \/ DeleteItem(r)
    BY <1>6, DeleteReads DEF DeleteCategory, DeleteItem, Ids
  <1>7. CASE Save(r)
    BY <1>7 DEF TableKind
  <1>8. CASE Commit(r) \/ CommitUnanswered(r)
    BY <1>8 DEF Commit, CommitUnanswered, Refuse, Answer, End, TableKind, Refuses, Records
  <1>9. CASE Abort(r)
    BY <1>9 DEF Abort, Refuse, Answer, End, TableKind, Refuses
  <1>10. QED
    BY <1>1, <1>2, <1>3, <1>4, <1>5, <1>6, <1>7, <1>8, <1>9

(* What a request carries stays right when another one takes a step that   *)
(* writes nothing.                                                         *)
LEMMA OthersKept ==
  ASSUME NEW q, UNCHANGED <<rows, outbox>>, phase'[q] = phase[q],
         session'[q] = session[q], changes'[q] = changes[q]
  PROVE  (FoundOf(q) => FoundOf(q)') /\ (SavedOf(q) => SavedOf(q)')
  <1>1. \A id : Seen(id)' = Seen(id)
    BY DEF Seen, EventsOn
  <1>2. QED
    BY <1>1 DEF FoundOf, SavedOf

(* A refusal keeps the invariant of the tables. *)
LEMMA RefusesTable ==
  ASSUME TableInv, NEW r \in Requests, Refuses(r)
  PROVE  DOMAIN changes' = Requests /\ RowsInv' /\ FoundInv' /\ SavedInv'
  <1>1. DOMAIN phase = Requests /\ DOMAIN session = Requests /\ DOMAIN changes = Requests
    BY DEF TableInv, Inv, ShapeInv
  <1>2. DOMAIN changes' = Requests /\ RowsInv'
    BY <1>1 DEF Refuses, TableInv, RowsInv
  <1>3. \A q \in Requests : q # r =>
          phase'[q] = phase[q] /\ session'[q] = session[q] /\ changes'[q] = changes[q]
    BY <1>1 DEF Refuses
  <1>4. phase'[r] = "answered"
    BY <1>1 DEF Refuses
  <1>5. UNCHANGED <<rows, outbox>>
    BY DEF Refuses
  <1>6. FoundInv'
    BY <1>3, <1>4, <1>5, OthersKept DEF TableInv, FoundInv
  <1>7. SavedInv'
    BY <1>3, <1>4, <1>5, OthersKept DEF TableInv, SavedInv
  <1>8. QED
    BY <1>2, <1>6, <1>7

(* So does the read of a row: what the request carries is right, as of now. *)
LEMMA ReadsTable ==
  ASSUME TableInv, NEW r \in Requests, Reads(r)
  PROVE  DOMAIN changes' = Requests /\ RowsInv' /\ FoundInv' /\ SavedInv'
  <1>1. DOMAIN phase = Requests /\ DOMAIN session = Requests /\ DOMAIN changes = Requests
    BY DEF TableInv, Inv, ShapeInv
  <1>2. PICK type, id, told, found, aggregate : ReadsAs(r, type, id, told, found, aggregate)
    BY DEF Reads
  <1> DEFINE e == Event(r, type, id, told)
             s == [found |-> found, aggregate |-> aggregate, event |-> e]
  <1>3. /\ type \in Types /\ id \in Ids /\ Right(r, type, id, told, found, aggregate)
        /\ session' = [session EXCEPT ![r] = s] /\ UNCHANGED <<rows, outbox>>
    BY <1>2 DEF ReadsAs
  <1>4. e.type = type /\ e.id = id /\ e.saw = Seen(id)
    BY DEF Event, Seen
  <1>5. s.found = found /\ s.aggregate = aggregate /\ s.event = e
    OBVIOUS
  <1>6. Whole(id, aggregate) /\ Makes(s)
    <2>1. Again(id, e)
      BY <1>2, <1>3, AppliedAgain DEF ReadsAs
    <2>2. QED
      BY <1>3, <1>4, <1>5, <2>1 DEF Right, Makes
  <1>7. Seen(id)' = Seen(id) /\ Seen(id) \in Nat
    BY <1>3, SeenType DEF Seen, EventsOn, TableInv, Inv
  <1> HIDE DEF e, s
  <1>8. session'[r] = s /\ \A q \in Requests : q # r => session'[q] = session[q]
    BY <1>1, <1>3
  <1>9. /\ phase'[r] = IF type = "Created" THEN "saved" ELSE "found"
        /\ \A q \in Requests : q # r => phase'[q] = phase[q]
        /\ type = "Created" => changes'[r] = aggregate
        /\ \A q \in Requests : q # r => changes'[q] = changes[q]
        /\ DOMAIN changes' = Requests
    BY <1>1, <1>2 DEF ReadsAs
  <1>10. type # "Created" => id \in DOMAIN rows' /\ rows'[id] = found /\ InTable(id, found)
    BY <1>2, <1>3 DEF ReadsAs, TableInv, RowsInv
  <1>11. type = "Deleted" => aggregate = Deleted(found)
    BY <1>2 DEF ReadsAs
  <1>12. FoundOf(r)'
    <2>1. e.saw \in Nat /\ e.saw <= Seen(id)'
      BY <1>4, <1>7
    <2>2. QED
      BY <1>3, <1>4, <1>5, <1>6, <1>8, <1>9, <1>10, <1>11, <2>1 DEF FoundOf
  <1>13. type = "Created" => SavedOf(r)'
    <2>1. Fits(id, aggregate)
      BY <1>6 DEF Whole
    <2>2. QED
      BY <1>4, <1>5, <1>8, <1>9, <2>1 DEF SavedOf
  <1>14. RowsInv'
    BY <1>3 DEF TableInv, RowsInv
  <1>15. FoundInv'
    BY <1>3, <1>8, <1>9, <1>12, OthersKept DEF TableInv, FoundInv
  <1>16. SavedInv'
    BY <1>3, <1>8, <1>9, <1>13, OthersKept DEF TableInv, SavedInv
  <1>17. QED
    BY <1>9, <1>14, <1>15, <1>16

(* So does a save: what it is going to write completes the row it was      *)
(* merged with to the aggregate.                                           *)
LEMMA SaveTable ==
  ASSUME TableInv, NEW r \in Requests, Save(r)
  PROVE  DOMAIN changes' = Requests /\ RowsInv' /\ FoundInv' /\ SavedInv'
  <1>1. DOMAIN phase = Requests /\ DOMAIN session = Requests /\ DOMAIN changes = Requests
    BY DEF TableInv, Inv, ShapeInv
  <1>0. PICK s, id : s = session[r] /\ id = s.event.id
    OBVIOUS
  <1>2. /\ phase[r] = "found" /\ phase' = [phase EXCEPT ![r] = "saved"]
        /\ UNCHANGED <<rows, outbox, session, status>>
    BY DEF Save
  <1>3. PICK base \in {rows[id], s.found} :
          changes' = [changes EXCEPT ![r] =
            IF s.event.type = "Deleted" THEN Differing(Deleted(base), base)
            ELSE Differing(s.aggregate, base)]
    BY <1>0 DEF Save
  <1>4. FoundOf(r) /\ s.event.type # "Created"
    BY <1>0, <1>2 DEF TableInv, FoundInv, FoundOf
  <1>5. /\ id \in Ids /\ Whole(id, s.aggregate)
        /\ id \in DOMAIN rows /\ InTable(id, s.found)
        /\ s.event.saw = Seen(id) => rows[id] = s.found
        /\ s.event.type = "Deleted" => s.aggregate = Deleted(s.found)
    BY <1>0, <1>4 DEF FoundOf
  <1>6. InTable(id, base)
    BY <1>5 DEF TableInv, RowsInv
  <1> DEFINE wanted == IF s.event.type = "Deleted" THEN Deleted(base) ELSE s.aggregate
  <1>7. changes' = [changes EXCEPT ![r] = Differing(wanted, base)]
    BY <1>3
  <1>8. Whole(id, wanted)
    BY <1>5, <1>6, DeletedRight DEF Right
  <1>9. s.event.saw = Seen(id) => base = s.found /\ wanted = s.aggregate
    BY <1>3, <1>5
  <1> HIDE DEF wanted
  <1>10. /\ Fits(id, Differing(wanted, base))
         /\ \A c \in Columns(id) : Written(Differing(wanted, base), base)[c] = wanted[c]
    BY <1>6, <1>8, DifferingFits DEF InTable, Whole
  <1>11. /\ changes'[r] = Differing(wanted, base) /\ DOMAIN changes' = Requests
         /\ phase'[r] = "saved"
         /\ \A q \in Requests : q # r => phase'[q] = phase[q] /\ changes'[q] = changes[q]
         /\ session' = session
    BY <1>1, <1>2, <1>7
  <1>12. Seen(id)' = Seen(id)
    BY <1>2 DEF Seen, EventsOn
  <1>13. FoundOf(r)'
    <2>1. \A i : Seen(i)' = Seen(i)
      BY <1>2 DEF Seen, EventsOn
    <2>2. QED
      BY <1>2, <1>4, <1>11, <2>1 DEF FoundOf
  <1>14. SavedOf(r)'
    BY <1>0, <1>4, <1>9, <1>10, <1>11, <1>12 DEF SavedOf
  <1>15. RowsInv'
    BY <1>2 DEF TableInv, RowsInv
  <1>16. FoundInv'
    BY <1>2, <1>11, <1>13, OthersKept DEF TableInv, FoundInv
  <1>17. SavedInv'
    BY <1>2, <1>11, <1>14, OthersKept DEF TableInv, SavedInv
  <1>18. QED
    BY <1>11, <1>15, <1>16, <1>17

(* The row a request writes is whole, and when nothing was committed on it *)
(* in between, it is what the event makes of the row before.               *)
LEMMA RowWritten ==
  ASSUME TableInv, NEW r \in Requests, phase[r] = "saved"
  PROVE  LET e == session[r].event
             before == IF e.id \in DOMAIN rows THEN rows[e.id] ELSE [name |-> <<>>]
         IN  /\ e.id \in Ids /\ InTable(e.id, Stored(RowOf(r)))
             /\ e.saw = Seen(e.id) => \A c \in Columns(e.id) \ {"category"} :
                  Stored(RowOf(r))[c] = Applied(before, e)[c]
             /\ Again(e.id, e)
  <1> DEFINE s == session[r]
             e == s.event
             row == RowOf(r)
             before == IF e.id \in DOMAIN rows THEN rows[e.id] ELSE [name |-> <<>>]
  <1>1. FoundOf(r) /\ SavedOf(r)
    BY DEF TableInv, FoundInv, SavedInv
  <1>2. /\ e.id \in Ids /\ Whole(e.id, s.aggregate) /\ Makes(s)
        /\ e.type # "Created" =>
             /\ e.id \in DOMAIN rows /\ InTable(e.id, s.found)
             /\ e.saw = Seen(e.id) => rows[e.id] = s.found
        /\ Fits(e.id, changes[r])
        /\ e.type = "Created" => changes[r] = s.aggregate
        /\ e.type # "Created" /\ e.saw = Seen(e.id) =>
             \A c \in Columns(e.id) : Written(changes[r], s.found)[c] = s.aggregate[c]
    BY <1>1 DEF FoundOf, SavedOf
  <1>3. row = IF e.type = "Created" THEN changes[r] ELSE Written(changes[r], rows[e.id])
    BY DEF RowOf
  <1>4. Whole(e.id, row)
    <2>1. CASE e.type = "Created"
      BY <1>2, <1>3, <2>1
    <2>2. CASE e.type # "Created"
      <3>1. Whole(e.id, rows[e.id])
        BY <1>2, <2>2 DEF TableInv, RowsInv, InTable
      <3>2. QED
        BY <1>2, <1>3, <2>2, <3>1, WrittenWhole
    <2>3. QED
      BY <2>1, <2>2
  <1>5. InTable(e.id, Stored(row))
    BY <1>4, StoredInTable
  <1>6. ASSUME e.saw = Seen(e.id), NEW c \in Columns(e.id) \ {"category"}
        PROVE  Stored(row)[c] = Applied(before, e)[c]
    <2>1. row[c] = s.aggregate[c]
      BY <1>2, <1>3, <1>6
    <2>2. Stored(row)[c] = Stored(s.aggregate)[c]
      BY <1>2, <1>4, <2>1, StoredColumns DEF Whole
    <2>3. e.type = "Created" \/ before = s.found
      BY <1>2, <1>6
    <2>4. Applied(before, e)[c] = Stored(s.aggregate)[c]
      BY <1>2, <2>3 DEF Makes
    <2>5. QED
      BY <2>2, <2>4
  <1>7. QED
    BY <1>2, <1>5, <1>6 DEF Makes

(* So does a commit.  A request that is still under way on the same        *)
(* aggregate has now missed an event, and nothing is claimed of the row it *)
(* found.                                                                  *)
LEMMA RecordsTable ==
  ASSUME TableInv, NEW r \in Requests, Records(r)
  PROVE  DOMAIN changes' = Requests /\ RowsInv' /\ FoundInv' /\ SavedInv'
  <1>1. /\ DOMAIN phase = Requests /\ DOMAIN session = Requests /\ DOMAIN changes = Requests
        /\ ShapeInv
    BY DEF TableInv, Inv, ShapeInv
  <1>0. PICK e, new : e = session[r].event /\ new = Stored(RowOf(r))
    OBVIOUS
  <1>2. phase[r] = "saved" /\ outbox' = Append(outbox, e)
        /\ rows' = [id \in DOMAIN rows \cup {e.id} |-> IF id = e.id THEN new ELSE rows[id]]
    BY <1>0 DEF Records, Record
  <1>3. e.id \in Ids /\ InTable(e.id, new)
    BY <1>0, <1>2, RowWritten
  <1>4. /\ Seen(e.id)' = Seen(e.id) + 1
        /\ \A id : id # e.id => Seen(id)' = Seen(id)
    BY <1>1, <1>2, SeenAppended
  <1>5. /\ DOMAIN rows' = DOMAIN rows \cup {e.id} /\ rows'[e.id] = new
        /\ \A id \in DOMAIN rows : id # e.id => rows'[id] = rows[id]
    BY <1>2
  <1>6. RowsInv'
    <2>1. IsFiniteSet(DOMAIN rows \cup {e.id})
      BY FS_AddElement DEF TableInv, RowsInv
    <2>2. QED
      BY <1>3, <1>5, <2>1 DEF TableInv, RowsInv
  <1>7. /\ phase'[r] \in {"answered", "lost"} /\ DOMAIN changes' = Requests
        /\ \A q \in Requests : q # r =>
             phase'[q] = phase[q] /\ session'[q] = session[q] /\ changes'[q] = changes[q]
    BY <1>1 DEF Records
  <1>8. ASSUME NEW q \in Requests, q # r, phase[q] \in {"found", "saved"}
        PROVE  /\ FoundOf(q)'
               /\ phase[q] = "saved" => SavedOf(q)'
    <2>0. PICK s, id : s = session[q] /\ id = s.event.id
      OBVIOUS
    <2>1. /\ id \in Ids /\ Whole(id, s.aggregate) /\ Makes(s)
          /\ s.event.saw \in Nat /\ s.event.saw <= Seen(id)
          /\ s.event.type # "Created" =>
               /\ id \in DOMAIN rows /\ InTable(id, s.found)
               /\ s.event.saw = Seen(id) => rows[id] = s.found
          /\ s.event.type = "Created" => phase[q] = "saved"
          /\ s.event.type = "Deleted" => s.aggregate = Deleted(s.found)
      BY <1>8, <2>0 DEF TableInv, FoundInv, FoundOf
    <2>2. phase[q] = "saved" =>
            /\ Fits(id, changes[q])
            /\ s.event.type = "Created" => changes[q] = s.aggregate
            /\ s.event.type # "Created" /\ s.event.saw = Seen(id) =>
                 \A c \in Columns(id) : Written(changes[q], s.found)[c] = s.aggregate[c]
      BY <1>8, <2>0 DEF TableInv, SavedInv, SavedOf
    <2>3. session'[q] = s /\ phase'[q] = phase[q] /\ changes'[q] = changes[q]
      BY <1>7, <1>8, <2>0
    <2>4. Seen(id) \in Nat
      BY <1>1, SeenType
    <2>5. s.event.saw <= Seen(id)' /\ (s.event.saw = Seen(id)' => id # e.id /\ s.event.saw = Seen(id))
      BY <1>4, <2>1, <2>4
    <2>6. id \in DOMAIN rows => id \in DOMAIN rows' /\ (id # e.id => rows'[id] = rows[id])
      BY <1>5
    <2>7. FoundOf(q)'
      BY <2>0, <2>1, <2>3, <2>5, <2>6 DEF FoundOf
    <2>8. phase[q] = "saved" => SavedOf(q)'
      BY <2>0, <2>2, <2>3, <2>5 DEF SavedOf
    <2>9. QED
      BY <2>7, <2>8
  <1>9. FoundInv'
    BY <1>7, <1>8 DEF FoundInv
  <1>10. SavedInv'
    BY <1>7, <1>8 DEF SavedInv
  <1>11. QED
    BY <1>6, <1>7, <1>9, <1>10

(* The invariant of the tables holds at first. *)
LEMMA InitTable == Init => TableInv
  <1> SUFFICES ASSUME Init PROVE TableInv
    OBVIOUS
  <1>1. RowsInv
    <2>1. \A id \in DOMAIN InitialRows : InTable(id, InitialRows[id])
      <3> SUFFICES ASSUME NEW id \in DOMAIN InitialRows PROVE InTable(id, InitialRows[id])
        OBVIOUS
      <3> DEFINE row == InitialRows[id]
      <3>1. /\ DOMAIN row = Columns(id) /\ row.name \in Seq(Chars) /\ row.deleted \in BOOLEAN
            /\ id \in CategoryIds => UrlSafe(row.slug)
            /\ id \in ItemIds => row.price \in Int /\ Rounded(row.price) = row.price
            /\ id \in CategoryIds \cup ItemIds
        BY CatalogAssumption DEF Ids
      <3> HIDE DEF row
      <3>2. InTable(id, row)
        BY <3>1, ColumnsAre DEF InTable, Whole, Fits
      <3>3. QED
        BY <3>2 DEF row
    <2>2. QED
      BY <2>1, CatalogAssumption DEF Init, RowsInv
  <1>2. DOMAIN changes = Requests /\ FoundInv /\ SavedInv
    BY DEF Init, FoundInv, SavedInv
  <1>3. QED
    BY <1>1, <1>2, InitInv DEF TableInv

(* Every step of the write requests keeps the invariant of the tables. *)
LEMMA NextTable == TableInv /\ [Write]_vars => TableInv'
  <1> SUFFICES ASSUME TableInv, [Write]_vars PROVE TableInv'
    OBVIOUS
  <1>1. Inv'
    BY NextInv DEF TableInv
  <1>2. CASE Write
    <2>1. DOMAIN changes' = Requests /\ RowsInv' /\ FoundInv' /\ SavedInv'
      BY <1>2, TableKinds, RefusesTable, ReadsTable, SaveTable, RecordsTable
         DEF TableKind, TableInv
    <2>2. QED
      BY <1>1, <2>1 DEF TableInv
  <1>3. CASE UNCHANGED vars
    <2>1. UNCHANGED <<rows, outbox, phase, session, changes>>
      BY <1>3 DEF vars
    <2>2. \A q \in Requests : (FoundOf(q) => FoundOf(q)') /\ (SavedOf(q) => SavedOf(q)')
      BY <2>1, OthersKept
    <2>3. QED
      BY <1>1, <2>1, <2>2 DEF TableInv, RowsInv, FoundInv, SavedInv
  <1>4. QED
    BY <1>2, <1>3

(* Every row has the columns of its table, whatever was committed over it; *)
(* every request is in one of the phases and has one of the answers        *)
(* (models.py:16-58).                                                      *)
THEOREM TypeCorrect == Spec => []TypeOK
  <1>1. TableInv => TypeOK
    BY DEF TableInv, Inv, ShapeInv, RowsInv, InTable, Whole, TypeOK
  <1>2. QED
    BY <1>1, InitTable, NextTable, PTL DEF Spec

(* Whatever names and slugs the requests carry, and however they overlap,  *)
(* no slug of the table is one the API would refuse, and no name of an     *)
(* acceptable length makes one (category_value_objects.py:35-59,           *)
(* category.py:72, category.py:114).                                       *)
THEOREM UrlSafeSlugs == Spec => []SlugsAreUrlSafe
  <1>1. TableInv => SlugsAreUrlSafe
    <2>1. SlugRules
      BY SlugRulesHold, TextLengthAssumption
    <2>2. QED
      BY <2>1, ColumnsAre DEF TableInv, RowsInv, InTable, Whole, Fits, SlugsAreUrlSafe
  <1>2. QED
    BY <1>1, InitTable, NextTable, PTL DEF Spec

(* A step records one event and changes one row as told, or nothing.       *)
LEMMA StepTells ==
  ASSUME TableInv, [Write]_vars
  PROVE  LET e == outbox'[Len(outbox')]
             before == IF e.id \in DOMAIN rows THEN rows[e.id] ELSE [name |-> <<>>]
         IN  \/ UNCHANGED <<rows, outbox>>
             \/ /\ outbox' = Append(outbox, e)
                /\ \A id \in DOMAIN rows' \ {e.id} : id \in DOMAIN rows /\ rows'[id] = rows[id]
                /\ e.saw = Cardinality(EventsOn(e.id)) =>
                     \A c \in DOMAIN rows'[e.id] \ {"category"} :
                       rows'[e.id][c] = Applied(before, e)[c]
  <1>1. CASE UNCHANGED <<rows, outbox>>
    BY <1>1
  <1>2. CASE ~UNCHANGED <<rows, outbox>>
    <2>1. PICK r \in Requests : Records(r)
      <3>1. Write
        BY <1>2 DEF vars
      <3>2. PICK r \in Requests : TableKind(r)
        BY <3>1, TableKinds DEF TableInv
      <3>3. ~(Refuses(r) \/ Reads(r) \/ Save(r))
        BY <1>2 DEF Refuses, Reads, ReadsAs, Save
      <3>4. QED
        BY <3>2, <3>3 DEF TableKind
    <2>0. PICK e, new, before :
            /\ e = session[r].event /\ new = Stored(RowOf(r))
            /\ before = IF e.id \in DOMAIN rows THEN rows[e.id] ELSE [name |-> <<>>]
      OBVIOUS
    <2>2. phase[r] = "saved" /\ outbox' = Append(outbox, e)
          /\ rows' = [id \in DOMAIN rows \cup {e.id} |-> IF id = e.id THEN new ELSE rows[id]]
      BY <2>0, <2>1 DEF Records, Record
    <2>3. /\ DOMAIN new = Columns(e.id)
          /\ e.saw = Seen(e.id) => \A c \in Columns(e.id) \ {"category"} :
               new[c] = Applied(before, e)[c]
      BY <2>0, <2>2, RowWritten DEF InTable, Whole
    <2>4. outbox'[Len(outbox')] = e
      BY <2>2, SeenAppended DEF TableInv, Inv
    <2>5. /\ rows'[e.id] = new
          /\ \A id \in DOMAIN rows' \ {e.id} : id \in DOMAIN rows /\ rows'[id] = rows[id]
      BY <2>2
    <2>6. QED
      BY <2>0, <2>2, <2>3, <2>4, <2>5 DEF Seen
  <1>3. QED
    BY <1>1, <1>2

(* For any number of requests, keys and bodies: a commit records one event *)
(* and changes the row of its aggregate to what the event makes of it, as  *)
(* long as the request has not overlapped with another on the same         *)
(* aggregate (category.py:95-127, item.py:88-124,                          *)
(* outbox_publisher.py:41-54).                                             *)
THEOREM EventsTellTheRows == Spec => EventsTellRows
  <1> DEFINE Tells == 
       LET e == outbox'[Len(outbox')]
           before == IF e.id \in DOMAIN rows THEN rows[e.id] ELSE [name |-> <<>>]
       IN  \/ UNCHANGED <<rows, outbox>>
           \/ /\ outbox' = Append(outbox, e)
              /\ \A id \in DOMAIN rows' \ {e.id} : id \in DOMAIN rows /\ rows'[id] = rows[id]
              /\ e.saw = Cardinality(EventsOn(e.id)) =>
                   \A c \in DOMAIN rows'[e.id] \ {"category"} :
                     rows'[e.id][c] = Applied(before, e)[c]
  <1>1. TableInv /\ [Write]_vars => [Tells]_vars
    BY StepTells
  <1>2. Spec => [][Tells]_vars
    <2> HIDE DEF Tells
    <2>1. QED
      BY <1>1, InitTable, NextTable, PTL DEF Spec
  <1>3. QED
    BY <1>2 DEF EventsTellRows

-----------------------------------------------------------------------------

(* What every row shows. *)
ShownInv == \A id \in Ids : RowShown(id)

(* A commit leaves the events on other aggregates as they are, and its own *)
(* is the last on its aggregate.                                           *)
LEMMA EventsAppended ==
  ASSUME ShapeInv, NEW e, outbox' = Append(outbox, e)
  PROVE  /\ \A id : id # e.id => EventsOn(id)' = EventsOn(id)
         /\ \A id : EventsOn(id) # {} =>
              /\ Max(EventsOn(id)) \in EventsOn(id)
              /\ outbox'[Max(EventsOn(id))] = outbox[Max(EventsOn(id))]
         /\ EventsOn(e.id)' # {} /\ outbox'[Max(EventsOn(e.id)')] = e
  <1>1. PICK S : outbox \in Seq(S)
    BY DEF ShapeInv
  <1>2. outbox \in Seq(S \cup {e}) /\ e \in S \cup {e}
    BY <1>1
  <1>3. /\ outbox' \in Seq(S \cup {e})
        /\ Len(outbox') = Len(outbox) + 1
        /\ \A k \in 1..Len(outbox) : outbox'[k] = outbox[k]
        /\ outbox'[Len(outbox) + 1] = e
    BY <1>2, AppendProperties
  <1>4. /\ Len(outbox) \in Nat
        /\ DOMAIN outbox = 1..Len(outbox) /\ DOMAIN outbox' = 1..Len(outbox')
    BY <1>2, <1>3, LenProperties
  <1> DEFINE n == Len(outbox) + 1
  <1>5. /\ DOMAIN outbox' = DOMAIN outbox \cup {n} /\ n \notin DOMAIN outbox
        /\ \A k \in DOMAIN outbox : outbox'[k] = outbox[k]
        /\ n \in Nat /\ DOMAIN outbox \subseteq 0..n /\ \A k \in DOMAIN outbox : k < n
    BY <1>3, <1>4
  <1>6. outbox'[n] = e
    BY <1>3
  <1> HIDE DEF n
  <1>7. \A id : id # e.id => EventsOn(id)' = EventsOn(id)
    BY <1>5, <1>6 DEF EventsOn
  <1>8. \A id : EventsOn(id) \subseteq DOMAIN outbox /\ EventsOn(id) \subseteq 0..n
    BY <1>5 DEF EventsOn
  <1>9. \A id : EventsOn(id) # {} => Max(EventsOn(id)) \in EventsOn(id)
    BY <1>5, <1>8, MinMax
  <1>10. EventsOn(e.id)' = EventsOn(e.id) \cup {n}
    BY <1>5, <1>6 DEF EventsOn
  <1> DEFINE T == EventsOn(e.id) \cup {n}
  <1>11. T \subseteq 0..n /\ T # {} /\ n \in T
    BY <1>5, <1>8
  <1>12. Max(T) \in T /\ \A k \in T : k <= Max(T)
    <2> HIDE DEF T
    <2>1. QED
      BY <1>5, <1>11, MinMax
  <1>13. Max(T) = n
    <2>1. \A k \in T : k \in Nat /\ k <= n
      BY <1>5, <1>8
    <2> HIDE DEF T
    <2> DEFINE m == Max(T)
    <2>2. m \in Nat /\ m <= n /\ n <= m
      BY <1>11, <1>12, <2>1
    <2> HIDE DEF m
    <2>3. m = n
      BY <1>5, <2>2
    <2>4. QED
      BY <2>3 DEF m
  <1>14. QED
    BY <1>5, <1>6, <1>7, <1>8, <1>9, <1>10, <1>11, <1>13

(* A commit leaves every other row as it was, and its own shows its event. *)
LEMMA RecordsShown ==
  ASSUME TableInv, ShownInv, NEW r \in Requests, Records(r)
  PROVE  ShownInv'
  <1>0. PICK e, new : e = session[r].event /\ new = Stored(RowOf(r))
    OBVIOUS
  <1>1. phase[r] = "saved" /\ outbox' = Append(outbox, e)
        /\ rows' = [id \in DOMAIN rows \cup {e.id} |-> IF id = e.id THEN new ELSE rows[id]]
    BY <1>0 DEF Records, Record
  <1>2. /\ DOMAIN rows' = DOMAIN rows \cup {e.id} /\ rows'[e.id] = new
        /\ \A id \in DOMAIN rows : id # e.id => rows'[id] = rows[id]
    BY <1>1
  <1>3. /\ \A id : id # e.id => EventsOn(id)' = EventsOn(id)
        /\ \A id : EventsOn(id) # {} =>
             outbox'[Max(EventsOn(id))] = outbox[Max(EventsOn(id))]
        /\ EventsOn(e.id)' # {} /\ outbox'[Max(EventsOn(e.id)')] = e
    BY <1>1, EventsAppended DEF TableInv, Inv
  <1>4. ASSUME NEW id \in Ids, id # e.id PROVE RowShown(id)'
    <2>1. RowShown(id)
      BY DEF ShownInv
    <2>2. EventsOn(id)' = EventsOn(id)
      BY <1>3, <1>4
    <2>3. (id \in DOMAIN rows' <=> id \in DOMAIN rows) /\ (id \in DOMAIN rows => rows'[id] = rows[id])
      BY <1>2, <1>4
    <2>4. CASE EventsOn(id) = {}
      BY <2>1, <2>2, <2>3, <2>4 DEF RowShown
    <2>5. CASE EventsOn(id) # {}
      <3>1. outbox'[Max(EventsOn(id))] = outbox[Max(EventsOn(id))]
        BY <1>3, <2>5
      <3>2. QED
        BY <2>1, <2>2, <2>3, <2>5, <3>1 DEF RowShown
    <2>6. QED
      BY <2>4, <2>5
  <1>5. RowShown(e.id)'
    <2> DEFINE before == IF e.id \in DOMAIN rows THEN rows[e.id] ELSE [name |-> <<>>]
    <2>1. /\ DOMAIN new = Columns(e.id) /\ Again(e.id, e)
          /\ e.saw = Seen(e.id) => \A c \in Columns(e.id) \ {"category"} :
               new[c] = Applied(before, e)[c]
      BY <1>0, <1>1, RowWritten DEF InTable, Whole
    <2> HIDE DEF before
    <2>2. e.saw = Seen(e.id) =>
            \A c \in Columns(e.id) \ {"category"} : new[c] = Applied(new, e)[c]
      BY <2>1 DEF Again
    <2>3. Seen(e.id) \in Nat /\ Cardinality(EventsOn(e.id)') = Seen(e.id) + 1
      BY <1>1, SeenType, SeenAppended DEF TableInv, Inv, Seen
    <2>4. e.saw \in Nat
      BY <1>0, <1>1 DEF TableInv, FoundInv, FoundOf
    <2>5. e.saw + 1 = Cardinality(EventsOn(e.id)') =>
            \A c \in DOMAIN new \ {"category"} : new[c] = Applied(new, e)[c]
      BY <2>1, <2>2, <2>3, <2>4
    <2>6. QED
      BY <1>2, <1>3, <2>5 DEF RowShown
  <1>6. QED
    BY <1>4, <1>5 DEF ShownInv

(* Every step of the write requests keeps what the rows show. *)
LEMMA NextShown ==
  ASSUME TableInv, ShownInv, [Write]_vars
  PROVE  ShownInv'
  <1>1. CASE UNCHANGED <<rows, outbox>>
    <2>1. ASSUME NEW id \in Ids PROVE RowShown(id)'
      <3>1. EventsOn(id)' = EventsOn(id)
        BY <1>1 DEF EventsOn
      <3>2. RowShown(id) /\ rows' = rows /\ outbox' = outbox
        BY <1>1 DEF ShownInv
      <3>3. CASE EventsOn(id) = {}
        BY <3>1, <3>2, <3>3 DEF RowShown
      <3>4. CASE EventsOn(id) # {}
        BY <3>1, <3>2, <3>4 DEF RowShown
      <3>5. QED
        BY <3>3, <3>4
    <2>2. QED
      BY <2>1 DEF ShownInv
  <1>2. CASE ~UNCHANGED <<rows, outbox>>
    <2>1. Write
      BY <1>2 DEF vars
    <2>2. PICK r \in Requests : TableKind(r)
      BY <2>1, TableKinds DEF TableInv
    <2>3. ~(Refuses(r) \/ Reads(r) \/ Save(r))
      BY <1>2 DEF Refuses, Reads, ReadsAs, Save
    <2>4. QED
      BY <2>2, <2>3, RecordsShown DEF TableKind
  <1>3. QED
    BY <1>1, <1>2

(* Every answer tells what became of its request, however many requests    *)
(* run at once and whatever the database refuses: a 200 or 201 stands for  *)
(* one committed event, a 404, 422 or 500 for none but for a 500 after a   *)
(* commit whose answer was lost; and no row changes without an event: as   *)
(* long as there is none on it, it is as it was at the start, and then it  *)
(* shows what the last one told, unless the request of that one overlapped *)
(* with another (error_handlers.py:22-48, unit_of_work.py:119-142).        *)
THEOREM HonestAnswers == Spec => []AnswersAreHonest
  <1>1. Init => ShownInv
    <2> SUFFICES ASSUME Init, NEW id \in Ids PROVE RowShown(id)
      BY DEF ShownInv
    <2>1. rows = InitialRows /\ EventsOn(id) = {}
      BY DEF Init, EventsOn
    <2>2. QED
      BY <2>1 DEF RowShown
  <1>2. (TableInv /\ ShownInv) /\ [Write]_vars => (TableInv /\ ShownInv)'
    BY NextTable, NextShown
  <1>3. TableInv /\ ShownInv => AnswersAreHonest
    BY DEF TableInv, Inv, AnswersInv, Honest, By, ShownInv, AnswersAreHonest
  <1>4. QED
    BY <1>1, <1>2, <1>3, InitTable, PTL DEF Spec

-----------------------------------------------------------------------------
(* 5. PAGES AND TOTALS UNDER CONCURRENT COMMITS                            *)

(* Max and Min of two numbers. *)
LEMMA MinMaxOfTwo ==
  ASSUME NEW a \in Int, NEW b \in Int
  PROVE  /\ Max({a, b}) = IF a >= b THEN a ELSE b
         /\ Min({a, b}) = IF a <= b THEN a ELSE b
  <1>1. \E x \in {a, b} : \A y \in {a, b} : x >= y
    OBVIOUS
  <1>2. Max({a, b}) \in {a, b} /\ \A y \in {a, b} : Max({a, b}) >= y
    BY <1>1 DEF Max
  <1>3. \E x \in {a, b} : \A y \in {a, b} : x =< y
    OBVIOUS
  <1>4. Min({a, b}) \in {a, b} /\ \A y \in {a, b} : Min({a, b}) =< y
    BY <1>3 DEF Min
  <1>5. QED
    BY <1>2, <1>4

(* The arithmetic of pages. *)
LEMMA PageArithmetic ==
  ASSUME NEW n \in Nat, NEW limit \in Nat, NEW offset \in Nat
  PROVE  /\ Behind(n, limit, offset) \in Nat /\ OnPage(n, limit, offset) \in Nat
         /\ HasNext(n, limit, offset) = (Behind(n, limit, offset) > 0)
         /\ OnPage(n, limit, offset) # 0 => offset + OnPage(n, limit, offset) <= n
         /\ OnPage(n, limit, offset) < limit => n <= offset + OnPage(n, limit, offset)
  <1>1. Behind(n, limit, offset) = IF 0 >= n - offset - limit THEN 0 ELSE n - offset - limit
    BY MinMaxOfTwo DEF Behind
  <1> DEFINE m == Min({limit, n - offset})
  <1>2. m = IF limit <= n - offset THEN limit ELSE n - offset
    BY MinMaxOfTwo
  <1>3. m \in Int
    BY <1>2
  <1>4. OnPage(n, limit, offset) = Max({0, m})
    BY DEF OnPage
  <1> HIDE DEF m
  <1>5. OnPage(n, limit, offset) = IF 0 >= m THEN 0 ELSE m
    BY <1>3, <1>4, MinMaxOfTwo
  <1>6. QED
    BY <1>1, <1>2, <1>5 DEF HasNext

(* Two sets that differ in one member differ in size by no more.           *)
LEMMA NearlySame ==
  ASSUME NEW S, NEW T, NEW x, IsFiniteSet(S), IsFiniteSet(T),
         \A y : y # x => (y \in S <=> y \in T)
  PROVE  /\ Cardinality(S) \in Nat /\ Cardinality(T) \in Nat
         /\ Cardinality(S) <= Cardinality(T) + 1 /\ Cardinality(T) <= Cardinality(S) + 1
  <1>1. ASSUME NEW A, NEW B, IsFiniteSet(A), IsFiniteSet(B), \A y : y # x => (y \in A <=> y \in B)
        PROVE  Cardinality(A) \in Nat /\ Cardinality(A) <= Cardinality(B) + 1
    <2>1. A \subseteq B \cup {x}
      BY <1>1
    <2>2. /\ IsFiniteSet(B \cup {x})
          /\ Cardinality(B \cup {x}) = IF x \in B THEN Cardinality(B) ELSE Cardinality(B) + 1
      BY <1>1, FS_AddElement
    <2>3. Cardinality(A) <= Cardinality(B \cup {x})
      BY <2>1, <2>2, FS_Subset
    <2>4. Cardinality(A) \in Nat /\ Cardinality(B) \in Nat
      BY <1>1, FS_CardinalityType
    <2>5. QED
      BY <2>2, <2>3, <2>4
  <1>2. QED
    BY <1>1

-----------------------------------------------------------------------------

Near(n, m, d) == n <= m + d /\ m <= n + d

Moved(table, from, until) == Cardinality(CommitsOn(table, from, until))

(* What a list has been told: the page of n rows, which are as many as are *)
(* active now but for one for every commit on the table since.             *)
PageOf(p, n) ==
  /\ p.limit \in Nat /\ p.offset \in Nat
  /\ p.behind = Behind(n, p.limit, p.offset)
  /\ Cardinality(p.page) = OnPage(n, p.limit, p.offset)
  /\ IsFiniteSet(p.page)
  /\ p.asOf \in Nat /\ p.asOf <= Len(outbox)
  /\ Near(n, CountActive(p.table), Moved(p.table, p.asOf, Len(outbox)))

ListedOf(p, n) ==
  /\ p.response.limit \in Nat /\ p.response.offset \in Nat /\ p.response.total \in Nat
  /\ p.behind = Behind(n, p.response.limit, p.response.offset)
  /\ Cardinality(p.response.items) = OnPage(n, p.response.limit, p.response.offset)
  /\ IsFiniteSet(p.response.items)
  /\ p.response.has_next = HasNext(p.response.total, p.response.limit, p.response.offset)
  /\ p.asOf \in Nat /\ p.until \in Nat /\ p.until <= Len(outbox)
  /\ Near(n, p.response.total, Moved(p.table, p.asOf, p.until))

SearchedOf(p) == p.response.has_next = (p.behind > 0)

ReaderInv ==
  /\ DOMAIN reading = Readers
  /\ \A q \in Readers :
       /\ reading[q].step \in {"idle", "got", "page", "listed", "searched", "failed"}
       /\ reading[q].step = "page" => \E n \in Nat : PageOf(reading[q], n)
       /\ reading[q].step = "listed" => \E n \in Nat : ListedOf(reading[q], n)
       /\ reading[q].step = "searched" => SearchedOf(reading[q])

QueryInv == TableInv /\ ReaderInv

-----------------------------------------------------------------------------

(* The active rows can be counted. *)
LEMMA ActiveFinite ==
  ASSUME RowsInv, NEW table
  PROVE  IsFiniteSet(Active(table)) /\ CountActive(table) \in Nat
  <1>1. Active(table) \in SUBSET DOMAIN rows
    BY DEF Active, Visible
  <1>2. IsFiniteSet(Active(table))
    BY <1>1, FS_Subset DEF RowsInv
  <1>3. QED
    BY <1>2, FS_CardinalityType DEF CountActive

(* So can the commits between two statements. *)
LEMMA MovedType ==
  ASSUME NEW table, NEW from \in Nat, NEW until \in Nat
  PROVE  /\ IsFiniteSet(CommitsOn(table, from, until)) /\ Moved(table, from, until) \in Nat
         /\ Moved(table, from, until) = 0 <=> CommitsOn(table, from, until) = {}
  <1>1. IsFiniteSet(from + 1..until)
    BY FS_Interval
  <1>2. CommitsOn(table, from, until) \in SUBSET (from + 1..until)
    BY DEF CommitsOn
  <1>3. IsFiniteSet(CommitsOn(table, from, until))
    BY <1>1, <1>2, FS_Subset
  <1>4. QED
    BY <1>3, FS_CardinalityType, FS_EmptySet DEF Moved

(* A commit moves one table, and that by one row at most. *)
LEMMA RecordsMoves ==
  ASSUME TableInv, NEW r \in Requests, Records(r)
  PROVE  /\ Len(outbox') = Len(outbox) + 1 /\ Len(outbox) \in Nat
         /\ \A table, from, until : until \in Nat /\ from \in Nat /\ until <= Len(outbox) =>
              CommitsOn(table, from, until)' = CommitsOn(table, from, until)
         /\ \A table : \A from \in 0..Len(outbox), n \in Nat :
              Near(n, CountActive(table), Moved(table, from, Len(outbox))) =>
                Near(n, CountActive(table)', Cardinality(CommitsOn(table, from, Len(outbox)))')
  <1>1. PICK e, new : e = session[r].event /\ new = Stored(RowOf(r))
    OBVIOUS
  <1>2. /\ outbox' = Append(outbox, e)
        /\ rows' = [id \in DOMAIN rows \cup {e.id} |-> IF id = e.id THEN new ELSE rows[id]]
    BY <1>1 DEF Records, Record
  <1>3. PICK S : outbox \in Seq(S)
    BY DEF TableInv, Inv, ShapeInv
  <1>4. outbox \in Seq(S \cup {e}) /\ e \in S \cup {e}
    BY <1>3
  <1>5. /\ Len(outbox') = Len(outbox) + 1 /\ Len(outbox) \in Nat
        /\ \A k \in 1..Len(outbox) : outbox'[k] = outbox[k]
        /\ outbox'[Len(outbox) + 1] = e
    BY <1>2, <1>4, AppendProperties, LenProperties
  <1>6. RowsInv /\ RowsInv'
    BY RecordsTable DEF TableInv
  <1>7. ASSUME NEW table, NEW from \in Nat, NEW until \in Nat, until <= Len(outbox)
        PROVE  CommitsOn(table, from, until)' = CommitsOn(table, from, until)
    <2>1. \A k \in from + 1..until : outbox'[k] = outbox[k]
      BY <1>5, <1>7
    <2>2. QED
      BY <2>1 DEF CommitsOn
  <1>8. ASSUME NEW table, NEW from \in 0..Len(outbox), NEW n \in Nat,
               Near(n, CountActive(table), Moved(table, from, Len(outbox)))
        PROVE  Near(n, CountActive(table)', Cardinality(CommitsOn(table, from, Len(outbox)))')
    <2> DEFINE old == CommitsOn(table, from, Len(outbox))
               now == CommitsOn(table, from, Len(outbox))'
               z == Len(outbox) + 1
    <2>1. IsFiniteSet(old) /\ Cardinality(old) \in Nat
      <3>1. from \in Nat /\ Len(outbox) \in Nat
        BY <1>5
      <3>2. QED
        BY <3>1, MovedType DEF Moved
    <2>2. now = IF e.id \in table THEN old \cup {z} ELSE old
      <3>1. now = {k \in from + 1..z : outbox'[k].id \in table}
        BY <1>5 DEF CommitsOn
      <3>2. \A k : k \in from + 1..z <=> k \in from + 1..Len(outbox) \/ k = z
        BY <1>5
      <3>3. \A k \in from + 1..Len(outbox) : outbox'[k] = outbox[k]
        BY <1>5
      <3>4. old = {k \in from + 1..Len(outbox) : outbox[k].id \in table}
        BY DEF CommitsOn
      <3>5. outbox'[z] = e
        BY <1>5
      <3> HIDE DEF z, old, now
      <3>6. QED
        BY <3>1, <3>2, <3>3, <3>4, <3>5
    <2>3. z \notin old
      BY <1>5 DEF CommitsOn
    <2> HIDE DEF z, old, now
    <2>4. Cardinality(now) = IF e.id \in table THEN Cardinality(old) + 1 ELSE Cardinality(old)
      BY <2>1, <2>2, <2>3, FS_AddElement
    <2>5. /\ IsFiniteSet(Active(table)) /\ CountActive(table) \in Nat
          /\ IsFiniteSet(Active(table)') /\ CountActive(table)' \in Nat
      <3>1. IsFiniteSet(Active(table)) /\ CountActive(table) \in Nat
        BY <1>6, ActiveFinite
      <3>2. Active(table)' \in SUBSET DOMAIN rows'
        BY DEF Active, Visible
      <3>3. IsFiniteSet(DOMAIN rows')
        BY <1>6 DEF RowsInv
      <3>4. IsFiniteSet(Active(table)')
        BY <3>2, <3>3, FS_Subset
      <3>5. Cardinality(Active(table)') \in Nat
        BY <3>4, FS_CardinalityType
      <3>6. QED
        BY <3>1, <3>4, <3>5 DEF CountActive
    <2>6. \A id : id # e.id => (id \in Active(table) <=> id \in Active(table)')
      BY <1>2 DEF Active, Visible
    <2>7. CASE e.id \notin table
      <3>1. Active(table)' = Active(table)
        BY <2>6, <2>7 DEF Active
      <3>2. QED
        BY <1>8, <2>4, <2>7, <3>1 DEF Near, CountActive, Moved, old, now
    <2>8. CASE e.id \in table
      <3>1. /\ CountActive(table) <= CountActive(table)' + 1
            /\ CountActive(table)' <= CountActive(table) + 1
        BY <2>5, <2>6, NearlySame DEF CountActive
      <3>2. Cardinality(now) = Cardinality(old) + 1
        BY <2>4, <2>8
      <3>3. n <= CountActive(table) + Cardinality(old) /\ CountActive(table) <= n + Cardinality(old)
        BY <1>8 DEF Near, Moved, old
      <3>4. n <= CountActive(table)' + Cardinality(now) /\ CountActive(table)' <= n + Cardinality(now)
        BY <2>1, <2>5, <3>1, <3>2, <3>3
      <3>5. QED
        BY <3>4 DEF Near, now
    <2>9. QED
      BY <2>7, <2>8
  <1>9. QED
    BY <1>5, <1>7, <1>8

(* A reader that a step leaves alone. *)
LEMMA ReaderKept ==
  ASSUME QueryInv, NEW r \in Requests, Records(r), UNCHANGED reading
  PROVE  ReaderInv'
  <1>1. /\ Len(outbox') = Len(outbox) + 1 /\ Len(outbox) \in Nat
        /\ \A table, from, until : until \in Nat /\ from \in Nat /\ until <= Len(outbox) =>
             CommitsOn(table, from, until)' = CommitsOn(table, from, until)
        /\ \A table : \A from \in 0..Len(outbox), n \in Nat :
             Near(n, CountActive(table), Moved(table, from, Len(outbox))) =>
               Near(n, CountActive(table)', Cardinality(CommitsOn(table, from, Len(outbox)))')
    BY RecordsMoves DEF QueryInv
  <1>2. ASSUME NEW q \in Readers, reading[q].step = "page"
        PROVE  \E n \in Nat : PageOf(reading[q], n)'
    <2>1. PICK p, n : p = reading[q] /\ n \in Nat /\ PageOf(p, n)
      BY <1>2 DEF QueryInv, ReaderInv
    <2>2. p.asOf \in 0..Len(outbox)
      BY <1>1, <2>1 DEF PageOf
    <2>3. Near(n, CountActive(p.table), Moved(p.table, p.asOf, Len(outbox)))
      BY <2>1 DEF PageOf
    <2>4. Near(n, CountActive(p.table)', Cardinality(CommitsOn(p.table, p.asOf, Len(outbox)))')
      BY <1>1, <2>1, <2>2, <2>3
    <2>5. p.asOf <= Len(outbox')
      BY <1>1, <2>2
    <2>6. PageOf(p, n)'
      BY <2>1, <2>4, <2>5 DEF PageOf, Moved
    <2>7. QED
      BY <2>1, <2>6
  <1>3. ASSUME NEW q \in Readers, reading[q].step = "listed"
        PROVE  \E n \in Nat : ListedOf(reading[q], n)'
    <2>1. PICK p, n : p = reading[q] /\ n \in Nat /\ ListedOf(p, n)
      BY <1>3 DEF QueryInv, ReaderInv
    <2>2. p.asOf \in Nat /\ p.until \in Nat /\ p.until <= Len(outbox)
      BY <2>1 DEF ListedOf
    <2>3. CommitsOn(p.table, p.asOf, p.until)' = CommitsOn(p.table, p.asOf, p.until)
      BY <1>1, <2>2
    <2>4. p.until <= Len(outbox')
      BY <1>1, <2>2
    <2>5. ListedOf(p, n)'
      BY <2>1, <2>3, <2>4 DEF ListedOf, Moved
    <2>6. QED
      BY <2>1, <2>5
  <1>4. QED
    BY <1>2, <1>3 DEF QueryInv, ReaderInv, SearchedOf

(* What a reader is told, and what the readers are still worth.            *)
LEMMA ReaderTold ==
  ASSUME QueryInv, NEW q \in Readers, NEW told, Read(q, told),
         told.step \in {"got", "page", "listed", "searched", "failed"},
         told.step = "page" => \E n \in Nat : PageOf(told, n),
         told.step = "listed" => \E n \in Nat : ListedOf(told, n),
         told.step = "searched" => SearchedOf(told)
  PROVE  ReaderInv'
  <1>1. UNCHANGED <<rows, outbox>> /\ reading' = [reading EXCEPT ![q] = told]
    BY DEF Read, vars
  <1>2. /\ DOMAIN reading' = Readers /\ reading'[q] = told
        /\ \A other \in Readers : other # q => reading'[other] = reading[other]
    BY <1>1 DEF QueryInv, ReaderInv
  <1>3. \A p, n : (PageOf(p, n) => PageOf(p, n)') /\ (ListedOf(p, n) => ListedOf(p, n)')
    BY <1>1 DEF PageOf, ListedOf, Moved, CommitsOn, CountActive, Active, Visible
  <1>4. ASSUME NEW other \in Readers
        PROVE  /\ reading'[other].step \in {"idle", "got", "page", "listed", "searched", "failed"}
               /\ reading'[other].step = "page" => \E n \in Nat : PageOf(reading[other], n)'
               /\ reading'[other].step = "listed" => \E n \in Nat : ListedOf(reading[other], n)'
               /\ reading'[other].step = "searched" => SearchedOf(reading'[other])
    <2>1. PICK p : p = reading'[other]
      OBVIOUS
    <2>2. p = told \/ p = reading[other]
      BY <1>2, <2>1
    <2>3. /\ p.step \in {"idle", "got", "page", "listed", "searched", "failed"}
          /\ p.step = "page" => \E n \in Nat : PageOf(p, n)
          /\ p.step = "listed" => \E n \in Nat : ListedOf(p, n)
          /\ p.step = "searched" => SearchedOf(p)
      <3>1. CASE p = told
        BY <3>1
      <3>2. CASE p = reading[other]
        BY <3>2 DEF QueryInv, ReaderInv
      <3>3. QED
        BY <2>2, <3>1, <3>2
    <2>4. /\ p.step = "page" => \E n \in Nat : PageOf(p, n)'
          /\ p.step = "listed" => \E n \in Nat : ListedOf(p, n)'
      BY <1>3, <2>3
    <2>5. QED
      BY <2>1, <2>3, <2>4 DEF PageOf, ListedOf
  <1>5. QED
    BY <1>2, <1>4 DEF ReaderInv

(* A request for one aggregate tells nothing of pages. *)
LEMMA GetTold ==
  ASSUME QueryInv, NEW q \in Readers, NEW id, NEW response, Get(q, id, response)
  PROVE  ReaderInv'
  <1>1. PICK told : Read(q, told) /\ told.step = "got"
    BY DEF Get
  <1>2. QED
    BY <1>1, ReaderTold

(* The first statement of a list: its page, as of now. *)
LEMMA PageTold ==
  ASSUME QueryInv, NEW q \in Readers, NEW table, ListPage(q, table)
  PROVE  ReaderInv'
  <1>1. PICK limit \in Limits, offset \in Offsets :
          \E page \in Pages(Active(table), limit, offset) :
            Read(q, [step |-> "page", table |-> table, page |-> page,
                     limit |-> limit, offset |-> offset, asOf |-> Len(outbox),
                     behind |-> Behind(Cardinality(Active(table)), limit, offset)])
    BY DEF ListPage
  <1>2. PICK page \in Pages(Active(table), limit, offset) :
            Read(q, [step |-> "page", table |-> table, page |-> page,
                     limit |-> limit, offset |-> offset, asOf |-> Len(outbox),
                     behind |-> Behind(Cardinality(Active(table)), limit, offset)])
    BY <1>1
  <1>3. PICK p : p = [step |-> "page", table |-> table, page |-> page,
                      limit |-> limit, offset |-> offset, asOf |-> Len(outbox),
                      behind |-> Behind(Cardinality(Active(table)), limit, offset)]
    OBVIOUS
  <1>4. /\ p.step = "page" /\ p.table = table /\ p.page = page /\ p.limit = limit
        /\ p.offset = offset /\ p.asOf = Len(outbox)
        /\ p.behind = Behind(CountActive(table), limit, offset)
    BY <1>3 DEF CountActive
  <1>5. IsFiniteSet(Active(table)) /\ CountActive(table) \in Nat
    BY ActiveFinite DEF QueryInv, TableInv
  <1>6. IsFiniteSet(page) /\ Cardinality(page) = OnPage(CountActive(table), limit, offset)
    <2>1. page \in SUBSET Active(table)
          /\ Cardinality(page) = OnPage(Cardinality(Active(table)), limit, offset)
      BY <1>2 DEF Pages
    <2>2. IsFiniteSet(page)
      BY <1>5, <2>1, FS_Subset
    <2>3. QED
      BY <2>1, <2>2 DEF CountActive
  <1>7. Len(outbox) \in Nat
    <2>1. PICK S : outbox \in Seq(S)
      BY DEF QueryInv, TableInv, Inv, ShapeInv
    <2>2. QED
      BY <2>1, LenProperties
  <1>8. Moved(table, Len(outbox), Len(outbox)) = 0
    <2>1. CommitsOn(table, Len(outbox), Len(outbox)) = {}
      BY <1>7 DEF CommitsOn
    <2>2. QED
      BY <2>1, FS_EmptySet DEF Moved
  <1>9. limit \in Nat /\ offset \in Nat
    BY PagesAssumption
  <1>10. PageOf(p, CountActive(table))
    BY <1>4, <1>5, <1>6, <1>7, <1>8, <1>9 DEF PageOf, Near
  <1>11. Read(q, p)
    BY <1>2, <1>3
  <1>12. QED
    BY <1>4, <1>5, <1>10, <1>11, ReaderTold

(* The second statement: its total, some commits later. *)
LEMMA TotalTold ==
  ASSUME QueryInv, NEW q \in Readers, ListTotal(q)
  PROVE  ReaderInv'
  <1>1. PICK p : p = reading[q]
    OBVIOUS
  <1>2. PICK n \in Nat : PageOf(p, n)
    BY <1>1 DEF QueryInv, ReaderInv, ListTotal
  <1> DEFINE resp == Response(p.page, CountActive(p.table), p.limit, p.offset)
  <1>3. PICK told : told = [step |-> "listed", table |-> p.table, asOf |-> p.asOf,
                            behind |-> p.behind, until |-> Len(outbox), response |-> resp]
    OBVIOUS
  <1>4. Read(q, told)
    BY <1>1, <1>3 DEF ListTotal
  <1>5. /\ resp.items = p.page /\ resp.total = CountActive(p.table)
        /\ resp.limit = p.limit /\ resp.offset = p.offset
        /\ resp.has_next = HasNext(CountActive(p.table), p.limit, p.offset)
    BY DEF Response
  <1> HIDE DEF resp
  <1>6. /\ told.step = "listed" /\ told.table = p.table /\ told.asOf = p.asOf
        /\ told.behind = p.behind /\ told.until = Len(outbox) /\ told.response = resp
    BY <1>3
  <1>7. CountActive(p.table) \in Nat
    BY ActiveFinite DEF QueryInv, TableInv
  <1>8. Len(outbox) \in Nat
    <2>1. PICK S : outbox \in Seq(S)
      BY DEF QueryInv, TableInv, Inv, ShapeInv
    <2>2. QED
      BY <2>1, LenProperties
  <1>9. ListedOf(told, n)
    BY <1>2, <1>5, <1>6, <1>7, <1>8 DEF PageOf, ListedOf
  <1>10. QED
    BY <1>4, <1>6, <1>9, ReaderTold

(* A search reads its page and its total from one set of rows. *)
LEMMA SearchTold ==
  ASSUME QueryInv, NEW q \in Readers, NEW table, NEW spec, SearchTable(q, table, spec)
  PROVE  ReaderInv'
  <1> DEFINE n == Cardinality(FindMatching(table, spec))
  <1>1. PICK limit \in Limits, offset \in Offsets :
          \E page \in Pages(FindMatching(table, spec), limit, offset) :
            Read(q, [step |-> "searched", behind |-> Behind(n, limit, offset),
                     response |-> Response(page, n, limit, offset)])
    BY DEF SearchTable
  <1>2. n \in Nat
    <2>1. FindMatching(table, spec) \in SUBSET DOMAIN rows
      BY DEF FindMatching
    <2>2. IsFiniteSet(FindMatching(table, spec))
      BY <2>1, FS_Subset DEF QueryInv, TableInv, RowsInv
    <2>3. QED
      BY <2>2, FS_CardinalityType
  <1> HIDE DEF n
  <1>3. PICK page, told :
          /\ told = [step |-> "searched", behind |-> Behind(n, limit, offset),
                     response |-> Response(page, n, limit, offset)]
          /\ Read(q, told)
    BY <1>1
  <1>4. /\ told.step = "searched" /\ told.behind = Behind(n, limit, offset)
        /\ told.response.has_next = HasNext(n, limit, offset)
    BY <1>3 DEF Response
  <1>5. SearchedOf(told)
    BY <1>2, <1>4, PageArithmetic, PagesAssumption DEF SearchedOf
  <1>6. QED
    BY <1>3, <1>4, <1>5, ReaderTold

(* The invariant of the readers holds at first. *)
LEMMA InitQuery == InitQueries => QueryInv
  <1> SUFFICES ASSUME InitQueries PROVE QueryInv
    OBVIOUS
  <1>1. TableInv
    BY InitTable DEF InitQueries
  <1>2. DOMAIN reading = Readers /\ \A q \in Readers : reading[q].step = "idle"
    BY DEF InitQueries
  <1>3. QED
    BY <1>1, <1>2 DEF QueryInv, ReaderInv

(* The read requests change nothing but what they are told. *)
LEMMA ReadsWriteNothing == [NextQueries]_allVars => [Write]_vars
  <1> SUFFICES ASSUME [NextQueries]_allVars PROVE [Write]_vars
    OBVIOUS
  <1>1. CASE NextQueries
    BY <1>1 DEF NextQueries, GetItem, GetCategory, Get, ListItems, ListCategories, ListPage,
                ListTotal, SearchItems, SearchCategories, SearchTable, Read
  <1>2. CASE UNCHANGED allVars
    BY <1>2 DEF allVars
  <1>3. QED
    BY <1>1, <1>2

(* Every step of readers and write requests keeps it. *)
LEMMA NextQuery == QueryInv /\ [NextQueries]_allVars => QueryInv'
  <1> SUFFICES ASSUME QueryInv, [NextQueries]_allVars PROVE QueryInv'
    OBVIOUS
  <1>1. TableInv'
    BY ReadsWriteNothing, NextTable DEF QueryInv
  <1>2. ASSUME UNCHANGED <<rows, outbox, reading>> PROVE ReaderInv'
    <2>1. \A p, n : (PageOf(p, n) => PageOf(p, n)') /\ (ListedOf(p, n) => ListedOf(p, n)')
      BY <1>2 DEF PageOf, ListedOf, Moved, CommitsOn, CountActive, Active, Visible
    <2>2. ASSUME NEW q \in Readers
          PROVE  /\ reading[q].step = "page" => \E n \in Nat : PageOf(reading[q], n)'
                 /\ reading[q].step = "listed" => \E n \in Nat : ListedOf(reading[q], n)'
      <3>1. PICK p : p = reading[q]
        OBVIOUS
      <3>2. /\ p.step = "page" => \E n \in Nat : PageOf(p, n)
            /\ p.step = "listed" => \E n \in Nat : ListedOf(p, n)
        BY <3>1 DEF QueryInv, ReaderInv
      <3>3. /\ p.step = "page" => \E n \in Nat : PageOf(p, n)'
            /\ p.step = "listed" => \E n \in Nat : ListedOf(p, n)'
        BY <2>1, <3>2
      <3>4. QED
        BY <1>2, <3>1, <3>3 DEF PageOf, ListedOf
    <2>3. QED
      BY <1>2, <2>2 DEF QueryInv, ReaderInv, SearchedOf
  <1>3. ASSUME Write /\ UNCHANGED reading PROVE ReaderInv'
    <2>1. PICK r \in Requests : TableKind(r)
      BY <1>3, TableKinds DEF QueryInv, TableInv
    <2>2. CASE Records(r)
      BY <1>3, <2>2, ReaderKept
    <2>3. CASE ~Records(r)
      <3>1. UNCHANGED <<rows, outbox>>
        BY <2>1, <2>3 DEF TableKind, Refuses, Reads, ReadsAs, Save
      <3>2. QED
        BY <1>2, <1>3, <3>1
    <2>4. QED
      BY <2>2, <2>3
  <1>4. ASSUME NEW q \in Readers,
               \/ GetItem(q) \/ ListItems(q) \/ SearchItems(q) \/ ListTotal(q)
               \/ GetCategory(q) \/ ListCategories(q) \/ SearchCategories(q)
        PROVE  ReaderInv'
    <2>1. CASE GetItem(q)
      BY <2>1, GetTold DEF GetItem
    <2>2. CASE GetCategory(q)
      BY <2>2, GetTold DEF GetCategory
    <2>3. CASE ListItems(q) \/ ListCategories(q)
      BY <2>3, PageTold DEF ListItems, ListCategories
    <2>4. CASE ListTotal(q)
      BY <2>4, TotalTold
    <2>5. CASE SearchItems(q)
      <3>1. PICK query \in ItemQueries :
              \/ CastableQuery(query) /\ SearchTable(q, ItemIds, ItemSpec(query))
              \/ /\ ~CastableQuery(query)
                 /\ Read(q, [step |-> "failed", status |-> StatusOf.DatabaseError])
        BY <2>5 DEF SearchItems
      <3>2. CASE SearchTable(q, ItemIds, ItemSpec(query))
        BY <3>2, SearchTold
      <3>3. CASE Read(q, [step |-> "failed", status |-> StatusOf.DatabaseError])
        <4> DEFINE told == [step |-> "failed", status |-> StatusOf.DatabaseError]
        <4>1. told.step = "failed" /\ Read(q, told)
          BY <3>3
        <4> HIDE DEF told
        <4>2. QED
          BY <4>1, ReaderTold
      <3>4. QED
        BY <3>1, <3>2, <3>3
    <2>6. CASE SearchCategories(q)
      BY <2>6, SearchTold DEF SearchCategories
    <2>7. QED
      BY <1>4, <2>1, <2>2, <2>3, <2>4, <2>5, <2>6
  <1>5. ASSUME UNCHANGED allVars PROVE ReaderInv'
    <2>1. UNCHANGED <<rows, outbox, reading>>
      BY <1>5 DEF allVars, vars
    <2>2. QED
      BY <1>2, <2>1
  <1>6. ReaderInv'
    BY <1>3, <1>4, <1>5 DEF NextQueries
  <1>7. QED
    BY <1>1, <1>6 DEF QueryInv

-----------------------------------------------------------------------------

(* A reader has changed no row and recorded no event: what is proved of    *)
(* the write requests holds with readers among them.                       *)
THEOREM ReadersChangeNothing == SpecQueries => Spec
  <1>1. InitQueries => Init
    BY DEF InitQueries
  <1>2. QED
    BY <1>1, ReadsWriteNothing, PTL DEF SpecQueries, Spec

(* However many requests commit between the two statements of a list:      *)
(* has_next is wrong only if one did, on the table of the list; that of a  *)
(* search never is (query_handlers.py:51-52, pagination.py:29-31).         *)
THEOREM NextPage == SpecQueries => []NextPageIsTrue
  <1>1. QueryInv => NextPageIsTrue
    <2> SUFFICES ASSUME QueryInv, NEW q \in Readers
                 PROVE  /\ /\ reading[q].step = "listed"
                           /\ reading[q].response.has_next # (reading[q].behind > 0)
                           => CommitsOn(reading[q].table, reading[q].asOf, reading[q].until) # {}
                        /\ reading[q].step = "searched" =>
                             reading[q].response.has_next = (reading[q].behind > 0)
      BY DEF NextPageIsTrue
    <2>1. PICK p : p = reading[q]
      OBVIOUS
    <2>2. p.step = "searched" => p.response.has_next = (p.behind > 0)
      BY <2>1 DEF QueryInv, ReaderInv, SearchedOf
    <2>3. ASSUME p.step = "listed", CommitsOn(p.table, p.asOf, p.until) = {}
          PROVE  p.response.has_next = (p.behind > 0)
      <3>1. PICK n \in Nat : ListedOf(p, n)
        BY <2>1, <2>3 DEF QueryInv, ReaderInv
      <3>2. Moved(p.table, p.asOf, p.until) = 0
        BY <2>3, FS_EmptySet DEF Moved
      <3>3. n = p.response.total
        BY <3>1, <3>2 DEF ListedOf, Near
      <3>4. QED
        BY <3>1, <3>3, PageArithmetic DEF ListedOf
    <2>4. QED
      BY <2>1, <2>2, <2>3
  <1>2. QED
    BY <1>1, InitQuery, NextQuery, PTL DEF SpecQueries

(* The page and the total of a list differ by no more than the commits on  *)
(* its table between the two statements, for any pages, rows and requests  *)
(* (query_handlers.py:46-57).                                              *)
THEOREM BoundedDrift == SpecQueries => []DriftIsBounded
  <1>1. QueryInv => DriftIsBounded
    <2> SUFFICES ASSUME QueryInv, NEW q \in Readers, NEW p, p = reading[q], p.step = "listed"
                 PROVE  LET resp == p.response
                            moved == Cardinality(CommitsOn(p.table, p.asOf, p.until))
                            shown == resp.offset + Cardinality(resp.items)
                        IN  /\ resp.items # {} => shown <= resp.total + moved
                            /\ Cardinality(resp.items) < resp.limit => resp.total <= shown + moved
      BY DEF DriftIsBounded
    <2>1. PICK n \in Nat : ListedOf(p, n)
      BY DEF QueryInv, ReaderInv
    <2>2. PICK resp, moved : resp = p.response /\ moved = Moved(p.table, p.asOf, p.until)
      OBVIOUS
    <2>3. /\ resp.limit \in Nat /\ resp.offset \in Nat /\ resp.total \in Nat
          /\ Cardinality(resp.items) = OnPage(n, resp.limit, resp.offset)
          /\ IsFiniteSet(resp.items)
          /\ n <= resp.total + moved /\ resp.total <= n + moved
      BY <2>1, <2>2 DEF ListedOf, Near
    <2>4. moved \in Nat
      BY <2>1, <2>2, MovedType DEF ListedOf
    <2>5. resp.items # {} => OnPage(n, resp.limit, resp.offset) # 0
      BY <2>3, FS_EmptySet
    <2>6. /\ OnPage(n, resp.limit, resp.offset) \in Nat
          /\ OnPage(n, resp.limit, resp.offset) # 0 =>
               resp.offset + OnPage(n, resp.limit, resp.offset) <= n
          /\ OnPage(n, resp.limit, resp.offset) < resp.limit =>
               n <= resp.offset + OnPage(n, resp.limit, resp.offset)
      BY <2>3, PageArithmetic
    <2>7. /\ resp.items # {} => resp.offset + Cardinality(resp.items) <= resp.total + moved
          /\ Cardinality(resp.items) < resp.limit =>
               resp.total <= resp.offset + Cardinality(resp.items) + moved
      BY <2>3, <2>4, <2>5, <2>6
    <2>8. QED
      BY <2>2, <2>7 DEF Moved
  <1>2. QED
    BY <1>1, InitQuery, NextQuery, PTL DEF SpecQueries

-----------------------------------------------------------------------------
(* 6. COMPOSED SPECIFICATIONS IN THE TWO BACKENDS                          *)

Composites == {"and", "or", "not"}

(* What a specification says, from what its operands and its leaves say:   *)
(* the equation of Holds, ItemClause and CategoryClause.                   *)
ComposedStep(v, leaf, s) ==
  IF s.op = "and" THEN v[s.left] /\ v[s.right]
  ELSE IF s.op = "or" THEN v[s.left] \/ v[s.right]
  ELSE IF s.op = "not" THEN ~v[s.spec]
  ELSE leaf[s]

(* What a specification is composed of is asked for as well, and is less   *)
(* deep.                                                                   *)
LEMMA OperandsAre ==
  ASSUME NEW s \in Specs
  PROVE  /\ s.op \in {"and", "or"} => s.left \in Specs /\ s.right \in Specs
                /\ Height[s.left] < Height[s] /\ Height[s.right] < Height[s]
         /\ s.op = "not" => s.spec \in Specs /\ Height[s.spec] < Height[s]
         /\ Height[s] \in 0..MaxHeight
  <1>1. \A part \in Operands(s) : part \in Specs /\ Height[part] < Height[s]
    BY SpecsAssumption
  <1>2. s.op \in {"and", "or"} => s.left \in Operands(s) /\ s.right \in Operands(s)
    BY DEF Operands
  <1>3. s.op = "not" => s.spec \in Operands(s)
    BY DEF Operands
  <1>4. QED
    BY <1>1, <1>2, <1>3, SpecsAssumption

(* The step looks at the operands alone. *)
LEMMA SameStep ==
  ASSUME NEW s \in Specs, NEW v, NEW w, NEW leaf,
         \A part \in Specs : Height[part] < Height[s] => v[part] = w[part]
  PROVE  ComposedStep(v, leaf, s) = ComposedStep(w, leaf, s)
  <1>1. CASE s.op \in {"and", "or"}
    BY <1>1, OperandsAre DEF ComposedStep
  <1>2. CASE s.op = "not"
    BY <1>2, OperandsAre DEF ComposedStep
  <1>3. CASE s.op \notin Composites
    BY <1>3 DEF ComposedStep, Composites
  <1>4. QED
    BY <1>1, <1>2, <1>3 DEF Composites

(* The equation has a solution: one for the specifications of less than    *)
(* some height extends to those of that height.                            *)
LEMMA ComposedExists ==
  ASSUME NEW leaf
  PROVE  \E v : v = [s \in Specs |-> ComposedStep(v, leaf, s)]
  <1> DEFINE Below(k) == {s \in Specs : Height[s] < k}
             Solved(v, k) == v = [s \in Below(k) |-> ComposedStep(v, leaf, s)]
             T == {k \in 0..MaxHeight + 1 : \E v : Solved(v, k)}
  <1>1. MaxHeight \in Nat /\ \A s \in Specs : Height[s] \in 0..MaxHeight
    BY SpecsAssumption
  <1>2. 0 \in T
    <2>1. Below(0) = {}
      BY <1>1
    <2>2. Solved([s \in {} |-> TRUE], 0)
      BY <2>1
    <2> HIDE DEF Solved
    <2>3. \E v : Solved(v, 0)
      BY <2>2, Zenon
    <2>4. QED
      BY <1>1, <2>3
  <1>3. PICK k \in T : \A j \in T : j <= k
    <2> HIDE DEF Solved
    <2>1. T \subseteq 0..MaxHeight + 1 /\ T # {} /\ MaxHeight + 1 \in Nat
      BY <1>1, <1>2
    <2> HIDE DEF T
    <2>2. QED
      BY <2>1, Largest
  <1>4. k \in 0..MaxHeight + 1
    BY <1>3
  <1>5. PICK v : Solved(v, k)
    BY <1>3
  <1>6. \A s \in Below(k) : v[s] = ComposedStep(v, leaf, s)
    BY <1>5, Zenon
  <1>7. CASE k = MaxHeight + 1
    <2>1. Below(k) = Specs
      BY <1>1, <1>7
    <2>2. QED
      BY <1>5, <2>1
  <1>8. CASE k # MaxHeight + 1
    <2> DEFINE w == [s \in Below(k + 1) |->
                       IF s \in Below(k) THEN v[s] ELSE ComposedStep(v, leaf, s)]
    <2>1. \A s \in Below(k) : s \in Below(k + 1)
      BY <1>1, <1>4
    <2>2. \A s \in Below(k) : w[s] = v[s]
      BY <2>1, Zenon
    <2>3. DOMAIN w = Below(k + 1) /\ w = [s \in Below(k + 1) |-> w[s]]
      OBVIOUS
    <2>4. \A s \in Below(k + 1) :
            w[s] = IF s \in Below(k) THEN v[s] ELSE ComposedStep(v, leaf, s)
      BY Zenon
    <2>5. \A s \in Below(k + 1) : w[s] = ComposedStep(v, leaf, s)
      BY <1>6, <2>4, Zenon
    <2> HIDE DEF w
    <2>6. ASSUME NEW s \in Below(k + 1) PROVE w[s] = ComposedStep(w, leaf, s)
      <3>1. s \in Specs /\ \A part \in Specs : Height[part] < Height[s] => part \in Below(k)
        BY <1>1, <1>4
      <3>2. \A part \in Specs : Height[part] < Height[s] => v[part] = w[part]
        BY <2>2, <3>1
      <3>3. ComposedStep(v, leaf, s) = ComposedStep(w, leaf, s)
        BY <3>1, <3>2, SameStep
      <3>4. QED
        BY <2>5, <3>3
    <2>7. Solved(w, k + 1)
      <3> HIDE DEF Below
      <3>1. QED
        BY <2>3, <2>6, Zenon
    <2> HIDE DEF Solved
    <2>8. \E u : Solved(u, k + 1)
      BY <2>7, Zenon
    <2>9. k + 1 \in T
      BY <1>1, <1>4, <1>8, <2>8
    <2>10. QED
      BY <1>3, <1>4, <2>9
  <1>9. QED
    BY <1>7, <1>8

(* What the three operators say of a composed specification and of a leaf. *)
Says(value, s, leaf, left, right, spec) ==
  /\ s.op = "and" => value = (left /\ right)
  /\ s.op = "or" => value = (left \/ right)
  /\ s.op = "not" => value = (~spec)
  /\ s.op \notin Composites => value = leaf

(* So says the SQL clause of a specification of items ... *)
LEMMA ItemClauseSays ==
  ASSUME NEW row, NEW s \in Specs
  PROVE  Says(ItemClause(s, row), s, ItemCondition(s, row),
              ItemClause(s.left, row), ItemClause(s.right, row), ItemClause(s.spec, row))
  <1> DEFINE leaf == [t \in Specs |-> ItemCondition(t, row)]
             Body(v, t) == CASE t.op = "and" -> v[t.left] /\ v[t.right]
                             [] t.op = "or" -> v[t.left] \/ v[t.right]
                             [] t.op = "not" -> ~v[t.spec]
                             [] OTHER -> ItemCondition(t, row)
             Solves(v) == v = [t \in Specs |-> Body(v, t)]
             clause == CHOOSE v : Solves(v)
  <1>1. \A v : \A t \in Specs : Body(v, t) = ComposedStep(v, leaf, t)
    <2> SUFFICES ASSUME NEW v, NEW t \in Specs PROVE Body(v, t) = ComposedStep(v, leaf, t)
      OBVIOUS
    <2>1. leaf[t] = ItemCondition(t, row)
      OBVIOUS
    <2> HIDE DEF leaf
    <2>2. QED
      BY <2>1 DEF ComposedStep
  <1>2. \E v : Solves(v)
    <2>1. PICK v : v = [t \in Specs |-> ComposedStep(v, leaf, t)]
      BY ComposedExists
    <2> HIDE DEF Body, leaf
    <2>2. Solves(v)
      BY <1>1, <2>1, Zenon
    <2>3. QED
      BY <2>2
  <1>3. Solves(clause)
    BY <1>2, Zenon
  <1>4. \A t : ItemClause(t, row) = clause[t]
    BY DEF ItemClause
  <1> HIDE DEF clause
  <1>5. clause[s] = Body(clause, s)
    BY <1>3, Zenon
  <1>6. clause[s] = ComposedStep(clause, leaf, s) /\ leaf[s] = ItemCondition(s, row)
    BY <1>1, <1>5
  <1> HIDE DEF leaf
  <1>7. QED
    BY <1>4, <1>6 DEF Says, ComposedStep, Composites

(* ... that of a specification of categories ... *)
LEMMA CategoryClauseSays ==
  ASSUME NEW row, NEW s \in Specs
  PROVE  Says(CategoryClause(s, row), s, CategoryCondition(s, row),
              CategoryClause(s.left, row), CategoryClause(s.right, row), CategoryClause(s.spec, row))
  <1> DEFINE leaf == [t \in Specs |-> CategoryCondition(t, row)]
             Body(v, t) == CASE t.op = "and" -> v[t.left] /\ v[t.right]
                             [] t.op = "or" -> v[t.left] \/ v[t.right]
                             [] t.op = "not" -> ~v[t.spec]
                             [] OTHER -> CategoryCondition(t, row)
             Solves(v) == v = [t \in Specs |-> Body(v, t)]
             clause == CHOOSE v : Solves(v)
  <1>1. \A v : \A t \in Specs : Body(v, t) = ComposedStep(v, leaf, t)
    <2> SUFFICES ASSUME NEW v, NEW t \in Specs PROVE Body(v, t) = ComposedStep(v, leaf, t)
      OBVIOUS
    <2>1. leaf[t] = CategoryCondition(t, row)
      OBVIOUS
    <2> HIDE DEF leaf
    <2>2. QED
      BY <2>1 DEF ComposedStep
  <1>2. \E v : Solves(v)
    <2>1. PICK v : v = [t \in Specs |-> ComposedStep(v, leaf, t)]
      BY ComposedExists
    <2> HIDE DEF Body, leaf
    <2>2. Solves(v)
      BY <1>1, <2>1, Zenon
    <2>3. QED
      BY <2>2
  <1>3. Solves(clause)
    BY <1>2, Zenon
  <1>4. \A t : CategoryClause(t, row) = clause[t]
    BY DEF CategoryClause
  <1> HIDE DEF clause
  <1>5. clause[s] = Body(clause, s)
    BY <1>3, Zenon
  <1>6. clause[s] = ComposedStep(clause, leaf, s) /\ leaf[s] = CategoryCondition(s, row)
    BY <1>1, <1>5
  <1> HIDE DEF leaf
  <1>7. QED
    BY <1>4, <1>6 DEF Says, ComposedStep, Composites
(* The rule of a specification that is not composed. *)
Rule(s, row) == IF IsItem(row) THEN ItemHolds(s, row) ELSE CategoryHolds(s, row)

(* ... and is_satisfied_by of either. *)
LEMMA HoldsSays ==
  ASSUME NEW row, NEW s \in Specs
  PROVE  Says(Holds(s, row), s, Rule(s, row),
              Holds(s.left, row), Holds(s.right, row), Holds(s.spec, row))
  <1> DEFINE leaf == [t \in Specs |-> Rule(t, row)]
             Body(v, t) == CASE t.op = "and" -> v[t.left] /\ v[t.right]
                             [] t.op = "or" -> v[t.left] \/ v[t.right]
                             [] t.op = "not" -> ~v[t.spec]
                             [] OTHER -> Rule(t, row)
             Solves(v) == v = [t \in Specs |-> Body(v, t)]
             holds == CHOOSE v : Solves(v)
  <1>1. \A v : \A t \in Specs : Body(v, t) = ComposedStep(v, leaf, t)
    <2> SUFFICES ASSUME NEW v, NEW t \in Specs PROVE Body(v, t) = ComposedStep(v, leaf, t)
      OBVIOUS
    <2>1. leaf[t] = Rule(t, row)
      OBVIOUS
    <2> HIDE DEF leaf
    <2>2. QED
      BY <2>1 DEF ComposedStep
  <1>2. \E v : Solves(v)
    <2>1. PICK v : v = [t \in Specs |-> ComposedStep(v, leaf, t)]
      BY ComposedExists
    <2> HIDE DEF Body, leaf
    <2>2. Solves(v)
      BY <1>1, <2>1, Zenon
    <2>3. QED
      BY <2>2
  <1>3. Solves(holds)
    BY <1>2, Zenon
  <1>4. \A t : Holds(t, row) = holds[t]
    BY DEF Holds, Rule
  <1> HIDE DEF holds
  <1>5. holds[s] = Body(holds, s)
    BY <1>3, Zenon
  <1>6. holds[s] = ComposedStep(holds, leaf, s) /\ leaf[s] = Rule(s, row)
    BY <1>1, <1>5
  <1> HIDE DEF leaf
  <1>7. QED
    BY <1>4, <1>6 DEF Says, ComposedStep, Composites

(* A price that the column can hold as it is. *)
Held(price) == price \in Int /\ Rounded(price) = price /\ InRange(price)

(* A leaf of the filters of items, and one of those of categories, whose   *)
(* keyword has no wild character and whose bounds the column can hold.     *)
ItemLeaf(s) ==
  \/ s.op \in {"all", "active"}
  \/ s.op = "price" /\ \A f \in Bounds \cap DOMAIN s.bounds : Held(s.bounds[f])
  \/ s.op = "name" /\ s.keyword \in Seq(Chars) /\ Plain(s.keyword)
CategoryLeaf(s) ==
  \/ s.op \in {"all", "active", "slug"}
  \/ s.op = "name" /\ s.keyword \in Seq(Chars) /\ Plain(s.keyword)

(* On a filter that is not composed the backends agree. *)
LEMMA ItemLeavesAgree ==
  ASSUME NEW s, ItemLeaf(s), NEW row, row.name \in Seq(Chars), row.price \in Int
  PROVE  ItemCondition(s, row) = ItemHolds(s, row)
  <1>1. CASE s.op \in {"all", "active"}
    BY <1>1 DEF ItemCondition, ItemHolds
  <1>2. CASE s.op = "price"
    <2>1. /\ "min_price" \in DOMAIN s.bounds =>
               s.bounds.min_price \in Int /\ Rounded(s.bounds.min_price) = s.bounds.min_price
          /\ "max_price" \in DOMAIN s.bounds =>
               s.bounds.max_price \in Int /\ Rounded(s.bounds.max_price) = s.bounds.max_price
      BY <1>2 DEF ItemLeaf, Held, Bounds
    <2>2. /\ (Param(s.bounds, "min_price", row.price) <= row.price) <=>
                ("min_price" \in DOMAIN s.bounds => row.price >= s.bounds.min_price)
          /\ (row.price <= Param(s.bounds, "max_price", row.price)) <=>
                ("max_price" \in DOMAIN s.bounds => row.price <= s.bounds.max_price)
      BY <2>1 DEF Param
    <2>3. ItemHolds(s, row) = (/\ Param(s.bounds, "min_price", row.price) <= row.price
                               /\ row.price <= Param(s.bounds, "max_price", row.price))
      BY <1>2 DEF ItemHolds
    <2>4. ItemCondition(s, row) =
            (/\ "min_price" \in DOMAIN s.bounds => row.price >= Rounded(s.bounds.min_price)
             /\ "max_price" \in DOMAIN s.bounds => row.price <= Rounded(s.bounds.max_price))
      BY <1>2 DEF ItemCondition
    <2>5. QED
      BY <2>1, <2>2, <2>3, <2>4
  <1>3. CASE s.op = "name"
    <2>1. SqlContains(Lower(s.keyword), row.name) = Within(Lower(s.keyword), Lower(row.name))
      BY <1>3, LikeIsIn DEF ItemLeaf
    <2>2. QED
      BY <1>3, <2>1 DEF ItemCondition, ItemHolds
  <1>4. QED
    BY <1>1, <1>2, <1>3 DEF ItemLeaf

(* The same for categories. *)
LEMMA CategoryLeavesAgree ==
  ASSUME NEW s, CategoryLeaf(s), NEW row, row.name \in Seq(Chars)
  PROVE  CategoryCondition(s, row) = CategoryHolds(s, row)
  <1>1. CASE s.op \in {"all", "active", "slug"}
    BY <1>1 DEF CategoryCondition, CategoryHolds
  <1>2. CASE s.op = "name"
    <2>1. SqlContains(Lower(s.keyword), row.name) = Within(Lower(s.keyword), Lower(row.name))
      BY <1>2, LikeIsIn DEF CategoryLeaf
    <2>2. QED
      BY <1>2, <2>1 DEF CategoryCondition, CategoryHolds
  <1>3. QED
    BY <1>1, <1>2 DEF CategoryLeaf

(* A specification of the table of a row that is composed, however deep,   *)
(* of such leaves alone: it lies in a set that is closed under operands.   *)
Leaf(s, row) == IF IsItem(row) THEN ItemLeaf(s) ELSE CategoryLeaf(s)
Closed(S, row) ==
  \A s \in S : /\ s \in Specs /\ Operands(s) \subseteq S
               /\ s.op \notin Composites => Leaf(s, row)
BuiltOfLeaves(spec, row) == \E S : spec \in S /\ Closed(S, row)

(* What the two backends read of a row. *)
Readable(row) == row.name \in Seq(Chars) /\ (IsItem(row) => row.price \in Int)

(* Whatever is composed of plain filters, with bounds that the price       *)
(* column can hold as they are, and however deep: the clause that the      *)
(* translator makes of it is true of a row exactly when the specification  *)
(* is satisfied by the aggregate, for names and keywords in ASCII          *)
(* (base.py:44-99, specification_translator.py:53-85, models.py:28,        *)
(* specification_translator_category.py:53-80).                            *)
THEOREM BackendsAgree ==
  ASSUME NEW row, Readable(row), NEW spec, BuiltOfLeaves(spec, row)
  PROVE  Clause(spec, row) = Holds(spec, row)
  <1>0. PICK S : spec \in S /\ Closed(S, row)
    BY DEF BuiltOfLeaves
  <1> DEFINE Differ == {s \in S : Clause(s, row) # Holds(s, row)}
             T == {Height[s] : s \in Differ}
  <1>1. SUFFICES ASSUME Differ # {} PROVE FALSE
    BY <1>0
  <1>2. \A s \in S : s \in Specs /\ Height[s] \in Nat
    BY <1>0, SpecsAssumption DEF Closed
  <1>3. T \subseteq Nat /\ T # {}
    BY <1>1, <1>2
  <1>4. PICK h \in T : \A k \in T : h <= k
    <2> HIDE DEF T
    <2>1. QED
      BY <1>3, Smallest
  <1>5. PICK s \in Differ : h = Height[s]
    BY <1>4
  <1>6. s \in S /\ s \in Specs /\ Clause(s, row) # Holds(s, row)
    BY <1>2, <1>5
  <1>7. ASSUME NEW part \in Operands(s) PROVE Clause(part, row) = Holds(part, row)
    <2>1. part \in S /\ Height[part] < Height[s]
      BY <1>0, <1>6, SpecsAssumption DEF Closed
    <2>2. Height[part] \in Nat /\ Height[s] \in Nat
      BY <1>2, <1>6, <2>1
    <2>3. part \notin Differ
      BY <1>4, <1>5, <2>1, <2>2
    <2>4. QED
      BY <2>1, <2>3
  <1>8. row.name \in Seq(Chars) /\ (IsItem(row) => row.price \in Int)
    BY DEF Readable
  <1> DEFINE leaf == IF IsItem(row) THEN ItemCondition(s, row) ELSE CategoryCondition(s, row)
  <1>9. Says(Clause(s, row), s, leaf, Clause(s.left, row), Clause(s.right, row), Clause(s.spec, row))
    BY <1>6, ItemClauseSays, CategoryClauseSays DEF Clause
  <1>10. Says(Holds(s, row), s, Rule(s, row),
              Holds(s.left, row), Holds(s.right, row), Holds(s.spec, row))
    BY <1>6, HoldsSays
  <1>11. s.op \notin Composites => leaf = Rule(s, row)
    <2>1. s.op \notin Composites => Leaf(s, row)
      BY <1>0, <1>6 DEF Closed
    <2>2. CASE IsItem(row)
      BY <1>8, <2>1, <2>2, ItemLeavesAgree DEF Rule, Leaf
    <2>3. CASE ~IsItem(row)
      BY <1>8, <2>1, <2>3, CategoryLeavesAgree DEF Rule, Leaf
    <2>4. QED
      BY <2>2, <2>3
  <1> HIDE DEF leaf, Differ, T
  <1>12. CASE s.op \in {"and", "or"}
    <2>1. Clause(s.left, row) = Holds(s.left, row) /\ Clause(s.right, row) = Holds(s.right, row)
      BY <1>7, <1>12 DEF Operands
    <2>2. QED
      BY <1>6, <1>9, <1>10, <1>12, <2>1 DEF Says
  <1>13. CASE s.op = "not"
    <2>1. Clause(s.spec, row) = Holds(s.spec, row)
      BY <1>7, <1>13 DEF Operands
    <2>2. QED
      BY <1>6, <1>9, <1>10, <1>13, <2>1 DEF Says
  <1>14. CASE s.op \notin Composites
    BY <1>6, <1>9, <1>10, <1>11, <1>14 DEF Says
  <1>15. QED
    BY <1>12, <1>13, <1>14 DEF Composites

-----------------------------------------------------------------------------
(* 7. WHAT A SEARCH FINDS                                                  *)

PriceFilter(query) == [op |-> "price", bounds |-> Some(query, Bounds)]
NameFilter(query) == [op |-> "name", keyword |-> query.name_contains]
SlugFilter(query) == [op |-> "slug", slug |-> query.slug]

(* The compositions and filters, field by field. *)
LEMMA OperandsOf ==
  /\ \A a, b : Operands(And(a, b)) = {a, b} /\ And(a, b).op = "and"
       /\ And(a, b).left = a /\ And(a, b).right = b
  /\ \A a, b : Operands(Or(a, b)) = {a, b} /\ Or(a, b).op = "or"
  /\ \A a : Operands(Not(a)) = {a} /\ Not(a).op = "not"
  /\ Operands(ActiveOnly) = {} /\ ActiveOnly.op = "active"
  /\ \A query : /\ Operands(PriceFilter(query)) = {} /\ PriceFilter(query).op = "price"
                /\ PriceFilter(query).bounds = Some(query, Bounds)
                /\ Operands(NameFilter(query)) = {} /\ NameFilter(query).op = "name"
                /\ NameFilter(query).keyword = query.name_contains
                /\ Operands(SlugFilter(query)) = {} /\ SlugFilter(query).op = "slug"
                /\ SlugFilter(query).slug = query.slug
  BY DEF Operands, And, Or, Not, ActiveOnly, PriceFilter, NameFilter, SlugFilter

(* The bounds of a price filter are those of the query. *)
LEMMA BoundsAre ==
  ASSUME NEW query
  PROVE  LET bounds == Some(query, Bounds)
         IN  /\ DOMAIN bounds = Bounds \cap DOMAIN query
             /\ \A f \in DOMAIN bounds : bounds[f] = query[f]
  BY DEF Some

(* The specification of a query: one filter on the other. *)
LEMMA ItemSpecForm ==
  ASSUME NEW query
  PROVE  \E priced :
           /\ \/ priced = ActiveOnly /\ Bounds \cap DOMAIN query = {}
              \/ priced = And(ActiveOnly, PriceFilter(query)) /\ Bounds \cap DOMAIN query # {}
           /\ \/ ItemSpec(query) = priced /\ "name_contains" \notin DOMAIN query
              \/ ItemSpec(query) = And(priced, NameFilter(query)) /\ "name_contains" \in DOMAIN query
  <1> DEFINE bounds == Some(query, Bounds)
             priced == IF DOMAIN bounds = {} THEN ActiveOnly
                       ELSE And(ActiveOnly, PriceFilter(query))
  <1>1. ItemSpec(query) = IF "name_contains" \notin DOMAIN query THEN priced
                          ELSE And(priced, NameFilter(query))
    BY DEF ItemSpec, PriceFilter, NameFilter, Bounds
  <1>2. DOMAIN bounds = Bounds \cap DOMAIN query
    BY BoundsAre
  <1> HIDE DEF bounds
  <1>3. \/ priced = ActiveOnly /\ Bounds \cap DOMAIN query = {}
        \/ priced = And(ActiveOnly, PriceFilter(query)) /\ Bounds \cap DOMAIN query # {}
    BY <1>2
  <1> HIDE DEF priced
  <1>4. QED
    BY <1>1, <1>3

(* The same for categories. *)
LEMMA CategorySpecForm ==
  ASSUME NEW query
  PROVE  \E named :
           /\ \/ named = ActiveOnly /\ "name_contains" \notin DOMAIN query
              \/ named = And(ActiveOnly, NameFilter(query)) /\ "name_contains" \in DOMAIN query
           /\ \/ CategorySpec(query) = named /\ "slug" \notin DOMAIN query
              \/ CategorySpec(query) = And(named, SlugFilter(query)) /\ "slug" \in DOMAIN query
  <1> DEFINE named == IF "name_contains" \notin DOMAIN query THEN ActiveOnly
                      ELSE And(ActiveOnly, NameFilter(query))
  <1>1. CategorySpec(query) = IF "slug" \notin DOMAIN query THEN named
                              ELSE And(named, SlugFilter(query))
    BY DEF CategorySpec, SlugFilter, NameFilter
  <1>2. \/ named = ActiveOnly /\ "name_contains" \notin DOMAIN query
        \/ named = And(ActiveOnly, NameFilter(query)) /\ "name_contains" \in DOMAIN query
    OBVIOUS
  <1> HIDE DEF named
  <1>3. QED
    BY <1>1, <1>2

(* What a conjunction that is asked for is made of is asked for. *)
LEMMA OperandsAsked ==
  ASSUME NEW a, NEW b, And(a, b) \in Specs
  PROVE  a \in Specs /\ b \in Specs
  BY OperandsOf, SpecsAssumption

(* is_satisfied_by of a conjunction. *)
LEMMA HoldsAnd ==
  ASSUME NEW a, NEW b, And(a, b) \in Specs, NEW row
  PROVE  Holds(And(a, b), row) = (Holds(a, row) /\ Holds(b, row))
  <1>1. And(a, b).op = "and" /\ And(a, b).left = a /\ And(a, b).right = b
    BY OperandsOf
  <1>2. Says(Holds(And(a, b), row), And(a, b), Rule(And(a, b), row), Holds(And(a, b).left, row),
             Holds(And(a, b).right, row), Holds(And(a, b).spec, row))
    BY HoldsSays
  <1>3. QED
    BY <1>1, <1>2 DEF Says

(* is_satisfied_by of a filter. *)
LEMMA HoldsLeaf ==
  ASSUME NEW s \in Specs, s.op \notin Composites, NEW row
  PROVE  Holds(s, row) = Rule(s, row)
  <1>1. Says(Holds(s, row), s, Rule(s, row), Holds(s.left, row), Holds(s.right, row), Holds(s.spec, row))
    BY HoldsSays
  <1>2. QED
    BY <1>1 DEF Says

(* What a query asks of an item, and what its specification says of it.    *)
ItemWanted(query, row) ==
  /\ ~row.deleted /\ Named(query, row)
  /\ "min_price" \in DOMAIN query => query.min_price <= row.price
  /\ "max_price" \in DOMAIN query => row.price <= query.max_price
CategoryWanted(query, row) ==
  /\ ~row.deleted /\ Named(query, row)
  /\ "slug" \in DOMAIN query => row.slug = query.slug

(* The specifications of the queries are asked for. *)
LEMMA SpecsOfQueries ==
  /\ \A query \in ItemQueries : ItemSpec(query) \in Specs
  /\ \A query \in CategoryQueries : CategorySpec(query) \in Specs
  BY QueriesAssumption DEF Compositions

(* The clause of a conjunction, and that of a filter of items. *)
LEMMA ClauseAnd ==
  ASSUME NEW a, NEW b, And(a, b) \in Specs, NEW row, IsItem(row)
  PROVE  Clause(And(a, b), row) = (Clause(a, row) /\ Clause(b, row))
  <1>1. And(a, b).op = "and" /\ And(a, b).left = a /\ And(a, b).right = b
    BY OperandsOf
  <1>2. Says(ItemClause(And(a, b), row), And(a, b), ItemCondition(And(a, b), row),
             ItemClause(And(a, b).left, row), ItemClause(And(a, b).right, row),
             ItemClause(And(a, b).spec, row))
    BY ItemClauseSays
  <1>3. QED
    BY <1>1, <1>2 DEF Says, Clause

(* What the translators make of a leaf. *)
LEMMA ClauseLeaf ==
  ASSUME NEW s \in Specs, s.op \notin Composites, NEW row, IsItem(row)
  PROVE  Clause(s, row) = ItemCondition(s, row)
  <1>1. Says(ItemClause(s, row), s, ItemCondition(s, row), ItemClause(s.left, row),
             ItemClause(s.right, row), ItemClause(s.spec, row))
    BY ItemClauseSays
  <1>2. QED
    BY <1>1 DEF Says, Clause

(* When T has a conjunction exactly when it has its two parts, it has the  *)
(* specification of a query exactly when it has all its filters.           *)
LEMMA ItemSpecSays ==
  ASSUME NEW query \in ItemQueries, NEW T,
         \A a, b : And(a, b) \in Specs => (And(a, b) \in T <=> a \in T /\ b \in T)
  PROVE  /\ ActiveOnly \in Specs
         /\ Bounds \cap DOMAIN query # {} => PriceFilter(query) \in Specs
         /\ "name_contains" \in DOMAIN query => NameFilter(query) \in Specs
         /\ ItemSpec(query) \in T <=>
              /\ ActiveOnly \in T
              /\ Bounds \cap DOMAIN query # {} => PriceFilter(query) \in T
              /\ "name_contains" \in DOMAIN query => NameFilter(query) \in T
  <1>1. PICK priced :
          /\ \/ priced = ActiveOnly /\ Bounds \cap DOMAIN query = {}
             \/ priced = And(ActiveOnly, PriceFilter(query)) /\ Bounds \cap DOMAIN query # {}
          /\ \/ ItemSpec(query) = priced /\ "name_contains" \notin DOMAIN query
             \/ ItemSpec(query) = And(priced, NameFilter(query)) /\ "name_contains" \in DOMAIN query
    BY ItemSpecForm
  <1>2. ItemSpec(query) \in Specs
    BY SpecsOfQueries
  <1>3. priced \in Specs /\ ("name_contains" \in DOMAIN query => NameFilter(query) \in Specs)
    BY <1>1, <1>2, OperandsAsked
  <1>4. ActiveOnly \in Specs /\ (Bounds \cap DOMAIN query # {} => PriceFilter(query) \in Specs)
    BY <1>1, <1>3, OperandsAsked
  <1>5. priced \in T <=>
          ActiveOnly \in T /\ (Bounds \cap DOMAIN query # {} => PriceFilter(query) \in T)
    BY <1>1, <1>3
  <1>6. ItemSpec(query) \in T <=>
          priced \in T /\ ("name_contains" \in DOMAIN query => NameFilter(query) \in T)
    BY <1>1, <1>2
  <1>7. QED
    BY <1>3, <1>4, <1>5, <1>6

(* The specification of a query holds of the items the query asks for. *)
LEMMA ItemSpecHolds ==
  ASSUME NEW query \in ItemQueries, NEW id \in ItemIds, NEW row, Whole(id, row)
  PROVE  Holds(ItemSpec(query), row) <=> ItemWanted(query, row)
  <1> DEFINE T == {s \in Specs : Holds(s, row)}
  <1>1. \A a, b : And(a, b) \in Specs => (And(a, b) \in T <=> a \in T /\ b \in T)
    BY HoldsAnd, OperandsAsked
  <1>2. \A s \in Specs : s \in T <=> Holds(s, row)
    OBVIOUS
  <1> HIDE DEF T
  <1>3. /\ ActiveOnly \in Specs
        /\ Bounds \cap DOMAIN query # {} => PriceFilter(query) \in Specs
        /\ "name_contains" \in DOMAIN query => NameFilter(query) \in Specs
        /\ ItemSpec(query) \in T <=>
             /\ ActiveOnly \in T
             /\ Bounds \cap DOMAIN query # {} => PriceFilter(query) \in T
             /\ "name_contains" \in DOMAIN query => NameFilter(query) \in T
    BY <1>1, ItemSpecSays
  <1>4. IsItem(row) /\ row.price \in Int
    BY ColumnsAre DEF IsItem, Whole, Fits
  <1>5. ActiveOnly \in T <=> ~row.deleted
    <2>1. Rule(ActiveOnly, row) = ~row.deleted
      BY <1>4, OperandsOf DEF Rule, ItemHolds
    <2>2. QED
      BY <1>2, <1>3, <2>1, HoldsLeaf, OperandsOf DEF Composites
  <1>6. "name_contains" \in DOMAIN query => (NameFilter(query) \in T <=> Named(query, row))
    <2>1. Rule(NameFilter(query), row) = Within(Lower(query.name_contains), Lower(row.name))
      BY <1>4, OperandsOf DEF Rule, ItemHolds
    <2>2. QED
      BY <1>2, <1>3, <2>1, HoldsLeaf, OperandsOf DEF Composites, Named
  <1> DEFINE priced == /\ "min_price" \in DOMAIN query => query.min_price <= row.price
                       /\ "max_price" \in DOMAIN query => row.price <= query.max_price
  <1>7. Bounds \cap DOMAIN query # {} => (PriceFilter(query) \in T <=> priced)
    <2> DEFINE bounds == Some(query, Bounds)
    <2>1. Rule(PriceFilter(query), row) =
            (/\ Param(bounds, "min_price", row.price) <= row.price
             /\ row.price <= Param(bounds, "max_price", row.price))
      BY <1>4, OperandsOf DEF Rule, ItemHolds
    <2>2. /\ "min_price" \in DOMAIN bounds <=> "min_price" \in DOMAIN query
          /\ "max_price" \in DOMAIN bounds <=> "max_price" \in DOMAIN query
          /\ "min_price" \in DOMAIN bounds => bounds["min_price"] = query.min_price
          /\ "max_price" \in DOMAIN bounds => bounds["max_price"] = query.max_price
      BY BoundsAre DEF Bounds
    <2> HIDE DEF bounds
    <2>3. /\ Param(bounds, "min_price", row.price) =
               IF "min_price" \in DOMAIN query THEN query.min_price ELSE row.price
          /\ Param(bounds, "max_price", row.price) =
               IF "max_price" \in DOMAIN query THEN query.max_price ELSE row.price
      BY <2>2 DEF Param
    <2>4. Rule(PriceFilter(query), row) <=> priced
      BY <1>4, <2>1, <2>3
    <2>5. QED
      BY <1>2, <1>3, <2>4, HoldsLeaf, OperandsOf DEF Composites
  <1>8. ItemWanted(query, row) <=> ~row.deleted /\ Named(query, row) /\ priced
    BY DEF ItemWanted
  <1>9. (Bounds \cap DOMAIN query = {} => priced) /\ ("name_contains" \notin DOMAIN query => Named(query, row))
    BY DEF Bounds, Named
  <1>10. ItemSpec(query) \in T <=> Holds(ItemSpec(query), row)
    BY <1>2, SpecsOfQueries
  <1> HIDE DEF priced
  <1>11. QED
    BY <1>3, <1>5, <1>6, <1>7, <1>8, <1>9, <1>10

(* The clause of a plain query is true of the rows that the query with its *)
(* bounds rounded asks for.                                                *)
LEMMA ItemSpecFinds ==
  ASSUME NEW query \in ItemQueries, PlainQuery(query), NEW id \in ItemIds, NEW row, Whole(id, row)
  PROVE  Clause(ItemSpec(query), row) <=> ItemWanted(RoundedQuery(query), row)
  <1> DEFINE T == {s \in Specs : Clause(s, row)}
  <1>0. IsItem(row) /\ row.price \in Int /\ row.name \in Seq(Chars)
    BY ColumnsAre DEF IsItem, Whole, Fits
  <1>1. \A a, b : And(a, b) \in Specs => (And(a, b) \in T <=> a \in T /\ b \in T)
    BY <1>0, ClauseAnd, OperandsAsked
  <1>2. \A s \in Specs : s \in T <=> Clause(s, row)
    OBVIOUS
  <1> HIDE DEF T
  <1>3. /\ ActiveOnly \in Specs
        /\ Bounds \cap DOMAIN query # {} => PriceFilter(query) \in Specs
        /\ "name_contains" \in DOMAIN query => NameFilter(query) \in Specs
        /\ ItemSpec(query) \in T <=>
             /\ ActiveOnly \in T
             /\ Bounds \cap DOMAIN query # {} => PriceFilter(query) \in T
             /\ "name_contains" \in DOMAIN query => NameFilter(query) \in T
    BY <1>1, ItemSpecSays
  <1>4. ActiveOnly \in T <=> ~row.deleted
    <2>1. ItemCondition(ActiveOnly, row) = ~row.deleted
      BY OperandsOf DEF ItemCondition
    <2>2. QED
      BY <1>0, <1>2, <1>3, <2>1, ClauseLeaf, OperandsOf DEF Composites
  <1>5. "name_contains" \in DOMAIN query => (NameFilter(query) \in T <=> Named(query, row))
    <2> SUFFICES ASSUME "name_contains" \in DOMAIN query
                 PROVE  NameFilter(query) \in T <=> Named(query, row)
      OBVIOUS
    <2>1. ItemCondition(NameFilter(query), row) = SqlContains(Lower(query.name_contains), row.name)
      BY OperandsOf DEF ItemCondition
    <2>2. query.name_contains \in Seq(Chars) /\ Plain(query.name_contains)
      BY QueriesAssumption DEF PlainQuery
    <2>3. SqlContains(Lower(query.name_contains), row.name) =
            Within(Lower(query.name_contains), Lower(row.name))
      BY <1>0, <2>2, LikeIsIn
    <2>4. QED
      BY <1>0, <1>2, <1>3, <2>1, <2>3, ClauseLeaf, OperandsOf DEF Composites, Named
  <1> DEFINE priced == /\ "min_price" \in DOMAIN query => Rounded(query.min_price) <= row.price
                       /\ "max_price" \in DOMAIN query => row.price <= Rounded(query.max_price)
  <1>6. Bounds \cap DOMAIN query # {} => (PriceFilter(query) \in T <=> priced)
    <2> DEFINE bounds == Some(query, Bounds)
    <2>1. ItemCondition(PriceFilter(query), row) =
            (/\ "min_price" \in DOMAIN bounds => row.price >= Rounded(bounds["min_price"])
             /\ "max_price" \in DOMAIN bounds => row.price <= Rounded(bounds["max_price"]))
      BY OperandsOf DEF ItemCondition
    <2>2. /\ "min_price" \in DOMAIN bounds <=> "min_price" \in DOMAIN query
          /\ "max_price" \in DOMAIN bounds <=> "max_price" \in DOMAIN query
          /\ "min_price" \in DOMAIN bounds => bounds["min_price"] = query.min_price
          /\ "max_price" \in DOMAIN bounds => bounds["max_price"] = query.max_price
      BY BoundsAre DEF Bounds
    <2> HIDE DEF bounds
    <2>3. ("min_price" \in DOMAIN query => Rounded(query.min_price) \in Int)
          /\ ("max_price" \in DOMAIN query => Rounded(query.max_price) \in Int)
      BY QueriesAssumption, RoundedTwice DEF Bounds
    <2>4. ItemCondition(PriceFilter(query), row) <=> priced
      BY <1>0, <2>1, <2>2, <2>3
    <2>5. QED
      BY <1>0, <1>2, <1>3, <2>4, ClauseLeaf, OperandsOf DEF Composites
  <1>7. ItemWanted(RoundedQuery(query), row) <=> ~row.deleted /\ Named(query, row) /\ priced
    <2> DEFINE rounded == RoundedQuery(query)
    <2>1. /\ DOMAIN rounded = DOMAIN query
          /\ "min_price" \in DOMAIN query => rounded["min_price"] = Rounded(query.min_price)
          /\ "max_price" \in DOMAIN query => rounded["max_price"] = Rounded(query.max_price)
          /\ "name_contains" \in DOMAIN query => rounded["name_contains"] = query.name_contains
      BY DEF RoundedQuery, Bounds
    <2> HIDE DEF rounded
    <2>2. ItemWanted(rounded, row) <=> ~row.deleted /\ Named(query, row) /\ priced
      BY <2>1 DEF ItemWanted, Named
    <2>3. QED
      BY <2>2 DEF rounded
  <1>8. (Bounds \cap DOMAIN query = {} => priced) /\ ("name_contains" \notin DOMAIN query => Named(query, row))
    BY DEF Bounds, Named
  <1>9. ItemSpec(query) \in T <=> Clause(ItemSpec(query), row)
    BY <1>2, SpecsOfQueries
  <1> HIDE DEF priced
  <1>10. QED
    BY <1>3, <1>4, <1>5, <1>6, <1>7, <1>8, <1>9

(* The same for categories. *)
LEMMA CategorySpecHolds ==
  ASSUME NEW query \in CategoryQueries, NEW id \in CategoryIds, NEW row, Whole(id, row)
  PROVE  Holds(CategorySpec(query), row) <=> CategoryWanted(query, row)
  <1>1. PICK named :
          /\ \/ named = ActiveOnly /\ "name_contains" \notin DOMAIN query
             \/ named = And(ActiveOnly, NameFilter(query)) /\ "name_contains" \in DOMAIN query
          /\ \/ CategorySpec(query) = named /\ "slug" \notin DOMAIN query
             \/ CategorySpec(query) = And(named, SlugFilter(query)) /\ "slug" \in DOMAIN query
    BY CategorySpecForm
  <1>2. named \in Specs /\ ActiveOnly \in Specs
        /\ ("name_contains" \in DOMAIN query => NameFilter(query) \in Specs)
        /\ ("slug" \in DOMAIN query => SlugFilter(query) \in Specs)
    BY <1>1, SpecsOfQueries, OperandsAsked
  <1>3. ~IsItem(row)
    BY ColumnsAre DEF IsItem, Whole
  <1>4. Holds(ActiveOnly, row) = ~row.deleted
    <2>1. Rule(ActiveOnly, row) = ~row.deleted
      BY <1>3, OperandsOf DEF Rule, CategoryHolds
    <2>2. QED
      BY <1>2, <2>1, HoldsLeaf, OperandsOf DEF Composites
  <1>5. "name_contains" \in DOMAIN query => (Holds(NameFilter(query), row) <=> Named(query, row))
    <2>1. Rule(NameFilter(query), row) = Within(Lower(query.name_contains), Lower(row.name))
      BY <1>3, OperandsOf DEF Rule, CategoryHolds
    <2>2. QED
      BY <1>2, <2>1, HoldsLeaf, OperandsOf DEF Composites, Named
  <1>6. "slug" \in DOMAIN query => (Holds(SlugFilter(query), row) <=> row.slug = query.slug)
    <2>1. Rule(SlugFilter(query), row) = (row.slug = query.slug)
      BY <1>3, OperandsOf DEF Rule, CategoryHolds
    <2>2. QED
      BY <1>2, <2>1, HoldsLeaf, OperandsOf DEF Composites
  <1>7. Holds(named, row) <=> ~row.deleted /\ Named(query, row)
    <2>1. CASE "name_contains" \notin DOMAIN query
      BY <1>1, <1>4, <2>1 DEF Named
    <2>2. CASE "name_contains" \in DOMAIN query
      <3>1. Holds(named, row) = (Holds(ActiveOnly, row) /\ Holds(NameFilter(query), row))
        BY <1>1, <1>2, <2>2, HoldsAnd
      <3>2. QED
        BY <1>4, <1>5, <2>2, <3>1
    <2>3. QED
      BY <2>1, <2>2
  <1>8. CASE "slug" \notin DOMAIN query
    BY <1>1, <1>7, <1>8 DEF CategoryWanted
  <1>9. CASE "slug" \in DOMAIN query
    <2>1. Holds(CategorySpec(query), row) = (Holds(named, row) /\ Holds(SlugFilter(query), row))
      BY <1>1, <1>9, SpecsOfQueries, HoldsAnd
    <2>2. QED
      BY <1>6, <1>7, <1>9, <2>1 DEF CategoryWanted
  <1>10. QED
    BY <1>8, <1>9

(* A query whose filters mean the same in either backend. *)
ExactQuery(query) == PlainQuery(query) /\ CastableQuery(query) /\ RoundedQuery(query) = query

(* The bounds of the price filter of a query are numbers; the column holds *)
(* them as they are when the query is exact.                               *)
LEMMA PriceLeaf ==
  ASSUME NEW query \in ItemQueries
  PROVE  /\ \A f \in Bounds \cap DOMAIN PriceFilter(query).bounds :
              /\ PriceFilter(query).bounds[f] \in Int
              /\ CastableQuery(query) => InRange(PriceFilter(query).bounds[f])
         /\ ExactQuery(query) => ItemLeaf(PriceFilter(query))
  <1> DEFINE bounds == Some(query, Bounds)
             price == PriceFilter(query)
  <1>1. \A f \in DOMAIN bounds : f \in Bounds \cap DOMAIN query /\ bounds[f] = query[f]
    BY BoundsAre
  <1>2. price.op = "price" /\ price.bounds = bounds
    BY OperandsOf
  <1> HIDE DEF bounds, price
  <1>3. \A f \in Bounds \cap DOMAIN query :
          /\ query[f] \in Int
          /\ CastableQuery(query) => InRange(query[f])
          /\ RoundedQuery(query) = query => Rounded(query[f]) = query[f]
    <2> SUFFICES ASSUME NEW f \in Bounds \cap DOMAIN query
                 PROVE  /\ query[f] \in Int
                        /\ CastableQuery(query) => InRange(query[f])
                        /\ RoundedQuery(query) = query => Rounded(query[f]) = query[f]
      OBVIOUS
    <2>1. query[f] \in Nat
      BY QueriesAssumption
    <2>2. RoundedQuery(query)[f] = Rounded(query[f])
      BY DEF RoundedQuery
    <2>3. QED
      BY <2>1, <2>2 DEF CastableQuery
  <1>4. \A f \in Bounds \cap DOMAIN price.bounds :
          price.bounds[f] \in Int /\ (CastableQuery(query) => InRange(price.bounds[f]))
    BY <1>1, <1>2, <1>3
  <1>5. ExactQuery(query) => ItemLeaf(price)
    BY <1>1, <1>2, <1>3 DEF ExactQuery, ItemLeaf, Held
  <1>6. QED
    BY <1>4, <1>5 DEF price

(* The specification of an exact query is composed of plain filters whose  *)
(* bounds the column can hold.                                             *)
LEMMA ItemSpecBuilt ==
  ASSUME NEW query \in ItemQueries, ExactQuery(query), NEW row, IsItem(row)
  PROVE  BuiltOfLeaves(ItemSpec(query), row)
  <1>1. PICK priced :
          /\ \/ priced = ActiveOnly /\ Bounds \cap DOMAIN query = {}
             \/ priced = And(ActiveOnly, PriceFilter(query))
          /\ \/ ItemSpec(query) = priced /\ "name_contains" \notin DOMAIN query
             \/ ItemSpec(query) = And(priced, NameFilter(query)) /\ "name_contains" \in DOMAIN query
    BY ItemSpecForm
  <1> DEFINE price == PriceFilter(query)
             name == NameFilter(query)
             S == {s \in {ActiveOnly, price, name, priced, ItemSpec(query)} :
                     s \in Specs /\ (s.op \notin Composites => ItemLeaf(s))}
  <1>2. ItemSpec(query) \in Specs /\ priced \in Specs /\ ActiveOnly \in Specs
        /\ (priced # ActiveOnly => price \in Specs)
        /\ ("name_contains" \in DOMAIN query => name \in Specs)
    BY <1>1, SpecsOfQueries, OperandsAsked
  <1>3. ItemLeaf(ActiveOnly)
    BY OperandsOf DEF ItemLeaf
  <1>4. ItemLeaf(price)
    BY PriceLeaf
  <1>5. "name_contains" \in DOMAIN query => ItemLeaf(name)
    BY OperandsOf, QueriesAssumption DEF ItemLeaf, ExactQuery, PlainQuery
  <1>6. /\ Operands(ActiveOnly) = {} /\ Operands(price) = {} /\ Operands(name) = {}
        /\ \A a, b : Operands(And(a, b)) = {a, b} /\ And(a, b).op = "and"
    BY OperandsOf
  <1> HIDE DEF price, name
  <1>7. ActiveOnly \in S /\ priced \in S /\ ItemSpec(query) \in S
    BY <1>1, <1>2, <1>3, <1>6 DEF Composites, price, name
  <1>8. priced # ActiveOnly => price \in S
    BY <1>2, <1>4
  <1>9. "name_contains" \in DOMAIN query => name \in S
    BY <1>2, <1>5
  <1>10. \A s \in S : s \in {ActiveOnly, price, name, priced, ItemSpec(query)}
           /\ s \in Specs /\ (s.op \notin Composites => Leaf(s, row))
    BY DEF Leaf
  <1> HIDE DEF S
  <1>11. Operands(priced) \subseteq S
    BY <1>1, <1>6, <1>7, <1>8 DEF price
  <1>12. Operands(ItemSpec(query)) \subseteq S
    BY <1>1, <1>6, <1>7, <1>9, <1>11 DEF name
  <1>13. Closed(S, row)
    BY <1>6, <1>10, <1>11, <1>12 DEF Closed
  <1>14. QED
    BY <1>7, <1>13 DEF BuiltOfLeaves

(* The same for categories. *)
LEMMA CategorySpecBuilt ==
  ASSUME NEW query \in CategoryQueries, PlainQuery(query), NEW row, ~IsItem(row)
  PROVE  BuiltOfLeaves(CategorySpec(query), row)
  <1>1. PICK named :
          /\ \/ named = ActiveOnly /\ "name_contains" \notin DOMAIN query
             \/ named = And(ActiveOnly, NameFilter(query)) /\ "name_contains" \in DOMAIN query
          /\ \/ CategorySpec(query) = named /\ "slug" \notin DOMAIN query
             \/ CategorySpec(query) = And(named, SlugFilter(query)) /\ "slug" \in DOMAIN query
    BY CategorySpecForm
  <1> DEFINE name == NameFilter(query)
             slug == SlugFilter(query)
             S == {s \in {ActiveOnly, name, slug, named, CategorySpec(query)} :
                     s \in Specs /\ (s.op \notin Composites => CategoryLeaf(s))}
  <1>2. CategorySpec(query) \in Specs /\ named \in Specs /\ ActiveOnly \in Specs
        /\ ("name_contains" \in DOMAIN query => name \in Specs)
        /\ ("slug" \in DOMAIN query => slug \in Specs)
    BY <1>1, SpecsOfQueries, OperandsAsked
  <1>3. CategoryLeaf(ActiveOnly) /\ CategoryLeaf(slug)
    BY OperandsOf DEF CategoryLeaf
  <1>4. "name_contains" \in DOMAIN query => CategoryLeaf(name)
    BY OperandsOf, QueriesAssumption DEF CategoryLeaf, PlainQuery
  <1>5. /\ Operands(ActiveOnly) = {} /\ Operands(slug) = {} /\ Operands(name) = {}
        /\ \A a, b : Operands(And(a, b)) = {a, b} /\ And(a, b).op = "and"
    BY OperandsOf
  <1> HIDE DEF slug, name
  <1>6. ActiveOnly \in S /\ named \in S /\ CategorySpec(query) \in S
    BY <1>1, <1>2, <1>3, <1>5 DEF Composites, slug, name
  <1>7. ("name_contains" \in DOMAIN query => name \in S) /\ ("slug" \in DOMAIN query => slug \in S)
    BY <1>2, <1>3, <1>4
  <1>8. \A s \in S : s \in {ActiveOnly, name, slug, named, CategorySpec(query)}
          /\ s \in Specs /\ (s.op \notin Composites => Leaf(s, row))
    BY DEF Leaf
  <1> HIDE DEF S
  <1>9. Operands(named) \subseteq S
    BY <1>1, <1>5, <1>6, <1>7 DEF name
  <1>10. Operands(CategorySpec(query)) \subseteq S
    BY <1>1, <1>5, <1>6, <1>7, <1>9 DEF slug
  <1>11. Closed(S, row)
    BY <1>5, <1>8, <1>9, <1>10 DEF Closed
  <1>12. QED
    BY <1>6, <1>11 DEF BuiltOfLeaves

(* What is composed of two such specifications is one itself. *)
LEMMA CompositionsBuilt ==
  ASSUME NEW row, NEW X, \A s \in X : BuiltOfLeaves(s, row), Compositions(X) \subseteq Specs,
         NEW spec \in Compositions(X)
  PROVE  BuiltOfLeaves(spec, row)
  <1>1. CASE spec \in X
    BY <1>1
  <1>2. ASSUME NEW s \in X, NEW t \in X, Operands(spec) \subseteq {s, t}, spec.op \in Composites
        PROVE  BuiltOfLeaves(spec, row)
    <2>1. PICK S : s \in S /\ Closed(S, row)
      BY DEF BuiltOfLeaves
    <2>2. PICK T : t \in T /\ Closed(T, row)
      BY DEF BuiltOfLeaves
    <2> DEFINE U == S \cup T \cup {spec}
    <2>3. Closed(U, row)
      BY <1>2, <2>1, <2>2 DEF Closed
    <2>4. QED
      BY <2>3 DEF BuiltOfLeaves
  <1>3. spec \in X \/ \E s \in X, t \in X : Operands(spec) \subseteq {s, t} /\ spec.op \in Composites
    <2>1. \/ spec \in X
          \/ \E s \in X : spec = Not(s)
          \/ \E s \in X, t \in X : spec = And(s, t)
          \/ \E s \in X, t \in X : spec = Or(s, t)
      BY DEF Compositions
    <2>2. QED
      BY <2>1, OperandsOf DEF Composites
  <1>4. QED
    BY <1>1, <1>2, <1>3

(* A row of a table is one the backends can read. *)
LEMMA WholeIsReadable ==
  ASSUME NEW id \in Ids, NEW row, Whole(id, row)
  PROVE  Readable(row) /\ (IsItem(row) <=> id \in ItemIds)
  BY ColumnsAre DEF Readable, IsItem, Whole, Fits, Ids

(* So is an item that a request creates, as it is stored, ... *)
LEMMA ItemsReadable ==
  ASSUME NEW body \in ItemBodies, CreateItemRequest(body),
         NEW row \in {Stored(NewItem(body)), Deleted(Stored(NewItem(body)))}
  PROVE  Readable(row) /\ IsItem(row)
  <1>1. body.name \in Seq(Chars) /\ body.price \in Int
    BY CatalogAssumption DEF CreateItemRequest
  <1>2. StoredName(body.name) \in Seq(Chars)
    BY <1>1, NameStored
  <1> DEFINE new == NewItem(body)
  <1>3. /\ DOMAIN new = {"name", "price", "category", "deleted"}
        /\ new["price"] = body.price /\ new["name"] = StoredName(body.name)
    BY DEF NewItem
  <1> HIDE DEF new
  <1>4. /\ DOMAIN Stored(new) = DOMAIN new
        /\ Stored(new)["price"] = Rounded(body.price) /\ Stored(new)["name"] = StoredName(body.name)
    BY <1>3, StoredColumns
  <1>5. /\ "price" \in DOMAIN row /\ row["price"] = Rounded(body.price)
        /\ row["name"] = StoredName(body.name)
    BY <1>3, <1>4 DEF new, Deleted
  <1>6. QED
    BY <1>1, <1>2, <1>5, RoundedTwice DEF Readable, IsItem

(* ... and a category. *)
LEMMA CategoriesReadable ==
  ASSUME NEW body \in CategoryBodies, CreateCategoryRequest(body),
         NEW row \in {NewCategory(body), Deleted(NewCategory(body))}
  PROVE  Readable(row) /\ ~IsItem(row)
  <1>1. body.name \in Seq(Chars)
    BY CatalogAssumption DEF CreateCategoryRequest
  <1>2. StoredName(body.name) \in Seq(Chars)
    BY <1>1, NameStored
  <1>3. /\ "price" \notin DOMAIN row /\ row.name = StoredName(body.name)
    BY DEF NewCategory, Deleted
  <1>4. QED
    BY <1>2, <1>3 DEF Readable, IsItem

(* Any composition of two plain queries whose bounds the column can hold   *)
(* selects the same in either backend of what a request can store, deleted *)
(* or not (base.py:45-99, specification_translator.py:53-85).              *)
THEOREM ComposedAlike == ComposedRules
  <1> DEFINE ExactItems == {query \in ItemQueries : ExactQuery(query)}
             ExactCategories == {query \in CategoryQueries : ExactQuery(query)}
             X == {ItemSpec(query) : query \in ExactItems}
             Y == {CategorySpec(query) : query \in ExactCategories}
  <1>1. Compositions(X) \subseteq Specs
    <2>1. X \subseteq {ItemSpec(query) : query \in ItemQueries}
      OBVIOUS
    <2> DEFINE all == {ItemSpec(query) : query \in ItemQueries}
    <2> HIDE DEF all, X
    <2>2. Compositions(X) \subseteq Compositions(all)
      BY <2>1 DEF Compositions, all
    <2>3. QED
      BY <2>2, QueriesAssumption DEF all
  <1>2. Compositions(Y) \subseteq Specs
    <2>1. Y \subseteq {CategorySpec(query) : query \in CategoryQueries}
      OBVIOUS
    <2> DEFINE all == {CategorySpec(query) : query \in CategoryQueries}
    <2> HIDE DEF all, Y
    <2>2. Compositions(Y) \subseteq Compositions(all)
      BY <2>1 DEF Compositions, all
    <2>3. QED
      BY <2>2, QueriesAssumption DEF all
  <1>3. ASSUME NEW row, Readable(row), IsItem(row), NEW spec \in Compositions(X)
        PROVE  Clause(spec, row) = Holds(spec, row)
    <2>1. \A s \in X : BuiltOfLeaves(s, row)
      BY <1>3, ItemSpecBuilt
    <2> HIDE DEF X
    <2>2. QED
      BY <1>1, <1>3, <2>1, CompositionsBuilt, BackendsAgree
  <1>4. ASSUME NEW row, Readable(row), ~IsItem(row), NEW spec \in Compositions(Y)
        PROVE  Clause(spec, row) = Holds(spec, row)
    <2>1. \A s \in Y : BuiltOfLeaves(s, row)
      BY <1>4, CategorySpecBuilt DEF ExactQuery
    <2> HIDE DEF Y
    <2>2. QED
      BY <1>2, <1>4, <2>1, CompositionsBuilt, BackendsAgree
  <1> HIDE DEF X, Y
  <1> DEFINE newItems ==
               {Stored(NewItem(body)) : body \in
                  {b \in ItemBodies : CreateItemRequest(b) /\ InRange(b.price)}}
             newCategories ==
               {NewCategory(body) : body \in {b \in CategoryBodies : CreateCategoryRequest(b)}}
  <1>5. \A row \in newItems \cup {Deleted(aggregate) : aggregate \in newItems} :
          Readable(row) /\ IsItem(row)
    BY ItemsReadable
  <1>6. \A row \in newCategories \cup {Deleted(aggregate) : aggregate \in newCategories} :
          Readable(row) /\ ~IsItem(row)
    BY CategoriesReadable
  <1> HIDE DEF newItems, newCategories
  <1>7. \A row \in newItems \cup {Deleted(aggregate) : aggregate \in newItems} :
          \A spec \in Compositions(X) : Clause(spec, row) = Holds(spec, row)
    BY <1>3, <1>5
  <1>8. \A row \in newCategories \cup {Deleted(aggregate) : aggregate \in newCategories} :
          \A spec \in Compositions(Y) : Clause(spec, row) = Holds(spec, row)
    BY <1>4, <1>6
  <1>9. QED
    BY <1>7, <1>8 DEF ComposedRules, ExactQuery, X, Y, newItems, newCategories

(* What a search selects of the tables, in either backend. *)
LEMMA ItemsFound ==
  ASSUME RowsInv, NEW query \in ItemQueries
  PROVE  /\ InMemoryMatching(ItemIds, ItemSpec(query)) = WantedItems(query)
         /\ PlainQuery(query) =>
              FindMatching(ItemIds, ItemSpec(query)) = WantedItems(RoundedQuery(query))
  <1>1. \A id \in DOMAIN rows \cap ItemIds : Whole(id, rows[id]) /\ id \in Ids
    BY DEF RowsInv, InTable, Ids
  <1>2. \A id \in DOMAIN rows \cap ItemIds :
          Holds(ItemSpec(query), rows[id]) <=> ItemWanted(query, rows[id])
    BY <1>1, ItemSpecHolds
  <1>3. PlainQuery(query) => \A id \in DOMAIN rows \cap ItemIds :
          Clause(ItemSpec(query), rows[id]) <=> ItemWanted(RoundedQuery(query), rows[id])
    BY <1>1, ItemSpecFinds
  <1>4. \A any : WantedItems(any) = {id \in DOMAIN rows \cap ItemIds : ItemWanted(any, rows[id])}
    BY DEF WantedItems, ItemWanted, Active, Visible
  <1>5. QED
    BY <1>2, <1>3, <1>4 DEF FindMatching, InMemoryMatching

(* The same for categories. *)
LEMMA CategoriesFound ==
  ASSUME RowsInv, NEW query \in CategoryQueries
  PROVE  /\ PlainQuery(query) =>
              FindMatching(CategoryIds, CategorySpec(query)) = WantedCategories(query)
         /\ InMemoryMatching(CategoryIds, CategorySpec(query)) = WantedCategories(query)
  <1>1. \A id \in DOMAIN rows \cap CategoryIds : Whole(id, rows[id]) /\ id \in Ids
    BY DEF RowsInv, InTable, Ids
  <1>2. \A id \in DOMAIN rows \cap CategoryIds :
          Holds(CategorySpec(query), rows[id]) <=> CategoryWanted(query, rows[id])
    BY <1>1, CategorySpecHolds
  <1>3. PlainQuery(query) => \A id \in DOMAIN rows \cap CategoryIds :
          Clause(CategorySpec(query), rows[id]) = Holds(CategorySpec(query), rows[id])
    BY <1>1, ColumnsAre, WholeIsReadable, CategorySpecBuilt, BackendsAgree
  <1>4. WantedCategories(query) =
          {id \in DOMAIN rows \cap CategoryIds : CategoryWanted(query, rows[id])}
    BY DEF WantedCategories, CategoryWanted, Active, Visible
  <1>5. QED
    BY <1>2, <1>3, <1>4 DEF FindMatching, InMemoryMatching

(* The same leaves, of which a keyword may have percent signs and          *)
(* underscores and a bound more decimals than the column; a specification  *)
(* composed of them without a negation.                                    *)
NameLeaf(s) == s.op = "name" /\ s.keyword \in Seq(Chars) /\ Unescaped(s.keyword)
BoundLeaf(s, row) ==
  /\ IsItem(row) /\ s.op = "price"
  /\ \A f \in Bounds \cap DOMAIN s.bounds : s.bounds[f] \in Int /\ InRange(s.bounds[f])
WildLeaf(s, row) == Leaf(s, row) \/ NameLeaf(s) \/ BoundLeaf(s, row)
ClosedUp(S, row) ==
  \A s \in S : /\ s \in Specs /\ Operands(s) \subseteq S /\ s.op # "not"
               /\ s.op \notin Composites => WildLeaf(s, row)
BuiltUp(spec, row) == \E S : spec \in S /\ ClosedUp(S, row)

(* Rounding keeps the order of prices. *)
LEMMA RoundedInOrder ==
  ASSUME NEW a \in Int, NEW b \in Int, a <= b
  PROVE  Rounded(a) <= Rounded(b)
  <1> DEFINE d == 2 * Scale
             j == (2 * a + Scale) \div d
             k == (2 * b + Scale) \div d
  <1>1. Scale \in Nat \ {0}
    BY PricesAssumption
  <1>2. d \in Nat \ {0} /\ 2 * a + Scale \in Int /\ 2 * b + Scale \in Int
        /\ 2 * a + Scale <= 2 * b + Scale
    BY <1>1
  <1>3. /\ Rounded(a) = Scale * j /\ Rounded(b) = Scale * k
    BY DEF Rounded
  <1>4. \A n \in Int : n \div d \in Int /\ d * (n \div d) <= n /\ n < d * (n \div d) + d
    <2> HIDE DEF d
    <2>1. QED
      BY <1>2
  <1>5. /\ j \in Int /\ d * j <= 2 * a + Scale
        /\ k \in Int /\ 2 * b + Scale < d * k + d
    <2> HIDE DEF d
    <2>1. QED
      BY <1>2, <1>4
  <1> HIDE DEF j, k
  <1>6. ASSUME k + 1 <= j PROVE FALSE
    <2> HIDE DEF d
    <2>1. d * (k + 1) <= d * j
      BY <1>2, <1>5, <1>6
    <2>2. d * (k + 1) = d * k + d
      BY <1>2, <1>5
    <2>3. /\ d * k \in Int /\ d * j \in Int /\ d \in Int
          /\ 2 * a + Scale \in Int /\ 2 * b + Scale \in Int
      BY <1>2, <1>5
    <2>4. QED
      BY <1>2, <1>5, <2>1, <2>2, <2>3
  <1>7. j <= k
    BY <1>5, <1>6
  <1>8. Scale * j <= Scale * k
    BY <1>1, <1>5, <1>7
  <1>9. QED
    BY <1>3, <1>8

(* A bound may be rounded: no stored price that satisfies it is lost. *)
LEMMA BoundsLoseNothing ==
  ASSUME NEW row, NEW s, BoundLeaf(s, row), row.price \in Int, Rounded(row.price) = row.price,
         ItemHolds(s, row)
  PROVE  ItemCondition(s, row)
  <1>1. s.op = "price"
    BY DEF BoundLeaf
  <1>2. /\ Param(s.bounds, "min_price", row.price) <= row.price
        /\ row.price <= Param(s.bounds, "max_price", row.price)
    BY <1>1 DEF ItemHolds
  <1>3. \A f \in Bounds \cap DOMAIN s.bounds : s.bounds[f] \in Int /\ Rounded(s.bounds[f]) \in Int
    BY RoundedTwice DEF BoundLeaf
  <1>4. "min_price" \in DOMAIN s.bounds => Rounded(s.bounds.min_price) <= row.price
    <2> SUFFICES ASSUME "min_price" \in DOMAIN s.bounds PROVE Rounded(s.bounds.min_price) <= row.price
      OBVIOUS
    <2>1. s.bounds.min_price \in Int /\ s.bounds.min_price <= row.price
      BY <1>2, <1>3 DEF Param, Bounds
    <2>2. QED
      BY <2>1, RoundedInOrder
  <1>5. "max_price" \in DOMAIN s.bounds => row.price <= Rounded(s.bounds.max_price)
    <2> SUFFICES ASSUME "max_price" \in DOMAIN s.bounds PROVE row.price <= Rounded(s.bounds.max_price)
      OBVIOUS
    <2>1. s.bounds.max_price \in Int /\ row.price <= s.bounds.max_price
      BY <1>2, <1>3 DEF Param, Bounds
    <2>2. QED
      BY <2>1, RoundedInOrder
  <1>6. ItemCondition(s, row) =
          (/\ "min_price" \in DOMAIN s.bounds => row.price >= Rounded(s.bounds.min_price)
           /\ "max_price" \in DOMAIN s.bounds => row.price <= Rounded(s.bounds.max_price))
    BY <1>1 DEF ItemCondition
  <1>7. "min_price" \in DOMAIN s.bounds => Rounded(s.bounds.min_price) \in Int
    BY <1>3 DEF Bounds
  <1>8. QED
    BY <1>4, <1>5, <1>6, <1>7

(* Whatever is composed of such filters with "and" and "or", with bounds   *)
(* in the range of the column, SQL misses no row of the table whose        *)
(* aggregate satisfies the specification, for names and keywords in ASCII  *)
(* (base.py:44-83, specification_translator.py:53-79, models.py:28,        *)
(* specification_translator_category.py:53-74).                            *)
THEOREM SqlMissesNothing ==
  ASSUME NEW row, Readable(row), IsItem(row) => Rounded(row.price) = row.price,
         NEW spec, BuiltUp(spec, row), Holds(spec, row)
  PROVE  Clause(spec, row)
  <1>0. PICK S : spec \in S /\ ClosedUp(S, row)
    BY DEF BuiltUp
  <1> DEFINE Missed == {s \in S : Holds(s, row) /\ ~Clause(s, row)}
             T == {Height[s] : s \in Missed}
  <1>1. SUFFICES ASSUME Missed # {} PROVE FALSE
    BY <1>0
  <1>2. \A s \in S : s \in Specs /\ Height[s] \in Nat
    BY <1>0, SpecsAssumption DEF ClosedUp
  <1>3. T \subseteq Nat /\ T # {}
    BY <1>1, <1>2
  <1>4. PICK h \in T : \A k \in T : h <= k
    <2> HIDE DEF T
    <2>1. QED
      BY <1>3, Smallest
  <1>5. PICK s \in Missed : h = Height[s]
    BY <1>4
  <1>6. s \in S /\ s \in Specs /\ Holds(s, row) /\ ~Clause(s, row)
    BY <1>2, <1>5
  <1>7. ASSUME NEW part \in Operands(s), Holds(part, row) PROVE Clause(part, row)
    <2>1. part \in S /\ Height[part] < Height[s]
      BY <1>0, <1>6, SpecsAssumption DEF ClosedUp
    <2>2. Height[part] \in Nat /\ Height[s] \in Nat
      BY <1>2, <1>6, <2>1
    <2>3. part \notin Missed
      BY <1>4, <1>5, <2>1, <2>2
    <2>4. QED
      BY <1>7, <2>1, <2>3
  <1>8. row.name \in Seq(Chars) /\ (IsItem(row) => row.price \in Int)
    BY DEF Readable
  <1> DEFINE leaf == IF IsItem(row) THEN ItemCondition(s, row) ELSE CategoryCondition(s, row)
  <1>9. Says(Clause(s, row), s, leaf, Clause(s.left, row), Clause(s.right, row), Clause(s.spec, row))
    BY <1>6, ItemClauseSays, CategoryClauseSays DEF Clause
  <1>10. Says(Holds(s, row), s, Rule(s, row),
              Holds(s.left, row), Holds(s.right, row), Holds(s.spec, row))
    BY <1>6, HoldsSays
  <1>11. s.op \notin Composites /\ Rule(s, row) => leaf
    <2> SUFFICES ASSUME s.op \notin Composites, Rule(s, row) PROVE leaf
      OBVIOUS
    <2>1. WildLeaf(s, row)
      BY <1>0, <1>6 DEF ClosedUp
    <2>2. CASE Leaf(s, row) /\ IsItem(row)
      BY <1>8, <2>2, ItemLeavesAgree DEF Rule, Leaf
    <2>3. CASE Leaf(s, row) /\ ~IsItem(row)
      BY <1>8, <2>3, CategoryLeavesAgree DEF Rule, Leaf
    <2>4. CASE NameLeaf(s)
      <3>1. Within(Lower(s.keyword), Lower(row.name))
        BY <2>4 DEF NameLeaf, Rule, ItemHolds, CategoryHolds
      <3>2. SqlContains(Lower(s.keyword), row.name)
        BY <1>8, <2>4, <3>1, LikeFindsNoLess DEF NameLeaf
      <3>3. QED
        BY <2>4, <3>2 DEF NameLeaf, ItemCondition, CategoryCondition
    <2>5. CASE BoundLeaf(s, row)
      <3>1. IsItem(row) /\ ItemHolds(s, row)
        BY <2>5 DEF BoundLeaf, Rule
      <3>2. ItemCondition(s, row)
        BY <1>8, <2>5, <3>1, BoundsLoseNothing
      <3>3. QED
        BY <3>1, <3>2
    <2>6. QED
      BY <2>1, <2>2, <2>3, <2>4, <2>5 DEF WildLeaf
  <1> HIDE DEF leaf, Missed, T
  <1>12. CASE s.op \in {"and", "or"}
    <2>1. /\ Holds(s.left, row) => Clause(s.left, row)
          /\ Holds(s.right, row) => Clause(s.right, row)
      BY <1>7, <1>12 DEF Operands
    <2>2. QED
      BY <1>6, <1>9, <1>10, <1>12, <2>1 DEF Says
  <1>13. s.op # "not"
    BY <1>0, <1>6 DEF ClosedUp
  <1>14. CASE s.op \notin Composites
    BY <1>6, <1>9, <1>10, <1>11, <1>14 DEF Says
  <1>15. QED
    BY <1>12, <1>13, <1>14 DEF Composites

(* The specification of a query whose keyword has no backslash and whose   *)
(* bounds are in range is composed of such filters, with and alone.        *)
LEMMA ItemSpecBuiltUp ==
  ASSUME NEW query \in ItemQueries, UnescapedQuery(query), CastableQuery(query),
         NEW row, IsItem(row)
  PROVE  BuiltUp(ItemSpec(query), row)
  <1>1. PICK priced :
          /\ \/ priced = ActiveOnly /\ Bounds \cap DOMAIN query = {}
             \/ priced = And(ActiveOnly, PriceFilter(query))
          /\ \/ ItemSpec(query) = priced /\ "name_contains" \notin DOMAIN query
             \/ ItemSpec(query) = And(priced, NameFilter(query)) /\ "name_contains" \in DOMAIN query
    BY ItemSpecForm
  <1> DEFINE price == PriceFilter(query)
             name == NameFilter(query)
             S == {s \in {ActiveOnly, price, name, priced, ItemSpec(query)} :
                     s \in Specs /\ (s.op \notin Composites => WildLeaf(s, row))}
  <1>2. ItemSpec(query) \in Specs /\ priced \in Specs /\ ActiveOnly \in Specs
        /\ (priced # ActiveOnly => price \in Specs)
        /\ ("name_contains" \in DOMAIN query => name \in Specs)
    BY <1>1, SpecsOfQueries, OperandsAsked
  <1>3. ItemLeaf(ActiveOnly) /\ BoundLeaf(price, row)
    BY PriceLeaf, OperandsOf DEF ItemLeaf, BoundLeaf
  <1>4. "name_contains" \in DOMAIN query => NameLeaf(name)
    BY OperandsOf, QueriesAssumption DEF NameLeaf, UnescapedQuery
  <1>5. /\ Operands(ActiveOnly) = {} /\ Operands(price) = {} /\ Operands(name) = {}
        /\ \A a, b : Operands(And(a, b)) = {a, b} /\ And(a, b).op = "and"
        /\ ActiveOnly.op # "not" /\ price.op # "not" /\ name.op # "not"
    BY OperandsOf
  <1> HIDE DEF price, name
  <1>6. ActiveOnly \in S /\ priced \in S /\ ItemSpec(query) \in S
    BY <1>1, <1>2, <1>3, <1>5 DEF Composites, WildLeaf, Leaf, price, name
  <1>7. (priced # ActiveOnly => price \in S) /\ ("name_contains" \in DOMAIN query => name \in S)
    BY <1>2, <1>3, <1>4 DEF WildLeaf, Leaf
  <1>8. \A s \in S : s \in {ActiveOnly, price, name, priced, ItemSpec(query)}
          /\ s \in Specs /\ (s.op \notin Composites => WildLeaf(s, row))
    OBVIOUS
  <1> HIDE DEF S
  <1>9. Operands(priced) \subseteq S /\ priced.op # "not"
    BY <1>1, <1>5, <1>6, <1>7 DEF price
  <1>10. Operands(ItemSpec(query)) \subseteq S /\ ItemSpec(query).op # "not"
    BY <1>1, <1>5, <1>6, <1>7, <1>9 DEF name
  <1>11. ClosedUp(S, row)
    BY <1>5, <1>8, <1>9, <1>10 DEF ClosedUp
  <1>12. QED
    BY <1>6, <1>11 DEF BuiltUp

(* The same for categories. *)
LEMMA CategorySpecBuiltUp ==
  ASSUME NEW query \in CategoryQueries, UnescapedQuery(query), NEW row, ~IsItem(row)
  PROVE  BuiltUp(CategorySpec(query), row)
  <1>1. PICK named :
          /\ \/ named = ActiveOnly /\ "name_contains" \notin DOMAIN query
             \/ named = And(ActiveOnly, NameFilter(query)) /\ "name_contains" \in DOMAIN query
          /\ \/ CategorySpec(query) = named /\ "slug" \notin DOMAIN query
             \/ CategorySpec(query) = And(named, SlugFilter(query)) /\ "slug" \in DOMAIN query
    BY CategorySpecForm
  <1> DEFINE name == NameFilter(query)
             slug == SlugFilter(query)
             S == {s \in {ActiveOnly, name, slug, named, CategorySpec(query)} :
                     s \in Specs /\ (s.op \notin Composites => CategoryLeaf(s) \/ NameLeaf(s))}
  <1>2. CategorySpec(query) \in Specs /\ named \in Specs /\ ActiveOnly \in Specs
        /\ ("name_contains" \in DOMAIN query => name \in Specs)
        /\ ("slug" \in DOMAIN query => slug \in Specs)
    BY <1>1, SpecsOfQueries, OperandsAsked
  <1>3. CategoryLeaf(ActiveOnly) /\ CategoryLeaf(slug)
    BY OperandsOf DEF CategoryLeaf
  <1>4. "name_contains" \in DOMAIN query => NameLeaf(name)
    BY OperandsOf, QueriesAssumption DEF NameLeaf, UnescapedQuery
  <1>5. /\ Operands(ActiveOnly) = {} /\ Operands(slug) = {} /\ Operands(name) = {}
        /\ \A a, b : Operands(And(a, b)) = {a, b} /\ And(a, b).op = "and"
        /\ ActiveOnly.op # "not" /\ slug.op # "not" /\ name.op # "not"
    BY OperandsOf
  <1> HIDE DEF slug, name
  <1>6. ActiveOnly \in S /\ named \in S /\ CategorySpec(query) \in S
    BY <1>1, <1>2, <1>3, <1>5 DEF Composites, slug, name
  <1>7. ("name_contains" \in DOMAIN query => name \in S) /\ ("slug" \in DOMAIN query => slug \in S)
    BY <1>2, <1>3, <1>4
  <1>8. \A s \in S : s \in {ActiveOnly, name, slug, named, CategorySpec(query)}
          /\ s \in Specs /\ (s.op \notin Composites => WildLeaf(s, row))
    BY DEF WildLeaf, Leaf
  <1> HIDE DEF S
  <1>9. Operands(named) \subseteq S /\ named.op # "not"
    BY <1>1, <1>5, <1>6, <1>7 DEF name
  <1>10. Operands(CategorySpec(query)) \subseteq S /\ CategorySpec(query).op # "not"
    BY <1>1, <1>5, <1>6, <1>7, <1>9 DEF slug
  <1>11. ClosedUp(S, row)
    BY <1>5, <1>8, <1>9, <1>10 DEF ClosedUp
  <1>12. QED
    BY <1>6, <1>11 DEF BuiltUp

(* What the filters name, the clause of SQL finds. *)
LEMMA WantedFound ==
  ASSUME RowsInv
  PROVE  /\ \A query \in ItemQueries : UnescapedQuery(query) /\ CastableQuery(query) =>
              InMemoryMatching(ItemIds, ItemSpec(query))
                \subseteq FindMatching(ItemIds, ItemSpec(query))
         /\ \A query \in CategoryQueries : UnescapedQuery(query) =>
              InMemoryMatching(CategoryIds, CategorySpec(query))
                \subseteq FindMatching(CategoryIds, CategorySpec(query))
  <1>1. \A id \in DOMAIN rows :
          /\ id \in Ids /\ Whole(id, rows[id])
          /\ IsItem(rows[id]) => Rounded(rows[id].price) = rows[id].price
    BY DEF RowsInv, InTable, IsItem
  <1>2. ASSUME NEW query \in ItemQueries, UnescapedQuery(query), CastableQuery(query),
               NEW id \in DOMAIN rows \cap ItemIds, Holds(ItemSpec(query), rows[id])
        PROVE  Clause(ItemSpec(query), rows[id])
    BY <1>1, <1>2, WholeIsReadable, ItemSpecBuiltUp, SqlMissesNothing
  <1>3. ASSUME NEW query \in CategoryQueries, UnescapedQuery(query),
               NEW id \in DOMAIN rows \cap CategoryIds, Holds(CategorySpec(query), rows[id])
        PROVE  Clause(CategorySpec(query), rows[id])
    BY <1>1, <1>3, ColumnsAre, WholeIsReadable, CategorySpecBuiltUp, SqlMissesNothing
  <1>4. QED
    BY <1>2, <1>3 DEF InMemoryMatching, FindMatching

(* For every query the routes let through and every row the write requests *)
(* can leave: in memory a search finds exactly the active aggregates that  *)
(* its filters name; in SQL, with bounds in range, those that the filters  *)
(* with rounded bounds name when the keyword has no percent sign,          *)
(* underscore or backslash, and none too few when it has no backslash.     *)
(* Names and keywords are ASCII (specification_translator.py:53-85,        *)
(* models.py:28, query_handlers.py:84-92).                                 *)
THEOREM ExactSearch == SpecQueries => []SearchIsExact
  <1>1. QueryInv => SearchIsExact
    <2> SUFFICES ASSUME QueryInv PROVE SearchIsExact
      OBVIOUS
    <2>1. RowsInv
      BY DEF QueryInv, TableInv
    <2>2. LikeRules
      BY LikeRulesHold, TextLengthAssumption
    <2>3. ASSUME NEW query \in ItemQueries
          PROVE  /\ InMemoryMatching(ItemIds, ItemSpec(query)) = WantedItems(query)
                 /\ PlainQuery(query) =>
                      FindMatching(ItemIds, ItemSpec(query)) = WantedItems(RoundedQuery(query))
                 /\ CastableQuery(query) /\ UnescapedQuery(query) =>
                      WantedItems(query) \subseteq FindMatching(ItemIds, ItemSpec(query))
      BY <2>1, ItemsFound, WantedFound
    <2>4. ASSUME NEW query \in CategoryQueries
          PROVE  LET found == FindMatching(CategoryIds, CategorySpec(query))
                 IN  /\ InMemoryMatching(CategoryIds, CategorySpec(query)) = WantedCategories(query)
                     /\ PlainQuery(query) => found = WantedCategories(query)
                     /\ UnescapedQuery(query) => WantedCategories(query) \subseteq found
      BY <2>1, CategoriesFound, WantedFound
    <2>5. QED
      BY <2>2, <2>3, <2>4, ComposedAlike DEF SearchIsExact
  <1>2. QED
    BY <1>1, InitQuery, NextQuery, PTL DEF SpecQueries
=============================================================================
