------------------------- MODULE SeshatSearchProofs -------------------------
(***************************************************************************)
(* Proofs about SeshatSearch: the pages of a search never repeat an event,  *)
(* for any number of clients, any size of the cache, any limits, and        *)
(* whatever the writer does to the index between two pages.                 *)
(***************************************************************************)
EXTENDS SeshatSearch, FiniteSetTheorems, FunctionTheorems, WellFoundedInduction, TLAPS

\* search_helper returns documents of the ranking whose ids are new.
LEMMA HelperReturnsNew ==
    ASSUME NEW ranking, NEW seen, NEW i \in SearchHelper(ranking, seen)
    PROVE  i \in DOMAIN ranking /\ IdOf[ranking[i]] \notin seen.ids
BY DEF SearchHelper, NewAmong, FirstOf

\* A snapshot has finitely many documents.
LEMMA DocsFinite == ASSUME NEW s PROVE IsFiniteSet(DocsOf(s)) /\ Count(s) \in Nat
<1>1. MaxDocs \in Int /\ 1 \in Int
    BY DEF MaxDocs
<1>2. IsFiniteSet(1..MaxDocs)
    BY <1>1, FS_Interval
<1>3. IsFiniteSet(Matching \X (1..MaxDocs))
    BY <1>2, MatchingAssumption, FS_Product
<1>4. IsFiniteSet(DocsOf(s))
    BY <1>3, FS_Subset DEF DocsOf
<1> QED BY <1>4, FS_CardinalityType DEF Count

\* search_helper returns finitely many documents.
LEMMA HelperCounts ==
    ASSUME NEW s \in Documents, NEW ranking \in Rankings[s], NEW seen
    PROVE  /\ SearchHelper(ranking, seen) \subseteq DOMAIN ranking
           /\ IsFiniteSet(DOMAIN ranking)
           /\ \A i \in SearchHelper(ranking, seen) : ranking[i] \in Matching
           /\ Cardinality(SearchHelper(ranking, seen)) \in Nat
<1>1. ranking \in [1..Count(s) -> Matching]
    BY DEF Rankings
<1>2. Count(s) \in Int /\ 1 \in Int
    BY DocsFinite
<1>3. SearchHelper(ranking, seen) \subseteq 1..Count(s)
    BY <1>1, HelperReturnsNew
<1>4. IsFiniteSet(1..Count(s))
    BY <1>2, FS_Interval
<1>5. IsFiniteSet(SearchHelper(ranking, seen))
    BY <1>3, <1>4, FS_Subset
<1> QED BY <1>1, <1>3, <1>4, <1>5, FS_CardinalityType

\* The number of documents with one of the ids.
LEMMA KnownFinite ==
    ASSUME NEW s, NEW ids
    PROVE  IsFiniteSet({d \in DocsOf(s) : IdOf[d[1]] \in ids}) /\ Known(s, ids) \in Nat
<1>1. IsFiniteSet({d \in DocsOf(s) : IdOf[d[1]] \in ids})
    BY DocsFinite, FS_Subset
<1> QED BY <1>1, FS_CardinalityType DEF Known

\* A larger snapshot has the documents of a smaller one.
LEMMA DocsGrow ==
    ASSUME NEW s \in Documents, NEW u \in Documents, \A e \in Matching : s[e] <= u[e]
    PROVE  DocsOf(s) \subseteq DocsOf(u)
<1> SUFFICES ASSUME NEW e \in Matching, NEW k \in 1..MaxDocs, k <= s[e]
             PROVE  k <= u[e]
    BY DEF DocsOf
<1>1. s[e] \in Int /\ u[e] \in Int /\ k \in Int /\ s[e] <= u[e]
    BY DEF Documents, MaxDocs
<1> QED BY <1>1

\* It has no fewer, and no fewer of the known ones.
LEMMA KnownGrows ==
    ASSUME NEW s \in Documents, NEW u \in Documents, \A e \in Matching : s[e] <= u[e], NEW ids
    PROVE  Known(s, ids) <= Known(u, ids) /\ Count(s) <= Count(u)
<1>1. DocsOf(s) \subseteq DocsOf(u)
    BY DocsGrow
<1>2. {d \in DocsOf(s) : IdOf[d[1]] \in ids} \subseteq {d \in DocsOf(u) : IdOf[d[1]] \in ids}
    BY <1>1
<1>3. Count(s) <= Count(u)
    BY <1>1, DocsFinite, FS_Subset DEF Count
<1>4. Known(s, ids) <= Known(u, ids)
    BY <1>2, KnownFinite, FS_Subset DEF Known
<1> QED BY <1>3, <1>4

\* The known documents are no more than there are.
LEMMA KnownBelow ==
    ASSUME NEW s, NEW ids
    PROVE  Known(s, ids) <= Count(s)
<1>1. {d \in DocsOf(s) : IdOf[d[1]] \in ids} \subseteq DocsOf(s)
    OBVIOUS
<1> QED BY <1>1, DocsFinite, FS_Subset DEF Known, Count

\* Documents of different ids are different documents.
LEMMA KnownAdds ==
    ASSUME NEW s, NEW ids, NEW more, ids \cap more = {}
    PROVE  Known(s, ids \cup more) = Known(s, ids) + Known(s, more)
<1> DEFINE A == {d \in DocsOf(s) : IdOf[d[1]] \in ids}
           B == {d \in DocsOf(s) : IdOf[d[1]] \in more}
<1>1. IsFiniteSet(A) /\ IsFiniteSet(B)
    BY KnownFinite
<1>2. A \cap B = {} /\ A \cup B = {d \in DocsOf(s) : IdOf[d[1]] \in ids \cup more}
    OBVIOUS
<1>3. Cardinality(A) \in Nat /\ Cardinality(B) \in Nat /\ Cardinality(A \cap B) = 0
    BY <1>1, <1>2, FS_CardinalityType, FS_EmptySet
<1>4. Cardinality(A \cup B) = Cardinality(A) + Cardinality(B) - Cardinality(A \cap B)
    BY <1>1, FS_Union
<1> HIDE DEF A, B
<1>5. Cardinality(A \cup B) = Cardinality(A) + Cardinality(B)
    BY <1>3, <1>4
<1> USE DEF A, B
<1> QED BY <1>2, <1>5 DEF Known

\* When the documents of some ids are as many as there are, they are all of them.
LEMMA KnownAll ==
    ASSUME NEW s \in Documents, NEW ids, Count(s) <= Known(s, ids)
    PROVE  \A e \in Matching : s[e] > 0 => IdOf[e] \in ids
<1> DEFINE K == {d \in DocsOf(s) : IdOf[d[1]] \in ids}
<1>1. K \subseteq DocsOf(s) /\ IsFiniteSet(DocsOf(s))
    BY DocsFinite
<1>2. Cardinality(K) <= Cardinality(DocsOf(s)) /\ (Cardinality(DocsOf(s)) = Cardinality(K) => DocsOf(s) = K)
    BY <1>1, FS_Subset
<1>3. Cardinality(DocsOf(s)) <= Cardinality(K)
    BY DEF Count, Known
<1>4. Cardinality(K) \in Nat /\ Cardinality(DocsOf(s)) \in Nat
    BY KnownFinite, DocsFinite DEF Known, Count
<1>5. DocsOf(s) = K
    BY <1>2, <1>3, <1>4
<1>6. ASSUME NEW e \in Matching, s[e] > 0 PROVE IdOf[e] \in ids
    <2>1. s[e] \in 0..MaxDocs
        BY DEF Documents
    <2>2. <<e, 1>> \in DocsOf(s)
        BY <1>6, <2>1 DEF DocsOf, MaxDocs
    <2> QED BY <1>5, <2>2
<1> QED BY <1>6

\* The places of a ranking that hold documents of some ids are no more than those
\* documents: every place is one copy of its event.
LEMMA PlacesAreDocs ==
    ASSUME NEW s \in Documents, NEW r \in Rankings[s], NEW ids, NEW P,
           P \subseteq {i \in DOMAIN r : IdOf[r[i]] \in ids}
    PROVE  Cardinality(P) <= Known(s, ids)
<1> DEFINE Places(e) == {i \in DOMAIN r : r[i] = e}
           K == {d \in DocsOf(s) : IdOf[d[1]] \in ids}
<1>1. /\ r \in [1..Count(s) -> Matching]
      /\ \A e \in Matching : Cardinality(Places(e)) = s[e]
    BY DEF Rankings
<1>2. \A e \in Matching : s[e] \in 0..MaxDocs
    BY DEF Documents
<1>3. ASSUME NEW e \in Matching PROVE Injection(Places(e), 1..s[e]) # {}
    <2>1. IsFiniteSet(Places(e))
        <3>1. Count(s) \in Int /\ 1 \in Int
            BY DocsFinite
        <3>2. IsFiniteSet(1..Count(s))
            BY <3>1, FS_Interval
        <3> QED BY <1>1, <3>2, FS_Subset
    <2>2. s[e] \in Nat /\ s[e] \in Int /\ 1 \in Int
        BY <1>2 DEF MaxDocs
    <2>3. IsFiniteSet(1..s[e]) /\ Cardinality(1..s[e]) = s[e]
        <3>1. IsFiniteSet(1..s[e]) /\ Cardinality(1..s[e]) = IF 1 > s[e] THEN 0 ELSE s[e] - 1 + 1
            BY <2>2, FS_Interval
        <3> QED BY <2>2, <3>1
    <2>4. Cardinality(Places(e)) = Cardinality(1..s[e])
        BY <1>1, <2>3
    <2>5. ExistsBijection(Places(e), 1..s[e])
        <3> HIDE DEF Places
        <3> QED BY <2>1, <2>3, <2>4, FS_SameCardinalityBij
    <2> QED BY <2>5, Fun_ExistsBij, Fun_BijectionProperties
<1> DEFINE copy(e) == CHOOSE g \in Injection(Places(e), 1..s[e]) : TRUE
           f == [i \in P |-> <<r[i], copy(r[i])[i]>>]
<1>4. \A e \in Matching : copy(e) \in Injection(Places(e), 1..s[e])
    BY <1>3
<1> HIDE DEF copy, Places
<1>5. ASSUME NEW i \in P
      PROVE  /\ r[i] \in Matching /\ IdOf[r[i]] \in ids /\ i \in Places(r[i])
             /\ copy(r[i])[i] \in 1..s[r[i]]
    <2>1. r[i] \in Matching /\ IdOf[r[i]] \in ids /\ i \in Places(r[i])
        BY <1>1 DEF Places
    <2>2. copy(r[i]) \in [Places(r[i]) -> 1..s[r[i]]]
        <3>1. copy(r[i]) \in Injection(Places(r[i]), 1..s[r[i]])
            BY <1>4, <2>1
        <3> QED BY <3>1 DEF Injection
    <2> QED BY <2>1, <2>2
<1>6. f \in [P -> K]
    <2> SUFFICES ASSUME NEW i \in P PROVE <<r[i], copy(r[i])[i]>> \in K
        OBVIOUS
    <2>1. copy(r[i])[i] \in 1..MaxDocs /\ copy(r[i])[i] <= s[r[i]]
        BY <1>2, <1>5 DEF MaxDocs
    <2> QED BY <1>5, <2>1 DEF DocsOf
<1>7. ASSUME NEW i \in P, NEW j \in P, f[i] = f[j] PROVE i = j
    <2>1. r[i] = r[j] /\ copy(r[i])[i] = copy(r[j])[j]
        BY <1>7
    <2>2. i \in Places(r[i]) /\ j \in Places(r[i]) /\ r[i] \in Matching
        BY <1>5, <2>1
    <2>3. \A x, y \in Places(r[i]) : copy(r[i])[x] = copy(r[i])[y] => x = y
        BY <1>4, <2>2, Fun_InjectionProperties
    <2> QED BY <2>1, <2>2, <2>3
<1>8. f \in Injection(P, K)
    <2> HIDE DEF f, K
    <2> QED BY <1>6, <1>7, Fun_IsInj
<1>9. IsFiniteSet(K)
    BY KnownFinite
<1>10. Cardinality(P) <= Cardinality(K)
    <2> HIDE DEF f, K
    <2> QED BY <1>8, <1>9, FS_Injection
<1> QED BY <1>10 DEF Known

\* A set of numbers has a smallest one: 0..n is a smallest of the sets 0..m.
LEMMA SmallestOf ==
    ASSUME NEW S \in SUBSET Nat, S # {}
    PROVE  \E m \in S : \A n \in S : m <= n
<1> DEFINE Down(n) == 0..n
           T == {Down(n) : n \in S}
<1>1. ASSUME NEW n \in Nat PROVE Down(n) \in FiniteSubsetsOf(Nat)
    <2>1. IsFiniteSet(0..n) /\ 0..n \in SUBSET Nat
        BY FS_Interval
    <2> QED BY <2>1 DEF FiniteSubsetsOf
<1>2. T \subseteq FiniteSubsetsOf(Nat) /\ T # {}
    <2> HIDE DEF Down
    <2> QED BY <1>1
<1>3. \E x \in T : \A y \in T : <<y, x>> \notin StrictSubsetOrdering(Nat)
    <2> HIDE DEF T
    <2> QED BY <1>2, FS_StrictSubsetOrderingWellFounded, WFMin
<1>4. PICK m \in S : \A n \in S : <<Down(n), Down(m)>> \notin StrictSubsetOrdering(Nat)
    BY <1>3
<1>5. ASSUME NEW n \in S, n < m PROVE FALSE
    <2>1. Down(n) \subseteq Down(m) /\ Down(n) # Down(m)
        BY <1>5
    <2>2. Down(n) \in SUBSET Nat /\ Down(m) \in SUBSET Nat
        OBVIOUS
    <2> QED BY <1>4, <2>1, <2>2 DEF StrictSubsetOrdering
<1> QED BY <1>5

-----------------------------------------------------------------------------
(* What search_helper finds.                                               *)

\* A set has at least one first element.
LEMMA FirstOfSome ==
    ASSUME NEW S \in SUBSET Nat, S # {}
    PROVE  FirstOf(S, Limit) # {}
<1>1. PICK m \in S : \A n \in S : m <= n
    BY SmallestOf
<1>2. {j \in S : j <= m} = {m}
    <2>1. \A j \in S : j \in Int /\ m \in Int /\ m <= j
        BY <1>1
    <2>2. \A j \in S : j <= m <=> j = m
        BY <2>1
    <2> QED BY <2>2
<1>3. Cardinality({m}) = 1
    BY FS_Singleton
<1>4. 1 <= Limit
    BY SizeAssumption
<1>5. Cardinality({j \in S : j <= m}) <= Limit
    BY <1>2, <1>3, <1>4
<1> QED BY <1>5 DEF FirstOf

\* search_helper asks until it has enough, which it has when it asked for all.
LEMMA LastLimitEnough ==
    ASSUME NEW ranking, NEW seen, Len(ranking) \in Nat
    PROVE  LastLimit(ranking, seen) \in Nat /\ Enough(LastLimit(ranking, seen), ranking, seen)
<1> DEFINE n == Len(ranking)
           limits == {Limit + k * Increment : k \in 0..n}
           enough == {l \in limits : Enough(l, ranking, seen)}
<1>1. ASSUME NEW k \in Nat PROVE k * Increment \in Nat /\ k * Increment >= k
    BY SizeAssumption
<1>2. limits \subseteq Nat
    <2> SUFFICES ASSUME NEW k \in 0..n PROVE Limit + k * Increment \in Nat
        OBVIOUS
    <2> QED BY <1>1, SizeAssumption
<1>3. Limit + n * Increment \in enough
    <2>1. Limit + n * Increment >= n
        BY <1>1, SizeAssumption
    <2>2. Limit + n * Increment \in limits
        OBVIOUS
    <2> QED BY <2>1, <2>2 DEF Enough
<1>4. PICK m \in enough : \A l \in enough : m <= l
    <2> HIDE DEF limits
    <2> QED BY <1>2, <1>3, SmallestOf
<1>5. \E l \in limits : Enough(l, ranking, seen)
                        /\ \A k \in limits : k < l => ~Enough(k, ranking, seen)
    <2>1. m \in limits /\ Enough(m, ranking, seen)
        BY <1>4
    <2>2. ASSUME NEW k \in limits, k < m, Enough(k, ranking, seen) PROVE FALSE
        <3>1. k \in enough
            BY <2>2
        <3>2. m <= k /\ k \in Nat /\ m \in Nat
            BY <1>2, <1>4, <2>1, <3>1
        <3> QED BY <2>2, <3>2
    <2> QED BY <2>1, <2>2
<1>6. LastLimit(ranking, seen) \in limits /\ Enough(LastLimit(ranking, seen), ranking, seen)
    BY <1>5 DEF LastLimit
<1> QED BY <1>2, <1>6

\* A document of a new id makes a page.
LEMMA HelperFinds ==
    ASSUME NEW ranking, NEW seen, Len(ranking) \in Nat, DOMAIN ranking = 1..Len(ranking),
           NEW i \in DOMAIN ranking, IdOf[ranking[i]] \notin seen.ids
    PROVE  SearchHelper(ranking, seen) # {}
<1>1. PICK l : l = LastLimit(ranking, seen)
    OBVIOUS
<1>2. l \in Nat /\ Enough(l, ranking, seen)
    BY <1>1, LastLimitEnough
<1>3. SearchHelper(ranking, seen) = NewAmong(l, ranking, seen)
    BY <1>1 DEF SearchHelper
<1>4. CASE Cardinality(NewAmong(l, ranking, seen)) >= Limit
    <2>1. Cardinality({}) = 0
        BY FS_EmptySet
    <2>2. Limit >= 1 /\ Limit \in Nat
        BY SizeAssumption
    <2>3. ASSUME NewAmong(l, ranking, seen) = {} PROVE FALSE
        <3>1. 0 >= Limit
            BY <1>4, <2>1, <2>3
        <3> QED BY <2>2, <3>1
    <2> QED BY <1>3, <2>3
<1>5. CASE l >= Len(ranking)
    <2> DEFINE S == {j \in DOMAIN ranking : j <= l /\ IdOf[ranking[j]] \notin seen.ids}
    <2>1. S \in SUBSET Nat /\ i \in S
        BY <1>2, <1>5
    <2> HIDE DEF S
    <2>2. FirstOf(S, Limit) # {}
        BY <2>1, FirstOfSome
    <2> QED BY <1>3, <2>2 DEF NewAmong, S
<1> QED BY <1>2, <1>4, <1>5 DEF Enough

\* A snapshot with more documents than are known has one of an id that is not.
LEMMA SomeUnknown ==
    ASSUME NEW s \in Documents, NEW ids, Known(s, ids) < Count(s)
    PROVE  \E e \in Matching : s[e] > 0 /\ IdOf[e] \notin ids
<1> DEFINE K == {d \in DocsOf(s) : IdOf[d[1]] \in ids}
<1>1. Known(s, ids) \in Nat /\ Count(s) \in Nat
    BY KnownFinite, DocsFinite
<1>2. K # DocsOf(s)
    BY <1>1 DEF Known, Count
<1>3. PICK d \in DocsOf(s) : IdOf[d[1]] \notin ids
    BY <1>2
<1>4. d[1] \in Matching /\ s[d[1]] \in 0..MaxDocs /\ d[2] \in 1..MaxDocs /\ d[2] <= s[d[1]]
    BY <1>3 DEF DocsOf, Documents
<1>5. s[d[1]] > 0
    BY <1>4 DEF MaxDocs
<1> QED BY <1>3, <1>4, <1>5

\* If every id has one document, the documents of some ids are no more than the ids.
LEMMA KnownOnce ==
    ASSUME NEW s \in Documents, OneDocPerId(s), NEW ids, IsFiniteSet(ids)
    PROVE  Known(s, ids) <= Cardinality(ids)
<1> DEFINE K == {d \in DocsOf(s) : IdOf[d[1]] \in ids}
           f == [d \in K |-> IdOf[d[1]]]
<1>1. f \in [K -> ids]
    OBVIOUS
<1>2. ASSUME NEW d \in K, NEW u \in K, f[d] = f[u] PROVE d = u
    <2>1. /\ d[1] \in Matching /\ u[1] \in Matching
          /\ d[2] \in 1..MaxDocs /\ u[2] \in 1..MaxDocs
          /\ d[2] <= s[d[1]] /\ u[2] <= s[u[1]]
          /\ d = <<d[1], d[2]>> /\ u = <<u[1], u[2]>>
        BY DEF DocsOf
    <2>2. s[d[1]] \in 0..MaxDocs /\ s[u[1]] \in 0..MaxDocs
        BY <2>1 DEF Documents
    <2>3. IdOf[d[1]] = IdOf[u[1]]
        BY <1>2
    <2>4. s[d[1]] + s[u[1]] <= (IF d[1] = u[1] THEN 2 ELSE 1)
        BY <2>1, <2>3 DEF OneDocPerId
    <2>5. d[1] = u[1]
        BY <2>1, <2>2, <2>4 DEF MaxDocs
    <2>6. d[2] = 1 /\ u[2] = 1
        BY <2>1, <2>2, <2>4, <2>5 DEF MaxDocs
    <2> QED BY <2>1, <2>5, <2>6
<1>3. f \in Injection(K, ids)
    <2> HIDE DEF f, K
    <2> QED BY <1>1, <1>2, Fun_IsInj
<1> HIDE DEF f
<1>4. Cardinality(K) <= Cardinality(ids)
    <2> HIDE DEF K
    <2> QED BY <1>3, FS_Injection
<1> QED BY <1>4 DEF Known

\* A ranking has every document that there is.
LEMMA RankedSomewhere ==
    ASSUME NEW s \in Documents, NEW ranking \in Rankings[s], NEW e \in Matching, s[e] > 0
    PROVE  \E i \in DOMAIN ranking : ranking[i] = e
<1>1. Cardinality({i \in DOMAIN ranking : ranking[i] = e}) = s[e]
    BY DEF Rankings
<1>2. s[e] \in Nat
    BY DEF Documents, MaxDocs
<1>3. {i \in DOMAIN ranking : ranking[i] = e} # {}
    BY <1>1, <1>2, FS_EmptySet
<1> QED BY <1>3

\* A page has no more ids than documents.
LEMMA IdsOfPage ==
    ASSUME NEW new, IsFiniteSet(new), NEW ranking, NEW ids,
           ids = {IdOf[ranking[i]] : i \in new}
    PROVE  IsFiniteSet(ids) /\ Cardinality(ids) <= Cardinality(new)
<1> DEFINE f == [i \in new |-> IdOf[ranking[i]]]
<1>1. f \in Surjection(new, ids)
    BY DEF Surjection
<1> HIDE DEF f
<1> QED BY <1>1, FS_Surjection

-----------------------------------------------------------------------------
(* The cache of past searches.                                             *)

\* Inserting a new token keeps the cache within its size: the oldest entry goes
\* when it is full.
LEMMA InsertCache ==
    ASSUME CacheBounded, NEW t \in Tokens, t \notin DOMAIN past, NEW seen, Insert(t, seen)
    PROVE  /\ CacheBounded'
           /\ DOMAIN past' \subseteq DOMAIN past \cup {t}
           /\ \A u \in DOMAIN past' : past'[u] = IF u = t THEN seen ELSE past[u]
<1>1. PICK kept : kept = Kept
    OBVIOUS
<1>2. recent \in Seq(Tokens) /\ Len(recent) <= CacheSize /\ CacheSize \in Nat \ {0}
    BY SizeAssumption DEF CacheBounded
<1>3. /\ kept \in Seq(Tokens) /\ Len(kept) < CacheSize
      /\ \A i \in 1..Len(kept) : \E k \in 1..Len(recent) : kept[i] = recent[k]
      /\ \A i, j \in 1..Len(kept) : i # j => kept[i] # kept[j]
    <2>1. CASE Len(recent) >= CacheSize
        <3>1. kept = Tail(recent) /\ recent # <<>>
            BY <1>1, <1>2, <2>1 DEF Kept
        <3>2. /\ kept \in Seq(Tokens) /\ Len(kept) = Len(recent) - 1
              /\ \A i \in 1..Len(kept) : kept[i] = recent[i + 1] /\ i + 1 \in 1..Len(recent)
            BY <1>2, <3>1
        <3>3. \A i, j \in 1..Len(recent) : i # j => recent[i] # recent[j]
            BY <1>2 DEF CacheBounded
        <3>4. \A i, j \in 1..Len(kept) : i # j => kept[i] # kept[j]
            <4> SUFFICES ASSUME NEW i \in 1..Len(kept), NEW j \in 1..Len(kept), i # j
                         PROVE  kept[i] # kept[j]
                OBVIOUS
            <4>1. i + 1 # j + 1 /\ i + 1 \in 1..Len(recent) /\ j + 1 \in 1..Len(recent)
                BY <3>2
            <4>2. recent[i + 1] # recent[j + 1]
                BY <3>3, <4>1
            <4> QED BY <3>2, <4>2
        <3> QED BY <1>2, <3>2, <3>4
    <2>2. CASE ~(Len(recent) >= CacheSize)
        <3>1. kept = recent /\ Len(recent) < CacheSize
            BY <1>1, <1>2, <2>2 DEF Kept
        <3>2. \A i, j \in 1..Len(recent) : i # j => recent[i] # recent[j]
            BY <1>2 DEF CacheBounded
        <3> QED BY <1>2, <3>1, <3>2
    <2> QED BY <2>1, <2>2
<1>4. recent' = Append(kept, t)
    BY <1>1 DEF Insert
<1>5. /\ recent' \in Seq(Tokens) /\ Len(recent') = Len(kept) + 1 /\ Len(kept) \in Nat
      /\ DOMAIN recent' = 1..Len(recent')
      /\ recent'[Len(kept) + 1] = t
      /\ \A i \in 1..Len(kept) : recent'[i] = kept[i]
    BY <1>3, <1>4
<1>6. \A i \in 1..Len(kept) : kept[i] \in DOMAIN past
    BY <1>2, <1>3 DEF CacheBounded, Elements
<1>7. \A i \in 1..Len(recent') : i \in 1..Len(kept) \/ i = Len(kept) + 1
    BY <1>5
<1>8. \A i, j \in DOMAIN recent' : i # j => recent'[i] # recent'[j]
    <2> SUFFICES ASSUME NEW i \in DOMAIN recent', NEW j \in DOMAIN recent', i # j
                 PROVE  recent'[i] # recent'[j]
        OBVIOUS
    <2>1. CASE i \in 1..Len(kept) /\ j \in 1..Len(kept)
        BY <1>3, <1>5, <2>1
    <2>2. CASE i = Len(kept) + 1 /\ j \in 1..Len(kept)
        BY <1>5, <1>6, <2>2
    <2>3. CASE i \in 1..Len(kept) /\ j = Len(kept) + 1
        BY <1>5, <1>6, <2>3
    <2> QED BY <1>5, <1>7, <2>1, <2>2, <2>3
<1>9. Elements(recent') = DOMAIN past'
    BY DEF Insert
<1>10. \A u \in Elements(recent') : u \in DOMAIN past \/ u = t
    BY <1>5, <1>6, <1>7 DEF Elements
<1>11. Len(recent') <= CacheSize
    BY <1>2, <1>3, <1>5
<1>12. CacheBounded'
    BY <1>5, <1>8, <1>9, <1>11 DEF CacheBounded
<1> QED BY <1>9, <1>10, <1>12 DEF Insert

\* The elements of a concatenation.
LEMMA ConcatProps ==
    ASSUME NEW S, NEW p \in Seq(S), NEW q \in Seq(S)
    PROVE  /\ p \o q \in Seq(S) /\ Len(p \o q) = Len(p) + Len(q)
           /\ \A i \in 1..Len(p) : (p \o q)[i] = p[i]
           /\ \A i \in 1..Len(q) : (p \o q)[Len(p) + i] = q[i]
OBVIOUS

\* A token that is used moves to the end of the list, the others stay in order.
LEMMA TouchCache ==
    ASSUME CacheBounded, NEW t, Touch(t), past' = past
    PROVE  CacheBounded'
<1>1. PICK k \in DOMAIN recent :
          /\ recent[k] = t
          /\ recent' = SubSeq(recent, 1, k - 1) \o SubSeq(recent, k + 1, Len(recent)) \o <<t>>
    BY DEF Touch
<1>2. PICK n : n = Len(recent)
    OBVIOUS
<1>3. recent \in Seq(Tokens) /\ n \in Nat /\ k \in 1..n /\ t \in Tokens
    BY <1>1, <1>2 DEF CacheBounded
<1>4. PICK p : p = SubSeq(recent, 1, k - 1)
    OBVIOUS
<1>5. PICK q : q = SubSeq(recent, k + 1, n)
    OBVIOUS
<1>6. /\ p \in Seq(Tokens) /\ Len(p) = k - 1
      /\ \A i \in 1..k - 1 : p[i] = recent[i]
    BY <1>2, <1>3, <1>4
<1>7. /\ q \in Seq(Tokens) /\ Len(q) = n - k
      /\ \A i \in 1..n - k : q[i] = recent[k + i]
    BY <1>2, <1>3, <1>5
<1>8. PICK u : u = p \o q
    OBVIOUS
<1>9. /\ u \in Seq(Tokens) /\ Len(u) = n - 1
      /\ \A i \in 1..k - 1 : u[i] = recent[i]
      /\ \A i \in k..n - 1 : u[i] = recent[i + 1]
    <2>1. /\ u \in Seq(Tokens) /\ Len(u) = Len(p) + Len(q)
          /\ \A i \in 1..Len(q) : u[Len(p) + i] = q[i]
        <3>1. p \in Seq(Tokens) /\ q \in Seq(Tokens)
            BY <1>6, <1>7
        <3> QED BY <1>8, <3>1, ConcatProps
    <2>2. Len(u) = n - 1
        BY <1>3, <1>6, <1>7, <2>1
    <2>3. \A i \in 1..k - 1 : u[i] = recent[i]
        BY <1>3, <1>6, <1>7, <1>8
    <2>4. ASSUME NEW i \in k..n - 1 PROVE u[i] = recent[i + 1]
        <3>1. PICK m \in 1..n - k : i = (k - 1) + m /\ i + 1 = k + m
            <4>1. i - (k - 1) \in 1..n - k /\ i = (k - 1) + (i - (k - 1)) /\ i + 1 = k + (i - (k - 1))
                BY <1>3
            <4> QED BY <4>1
        <3>2. u[i] = q[m]
            BY <1>6, <1>7, <2>1, <3>1
        <3>3. q[m] = recent[k + m]
            BY <1>7
        <3> QED BY <3>1, <3>2, <3>3
    <2> QED BY <2>1, <2>2, <2>3, <2>4
<1>10. recent' = Append(u, t)
    <2>1. recent' = u \o <<t>>
        BY <1>1, <1>2, <1>4, <1>5, <1>8
    <2> QED BY <1>3, <1>9, <2>1
<1>11. /\ recent' \in Seq(Tokens) /\ Len(recent') = n /\ DOMAIN recent' = 1..n
       /\ \A i \in 1..n - 1 : recent'[i] = u[i]
       /\ recent'[n] = t
    BY <1>3, <1>9, <1>10
<1> DEFINE from(i) == IF i < k THEN i ELSE IF i < n THEN i + 1 ELSE k
<1>12. \A i \in 1..n : recent'[i] = recent[from(i)] /\ from(i) \in 1..n
    <2> SUFFICES ASSUME NEW i \in 1..n
                 PROVE  recent'[i] = recent[from(i)] /\ from(i) \in 1..n
        OBVIOUS
    <2>1. CASE i \in 1..k - 1
        BY <1>3, <1>9, <1>11, <2>1
    <2>2. CASE i \in k..n - 1
        BY <1>3, <1>9, <1>11, <2>2
    <2>3. CASE i = n
        BY <1>1, <1>3, <1>11, <2>3
    <2> QED BY <1>3, <2>1, <2>2, <2>3
<1>13. \A i, j \in 1..n : i # j => from(i) # from(j)
    <2> SUFFICES ASSUME NEW i \in 1..n, NEW j \in 1..n, from(i) = from(j) PROVE i = j
        OBVIOUS
    <2>1. CASE i < k
        BY <1>3, <2>1
    <2>2. CASE ~(i < k) /\ i < n
        <3>1. from(j) = i + 1
            BY <1>3, <2>2
        <3>2. CASE j < k
            BY <1>3, <2>2, <3>1, <3>2
        <3>3. CASE ~(j < k) /\ j < n
            BY <1>3, <3>1, <3>3
        <3>4. CASE ~(j < k) /\ ~(j < n)
            BY <1>3, <2>2, <3>1, <3>4
        <3> QED BY <3>2, <3>3, <3>4
    <2>3. CASE ~(i < k) /\ ~(i < n)
        BY <1>3, <2>3
    <2> QED BY <2>1, <2>2, <2>3
<1>14. \A j \in 1..n : \E i \in 1..n : from(i) = j
    <2> SUFFICES ASSUME NEW j \in 1..n PROVE \E i \in 1..n : from(i) = j
        OBVIOUS
    <2>1. CASE j < k
        BY <1>3, <2>1
    <2>2. CASE j = k
        <3>1. n \in 1..n /\ from(n) = k
            BY <1>3
        <3> QED BY <2>2, <3>1
    <2>3. CASE j > k
        <3>1. j - 1 \in 1..n /\ from(j - 1) = j
            BY <1>3, <2>3
        <3> QED BY <3>1
    <2> QED BY <1>3, <2>1, <2>2, <2>3
<1> HIDE DEF from
<1>15. DOMAIN recent = 1..n /\ \A i, j \in 1..n : i # j => recent[i] # recent[j]
    BY <1>2, <1>3 DEF CacheBounded
<1>16. \A i, j \in DOMAIN recent' : i # j => recent'[i] # recent'[j]
    BY <1>11, <1>12, <1>13, <1>15
<1>17. Elements(recent') = Elements(recent)
    <2>1. Elements(recent') \subseteq Elements(recent)
        BY <1>11, <1>12, <1>15 DEF Elements
    <2>2. Elements(recent) \subseteq Elements(recent')
        <3>1. ASSUME NEW j \in 1..n PROVE \E i \in 1..n : recent'[i] = recent[j]
            <4>1. PICK m \in 1..n : from(m) = j
                BY <1>14
            <4>2. recent'[m] = recent[from(m)]
                BY <1>12
            <4>3. recent'[m] = recent[j]
                BY <4>1, <4>2
            <4> WITNESS m \in 1..n
            <4> QED BY <4>3
        <3>2. ASSUME NEW j \in 1..n PROVE recent[j] \in Elements(recent')
            <4>1. PICK m \in 1..n : recent'[m] = recent[j]
                BY <3>1
            <4>2. m \in DOMAIN recent'
                BY <1>11
            <4> QED BY <4>1, <4>2 DEF Elements
        <3>3. \A x \in Elements(recent) : \E j \in 1..n : x = recent[j]
            BY <1>15 DEF Elements
        <3> QED BY <3>2, <3>3
    <2> QED BY <2>1, <2>2
<1> QED BY <1>2, <1>11, <1>16, <1>17 DEF CacheBounded

\* The past searches of the cache after one is inserted.
LEMMA InsertPast ==
    ASSUME NEW t \in Tokens, NEW seen \in Seen, PageTypes, CacheBounded, t \notin DOMAIN past,
           Insert(t, seen)
    PROVE  /\ DOMAIN past' \subseteq Tokens
           /\ past' \in [DOMAIN past' -> Seen]
           /\ t \in DOMAIN past' => past'[t] = seen
           /\ \A u \in DOMAIN past' : u # t => u \in DOMAIN past /\ past'[u] = past[u]
<1>1. /\ DOMAIN past' \subseteq DOMAIN past \cup {t}
      /\ \A u \in DOMAIN past' : past'[u] = IF u = t THEN seen ELSE past[u]
    BY InsertCache
<1>2. past' = [u \in DOMAIN past' |-> past'[u]]
    BY DEF Insert
<1>3. \A u \in DOMAIN past' : past'[u] \in Seen
    BY <1>1 DEF PageTypes
<1> QED BY <1>1, <1>2, <1>3 DEF PageTypes

-----------------------------------------------------------------------------
(* Types.                                                                  *)

LEMMA NoDocsType == NoDocs \in Documents
BY DEF NoDocs, Documents, MaxDocs

LEMMA NothingSeenType == NothingSeen \in Seen
BY DEF NothingSeen, Seen

LEMMA InitTypes == Init => PageTypes /\ StoreTypes
<1> SUFFICES ASSUME Init PROVE PageTypes /\ StoreTypes
    OBVIOUS
<1>1. docs \in Documents /\ reader \in Documents
    BY DEF Init, Documents, MaxDocs
<1>2. rows \in SUBSET Events
    BY MatchingAssumption DEF Init
<1>3. StoreTypes
    BY <1>1, <1>2 DEF Init, StoreTypes
<1>4. DOMAIN past \subseteq Tokens /\ past \in [DOMAIN past -> Seen]
    BY DEF Init
<1>5. snapshot \in [Clients -> Documents] /\ previous \in [Clients -> Seen]
    BY NoDocsType, NothingSeenType DEF Init
<1>6. PageTypes
    BY <1>4, <1>5 DEF Init, PageTypes, Stage
<1> QED BY <1>3, <1>6

\* A page has no more ids than documents, and has one if the snapshot holds a
\* document of an id that is new to client c.
Brought(c, ids, n) ==
    /\ IsFiniteSet(ids) /\ Cardinality(ids) <= n
    /\ (\E e \in Matching : snapshot[c][e] > 0 /\ IdOf[e] \notin previous[c].ids) => ids # {}

\* A page of client c holds n documents of the ids, which are new to it.
Collected(c, ids, n) ==
    LET seen == SeenWith(previous[c], ids, n)
    IN  /\ ids \in SUBSET EventIds /\ n \in Nat
        /\ Brought(c, ids, n)
        /\ ids \cap previous[c].ids = {}
        /\ n <= Known(snapshot[c], ids)
        /\ seen \in Seen
        /\ found' = [found EXCEPT ![c] = ids]
        /\ \/ /\ nextBatch' = [nextBatch EXCEPT ![c] = NoToken]
              /\ seen.len = Count(snapshot[c])
              /\ UNCHANGED searchCache
           \/ \E t \in Tokens :
                  /\ ~InUse(t)
                  /\ nextBatch' = [nextBatch EXCEPT ![c] = t]
                  /\ seen.len # Count(snapshot[c])
                  /\ Insert(t, seen)

\* What Collect finds.
LEMMA CollectFinds ==
    ASSUME PageTypes, NEW c \in Clients, Collect(c)
    PROVE  \E ids, n : Collected(c, ids, n)
<1>1. snapshot[c] \in Documents /\ previous[c] \in Seen
    BY DEF PageTypes
<1>2. PICK ranking \in Rankings[snapshot[c]] :
          LET new == SearchHelper(ranking, previous[c])
              ids == {IdOf[ranking[i]] : i \in new}
              seen == SeenWith(previous[c], ids, Cardinality(new))
          IN  /\ found' = [found EXCEPT ![c] = ids]
              /\ IF LastPage(seen, Count(snapshot[c]))
                 THEN /\ nextBatch' = [nextBatch EXCEPT ![c] = NoToken]
                      /\ UNCHANGED searchCache
                 ELSE \E t \in Tokens :
                          /\ Fresh(t)
                          /\ nextBatch' = [nextBatch EXCEPT ![c] = t]
                          /\ Insert(t, seen)
    BY DEF Collect
<1> DEFINE new == SearchHelper(ranking, previous[c])
           ids == {IdOf[ranking[i]] : i \in new}
           seen == SeenWith(previous[c], ids, Cardinality(new))
<1>3. Cardinality(new) \in Nat /\ \A i \in new : ranking[i] \in Matching
    BY <1>1, HelperCounts
<1>4. ids \in SUBSET EventIds
    BY <1>3, IdAssumption, MatchingAssumption
<1>5. ids \cap previous[c].ids = {}
    BY HelperReturnsNew
<1>6. seen \in Seen
    BY <1>1, <1>3, <1>4 DEF SeenWith, Seen
<1>7. \/ /\ nextBatch' = [nextBatch EXCEPT ![c] = NoToken]
         /\ seen.len = Count(snapshot[c])
         /\ UNCHANGED searchCache
      \/ \E t \in Tokens :
            /\ ~InUse(t)
            /\ nextBatch' = [nextBatch EXCEPT ![c] = t]
            /\ seen.len # Count(snapshot[c])
            /\ Insert(t, seen)
    BY <1>2 DEF Fresh, LastPage
<1>8. found' = [found EXCEPT ![c] = ids]
    BY <1>2
<1>9. Cardinality(new) <= Known(snapshot[c], ids)
    <2>1. new \subseteq {i \in DOMAIN ranking : IdOf[ranking[i]] \in ids}
        BY <1>1, HelperCounts
    <2> HIDE DEF ids, new
    <2> QED BY <1>1, <2>1, PlacesAreDocs
<1>10. IsFiniteSet(ids) /\ Cardinality(ids) <= Cardinality(new)
    <2>1. IsFiniteSet(new)
        BY <1>1, HelperCounts, FS_Subset
    <2> HIDE DEF new
    <2> QED BY <2>1, IdsOfPage
<1>11. ASSUME NEW e \in Matching, snapshot[c][e] > 0, IdOf[e] \notin previous[c].ids
       PROVE  ids # {}
    <2>1. PICK i \in DOMAIN ranking : ranking[i] = e
        BY <1>1, <1>11, RankedSomewhere
    <2>2. Len(ranking) \in Nat /\ DOMAIN ranking = 1..Len(ranking)
        <3>1. ranking \in [1..Count(snapshot[c]) -> Matching] /\ Count(snapshot[c]) \in Nat
            BY <1>1, DocsFinite DEF Rankings
        <3>2. ranking \in Seq(Matching)
            BY <3>1
        <3> QED BY <3>2
    <2>3. new # {}
        BY <1>11, <2>1, <2>2, HelperFinds
    <2> HIDE DEF new
    <2> QED BY <2>3
<1>12. Brought(c, ids, Cardinality(new))
    <2> HIDE DEF ids, new
    <2> QED BY <1>10, <1>11 DEF Brought
<1> HIDE DEF ids, new
<1> QED BY <1>3, <1>4, <1>5, <1>6, <1>7, <1>8, <1>9, <1>12 DEF Collected

LEMMA BeginTypes ==
    ASSUME PageTypes, StoreTypes, NEW c \in Clients, Begin(c)
    PROVE  PageTypes'
<1>1. past' = past /\ token' = token /\ found' = found /\ nextBatch' = nextBatch /\ given' = given
    BY DEF Begin
<1>2. stage' \in [Clients -> Stage]
    BY DEF Begin, PageTypes, Stage
<1>3. snapshot' \in [Clients -> Documents]
    BY DEF Begin, PageTypes, StoreTypes
<1>4. previous' \in [Clients -> Seen]
    BY NothingSeenType DEF Begin, PageTypes
<1>5. resumed' \in [Clients -> BOOLEAN]
    BY DEF Begin, PageTypes
<1>6. shrunk' \in [Clients -> BOOLEAN]
    <2>1. PICK b \in BOOLEAN : shrunk' = [shrunk EXCEPT ![c] = b]
        <3>1. shrunk[c] \in BOOLEAN
            BY DEF PageTypes
        <3>2. (shrunk[c] \/ \E e \in Matching : reader[e] < snapshot[c][e]) \in BOOLEAN
            BY <3>1
        <3> QED BY <3>2 DEF Begin
    <2> QED BY <2>1 DEF PageTypes
<1> QED BY <1>1, <1>2, <1>3, <1>4, <1>5, <1>6 DEF PageTypes

LEMMA CollectTypes ==
    ASSUME PageTypes, CacheBounded, NEW c \in Clients, Collect(c)
    PROVE  PageTypes'
<1>1. /\ token' = token /\ snapshot' = snapshot /\ previous' = previous
      /\ given' = given /\ resumed' = resumed /\ shrunk' = shrunk
    BY DEF Collect, history
<1>2. stage' \in [Clients -> Stage]
    BY DEF Collect, PageTypes, Stage
<1>3. PICK ids, n : Collected(c, ids, n)
    BY CollectFinds
<1>4. found' \in [Clients -> SUBSET EventIds]
    BY <1>3 DEF PageTypes, Collected
<1>5. /\ nextBatch' \in [Clients -> Tokens \cup {NoToken}]
      /\ DOMAIN past' \subseteq Tokens /\ past' \in [DOMAIN past' -> Seen]
    <2>1. CASE nextBatch' = [nextBatch EXCEPT ![c] = NoToken] /\ UNCHANGED searchCache
        BY <2>1 DEF PageTypes, searchCache
    <2>2. ASSUME NEW t \in Tokens, ~InUse(t), nextBatch' = [nextBatch EXCEPT ![c] = t],
                 Insert(t, SeenWith(previous[c], ids, n))
          PROVE  <1>5!1 /\ <1>5!2
        <3>1. t \notin DOMAIN past
            BY <2>2 DEF InUse
        <3>2. SeenWith(previous[c], ids, n) \in Seen
            BY <1>3 DEF Collected
        <3>3. DOMAIN past' \subseteq Tokens /\ past' \in [DOMAIN past' -> Seen]
            BY <2>2, <3>1, <3>2, InsertPast
        <3> QED BY <2>2, <3>3 DEF PageTypes
    <2> QED BY <1>3, <2>1, <2>2 DEF Collected
<1> QED BY <1>1, <1>2, <1>4, <1>5 DEF PageTypes

LEMMA NextTypes ==
    ASSUME PageTypes, StoreTypes, CacheBounded, [Next]_vars
    PROVE  PageTypes' /\ StoreTypes'
<1>1. ASSUME NEW c \in Clients, Begin(c) PROVE PageTypes' /\ StoreTypes'
    BY <1>1, BeginTypes DEF Begin, StoreTypes, store
<1>2. ASSUME NEW c \in Clients, Collect(c) PROVE PageTypes' /\ StoreTypes'
    BY <1>2, CollectTypes DEF Collect, StoreTypes, store
<1>3. ASSUME NEW c \in Clients, Load(c) PROVE PageTypes' /\ StoreTypes'
    <2>1. StoreTypes'
        BY <1>3 DEF Load, StoreTypes, store
    <2>2. given' \in [Clients -> SUBSET EventIds] /\ found' \in [Clients -> SUBSET EventIds]
        BY <1>3 DEF Load, PageTypes
    <2>3. /\ token' \in [Clients -> Tokens \cup {NoToken}]
          /\ nextBatch' \in [Clients -> Tokens \cup {NoToken}]
        BY <1>3 DEF Load, PageTypes
    <2>4. previous' \in [Clients -> Seen] /\ stage' \in [Clients -> Stage]
        BY <1>3, NothingSeenType DEF Load, PageTypes, Stage
    <2> QED BY <1>3, <2>1, <2>2, <2>3, <2>4 DEF Load, PageTypes, searchCache
<1>4. ASSUME NEW c \in Clients, LoadPanics(c) PROVE PageTypes' /\ StoreTypes'
    <2>1. StoreTypes'
        BY <1>4 DEF LoadPanics, StoreTypes, store
    <2>2. /\ found' \in [Clients -> SUBSET EventIds]
          /\ nextBatch' \in [Clients -> Tokens \cup {NoToken}]
        BY <1>4 DEF LoadPanics, PageTypes
    <2>3. previous' \in [Clients -> Seen] /\ stage' \in [Clients -> Stage]
        BY <1>4, NothingSeenType DEF LoadPanics, PageTypes, Stage
    <2> QED BY <1>4, <2>1, <2>2, <2>3 DEF LoadPanics, PageTypes, searchCache, history
<1>5. ASSUME NEW c \in Clients, LoadFails(c) PROVE PageTypes' /\ StoreTypes'
    <2>1. StoreTypes'
        BY <1>5 DEF LoadFails, Change, StoreTypes, store
    <2>2. /\ found' \in [Clients -> SUBSET EventIds]
          /\ nextBatch' \in [Clients -> Tokens \cup {NoToken}]
        BY <1>5 DEF LoadFails, PageTypes
    <2>3. previous' \in [Clients -> Seen] /\ stage' \in [Clients -> Stage]
        BY <1>5, NothingSeenType DEF LoadFails, PageTypes, Stage
    <2> QED BY <1>5, <2>1, <2>2, <2>3 DEF LoadFails, PageTypes, searchCache, history
<1>6. ASSUME NEW c \in Clients, Restart(c) PROVE PageTypes' /\ StoreTypes'
    <2>1. StoreTypes'
        BY <1>6 DEF Restart, Change, StoreTypes, store
    <2>2. /\ token' \in [Clients -> Tokens \cup {NoToken}]
          /\ stage' \in [Clients -> Stage]
        BY <1>6 DEF Restart, PageTypes, Stage
    <2>3. snapshot' \in [Clients -> Documents] /\ given' \in [Clients -> SUBSET EventIds]
        BY <1>6, NoDocsType DEF Restart, PageTypes
    <2>4. resumed' \in [Clients -> BOOLEAN] /\ shrunk' \in [Clients -> BOOLEAN]
        BY <1>6 DEF Restart, PageTypes
    <2> QED BY <1>6, <2>1, <2>2, <2>3, <2>4 DEF Restart, PageTypes, searchCache
<1>7. ASSUME WriterStep PROVE PageTypes' /\ StoreTypes'
    <2>1. UNCHANGED <<searchCache, client, history, poisoned>>
        BY <1>7 DEF WriterStep, StoreEvent, IndexEvent, DeleteRows, DeleteDocs, Reload
    <2>2. PageTypes'
        BY <2>1 DEF PageTypes, searchCache, client, history
    <2>3. rows' \in SUBSET Events
        BY <1>7 DEF WriterStep, StoreEvent, IndexEvent, DeleteRows, DeleteDocs, Reload, StoreTypes
    <2>4. changes' \in Nat
        BY <1>7 DEF WriterStep, StoreEvent, IndexEvent, DeleteRows, DeleteDocs, Reload, Change,
                    StoreTypes
    <2>5. docs' \in Documents
        <3>1. ASSUME NEW e \in Matching, IndexEvent(e) PROVE docs' \in Documents
            BY <3>1 DEF IndexEvent, StoreTypes, Documents, MaxDocs
        <3>2. ASSUME NEW id \in EventIds, DeleteDocs(id) PROVE docs' \in Documents
            BY <3>2 DEF DeleteDocs, StoreTypes, Documents, MaxDocs
        <3>3. CASE docs' = docs
            BY <3>3 DEF StoreTypes
        <3> QED BY <1>7, <3>1, <3>2, <3>3 DEF WriterStep, StoreEvent, DeleteRows, Reload
    <2>6. reader' \in Documents
        BY <1>7 DEF WriterStep, StoreEvent, IndexEvent, DeleteRows, DeleteDocs, Reload, StoreTypes
    <2> QED BY <2>1, <2>2, <2>3, <2>4, <2>5, <2>6 DEF StoreTypes
<1>8. CASE UNCHANGED vars
    BY <1>8 DEF vars, store, searchCache, client, history, PageTypes, StoreTypes
<1> QED BY <1>1, <1>2, <1>3, <1>4, <1>5, <1>6, <1>7, <1>8 DEF Next, SearchStep

LEMMA CacheStaysBounded == ASSUME TypeOK, [Next]_vars PROVE CacheBounded'
<1> USE DEF TypeOK
<1>1. CASE UNCHANGED searchCache
    BY <1>1 DEF CacheBounded, searchCache
<1>2. ASSUME NEW c \in Clients, Begin(c) PROVE CacheBounded'
    BY <1>1, <1>2, TouchCache DEF Begin, searchCache
<1>3. ASSUME NEW c \in Clients, Collect(c) PROVE CacheBounded'
    <2>1. PICK ids, n : Collected(c, ids, n)
        BY <1>3, CollectFinds
    <2>2. ASSUME NEW t \in Tokens, ~InUse(t), Insert(t, SeenWith(previous[c], ids, n))
          PROVE  CacheBounded'
        BY <2>2, InsertCache DEF InUse
    <2> QED BY <1>1, <2>1, <2>2 DEF Collected
<1> QED
    BY <1>1, <1>2, <1>3
    DEF Next, SearchStep, Load, LoadPanics, LoadFails, Restart, WriterStep, StoreEvent,
        IndexEvent, DeleteRows, DeleteDocs, Reload, vars

-----------------------------------------------------------------------------
(* What the clients were given is remembered.                              *)

\* Remembered, of one client.
RememberedBy(c) ==
    resumed[c] =>
        /\ token[c] = NoToken /\ stage[c] # "ended" => given[c] = {}
        /\ token[c] \in DOMAIN past => given[c] \subseteq past[token[c]].ids
        /\ stage[c] = "begun" => given[c] \subseteq previous[c].ids
        /\ stage[c] = "found" =>
              /\ found[c] \cap given[c] = {}
              /\ nextBatch[c] \in DOMAIN past
                 => given[c] \cup found[c] \subseteq past[nextBatch[c]].ids

LEMMA RememberedByAll == Remembered <=> \A c \in Clients : RememberedBy(c)
BY DEF Remembered, RememberedBy

\* A step leaves what client d has been given and looks at alone.
Aside(d) ==
    /\ stage'[d] = stage[d] /\ token'[d] = token[d] /\ previous'[d] = previous[d]
    /\ found'[d] = found[d] /\ nextBatch'[d] = nextBatch[d]
    /\ given'[d] = given[d] /\ resumed'[d] = resumed[d]

\* Such a client still remembers if the cache is as it was.
LEMMA AsideRemembers ==
    ASSUME NEW d \in Clients, RememberedBy(d), Aside(d), past' = past
    PROVE  RememberedBy(d)'
BY DEF RememberedBy, Aside

\* It still remembers if the cache gained a token that is not its own.
LEMMA AsideInsert ==
    ASSUME NEW d \in Clients, RememberedBy(d), Aside(d),
           NEW t, t # token[d], t # nextBatch[d],
           \A u \in DOMAIN past' : u # t => u \in DOMAIN past /\ past'[u] = past[u]
    PROVE  RememberedBy(d)'
BY DEF RememberedBy, Aside

LEMMA BeginRemembers ==
    ASSUME PageTypes, Remembered, NEW c \in Clients, Begin(c)
    PROVE  Remembered'
<1>1. past' = past
    BY DEF Begin
<1>2. ASSUME NEW d \in Clients, d # c PROVE RememberedBy(d)'
    <2>1. Aside(d)
        BY <1>2 DEF Begin, Aside, PageTypes
    <2> QED BY <1>1, <2>1, AsideRemembers, RememberedByAll
<1>3. RememberedBy(c)'
    <2>1. /\ stage[c] = "ready" /\ stage'[c] = "begun"
          /\ token' = token /\ given' = given
        BY DEF Begin, PageTypes
    <2>2. resumed'[c] => resumed[c] /\ (token[c] = NoToken \/ token[c] \in DOMAIN past)
        BY DEF Begin, PageTypes
    <2>3. token[c] \in DOMAIN past => previous'[c] = past[token[c]]
        BY DEF Begin, PageTypes
    <2>4. resumed[c] => /\ token[c] = NoToken => given[c] = {}
                        /\ token[c] \in DOMAIN past => given[c] \subseteq past[token[c]].ids
        BY <2>1 DEF Remembered
    <2>5. resumed'[c] /\ token[c] \notin DOMAIN past => given'[c] = {}
        BY <2>1, <2>2, <2>4
    <2>6. resumed'[c] => given'[c] \subseteq previous'[c].ids
        BY <2>1, <2>2, <2>3, <2>4, <2>5
    <2> QED BY <1>1, <2>1, <2>2, <2>4, <2>6 DEF RememberedBy
<1>4. \A d \in Clients : RememberedBy(d)'
    BY <1>2, <1>3
<1> QED BY <1>4 DEF Remembered, RememberedBy

LEMMA CollectRemembers ==
    ASSUME PageTypes, CacheBounded, Remembered, NEW c \in Clients, Collect(c)
    PROVE  Remembered'
<1>1. /\ stage[c] = "begun" /\ stage'[c] = "found"
      /\ token' = token /\ previous' = previous /\ given' = given /\ resumed' = resumed
    BY DEF Collect, history, PageTypes
<1>2. PICK ids, n : Collected(c, ids, n)
    BY CollectFinds
<1>3. found'[c] = ids /\ (resumed[c] => ids \cap given[c] = {})
    BY <1>1, <1>2 DEF PageTypes, Remembered, Collected
<1>4. CASE nextBatch' = [nextBatch EXCEPT ![c] = NoToken] /\ UNCHANGED searchCache
    <2>1. past' = past
        BY <1>4 DEF searchCache
    <2>2. ASSUME NEW d \in Clients, d # c PROVE RememberedBy(d)'
        <3>1. stage'[d] = stage[d] /\ found'[d] = found[d] /\ nextBatch'[d] = nextBatch[d]
            BY <1>2, <1>4, <2>2 DEF Collect, PageTypes, Collected
        <3>2. Aside(d)
            BY <1>1, <3>1 DEF Aside
        <3> QED BY <2>1, <3>2, AsideRemembers, RememberedByAll
    <2>3. RememberedBy(c)'
        <3>1. nextBatch'[c] \notin DOMAIN past'
            BY <1>4, <2>1, NoTokenAssumption DEF PageTypes
        <3>2. RememberedBy(c)
            BY RememberedByAll
        <3> QED BY <1>1, <1>3, <2>1, <3>1, <3>2 DEF RememberedBy
    <2>4. \A d \in Clients : RememberedBy(d)'
        BY <2>2, <2>3
    <2> QED BY <2>4 DEF Remembered, RememberedBy
<1>5. ASSUME NEW t \in Tokens, ~InUse(t), nextBatch' = [nextBatch EXCEPT ![c] = t],
             Insert(t, SeenWith(previous[c], ids, n))
      PROVE  Remembered'
    <2>1. /\ t \in DOMAIN past' => past'[t] = SeenWith(previous[c], ids, n)
          /\ \A u \in DOMAIN past' : u # t => u \in DOMAIN past /\ past'[u] = past[u]
        <3>1. SeenWith(previous[c], ids, n) \in Seen /\ t \notin DOMAIN past
            BY <1>2, <1>5 DEF Collected, InUse
        <3> QED BY <1>5, <3>1, InsertPast
    <2>2. \A d \in Clients : t # token[d] /\ t # nextBatch[d]
        BY <1>5 DEF InUse
    <2>3. ASSUME NEW d \in Clients, d # c PROVE RememberedBy(d)'
        <3>1. stage'[d] = stage[d] /\ found'[d] = found[d] /\ nextBatch'[d] = nextBatch[d]
            BY <1>2, <1>5, <2>3 DEF Collect, PageTypes, Collected
        <3>2. Aside(d)
            BY <1>1, <3>1 DEF Aside
        <3> QED BY <2>1, <2>2, <3>2, AsideInsert, RememberedByAll
    <2>4. RememberedBy(c)'
        <3>1. nextBatch'[c] = t
            BY <1>5 DEF PageTypes
        <3>2. resumed[c] /\ t \in DOMAIN past' => given[c] \cup ids \subseteq past'[t].ids
            BY <1>1, <2>1 DEF SeenWith, Remembered
        <3>3. RememberedBy(c)
            BY RememberedByAll
        <3>4. token[c] \in DOMAIN past' => token[c] \in DOMAIN past /\ past'[token[c]] = past[token[c]]
            BY <2>1, <2>2
        <3> QED BY <1>1, <1>3, <3>1, <3>2, <3>3, <3>4 DEF RememberedBy
    <2>5. \A d \in Clients : RememberedBy(d)'
        BY <2>3, <2>4
    <2> QED BY <2>5 DEF Remembered, RememberedBy
<1> QED BY <1>2, <1>4, <1>5 DEF Collected

LEMMA LoadRemembers ==
    ASSUME PageTypes, Remembered, NEW c \in Clients, Load(c)
    PROVE  Remembered'
<1>1. past' = past /\ resumed' = resumed
    BY DEF Load, searchCache
<1>2. ASSUME NEW d \in Clients, d # c PROVE RememberedBy(d)'
    <2>1. Aside(d)
        BY <1>2 DEF Load, Aside, PageTypes
    <2> QED BY <1>1, <2>1, AsideRemembers, RememberedByAll
<1>3. RememberedBy(c)'
    <2>1. /\ stage[c] = "found"
          /\ stage'[c] = IF nextBatch[c] = NoToken THEN "ended" ELSE "ready"
          /\ token'[c] = nextBatch[c]
          /\ given'[c] = given[c] \cup found[c]
        BY DEF Load, PageTypes
    <2> QED BY <1>1, <2>1 DEF RememberedBy, Remembered
<1>4. \A d \in Clients : RememberedBy(d)'
    BY <1>2, <1>3
<1> QED BY <1>4 DEF Remembered, RememberedBy

\* A load that fails or panics gives the client nothing.
LEMMA NoLoadRemembers ==
    ASSUME PageTypes, Remembered, NEW c \in Clients, LoadPanics(c) \/ LoadFails(c)
    PROVE  Remembered'
<1>1. past' = past /\ token' = token /\ given' = given /\ resumed' = resumed
    BY DEF LoadPanics, LoadFails, searchCache, history
<1>2. ASSUME NEW d \in Clients, d # c PROVE RememberedBy(d)'
    <2>1. Aside(d)
        BY <1>1, <1>2 DEF LoadPanics, LoadFails, Aside, PageTypes
    <2> QED BY <1>1, <2>1, AsideRemembers, RememberedByAll
<1>3. RememberedBy(c)'
    <2>1. stage[c] = "found" /\ stage'[c] \in {"ready", "panicked"}
        BY DEF LoadPanics, LoadFails, PageTypes
    <2> QED BY <1>1, <2>1 DEF RememberedBy, Remembered
<1>4. \A d \in Clients : RememberedBy(d)'
    BY <1>2, <1>3
<1> QED BY <1>4 DEF Remembered, RememberedBy

LEMMA RestartRemembers ==
    ASSUME PageTypes, Remembered, NEW c \in Clients, Restart(c)
    PROVE  Remembered'
<1>1. past' = past
    BY DEF Restart, searchCache
<1>2. ASSUME NEW d \in Clients, d # c PROVE RememberedBy(d)'
    <2>1. Aside(d)
        BY <1>2 DEF Restart, Aside, PageTypes
    <2> QED BY <1>1, <2>1, AsideRemembers, RememberedByAll
<1>3. RememberedBy(c)'
    <2>1. stage'[c] = "ready" /\ given'[c] = {}
        BY DEF Restart, PageTypes
    <2> QED BY <2>1 DEF RememberedBy
<1>4. \A d \in Clients : RememberedBy(d)'
    BY <1>2, <1>3
<1> QED BY <1>4 DEF Remembered, RememberedBy

LEMMA NextRemembered ==
    ASSUME PageTypes, CacheBounded, Remembered, [Next]_vars
    PROVE  Remembered'
<1>1. CASE WriterStep
    <2>1. UNCHANGED <<searchCache, client, history>>
        BY <1>1 DEF WriterStep, StoreEvent, IndexEvent, DeleteRows, DeleteDocs, Reload
    <2> QED BY <2>1 DEF Remembered, searchCache, client, history
<1>2. CASE UNCHANGED vars
    BY <1>2 DEF Remembered, vars, searchCache, client, history
<1> QED
    BY <1>1, <1>2, BeginRemembers, CollectRemembers, LoadRemembers, NoLoadRemembers,
       RestartRemembers DEF Next, SearchStep

-----------------------------------------------------------------------------
(* What the clients were given is accounted for.                           *)

\* A past search covers no less of a larger snapshot and of more ids.
LEMMA CoversMore ==
    ASSUME NEW seen \in Seen, NEW s \in Documents, NEW u \in Documents, NEW ids, NEW more,
           Covers(seen, s, ids), \A e \in Matching : s[e] <= u[e], ids \subseteq more
    PROVE  Covers(seen, u, more)
<1>1. /\ seen.len \in Nat /\ Known(s, seen.ids) \in Nat /\ Known(u, seen.ids) \in Nat
    BY KnownFinite DEF Seen
<1>2. seen.len <= Known(s, seen.ids) /\ Known(s, seen.ids) <= Known(u, seen.ids)
    BY KnownGrows DEF Covers
<1>3. seen.len <= Known(u, seen.ids)
    BY <1>1, <1>2
<1> QED BY <1>3 DEF Covers

\* In the same snapshot.
LEMMA CoversSame ==
    ASSUME NEW seen, NEW s, NEW ids, NEW more, Covers(seen, s, ids), ids \subseteq more
    PROVE  Covers(seen, s, more)
BY DEF Covers

\* Nothing is covered by any snapshot.
LEMMA CoversNothing == ASSUME NEW s, NEW ids PROVE Covers(NothingSeen, s, ids)
<1>1. Known(s, {}) \in Nat
    BY KnownFinite
<1> QED BY <1>1 DEF Covers, NothingSeen

\* Accounted, of one client.
AccountedBy(c) ==
    resumed[c] /\ ~shrunk[c] =>
        /\ token[c] \in DOMAIN past => Covers(past[token[c]], snapshot[c], given[c])
        /\ stage[c] = "begun" => Covers(previous[c], snapshot[c], given[c])
        /\ stage[c] = "found" =>
              /\ nextBatch[c] = NoToken
                 => \A e \in Matching : snapshot[c][e] > 0 => IdOf[e] \in given[c] \cup found[c]
              /\ nextBatch[c] \in DOMAIN past
                 => Covers(past[nextBatch[c]], snapshot[c], given[c] \cup found[c])
        /\ stage[c] = "ended" => GivenAll(c)

LEMMA AccountedByAll == Accounted <=> \A c \in Clients : AccountedBy(c)
BY DEF Accounted, AccountedBy

\* A step leaves client d alone, the snapshot it searches included.
FarAside(d) == Aside(d) /\ snapshot'[d] = snapshot[d] /\ shrunk'[d] = shrunk[d]

\* Such a client is still accounted for if the cache gained at most a token that is
\* not its own.
LEMMA AsideAccounted ==
    ASSUME NEW d \in Clients, AccountedBy(d), FarAside(d),
           NEW t, t # token[d], t # nextBatch[d],
           \A u \in DOMAIN past' : u # t => u \in DOMAIN past /\ past'[u] = past[u]
    PROVE  AccountedBy(d)'
<1>1. /\ stage'[d] = stage[d] /\ token'[d] = token[d] /\ previous'[d] = previous[d]
      /\ found'[d] = found[d] /\ nextBatch'[d] = nextBatch[d]
      /\ given'[d] = given[d] /\ resumed'[d] = resumed[d]
      /\ snapshot'[d] = snapshot[d] /\ shrunk'[d] = shrunk[d]
    BY DEF FarAside, Aside
<1>2. GivenAll(d)' <=> GivenAll(d)
    BY <1>1 DEF GivenAll
<1>3. token[d] \in DOMAIN past' => token[d] \in DOMAIN past /\ past'[token[d]] = past[token[d]]
    OBVIOUS
<1>4. nextBatch[d] \in DOMAIN past'
      => nextBatch[d] \in DOMAIN past /\ past'[nextBatch[d]] = past[nextBatch[d]]
    OBVIOUS
<1> QED BY <1>1, <1>2, <1>3, <1>4 DEF AccountedBy

LEMMA AsideSame ==
    ASSUME NEW d \in Clients, AccountedBy(d), FarAside(d), past' = past
    PROVE  AccountedBy(d)'
<1>1. /\ stage'[d] = stage[d] /\ token'[d] = token[d] /\ previous'[d] = previous[d]
      /\ found'[d] = found[d] /\ nextBatch'[d] = nextBatch[d]
      /\ given'[d] = given[d] /\ resumed'[d] = resumed[d]
      /\ snapshot'[d] = snapshot[d] /\ shrunk'[d] = shrunk[d]
    BY DEF FarAside, Aside
<1>2. GivenAll(d)' <=> GivenAll(d)
    BY <1>1 DEF GivenAll
<1> QED BY <1>1, <1>2 DEF AccountedBy

\* A new searcher sees no fewer documents, or the client is marked.
LEMMA BeginSees ==
    ASSUME TypeOK, NEW c \in Clients, Begin(c), resumed'[c], ~shrunk'[c]
    PROVE  /\ snapshot'[c] = reader
           /\ resumed[c] /\ (token[c] = NoToken \/ token[c] \in DOMAIN past) /\ ~shrunk[c]
           /\ snapshot[c] \in Documents /\ reader \in Documents
           /\ \A e \in Matching : snapshot[c][e] <= reader[e]
<1>1. PageTypes /\ StoreTypes
    BY DEF TypeOK
<1>2. snapshot'[c] = reader
    BY <1>1 DEF Begin, PageTypes
<1>3. resumed[c] /\ (token[c] = NoToken \/ token[c] \in DOMAIN past)
    BY <1>1 DEF Begin, PageTypes
<1>4. ~(shrunk[c] \/ \E e \in Matching : reader[e] < snapshot[c][e])
    BY <1>1 DEF Begin, PageTypes
<1>5. snapshot[c] \in Documents /\ reader \in Documents
    BY <1>1 DEF PageTypes, StoreTypes
<1>6. \A e \in Matching : snapshot[c][e] \in Int /\ reader[e] \in Int
    BY <1>5 DEF Documents, MaxDocs
<1>7. \A e \in Matching : ~(reader[e] < snapshot[c][e])
    BY <1>4
<1>8. \A e \in Matching : snapshot[c][e] <= reader[e]
    BY <1>6, <1>7
<1> QED BY <1>2, <1>3, <1>4, <1>5, <1>8

LEMMA BeginAccounted ==
    ASSUME TypeOK, Remembered, Accounted, NEW c \in Clients, Begin(c)
    PROVE  Accounted'
<1>1. past' = past /\ PageTypes
    BY DEF Begin, TypeOK
<1>2. ASSUME NEW d \in Clients, d # c PROVE AccountedBy(d)'
    <2>1. FarAside(d)
        BY <1>1, <1>2 DEF Begin, Aside, FarAside, PageTypes
    <2> QED BY <1>1, <2>1, AsideSame, AccountedByAll
<1>3. AccountedBy(c)'
    <2> SUFFICES ASSUME resumed'[c], ~shrunk'[c]
                 PROVE  /\ token'[c] \in DOMAIN past => Covers(past[token'[c]], snapshot'[c], given'[c])
                        /\ Covers(previous'[c], snapshot'[c], given'[c])
        <3>1. stage'[c] = "begun"
            BY <1>1 DEF Begin, PageTypes
        <3> QED BY <1>1, <3>1 DEF AccountedBy
    <2>1. /\ token' = token /\ given' = given /\ snapshot'[c] = reader
          /\ resumed[c] /\ (token[c] = NoToken \/ token[c] \in DOMAIN past) /\ ~shrunk[c]
        BY <1>1, BeginSees DEF Begin
    <2>2. snapshot[c] \in Documents /\ reader \in Documents
        BY BeginSees
    <2>3. \A e \in Matching : snapshot[c][e] <= reader[e]
        BY BeginSees
    <2>4. ASSUME token[c] \in DOMAIN past
          PROVE  Covers(past[token[c]], reader, given[c])
        <3>1. Covers(past[token[c]], snapshot[c], given[c])
            BY <2>1, <2>4 DEF Accounted
        <3>2. past[token[c]] \in Seen
            BY <1>1, <2>4 DEF PageTypes
        <3> QED BY <2>2, <2>3, <3>1, <3>2, CoversMore
    <2>5. previous'[c] = IF token[c] \in DOMAIN past THEN past[token[c]] ELSE NothingSeen
        BY <1>1 DEF Begin, PageTypes
    <2>6. Covers(previous'[c], reader, given[c])
        BY <2>4, <2>5, CoversNothing
    <2> QED BY <2>1, <2>4, <2>6
<1>4. \A d \in Clients : AccountedBy(d)'
    BY <1>2, <1>3
<1> QED BY <1>4 DEF Accounted, AccountedBy

\* A page adds as many to the length as it adds documents of new ids.
LEMMA SeenCovers ==
    ASSUME PageTypes, NEW c \in Clients, NEW ids, NEW n, Collected(c, ids, n),
           Covers(previous[c], snapshot[c], given[c])
    PROVE  Covers(SeenWith(previous[c], ids, n), snapshot[c], given[c] \cup ids)
<1>1. PICK p : p = previous[c]
    OBVIOUS
<1>2. PICK s : s = snapshot[c]
    OBVIOUS
<1>3. p.len \in Nat /\ n \in Nat /\ Known(s, p.ids) \in Nat /\ Known(s, ids) \in Nat
    BY <1>1, KnownFinite DEF PageTypes, Seen, Collected
<1>4. Known(s, p.ids \cup ids) = Known(s, p.ids) + Known(s, ids)
    <2>1. p.ids \cap ids = {}
        BY <1>1 DEF Collected
    <2> QED BY <2>1, KnownAdds
<1>5. p.len <= Known(s, p.ids) /\ n <= Known(s, ids)
    BY <1>1, <1>2 DEF Covers, Collected
<1>6. p.len + n <= Known(s, p.ids \cup ids)
    BY <1>3, <1>4, <1>5
<1>7. SeenWith(p, ids, n).ids = p.ids \cup ids /\ SeenWith(p, ids, n).len = p.len + n
    BY DEF SeenWith
<1>8. p.ids \cup ids \subseteq given[c] \cup ids
    BY <1>1 DEF Covers
<1> QED BY <1>1, <1>2, <1>6, <1>7, <1>8 DEF Covers

LEMMA CollectAccounted ==
    ASSUME TypeOK, Accounted, NEW c \in Clients, Collect(c)
    PROVE  Accounted'
<1>1. PageTypes /\ CacheBounded
    BY DEF TypeOK
<1>2. /\ stage[c] = "begun" /\ stage'[c] = "found"
      /\ token' = token /\ snapshot' = snapshot /\ given' = given
      /\ resumed' = resumed /\ shrunk' = shrunk
    BY <1>1 DEF Collect, history, PageTypes
<1>3. PICK ids, n : Collected(c, ids, n)
    BY <1>1, CollectFinds
<1>4. PICK seen : seen = SeenWith(previous[c], ids, n)
    OBVIOUS
<1>5. seen \in Seen /\ found'[c] = ids
    BY <1>1, <1>3, <1>4 DEF Collected, PageTypes
<1>6. ASSUME resumed[c], ~shrunk[c] PROVE Covers(seen, snapshot[c], given[c] \cup ids)
    <2>1. Covers(previous[c], snapshot[c], given[c])
        BY <1>2, <1>6 DEF Accounted
    <2> QED BY <1>1, <1>3, <1>4, <2>1, SeenCovers
<1>7. ASSUME NEW d \in Clients, d # c,
             NEW t, nextBatch' = [nextBatch EXCEPT ![c] = t]
      PROVE  FarAside(d)
    <2>1. stage'[d] = stage[d] /\ previous'[d] = previous[d]
        BY <1>1, <1>7 DEF Collect, PageTypes
    <2>2. found'[d] = found[d] /\ nextBatch'[d] = nextBatch[d]
        BY <1>1, <1>3, <1>7 DEF Collected, PageTypes
    <2> QED BY <1>2, <2>1, <2>2 DEF FarAside, Aside
<1>8. CASE /\ nextBatch' = [nextBatch EXCEPT ![c] = NoToken]
           /\ seen.len = Count(snapshot[c])
           /\ UNCHANGED searchCache
    <2>1. past' = past /\ nextBatch'[c] = NoToken /\ NoToken \notin DOMAIN past
        BY <1>1, <1>8, NoTokenAssumption DEF searchCache, PageTypes
    <2>2. \A d \in Clients : d # c => AccountedBy(d)'
        BY <1>7, <1>8, <2>1, AsideSame, AccountedByAll
    <2>3. ASSUME resumed[c], ~shrunk[c]
          PROVE  \A e \in Matching : snapshot[c][e] > 0 => IdOf[e] \in given[c] \cup ids
        <3>1. Count(snapshot[c]) <= Known(snapshot[c], seen.ids)
            BY <1>6, <1>8, <2>3 DEF Covers
        <3>2. snapshot[c] \in Documents
            BY <1>1 DEF PageTypes
        <3>3. \A e \in Matching : snapshot[c][e] > 0 => IdOf[e] \in seen.ids
            BY <3>1, <3>2, KnownAll
        <3>4. seen.ids \subseteq given[c] \cup ids
            BY <1>6, <2>3 DEF Covers
        <3> QED BY <3>3, <3>4
    <2>4. AccountedBy(c)'
        <3>1. AccountedBy(c)
            BY AccountedByAll
        <3> QED BY <1>2, <1>5, <2>1, <2>3, <3>1 DEF AccountedBy
    <2> QED BY <2>2, <2>4, AccountedByAll DEF Accounted, AccountedBy
<1>9. ASSUME NEW t \in Tokens, ~InUse(t), nextBatch' = [nextBatch EXCEPT ![c] = t],
             Insert(t, seen)
      PROVE  Accounted'
    <2>1. t \notin DOMAIN past /\ \A d \in Clients : t # token[d] /\ t # nextBatch[d]
        BY <1>9 DEF InUse
    <2>2. /\ t \in DOMAIN past' => past'[t] = seen
          /\ \A u \in DOMAIN past' : u # t => u \in DOMAIN past /\ past'[u] = past[u]
        BY <1>1, <1>5, <1>9, <2>1, InsertPast
    <2>3. \A d \in Clients : d # c => AccountedBy(d)'
        BY <1>7, <1>9, <2>1, <2>2, AsideAccounted, AccountedByAll
    <2>4. AccountedBy(c)'
        <3>1. nextBatch'[c] = t /\ t # NoToken
            BY <1>1, <1>9, NoTokenAssumption DEF PageTypes
        <3>2. AccountedBy(c)
            BY AccountedByAll
        <3>3. token[c] \in DOMAIN past' => token[c] \in DOMAIN past /\ past'[token[c]] = past[token[c]]
            BY <2>1, <2>2
        <3> QED BY <1>2, <1>5, <1>6, <2>2, <3>1, <3>2, <3>3 DEF AccountedBy
    <2> QED BY <2>3, <2>4 DEF Accounted, AccountedBy
<1> QED BY <1>3, <1>4, <1>8, <1>9 DEF Collected

LEMMA LoadAccounted ==
    ASSUME TypeOK, Accounted, NEW c \in Clients, Load(c)
    PROVE  Accounted'
<1>1. /\ past' = past /\ resumed' = resumed /\ shrunk' = shrunk /\ snapshot' = snapshot
      /\ PageTypes
    BY DEF Load, searchCache, TypeOK
<1>2. ASSUME NEW d \in Clients, d # c PROVE AccountedBy(d)'
    <2>1. FarAside(d)
        BY <1>1, <1>2 DEF Load, Aside, FarAside, PageTypes
    <2> QED BY <1>1, <2>1, AsideSame, AccountedByAll
<1>3. AccountedBy(c)'
    <2>1. /\ stage[c] = "found"
          /\ stage'[c] = IF nextBatch[c] = NoToken THEN "ended" ELSE "ready"
          /\ token'[c] = nextBatch[c]
          /\ given'[c] = given[c] \cup found[c]
        BY <1>1 DEF Load, PageTypes
    <2>2. AccountedBy(c)
        BY AccountedByAll
    <2>3. CASE nextBatch[c] = NoToken
        <3>1. NoToken \notin DOMAIN past /\ stage'[c] = "ended"
            BY <1>1, <2>1, <2>3, NoTokenAssumption DEF PageTypes
        <3> QED BY <1>1, <2>1, <2>2, <2>3, <3>1 DEF AccountedBy, GivenAll
    <2>4. CASE nextBatch[c] # NoToken
        <3>1. stage'[c] = "ready"
            BY <2>1, <2>4
        <3> QED BY <1>1, <2>1, <2>2, <3>1 DEF AccountedBy
    <2> QED BY <2>3, <2>4
<1>4. \A d \in Clients : AccountedBy(d)'
    BY <1>2, <1>3
<1> QED BY <1>4 DEF Accounted, AccountedBy

\* A load that fails or panics leaves the client where it was.
LEMMA NoLoadAccounted ==
    ASSUME TypeOK, Accounted, NEW c \in Clients, LoadPanics(c) \/ LoadFails(c)
    PROVE  Accounted'
<1>1. /\ past' = past /\ token' = token /\ snapshot' = snapshot /\ given' = given
      /\ resumed' = resumed /\ shrunk' = shrunk /\ PageTypes
    BY DEF LoadPanics, LoadFails, searchCache, history, TypeOK
<1>2. ASSUME NEW d \in Clients, d # c PROVE AccountedBy(d)'
    <2>1. FarAside(d)
        BY <1>1, <1>2 DEF LoadPanics, LoadFails, Aside, FarAside, PageTypes
    <2> QED BY <1>1, <2>1, AsideSame, AccountedByAll
<1>3. AccountedBy(c)'
    <2>1. stage'[c] \in {"ready", "panicked"}
        BY <1>1 DEF LoadPanics, LoadFails, PageTypes
    <2>2. AccountedBy(c)
        BY AccountedByAll
    <2> QED BY <1>1, <2>1, <2>2 DEF AccountedBy
<1>4. \A d \in Clients : AccountedBy(d)'
    BY <1>2, <1>3
<1> QED BY <1>4 DEF Accounted, AccountedBy

LEMMA RestartAccounted ==
    ASSUME TypeOK, Accounted, NEW c \in Clients, Restart(c)
    PROVE  Accounted'
<1>1. past' = past /\ PageTypes
    BY DEF Restart, searchCache, TypeOK
<1>2. ASSUME NEW d \in Clients, d # c PROVE AccountedBy(d)'
    <2>1. FarAside(d)
        BY <1>1, <1>2 DEF Restart, Aside, FarAside, PageTypes
    <2> QED BY <1>1, <2>1, AsideSame, AccountedByAll
<1>3. AccountedBy(c)'
    <2>1. stage'[c] = "ready" /\ token'[c] = NoToken /\ NoToken \notin DOMAIN past
        BY <1>1, NoTokenAssumption DEF Restart, PageTypes
    <2> QED BY <1>1, <2>1 DEF AccountedBy
<1>4. \A d \in Clients : AccountedBy(d)'
    BY <1>2, <1>3
<1> QED BY <1>4 DEF Accounted, AccountedBy

LEMMA NextAccounted ==
    ASSUME TypeOK, Remembered, Accounted, [Next]_vars
    PROVE  Accounted'
<1>1. CASE UNCHANGED <<searchCache, client, history>>
    <2>1. /\ UNCHANGED <<past, stage, token, snapshot, previous, found, nextBatch>>
          /\ UNCHANGED <<given, resumed, shrunk>>
        BY <1>1 DEF searchCache, client, history
    <2>2. \A c : GivenAll(c)' <=> GivenAll(c)
        BY <2>1 DEF GivenAll
    <2> QED BY <2>1, <2>2 DEF Accounted
<1>2. WriterStep \/ UNCHANGED vars => UNCHANGED <<searchCache, client, history>>
    BY DEF WriterStep, StoreEvent, IndexEvent, DeleteRows, DeleteDocs, Reload, vars
<1> QED
    BY <1>1, <1>2, BeginAccounted, CollectAccounted, LoadAccounted, NoLoadAccounted,
       RestartAccounted DEF Next, SearchStep

-----------------------------------------------------------------------------
(* The pages get the client on.                                            *)

\* Ongoing and NoEmptyPage, of one client.
OngoingBy(c) ==
    /\ Counted(previous[c])
    /\ resumed[c] /\ ~shrunk[c] =>
          /\ token[c] \in DOMAIN past => Unfinished(past[token[c]], snapshot[c])
          /\ stage[c] = "begun"
             => Unfinished(previous[c], snapshot[c]) \/ previous[c] = NothingSeen
          /\ stage[c] = "found" =>
                /\ nextBatch[c] \in DOMAIN past
                   => Unfinished(past[nextBatch[c]], snapshot[c])
                /\ OneDocPerId(snapshot[c]) => found[c] # {} \/ Count(snapshot[c]) = 0

PastCounted == \A t \in DOMAIN past : Counted(past[t])

LEMMA OngoingByAll ==
    Ongoing /\ NoEmptyPage <=> PastCounted /\ \A c \in Clients : OngoingBy(c)
BY DEF Ongoing, NoEmptyPage, PastCounted, OngoingBy

LEMMA CountedNothing == Counted(NothingSeen)
BY FS_EmptySet DEF Counted, NothingSeen

\* A client that a step leaves alone goes on as before if the cache gained at most
\* a token that is not its own.
LEMMA AsideOngoing ==
    ASSUME NEW d \in Clients, OngoingBy(d), FarAside(d),
           NEW t, t # token[d], t # nextBatch[d],
           \A u \in DOMAIN past' : u # t => u \in DOMAIN past /\ past'[u] = past[u]
    PROVE  OngoingBy(d)'
<1>1. /\ stage'[d] = stage[d] /\ token'[d] = token[d] /\ previous'[d] = previous[d]
      /\ found'[d] = found[d] /\ nextBatch'[d] = nextBatch[d] /\ resumed'[d] = resumed[d]
      /\ snapshot'[d] = snapshot[d] /\ shrunk'[d] = shrunk[d]
    BY DEF FarAside, Aside
<1>2. token[d] \in DOMAIN past' => token[d] \in DOMAIN past /\ past'[token[d]] = past[token[d]]
    OBVIOUS
<1>3. nextBatch[d] \in DOMAIN past'
      => nextBatch[d] \in DOMAIN past /\ past'[nextBatch[d]] = past[nextBatch[d]]
    OBVIOUS
<1> QED BY <1>1, <1>2, <1>3 DEF OngoingBy

LEMMA AsideGoesOn ==
    ASSUME NEW d \in Clients, OngoingBy(d), FarAside(d), past' = past
    PROVE  OngoingBy(d)'
<1>1. /\ stage'[d] = stage[d] /\ token'[d] = token[d] /\ previous'[d] = previous[d]
      /\ found'[d] = found[d] /\ nextBatch'[d] = nextBatch[d] /\ resumed'[d] = resumed[d]
      /\ snapshot'[d] = snapshot[d] /\ shrunk'[d] = shrunk[d]
    BY DEF FarAside, Aside
<1> QED BY <1>1 DEF OngoingBy

\* The searcher of a new page sees as many documents at least.
LEMMA BeginOngoing ==
    ASSUME TypeOK, Ongoing, NoEmptyPage, NEW c \in Clients, Begin(c)
    PROVE  (Ongoing /\ NoEmptyPage)'
<1>1. past' = past /\ PageTypes /\ PastCounted /\ \A d \in Clients : OngoingBy(d)
    BY OngoingByAll DEF Begin, TypeOK
<1>2. ASSUME NEW d \in Clients, d # c PROVE OngoingBy(d)'
    <2>1. FarAside(d)
        BY <1>1, <1>2 DEF Begin, Aside, FarAside, PageTypes
    <2> QED BY <1>1, <2>1, AsideGoesOn
<1>3. OngoingBy(c)'
    <2>1. /\ stage'[c] = "begun" /\ token' = token
          /\ previous'[c] = IF token[c] \in DOMAIN past THEN past[token[c]] ELSE NothingSeen
        BY <1>1 DEF Begin, PageTypes
    <2>2. Counted(previous'[c])
        BY <1>1, <2>1, CountedNothing DEF PastCounted
    <2>3. ASSUME resumed'[c], ~shrunk'[c], token[c] \in DOMAIN past
          PROVE  Unfinished(past[token[c]], snapshot'[c])
        <3>1. /\ snapshot'[c] = reader /\ resumed[c] /\ ~shrunk[c]
              /\ snapshot[c] \in Documents /\ reader \in Documents
              /\ \A e \in Matching : snapshot[c][e] <= reader[e]
            BY <2>3, BeginSees
        <3>2. Unfinished(past[token[c]], snapshot[c])
            BY <1>1, <2>3, <3>1 DEF OngoingBy
        <3>3. Count(snapshot[c]) <= Count(reader)
            BY <3>1, KnownGrows
        <3>4. past[token[c]].len \in Nat /\ Count(snapshot[c]) \in Nat /\ Count(reader) \in Nat
            BY <1>1, <2>3, DocsFinite DEF PageTypes, Seen
        <3> QED BY <3>1, <3>2, <3>3, <3>4 DEF Unfinished
    <2> QED BY <1>1, <2>1, <2>2, <2>3 DEF OngoingBy
<1>4. PastCounted' /\ \A d \in Clients : OngoingBy(d)'
    BY <1>1, <1>2, <1>3 DEF PastCounted
<1> QED BY <1>4 DEF Ongoing, NoEmptyPage, PastCounted, OngoingBy

\* A page counts a document for every id it names.
LEMMA SeenCounted ==
    ASSUME PageTypes, NEW c \in Clients, NEW ids, NEW n, Collected(c, ids, n),
           Counted(previous[c])
    PROVE  Counted(SeenWith(previous[c], ids, n))
<1>1. PICK p : p = previous[c]
    OBVIOUS
<1>2. IsFiniteSet(p.ids) /\ Cardinality(p.ids) <= p.len /\ p.len \in Nat
    BY <1>1 DEF Counted, PageTypes, Seen
<1>3. IsFiniteSet(ids) /\ Cardinality(ids) <= n /\ n \in Nat
    BY DEF Collected, Brought
<1>4. /\ IsFiniteSet(p.ids \cup ids) /\ IsFiniteSet(p.ids \cap ids)
      /\ Cardinality(p.ids \cup ids)
         = Cardinality(p.ids) + Cardinality(ids) - Cardinality(p.ids \cap ids)
    BY <1>2, <1>3, FS_Union, FS_Intersection
<1>5. /\ Cardinality(p.ids) \in Nat /\ Cardinality(ids) \in Nat
      /\ Cardinality(p.ids \cap ids) \in Nat /\ Cardinality(p.ids \cup ids) \in Nat
    BY <1>2, <1>3, <1>4, FS_CardinalityType
<1>6. Cardinality(p.ids \cup ids) <= p.len + n
    BY <1>2, <1>3, <1>4, <1>5
<1>7. SeenWith(p, ids, n).ids = p.ids \cup ids /\ SeenWith(p, ids, n).len = p.len + n
    BY DEF SeenWith
<1> QED BY <1>1, <1>4, <1>6, <1>7 DEF Counted

\* A past search that has not counted all documents leaves one to find.
LEMMA PageFound ==
    ASSUME PageTypes, NEW c \in Clients, NEW ids, NEW n, Collected(c, ids, n),
           Counted(previous[c]), OneDocPerId(snapshot[c]),
           Unfinished(previous[c], snapshot[c]) \/ previous[c] = NothingSeen
    PROVE  ids # {} \/ Count(snapshot[c]) = 0
<1>1. PICK p : p = previous[c]
    OBVIOUS
<1>2. PICK s : s = snapshot[c]
    OBVIOUS
<1>3. /\ s \in Documents /\ OneDocPerId(s) /\ Count(s) \in Nat /\ Known(s, p.ids) \in Nat
      /\ Counted(p) /\ p.len \in Nat
    BY <1>1, <1>2, DocsFinite, KnownFinite DEF PageTypes, Seen
<1>4. Known(s, p.ids) <= Cardinality(p.ids) /\ Cardinality(p.ids) <= p.len
      /\ Cardinality(p.ids) \in Nat
    BY <1>3, KnownOnce, FS_CardinalityType DEF Counted
<1>5. p.len < Count(s) \/ p.len = 0
    BY <1>1, <1>2 DEF Unfinished, NothingSeen
<1>6. Known(s, p.ids) < Count(s) \/ Count(s) = 0
    BY <1>3, <1>4, <1>5
<1>7. ASSUME Known(s, p.ids) < Count(s) PROVE ids # {}
    <2>1. \E e \in Matching : s[e] > 0 /\ IdOf[e] \notin p.ids
        BY <1>3, <1>7, SomeUnknown
    <2> QED BY <1>1, <1>2, <2>1 DEF Collected, Brought
<1> QED BY <1>2, <1>6, <1>7

LEMMA CollectOngoing ==
    ASSUME TypeOK, Accounted, Ongoing, NoEmptyPage, NEW c \in Clients, Collect(c)
    PROVE  (Ongoing /\ NoEmptyPage)'
<1>1. PageTypes /\ CacheBounded /\ PastCounted /\ \A d \in Clients : OngoingBy(d)
    BY OngoingByAll DEF TypeOK
<1>2. /\ stage[c] = "begun" /\ stage'[c] = "found"
      /\ token' = token /\ snapshot' = snapshot /\ previous' = previous /\ given' = given
      /\ resumed' = resumed /\ shrunk' = shrunk
    BY <1>1 DEF Collect, history, PageTypes
<1>3. PICK ids, n : Collected(c, ids, n)
    BY <1>1, CollectFinds
<1>4. PICK seen : seen = SeenWith(previous[c], ids, n)
    OBVIOUS
<1>5. seen \in Seen /\ found'[c] = ids
    BY <1>1, <1>3, <1>4 DEF Collected, PageTypes
<1>6. Counted(previous[c]) /\ Counted(seen)
    BY <1>1, <1>3, <1>4, SeenCounted DEF OngoingBy
<1>7. ASSUME resumed[c], ~shrunk[c], OneDocPerId(snapshot[c])
      PROVE  ids # {} \/ Count(snapshot[c]) = 0
    <2>1. Unfinished(previous[c], snapshot[c]) \/ previous[c] = NothingSeen
        BY <1>1, <1>2, <1>7 DEF OngoingBy
    <2> QED BY <1>1, <1>3, <1>6, <1>7, <2>1, PageFound
<1>8. ASSUME resumed[c], ~shrunk[c], seen.len # Count(snapshot[c])
      PROVE  Unfinished(seen, snapshot[c])
    <2>1. Covers(previous[c], snapshot[c], given[c])
        BY <1>2, <1>8 DEF Accounted
    <2>2. seen.len <= Known(snapshot[c], seen.ids)
        BY <1>1, <1>3, <1>4, <2>1, SeenCovers DEF Covers
    <2>3. /\ Known(snapshot[c], seen.ids) <= Count(snapshot[c])
          /\ Known(snapshot[c], seen.ids) \in Nat /\ Count(snapshot[c]) \in Nat
          /\ seen.len \in Nat
        BY <1>5, KnownBelow, KnownFinite, DocsFinite DEF Seen
    <2> QED BY <1>8, <2>2, <2>3 DEF Unfinished
<1>9. ASSUME NEW d \in Clients, d # c,
             NEW t, nextBatch' = [nextBatch EXCEPT ![c] = t]
      PROVE  FarAside(d)
    <2>1. stage'[d] = stage[d]
        BY <1>1, <1>9 DEF Collect, PageTypes
    <2>2. found'[d] = found[d] /\ nextBatch'[d] = nextBatch[d]
        BY <1>1, <1>3, <1>9 DEF Collected, PageTypes
    <2> QED BY <1>2, <2>1, <2>2 DEF FarAside, Aside
<1>10. CASE nextBatch' = [nextBatch EXCEPT ![c] = NoToken] /\ UNCHANGED searchCache
    <2>1. past' = past /\ nextBatch'[c] = NoToken /\ NoToken \notin DOMAIN past
        BY <1>1, <1>10, NoTokenAssumption DEF searchCache, PageTypes
    <2>2. \A d \in Clients : d # c => OngoingBy(d)'
        BY <1>1, <1>9, <1>10, <2>1, AsideGoesOn
    <2>3. OngoingBy(c)'
        BY <1>1, <1>2, <1>5, <1>7, <2>1 DEF OngoingBy
    <2>4. PastCounted' /\ \A d \in Clients : OngoingBy(d)'
        BY <1>1, <2>1, <2>2, <2>3 DEF PastCounted
    <2> QED BY <2>4 DEF Ongoing, NoEmptyPage, PastCounted, OngoingBy
<1>11. ASSUME NEW t \in Tokens, ~InUse(t), nextBatch' = [nextBatch EXCEPT ![c] = t],
              seen.len # Count(snapshot[c]), Insert(t, seen)
       PROVE  (Ongoing /\ NoEmptyPage)'
    <2>1. t \notin DOMAIN past /\ \A d \in Clients : t # token[d] /\ t # nextBatch[d]
        BY <1>11 DEF InUse
    <2>2. /\ t \in DOMAIN past' => past'[t] = seen
          /\ \A u \in DOMAIN past' : u # t => u \in DOMAIN past /\ past'[u] = past[u]
        BY <1>1, <1>5, <1>11, <2>1, InsertPast
    <2>3. \A d \in Clients : d # c => OngoingBy(d)'
        BY <1>1, <1>9, <1>11, <2>1, <2>2, AsideOngoing
    <2>4. OngoingBy(c)'
        <3>1. nextBatch'[c] = t
            BY <1>1, <1>11 DEF PageTypes
        <3>2. token[c] \in DOMAIN past' => token[c] \in DOMAIN past /\ past'[token[c]] = past[token[c]]
            BY <2>1, <2>2
        <3> QED BY <1>1, <1>2, <1>5, <1>7, <1>8, <1>11, <2>2, <3>1, <3>2 DEF OngoingBy
    <2>5. PastCounted' /\ \A d \in Clients : OngoingBy(d)'
        BY <1>1, <1>6, <2>2, <2>3, <2>4 DEF PastCounted
    <2> QED BY <2>5 DEF Ongoing, NoEmptyPage, PastCounted, OngoingBy
<1> QED BY <1>3, <1>4, <1>10, <1>11 DEF Collected

\* The page is loaded or not, or another search is begun: the client asks with the
\* new token, the one it had, or none.
LEMMA OthersOngoing ==
    ASSUME TypeOK, Ongoing, NoEmptyPage, NEW c \in Clients,
           Load(c) \/ LoadPanics(c) \/ LoadFails(c) \/ Restart(c)
    PROVE  (Ongoing /\ NoEmptyPage)'
<1>1. past' = past /\ PageTypes /\ PastCounted /\ \A d \in Clients : OngoingBy(d)
    BY OngoingByAll DEF Load, LoadPanics, LoadFails, Restart, searchCache, TypeOK
<1>2. ASSUME NEW d \in Clients, d # c PROVE OngoingBy(d)'
    <2>1. FarAside(d)
        BY <1>1, <1>2
        DEF Load, LoadPanics, LoadFails, Restart, history, Aside, FarAside, PageTypes
    <2> QED BY <1>1, <2>1, AsideGoesOn
<1>3. OngoingBy(c)'
    <2>1. NoToken \notin DOMAIN past /\ Counted(NothingSeen) /\ OngoingBy(c)
        BY <1>1, CountedNothing, NoTokenAssumption DEF PageTypes
    <2>2. CASE Load(c)
        <3>1. /\ stage[c] = "found" /\ stage'[c] \in {"ended", "ready"}
              /\ token'[c] = nextBatch[c] /\ previous'[c] = NothingSeen
              /\ snapshot' = snapshot /\ resumed' = resumed /\ shrunk' = shrunk
            BY <1>1, <2>2 DEF Load, PageTypes
        <3> QED BY <1>1, <2>1, <3>1 DEF OngoingBy
    <2>3. CASE LoadPanics(c) \/ LoadFails(c)
        <3>1. /\ stage'[c] \in {"ready", "panicked"}
              /\ token' = token /\ previous'[c] = NothingSeen
              /\ snapshot' = snapshot /\ resumed' = resumed /\ shrunk' = shrunk
            BY <1>1, <2>3 DEF LoadPanics, LoadFails, history, PageTypes
        <3> QED BY <1>1, <2>1, <3>1 DEF OngoingBy
    <2>4. CASE Restart(c)
        <3>1. stage'[c] = "ready" /\ token'[c] = NoToken /\ previous' = previous
            BY <1>1, <2>4 DEF Restart, PageTypes
        <3> QED BY <1>1, <2>1, <3>1 DEF OngoingBy
    <2> QED BY <2>2, <2>3, <2>4
<1>4. PastCounted' /\ \A d \in Clients : OngoingBy(d)'
    BY <1>1, <1>2, <1>3 DEF PastCounted
<1> QED BY <1>4 DEF Ongoing, NoEmptyPage, PastCounted, OngoingBy

LEMMA NextOngoing ==
    ASSUME TypeOK, Accounted, Ongoing, NoEmptyPage, [Next]_vars
    PROVE  (Ongoing /\ NoEmptyPage)'
<1>1. CASE UNCHANGED <<searchCache, client, history>>
    <2>1. /\ UNCHANGED <<past, stage, token, snapshot, previous, found, nextBatch>>
          /\ UNCHANGED <<given, resumed, shrunk>>
        BY <1>1 DEF searchCache, client, history
    <2> QED BY <2>1 DEF Ongoing, NoEmptyPage
<1>2. WriterStep \/ UNCHANGED vars => UNCHANGED <<searchCache, client, history>>
    BY DEF WriterStep, StoreEvent, IndexEvent, DeleteRows, DeleteDocs, Reload, vars
<1> QED
    BY <1>1, <1>2, BeginOngoing, CollectOngoing, OthersOngoing DEF Next, SearchStep

-----------------------------------------------------------------------------
(* The invariants.                                                         *)

\* Whoever pages through a search, the cache under its token knows every event
\* it was given, and no other; the page it has found holds none of them, and what
\* the search believes to have returned was returned; and the state is of its type,
\* the cache within its size.
THEOREM SearchInvariant == Spec => []SearchInv
<1>1. Init => SearchInv
    <2>1. Init => Remembered
        BY DEF Init, Remembered
    <2>2. Init => Accounted
        BY DEF Init, Accounted
    <2>3. Init => CacheBounded
        <3> SUFFICES ASSUME Init PROVE CacheBounded
            OBVIOUS
        <3>1. recent \in Seq(Tokens) /\ Len(recent) = 0 /\ DOMAIN recent = {} /\ DOMAIN past = {}
            BY DEF Init
        <3> QED BY <3>1, SizeAssumption DEF CacheBounded, Elements
    <2>4. Init => Ongoing /\ NoEmptyPage
        BY CountedNothing DEF Init, Ongoing, NoEmptyPage
    <2> QED BY <2>1, <2>2, <2>3, <2>4, InitTypes DEF SearchInv, TypeOK
<1>2. SearchInv /\ [Next]_vars => SearchInv'
    BY NextTypes, CacheStaysBounded, NextRemembered, NextAccounted, NextOngoing
    DEF SearchInv, TypeOK
<1> QED BY <1>1, <1>2, PTL DEF Spec

\* The pages of a search repeat no event, for any number of clients, any cache
\* and limits, whatever the writer does between two pages and whichever pages
\* fail, as long as the cache still had the client's tokens.
THEOREM PagesNeverRepeat == Spec => []PagesDisjoint
<1>1. SearchInv => PagesDisjoint
    BY DEF SearchInv, Remembered, PagesDisjoint
<1> QED BY <1>1, SearchInvariant, PTL

\* The pages of a search miss no event: a client that gets no token to go on has
\* been given every matching event of the index it searches, those indexed between
\* two pages included, unless documents went away meanwhile.
THEOREM PagesMissNothing == Spec => []PagesComplete
<1>1. SearchInv => PagesComplete
    BY DEF SearchInv, Accounted, PagesComplete
<1> QED BY <1>1, SearchInvariant, PTL

\* Every page gets the client on: it has an event, whatever is indexed between two
\* pages, while every id has one document and none goes away, unless nothing
\* matches at all.
THEOREM PagesBringEvents == Spec => []NoEmptyPage
<1>1. SearchInv => NoEmptyPage
    BY DEF SearchInv
<1> QED BY <1>1, SearchInvariant, PTL
=============================================================================
