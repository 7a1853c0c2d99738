------------------------- MODULE EnumerationProofs -------------------------
(***************************************************************************)
(* The two bounds on a scan that pages through a changing registry, for    *)
(* any number of keys and any page size.                                   *)
(***************************************************************************)
EXTENDS Enumeration, FiniteSetTheorems, TLAPS

(* F is what an offset of o skips in the set L sorted by B: no key of L    *)
(* outside of F is before one of F.                                        *)
IsFront(F, L, B, o) ==
  /\ F \subseteq L
  /\ \A g \in L, h \in F : <<g, h>> \in B => g \in F
  /\ Cardinality(F) <= o
  /\ F # L => Cardinality(F) = o

(* The order of the listing.                                               *)
Order == {p \in KeyHandle \X KeyHandle : Before(p[1], p[2])}

(* The handles that have been in the registry.                             *)
Added == {h \in KeyHandle : delete_after[h] # 0 /\ h \notin made}

Types ==
  /\ now \in Nat
  /\ made \subseteq KeyHandle
  /\ keys \subseteq Added
  /\ IsFiniteSet(keys)
  /\ created_at \in [KeyHandle -> Nat]
  /\ delete_after \in [KeyHandle -> Nat]
  /\ \A h \in made : delete_after[h] # 0
  /\ scan \in {"none", "paging", "done", "listed"}
  /\ limit \in Nat
  /\ seen \in Seq(KeyHandle)
  /\ IsFiniteSet(came) /\ IsFiniteSet(gone) /\ IsFiniteSet(atStart)

(* What the scan has met has been in the registry, so that a key that is   *)
(* still to be added is new to it.                                         *)
Met ==
  /\ Range(seen) \subseteq Added
  /\ atStart \subseteq Added
  /\ came \subseteq Added
  /\ gone \subseteq Added
  /\ scan = "none" => seen = <<>> /\ came = {} /\ gone = {}
  /\ scan = "paging" => atStart \ gone \subseteq Live /\ gone \cap Live = {}

(* The accounts of a scan whose offset skips F: keys seen twice or about   *)
(* to be, against those that came, and keys skipped unseen, against those  *)
(* that went.                                                              *)
Accounts(F) ==
  /\ Len(seen) - Cardinality(Range(seen)) + Cardinality((Live \ F) \cap Range(seen))
       <= Cardinality(came)
  /\ Cardinality((F \cap atStart) \ Range(seen)) <= Cardinality(gone)

Counted ==
  scan = "paging" =>
    \E F \in SUBSET Live : IsFront(F, Live, Order, Len(seen)) /\ Accounts(F)

(* The inductive invariant.                                                *)
Inv ==
  /\ Types
  /\ Met
  /\ Counted
  /\ MissesAtMostGone
  /\ scan # "paging" => RepeatsAtMostCame
  /\ ListsUpToLimit

-----------------------------------------------------------------------------
(* Finite sets and their sizes.                                            *)

(* A subset of a finite set is finite, and smaller unless it is the set.   *)
LEMMA SubsetSize ==
  ASSUME NEW S, IsFiniteSet(S), NEW T, T \subseteq S
  PROVE  /\ IsFiniteSet(T)
         /\ Cardinality(T) \in Nat
         /\ Cardinality(S) \in Nat
         /\ Cardinality(T) <= Cardinality(S)
         /\ T # S => Cardinality(T) < Cardinality(S)
  <1>1. /\ IsFiniteSet(T)
        /\ Cardinality(T) <= Cardinality(S)
        /\ Cardinality(S) = Cardinality(T) => S = T
    BY FS_Subset, Zenon
  <1>2. Cardinality(T) \in Nat /\ Cardinality(S) \in Nat
    BY <1>1, FS_CardinalityType, Zenon
  <1> QED BY <1>1, <1>2

(* The size of a union of two disjoint sets.                               *)
LEMMA DisjointSize ==
  ASSUME NEW S, IsFiniteSet(S), NEW T, IsFiniteSet(T), S \cap T = {}
  PROVE  /\ IsFiniteSet(S \cup T)
         /\ Cardinality(S \cup T) = Cardinality(S) + Cardinality(T)
         /\ Cardinality(S) \in Nat
         /\ Cardinality(T) \in Nat
  <1>1. /\ IsFiniteSet(S \cup T)
        /\ Cardinality(S \cup T) =
             Cardinality(S) + Cardinality(T) - Cardinality(S \cap T)
    BY FS_Union, Zenon
  <1>2. Cardinality(S \cap T) = 0
    BY FS_EmptySet, Zenon
  <1>3. Cardinality(S) \in Nat /\ Cardinality(T) \in Nat
    BY FS_CardinalityType, Zenon
  <1> QED BY <1>1, <1>2, <1>3

(* A set splits into what it has and what it has not in common with        *)
(* another one.                                                            *)
LEMMA SplitSize ==
  ASSUME NEW S, IsFiniteSet(S), NEW T
  PROVE  /\ IsFiniteSet(S \ T) /\ IsFiniteSet(S \cap T)
         /\ Cardinality(S) = Cardinality(S \ T) + Cardinality(S \cap T)
         /\ Cardinality(S \ T) \in Nat
         /\ Cardinality(S \cap T) \in Nat
         /\ Cardinality(S) \in Nat
  <1>1. IsFiniteSet(S \ T) /\ IsFiniteSet(S \cap T)
    BY SubsetSize, S \ T \subseteq S, S \cap T \subseteq S, Zenon
  <1>2. (S \ T) \cap (S \cap T) = {} /\ (S \ T) \cup (S \cap T) = S
    OBVIOUS
  <1>3. /\ Cardinality((S \ T) \cup (S \cap T)) =
             Cardinality(S \ T) + Cardinality(S \cap T)
        /\ Cardinality(S \ T) \in Nat
        /\ Cardinality(S \cap T) \in Nat
    BY <1>1, <1>2, DisjointSize, Zenon
  <1>4. Cardinality(S) \in Nat
    BY FS_CardinalityType, Zenon
  <1> QED BY <1>1, <1>2, <1>3, <1>4, Zenon

(* A set within the union of two is no larger than both together.          *)
LEMMA CoverSize ==
  ASSUME NEW S, IsFiniteSet(S), NEW T, IsFiniteSet(T),
         NEW U, U \subseteq S \cup T
  PROVE  /\ IsFiniteSet(U)
         /\ Cardinality(U) \in Nat
         /\ Cardinality(S) \in Nat
         /\ Cardinality(T) \in Nat
         /\ Cardinality(U) <= Cardinality(S) + Cardinality(T)
  <1>1. /\ IsFiniteSet(S \cup T)
        /\ Cardinality(S \cup T) =
             Cardinality(S) + Cardinality(T) - Cardinality(S \cap T)
    BY FS_Union, Zenon
  <1>2. IsFiniteSet(S \cap T)
    BY SubsetSize, S \cap T \subseteq S, Zenon
  <1>3. Cardinality(S \cap T) \in Nat /\ Cardinality(S) \in Nat /\ Cardinality(T) \in Nat
    BY <1>2, FS_CardinalityType, Zenon
  <1>4. /\ IsFiniteSet(U)
        /\ Cardinality(U) \in Nat
        /\ Cardinality(U) <= Cardinality(S \cup T)
    BY <1>1, SubsetSize, Zenon
  <1> QED BY <1>1, <1>3, <1>4

-----------------------------------------------------------------------------
(* Fronts.                                                                 *)

(* B orders L strictly and totally.                                        *)
IsOrder(B, L) ==
  /\ \A g \in L : <<g, g>> \notin B
  /\ \A f, g, h \in L : <<f, g>> \in B /\ <<g, h>> \in B => <<f, h>> \in B
  /\ \A g, h \in L : g = h \/ <<g, h>> \in B \/ <<h, g>> \in B

(* Of two sets that reach down to the start of the list, one is part of    *)
(* the other.                                                              *)
LEMMA FrontsNested ==
  ASSUME NEW L, NEW B, IsOrder(B, L),
         NEW F \in SUBSET L, NEW G \in SUBSET L,
         \A g \in L, h \in F : <<g, h>> \in B => g \in F,
         \A g \in L, h \in G : <<g, h>> \in B => g \in G
  PROVE  F \subseteq G \/ G \subseteq F
  <1> SUFFICES ASSUME NEW x \in F, x \notin G, NEW y \in G, y \notin F
               PROVE  FALSE
    BY Zenon
  <1>1. x = y \/ <<x, y>> \in B \/ <<y, x>> \in B
    BY Zenon DEF IsOrder
  <1> QED BY <1>1, Zenon

(* The front F moves to E as the keys G go.                                *)
FrontMoves(L, B, o, G) ==
  \A F, E : IsFront(F, L, B, o) /\ IsFront(E, L \ G, B, o) =>
     /\ F \ G \subseteq E
     /\ Cardinality(E \ F) <= Cardinality(G)

(* Taking the keys G out of the list: what was skipped and is left is      *)
(* still skipped, and at most as many keys more are skipped as went.       *)
LEMMA FrontRemove ==
  ASSUME NEW L, IsFiniteSet(L), NEW B, IsOrder(B, L), NEW o \in Nat,
         NEW G \in SUBSET L
  PROVE  FrontMoves(L, B, o, G)
  <1> SUFFICES ASSUME NEW F, NEW E, IsFront(F, L, B, o), IsFront(E, L \ G, B, o)
               PROVE  F \ G \subseteq E /\ Cardinality(E \ F) <= Cardinality(G)
    BY Zenon DEF FrontMoves
  <1> DEFINE M == L \ G
  <1>1. IsFiniteSet(M) /\ IsFiniteSet(G) /\ IsFiniteSet(F) /\ IsFiniteSet(E)
    BY SubsetSize, M \subseteq L, Zenon DEF IsFront
  <1>2. IsOrder(B, M)
    BY Zenon DEF IsOrder
  <1>3. F \ G \subseteq E
    <2>1. /\ F \ G \in SUBSET M
          /\ \A g \in M, h \in F \ G : <<g, h>> \in B => g \in F \ G
      BY Zenon DEF IsFront
    <2>2. E \in SUBSET M /\ \A g \in M, h \in E : <<g, h>> \in B => g \in E
      BY Zenon DEF IsFront
    <2> HIDE DEF M
    <2>3. F \ G \subseteq E \/ E \subseteq F \ G
      <3> DEFINE FG == F \ G
      <3>1. FG \in SUBSET M /\ \A g \in M, h \in FG : <<g, h>> \in B => g \in FG
        BY <2>1, Zenon
      <3> HIDE DEF FG
      <3>2. FG \subseteq E \/ E \subseteq FG
        BY <1>2, <2>2, <3>1, FrontsNested, Zenon
      <3> QED BY <3>2, Zenon DEF FG
    <2>4. ASSUME E \subseteq F \ G, E # F \ G
          PROVE  FALSE
      <3>1. Cardinality(F) \in Nat /\ Cardinality(E) \in Nat
            /\ Cardinality(F \ G) \in Nat
            /\ Cardinality(F \ G) <= Cardinality(F)
        BY <1>1, SubsetSize, F \ G \subseteq F, FS_CardinalityType, Zenon
      <3>2. Cardinality(E) < Cardinality(F \ G)
        BY <1>1, <2>4, SubsetSize, F \ G \subseteq F, Zenon
      <3>3. Cardinality(F) <= o
        BY Zenon DEF IsFront
      <3>4. Cardinality(E) # o
        BY <3>1, <3>2, <3>3
      <3>5. E = M
        BY <3>4, Zenon DEF IsFront, M
      <3> QED BY <2>1, <2>4, <3>5, Zenon
    <2> QED BY <2>3, <2>4, Zenon
  <1>4. Cardinality(E \ F) <= Cardinality(G)
    <2>1. CASE F = L
      <3>1. E \ F = {}
        BY <2>1, Zenon DEF IsFront
      <3>2. Cardinality({}) = 0 /\ Cardinality(G) \in Nat
        BY <1>1, FS_EmptySet, FS_CardinalityType, Zenon
      <3> QED BY <3>1, <3>2
    <2>2. CASE F # L
      <3>1. Cardinality(F) = o /\ Cardinality(E) <= o
        BY <2>2, Zenon DEF IsFront
      <3>2. /\ Cardinality(F) = Cardinality(F \ G) + Cardinality(F \cap G)
            /\ Cardinality(F \ G) \in Nat
            /\ Cardinality(F \cap G) \in Nat
            /\ Cardinality(F \cap G) <= Cardinality(G)
            /\ Cardinality(G) \in Nat
        BY <1>1, SplitSize, SubsetSize, F \cap G \subseteq G, Zenon
      <3>3. E \cap F = F \ G
        BY <1>3, Zenon DEF IsFront
      <3>4. /\ Cardinality(E) = Cardinality(E \ F) + Cardinality(E \cap F)
            /\ Cardinality(E \ F) \in Nat
        BY <1>1, SplitSize, Zenon
      <3> QED BY <3>1, <3>2, <3>3, <3>4
    <2> QED BY <2>1, <2>2
  <1> QED BY <1>3, <1>4

(* There is only one front for an offset.                                  *)
LEMMA FrontUnique ==
  ASSUME NEW L, IsFiniteSet(L), NEW B, IsOrder(B, L), NEW o \in Nat,
         NEW F, IsFront(F, L, B, o),
         NEW E, IsFront(E, L, B, o)
  PROVE  F = E
  <1>1. IsFront(E, L \ {}, B, o) /\ IsFront(F, L \ {}, B, o)
    <2>1. L \ {} = L
      BY Zenon
    <2> QED BY <2>1, Zenon
  <1>2. F \ {} \subseteq E /\ E \ {} \subseteq F
    <2>1. FrontMoves(L, B, o, {})
      BY {} \in SUBSET L, FrontRemove, Zenon
    <2> QED BY <1>1, <2>1, Zenon DEF FrontMoves
  <1> QED BY <1>2, Zenon

-----------------------------------------------------------------------------
(* The sorted list.                                                        *)

(* s lists L in the order B.                                               *)
Lists(s, L, B) ==
  /\ s \in [1 .. Cardinality(L) -> L]
  /\ \A i, j \in 1 .. Cardinality(L) : i < j => <<s[i], s[j]>> \in B

(* A finite set has a sorted list: the position of a key is the number of  *)
(* keys up to it, and different keys have different positions.             *)
LEMMA ListExists ==
  ASSUME NEW L, IsFiniteSet(L), NEW B, IsOrder(B, L)
  PROVE  \E s : Lists(s, L, B)
  <1> DEFINE N == Cardinality(L)
             UpTo(k) == {g \in L : g = k \/ <<g, k>> \in B}
             rank == [k \in L |-> Cardinality(UpTo(k))]
  <1>1. N \in Nat
    BY FS_CardinalityType, Zenon
  <1>2. \A k \in L : IsFiniteSet(UpTo(k)) /\ rank[k] \in 1 .. N
    <2> SUFFICES ASSUME NEW k \in L
                 PROVE  IsFiniteSet(UpTo(k)) /\ rank[k] \in 1 .. N
      BY Zenon
    <2>1. UpTo(k) \subseteq L /\ k \in UpTo(k)
      BY Zenon
    <2> HIDE DEF UpTo
    <2>2. /\ IsFiniteSet(UpTo(k))
          /\ Cardinality(UpTo(k)) \in Nat
          /\ Cardinality(UpTo(k)) <= N
      BY <2>1, SubsetSize, Zenon
    <2>3. Cardinality(UpTo(k)) # 0
      BY <2>1, <2>2, FS_EmptySet, Zenon
    <2>4. Cardinality(UpTo(k)) \in 1 .. N
      BY <1>1, <2>2, <2>3
    <2> QED BY <2>2, <2>4, Zenon
  <1>3. \A g, h \in L : <<g, h>> \in B => rank[g] < rank[h]
    <2> SUFFICES ASSUME NEW g \in L, NEW h \in L, <<g, h>> \in B
                 PROVE  rank[g] < rank[h]
      BY Zenon
    <2>1. UpTo(g) \subseteq UpTo(h)
      BY Zenon DEF IsOrder
    <2>2. h \in UpTo(h) /\ h \notin UpTo(g)
      BY Zenon DEF IsOrder
    <2>3. IsFiniteSet(UpTo(h))
      BY <1>2, Zenon
    <2> HIDE DEF UpTo
    <2>4. Cardinality(UpTo(g)) < Cardinality(UpTo(h))
      BY <2>1, <2>2, <2>3, SubsetSize, Zenon
    <2> QED BY <2>4, Zenon
  <1> HIDE DEF UpTo
  <1>4. rank \in [L -> 1 .. N]
    BY <1>2, Zenon
  <1> HIDE DEF rank
  <1>5. \A g, h \in L : rank[g] = rank[h] => g = h
    <2> SUFFICES ASSUME NEW g \in L, NEW h \in L, rank[g] = rank[h], g # h
                 PROVE  FALSE
      BY Zenon
    <2>1. <<g, h>> \in B \/ <<h, g>> \in B
      BY Zenon DEF IsOrder
    <2>2. rank[g] < rank[h] \/ rank[h] < rank[g]
      BY <1>3, <2>1, Zenon
    <2>3. rank[g] \in Nat /\ rank[h] \in Nat
      BY <1>1, <1>4
    <2> QED BY <2>2, <2>3
  <1>6. \A i \in 1 .. N : \E k \in L : rank[k] = i
    <2>1. rank \in Injection(L, 1 .. N)
      BY <1>4, <1>5, Zenon DEF Injection, IsInjective
    <2>2. IsFiniteSet(1 .. N) /\ Cardinality(1 .. N) = N
      BY <1>1, FS_Interval
    <2>3. rank \in Surjection(L, 1 .. N)
      BY <2>1, <2>2, FS_Injection, Zenon
    <2> QED BY <2>3, Zenon DEF Surjection
  <1> DEFINE s == [i \in 1 .. N |-> CHOOSE k \in L : rank[k] = i]
  <1>7. \A i \in 1 .. N : s[i] \in L /\ rank[s[i]] = i
    BY <1>6, Zenon
  <1>8. s \in [1 .. N -> L]
    BY <1>7, Zenon
  <1> HIDE DEF s
  <1>9. \A i, j \in 1 .. N : i < j => <<s[i], s[j]>> \in B
    <2> SUFFICES ASSUME NEW i \in 1 .. N, NEW j \in 1 .. N, i < j
                 PROVE  <<s[i], s[j]>> \in B
      BY Zenon
    <2>1. s[i] \in L /\ s[j] \in L /\ rank[s[i]] = i /\ rank[s[j]] = j
      BY <1>7, Zenon
    <2>2. i # j /\ ~(j < i)
      BY <1>1
    <2>3. s[i] # s[j]
      BY <2>1, <2>2, Zenon
    <2>4. <<s[j], s[i]>> \notin B
      BY <1>3, <2>1, <2>2, Zenon
    <2> QED BY <2>1, <2>3, <2>4, Zenon DEF IsOrder
  <1> QED BY <1>8, <1>9, Zenon DEF Lists

(* s has every key of L, and each only once.                               *)
HasOnce(s, L) ==
  /\ \A i, j \in 1 .. Cardinality(L) : s[i] = s[j] => i = j
  /\ \A k \in L : \E i \in 1 .. Cardinality(L) : s[i] = k

(* A sorted list has every key, and each only once.                        *)
LEMMA ListOnce ==
  ASSUME NEW L, IsFiniteSet(L), NEW B, IsOrder(B, L), NEW s, Lists(s, L, B)
  PROVE  HasOnce(s, L)
  <1> DEFINE N == Cardinality(L)
  <1>1. N \in Nat
    BY FS_CardinalityType, Zenon
  <1>2. s \in [1 .. N -> L] /\ \A i, j \in 1 .. N : i < j => <<s[i], s[j]>> \in B
    BY Zenon DEF Lists
  <1>3. \A i, j \in 1 .. N : s[i] = s[j] => i = j
    <2> SUFFICES ASSUME NEW i \in 1 .. N, NEW j \in 1 .. N, s[i] = s[j], i # j
                 PROVE  FALSE
      BY Zenon
    <2>1. i < j \/ j < i
      BY <1>1
    <2>2. <<s[i], s[i]>> \in B
      BY <1>2, <2>1, Zenon
    <2> QED BY <1>2, <2>2, Zenon DEF IsOrder
  <1>4. s \in Injection(1 .. N, L)
    BY <1>2, <1>3, Zenon DEF Injection, IsInjective
  <1>5. Cardinality(1 .. N) = N
    BY <1>1, FS_Interval
  <1>6. s \in Surjection(1 .. N, L)
    BY <1>4, <1>5, FS_Injection, Zenon
  <1> QED BY <1>3, <1>6, Zenon DEF Surjection, HasOnce

(* The keys of s after position a and up to position m.                    *)
Slice(s, a, m) == {s[i] : i \in a + 1 .. m}

(* A slice of a list without repetitions has as many keys as positions.    *)
LEMMA SliceSize ==
  ASSUME NEW L, IsFiniteSet(L), NEW s, HasOnce(s, L)
  PROVE  \A a, m \in Nat : a <= m /\ m <= Cardinality(L) =>
            Cardinality(Slice(s, a, m)) = m - a
  <1> SUFFICES ASSUME NEW a \in Nat, NEW m \in Nat, a <= m, m <= Cardinality(L)
               PROVE  Cardinality(Slice(s, a, m)) = m - a
    BY Zenon
  <1> DEFINE D == a + 1 .. m
             S == {s[i] : i \in D}
             f == [i \in D |-> s[i]]
  <1>1. IsFiniteSet(D) /\ Cardinality(D) = m - a
    <2>1. a + 1 \in Int /\ m \in Int
      OBVIOUS
    <2>2. /\ IsFiniteSet(D)
          /\ Cardinality(D) = IF a + 1 > m THEN 0 ELSE m - (a + 1) + 1
      BY <2>1, FS_Interval, Zenon
    <2> QED BY <2>2
  <1>2. D \subseteq 1 .. Cardinality(L)
    <2>1. Cardinality(L) \in Nat
      BY FS_CardinalityType, Zenon
    <2> QED BY <2>1
  <1> HIDE DEF D
  <1>3. f \in Bijection(D, S)
    BY <1>2, Zenon DEF HasOnce, Bijection, Injection, Surjection, IsInjective
  <1>4. IsFiniteSet(S) /\ Cardinality(S) = Cardinality(D)
    BY <1>1, <1>3, FS_Bijection, Zenon DEF ExistsBijection
  <1> QED BY <1>1, <1>4, Zenon DEF Slice, D

(* The first o keys of the sorted list are the front for o.                *)
LEMMA PrefixFront ==
  ASSUME NEW L, IsFiniteSet(L), NEW B, IsOrder(B, L), NEW s, Lists(s, L, B),
         NEW o \in Nat, NEW m \in Nat,
         m = IF o < Cardinality(L) THEN o ELSE Cardinality(L)
  PROVE  IsFront(Slice(s, 0, m), L, B, o)
  <1> DEFINE N == Cardinality(L)
             F == Slice(s, 0, m)
  <1>1. N \in Nat
    BY FS_CardinalityType, Zenon
  <1>2. m <= N /\ m <= o /\ (m = N \/ m = o)
    BY <1>1
  <1>3. \A i : i \in 0 + 1 .. m <=> i \in 1 .. N /\ i <= m
    BY <1>1, <1>2
  <1>4. /\ \A i, j \in 1 .. N : s[i] = s[j] => i = j
        /\ \A k \in L : \E i \in 1 .. N : s[i] = k
    <2>1. HasOnce(s, L)
      BY ListOnce, Zenon
    <2> QED BY <2>1, Zenon DEF HasOnce
  <1>5. s \in [1 .. N -> L] /\ \A i, j \in 1 .. N : i < j => <<s[i], s[j]>> \in B
    BY Zenon DEF Lists
  <1>6. F \subseteq L
    BY <1>3, <1>5, Zenon DEF Slice
  <1>7. ASSUME NEW g \in L, NEW h \in F, <<g, h>> \in B
        PROVE  g \in F
    <2>1. PICK i \in 1 .. N : i <= m /\ s[i] = h
      BY <1>3, Zenon DEF Slice
    <2>2. PICK j \in 1 .. N : s[j] = g
      BY <1>4, Zenon
    <2>3. ~(i < j)
      BY <1>5, <1>6, <1>7, <2>1, <2>2, Zenon DEF IsOrder
    <2>4. j <= m
      BY <1>1, <2>1, <2>3
    <2> QED BY <1>3, <2>2, <2>4, Zenon DEF Slice
  <1>8. Cardinality(F) = m
    <2>1. 0 \in Nat /\ 0 <= m
      OBVIOUS
    <2>2. HasOnce(s, L)
      BY ListOnce, Zenon
    <2>3. \A c, d \in Nat : c <= d /\ d <= N => Cardinality(Slice(s, c, d)) = d - c
      BY <2>2, SliceSize, SMT
    <2>4. Cardinality(F) = m - 0
      BY <1>2, <2>1, <2>3, Zenon
    <2> QED BY <2>4
  <1>9. F # L => m # N
    <2> SUFFICES ASSUME m = N PROVE F = L
      BY Zenon
    <2>1. \A i \in 1 .. N : i \in 0 + 1 .. m
      OBVIOUS
    <2>2. L \subseteq F
      BY <1>4, <2>1, Zenon DEF Slice
    <2> QED BY <1>6, <2>2, Zenon
  <1> HIDE DEF F, N
  <1>10. Cardinality(F) <= o /\ (F # L => Cardinality(F) = o)
    BY <1>2, <1>8, <1>9, Zenon
  <1> QED BY <1>6, <1>7, <1>10, Zenon DEF IsFront, F

(* What a page of n keys at the offset o is, when the offset skips F.      *)
IsPage(page, L, B, o, n, F) ==
  /\ page \in Seq(L)
  /\ Len(page) \in Nat
  /\ Range(page) \subseteq L
  /\ Cardinality(Range(page)) = Len(page)
  /\ Range(page) \cap F = {}
  /\ IsFront(F \cup Range(page), L, B, o + Len(page))
  /\ o + Len(page) < Cardinality(L) => Len(page) = n

(* list_all_keys with an offset: the page has none of the keys that the    *)
(* offset skips and no key twice, the next offset skips these keys too,    *)
(* and a page that does not reach the end of the list is full.             *)
LEMMA PageFront ==
  ASSUME NEW L, IsFiniteSet(L), NEW B, IsOrder(B, L), NEW s, Lists(s, L, B)
  PROVE  \A o, n \in Nat : \A F :
            IsFront(F, L, B, o) => IsPage(Page(s, o, n), L, B, o, n, F)
  <1> SUFFICES ASSUME NEW o \in Nat, NEW n \in Nat, NEW F, IsFront(F, L, B, o),
                      NEW page, page = Page(s, o, n)
               PROVE  IsPage(page, L, B, o, n, F)
    BY Zenon
  <1> DEFINE N == Cardinality(L)
             a == IF o < N THEN o ELSE N
             m == IF o + n < N THEN o + n ELSE N
  <1>1. N \in Nat
    BY FS_CardinalityType, Zenon
  <1>2. /\ \A i, j \in 1 .. N : s[i] = s[j] => i = j
        /\ \A k \in L : \E i \in 1 .. N : s[i] = k
    <2>1. HasOnce(s, L)
      BY ListOnce, Zenon
    <2> QED BY <2>1, Zenon DEF HasOnce
  <1>3. s \in [1 .. N -> L] /\ \A i, j \in 1 .. N : i < j => <<s[i], s[j]>> \in B
    BY Zenon DEF Lists
  <1>4. s \in Seq(L) /\ Len(s) = N
    BY <1>1, <1>3
  <1>5. page = SubSeq(s, o + 1, m)
    BY <1>4, Zenon DEF Page
  <1>6. a \in Nat /\ m \in Nat /\ a <= m /\ m <= N
    BY <1>1
  <1>7. o + 1 .. m = a + 1 .. m
    BY <1>1
  <1>8. \A i \in o + 1 .. m : s[i] \in L
    BY <1>1, <1>3
  <1>9. /\ page \in Seq(L)
        /\ Len(page) = m - a
        /\ \A i \in 1 .. m - (o + 1) + 1 : page[i] = s[o + 1 + i - 1]
    <2>1. o + 1 \in Int /\ m \in Int
      BY <1>6
    <2> HIDE DEF m
    <2>2. /\ page \in Seq(L)
          /\ Len(page) = IF o + 1 <= m THEN m - (o + 1) + 1 ELSE 0
          /\ \A i \in 1 .. m - (o + 1) + 1 : page[i] = s[o + 1 + i - 1]
      BY <1>5, <1>8, <2>1
    <2>3. (IF o + 1 <= m THEN m - (o + 1) + 1 ELSE 0) = m - a
      BY <1>1 DEF m
    <2> QED BY <2>2, <2>3, Zenon
  <1>10. Range(page) = Slice(s, a, m)
    <2>1. DOMAIN page = 1 .. m - a
      BY <1>9
    <2>2. \A i \in 1 .. m - a : i + a \in a + 1 .. m /\ page[i] = s[i + a]
      BY <1>1, <1>9
    <2>3. \A i \in a + 1 .. m : i - a \in 1 .. m - a /\ page[i - a] = s[i]
      <3> HIDE DEF a, m
      <3>1. \A i \in a + 1 .. m : i - a \in 1 .. m - a /\ (i - a) + a = i
        BY <1>6
      <3> QED BY <2>2, <3>1, Zenon
    <2> HIDE DEF a, m
    <2>4. Range(page) \subseteq Slice(s, a, m)
      BY <2>1, <2>2, Zenon DEF Range, Slice
    <2>5. Slice(s, a, m) \subseteq Range(page)
      BY <2>1, <2>3, Zenon DEF Range, Slice
    <2> QED BY <2>4, <2>5, Zenon
  <1>11. Cardinality(Range(page)) = Len(page)
    <2>1. HasOnce(s, L)
      BY ListOnce, Zenon
    <2>2. \A c, d \in Nat : c <= d /\ d <= N => Cardinality(Slice(s, c, d)) = d - c
      BY <2>1, SliceSize, SMT
    <2> HIDE DEF a, m
    <2>3. Cardinality(Slice(s, a, m)) = m - a
      BY <1>6, <2>2, Zenon
    <2> QED BY <1>9, <1>10, <2>3, Zenon
  <1>12. IsFront(Slice(s, 0, a), L, B, o)
    BY <1>6, PrefixFront, Zenon
  <1>13. F = Slice(s, 0, a)
    BY <1>12, FrontUnique, Zenon
  <1>14. Range(page) \cap F = {}
    <2>1. \A i \in 0 + 1 .. a, j \in a + 1 .. m :
            i \in 1 .. N /\ j \in 1 .. N /\ i # j
      BY <1>1
    <2> HIDE DEF a, m, N
    <2> SUFFICES ASSUME NEW k, k \in Range(page), k \in F
                 PROVE  FALSE
      BY Zenon
    <2>2. PICK j \in a + 1 .. m : k = s[j]
      BY <1>10, Zenon DEF Slice
    <2>3. PICK i \in 0 + 1 .. a : k = s[i]
      BY <1>13, Zenon DEF Slice
    <2> QED BY <1>2, <2>1, <2>2, <2>3, Zenon
  <1>15. F \cup Range(page) = Slice(s, 0, m)
    <2>1. \A i : i \in 0 + 1 .. m <=> i \in 0 + 1 .. a \/ i \in a + 1 .. m
      BY <1>1
    <2> HIDE DEF a, m, N
    <2> QED BY <1>10, <1>13, <2>1, Zenon DEF Slice
  <1>16. m = IF o + Len(page) < N THEN o + Len(page) ELSE N
    BY <1>1, <1>9
  <1>17. IsFront(F \cup Range(page), L, B, o + Len(page))
    <2>1. o + Len(page) \in Nat
      BY <1>6, <1>9
    <2>2. IsFront(Slice(s, 0, m), L, B, o + Len(page))
      BY <1>6, <1>16, <2>1, PrefixFront, Zenon
    <2> QED BY <1>15, <2>2, Zenon
  <1>18. Len(page) \in Nat /\ (o + Len(page) < N => Len(page) = n)
    BY <1>1, <1>9
  <1>19. Range(page) \subseteq L
    BY <1>8, <1>7, <1>10, Zenon DEF Slice
  <1> QED BY <1>9, <1>11, <1>14, <1>17, <1>18, <1>19, Zenon DEF IsPage

(* Every offset has a front.                                               *)
LEMMA FrontExists ==
  ASSUME NEW L, IsFiniteSet(L), NEW B, IsOrder(B, L), NEW o \in Nat
  PROVE  \E F : IsFront(F, L, B, o)
  <1>1. PICK s : Lists(s, L, B)
    BY ListExists, Zenon
  <1> DEFINE m == IF o < Cardinality(L) THEN o ELSE Cardinality(L)
  <1>2. m \in Nat
    BY FS_CardinalityType, Zenon
  <1>3. IsFront(Slice(s, 0, m), L, B, o)
    BY <1>1, <1>2, PrefixFront, Zenon
  <1> QED BY <1>3, Zenon

(* An offset of at least the length of the list skips all of it.           *)
LEMMA FrontAll ==
  ASSUME NEW L, IsFiniteSet(L), NEW B, NEW o \in Nat, NEW F, IsFront(F, L, B, o),
         ~(o < Cardinality(L))
  PROVE  F = L
  <1>1. F \subseteq L /\ (F # L => Cardinality(F) = o)
    BY Zenon DEF IsFront
  <1>2. /\ Cardinality(F) \in Nat /\ Cardinality(L) \in Nat
        /\ F # L => Cardinality(F) < Cardinality(L)
    BY <1>1, SubsetSize, Zenon
  <1> QED BY <1>1, <1>2

-----------------------------------------------------------------------------
(* The accounts, as sizes of sets: of the live keys L, the front F, the    *)
(* keys S seen and the keys A of the start.                                *)

(* A page P beyond the front: a key of it that was seen before was counted *)
(* as about to be repeated, and is now counted as repeated.                *)
LEMMA PageAccounts ==
  ASSUME NEW L, IsFiniteSet(L), NEW S, IsFiniteSet(S),
         NEW F, F \subseteq L, NEW P, P \subseteq L, P \cap F = {}, NEW A
  PROVE  /\ Cardinality(S \cup P) + Cardinality((L \ F) \cap S)
              = Cardinality(S) + Cardinality(P)
                  + Cardinality((L \ (F \cup P)) \cap (S \cup P))
         /\ Cardinality(((F \cup P) \cap A) \ (S \cup P))
              <= Cardinality((F \cap A) \ S)
  <1> DEFINE R == (L \ F) \cap S
             Q == (L \ (F \cup P)) \cap (S \cup P)
  <1>1. IsFiniteSet(P) /\ IsFiniteSet(F) /\ IsFiniteSet(R)
    BY SubsetSize, R \subseteq S, Zenon
  <1>2. R \cap P = S \cap P /\ R \ P = Q
    BY Zenon
  <1>3. /\ Cardinality(S \cup P) =
             Cardinality(S) + Cardinality(P) - Cardinality(S \cap P)
        /\ IsFiniteSet(S \cup P)
    BY <1>1, FS_Union, Zenon
  <1>4. /\ Cardinality(R) = Cardinality(R \ P) + Cardinality(R \cap P)
        /\ Cardinality(R) \in Nat
        /\ Cardinality(R \ P) \in Nat
        /\ Cardinality(R \cap P) \in Nat
    BY <1>1, SplitSize, Zenon
  <1>5. Cardinality(S) \in Nat /\ Cardinality(P) \in Nat
    BY <1>1, FS_CardinalityType, Zenon
  <1>6. Cardinality(S \cup P) + Cardinality(R)
          = Cardinality(S) + Cardinality(P) + Cardinality(Q)
    <2>1. Cardinality(R \cap P) = Cardinality(S \cap P) /\ Cardinality(R \ P) = Cardinality(Q)
      BY <1>2, Zenon
    <2> HIDE DEF R, Q
    <2> QED BY <1>3, <1>4, <1>5, <2>1
  <1>7. Cardinality(((F \cup P) \cap A) \ (S \cup P)) <= Cardinality((F \cap A) \ S)
    <2>1. ((F \cup P) \cap A) \ (S \cup P) \subseteq (F \cap A) \ S
      BY Zenon
    <2>2. IsFiniteSet((F \cap A) \ S)
      BY <1>1, SubsetSize, (F \cap A) \ S \subseteq F, Zenon
    <2> QED BY <2>1, <2>2, SubsetSize, Zenon
  <1> QED BY <1>6, <1>7, Zenon DEF R, Q

(* The keys G go, and the front becomes E.                                 *)
LEMMA RemoveAccounts ==
  ASSUME NEW L, IsFiniteSet(L), NEW G, G \subseteq L,
         NEW F, F \subseteq L, NEW E, E \subseteq L,
         F \ G \subseteq E, Cardinality(E \ F) <= Cardinality(G)
  PROVE  \A S, A :
         /\ Cardinality(((L \ G) \ E) \cap S) <= Cardinality((L \ F) \cap S)
         /\ Cardinality((E \cap A) \ S) <= Cardinality((F \cap A) \ S) + Cardinality(G)
         /\ Cardinality((F \cap A) \ S) \in Nat
         /\ Cardinality((E \cap A) \ S) \in Nat
         /\ Cardinality((L \ F) \cap S) \in Nat
         /\ Cardinality(((L \ G) \ E) \cap S) \in Nat
  <1> TAKE S, A
  <1>1. ((L \ G) \ E) \cap S \subseteq (L \ F) \cap S
    BY Zenon
  <1>2. (E \cap A) \ S \subseteq ((F \cap A) \ S) \cup (E \ F)
    BY Zenon
  <1>3. IsFiniteSet((L \ F) \cap S) /\ IsFiniteSet((F \cap A) \ S)
        /\ IsFiniteSet(E \ F) /\ IsFiniteSet(G)
    BY SubsetSize, (L \ F) \cap S \subseteq L, (F \cap A) \ S \subseteq L,
       E \ F \subseteq L, Zenon
  <1>4. /\ Cardinality(((L \ G) \ E) \cap S) <= Cardinality((L \ F) \cap S)
        /\ Cardinality((L \ F) \cap S) \in Nat
        /\ Cardinality(((L \ G) \ E) \cap S) \in Nat
    BY <1>1, <1>3, SubsetSize, Zenon
  <1>5. /\ Cardinality((E \cap A) \ S)
             <= Cardinality((F \cap A) \ S) + Cardinality(E \ F)
        /\ Cardinality((F \cap A) \ S) \in Nat
        /\ Cardinality((E \cap A) \ S) \in Nat
        /\ Cardinality(E \ F) \in Nat
    BY <1>2, <1>3, CoverSize, Zenon
  <1>6. Cardinality(G) \in Nat
    BY <1>3, FS_CardinalityType, Zenon
  <1> QED BY <1>4, <1>5, <1>6

(* A key x comes that the scan has not met, and the front becomes E.       *)
LEMMA AddAccounts ==
  ASSUME NEW L, IsFiniteSet(L), NEW x, NEW F, F \subseteq L, NEW E,
         E \ {x} \subseteq F, Cardinality(F \ E) <= 1
  PROVE  \A S, A : x \notin S /\ x \notin A =>
         /\ Cardinality(((L \cup {x}) \ E) \cap S) <= Cardinality((L \ F) \cap S) + 1
         /\ Cardinality((E \cap A) \ S) <= Cardinality((F \cap A) \ S)
         /\ Cardinality((F \cap A) \ S) \in Nat
         /\ Cardinality((E \cap A) \ S) \in Nat
         /\ Cardinality((L \ F) \cap S) \in Nat
         /\ Cardinality(((L \cup {x}) \ E) \cap S) \in Nat
  <1> TAKE S, A
  <1> HAVE x \notin S /\ x \notin A
  <1>1. ((L \cup {x}) \ E) \cap S \subseteq ((L \ F) \cap S) \cup (F \ E)
    BY Zenon
  <1>2. (E \cap A) \ S \subseteq (F \cap A) \ S
    BY Zenon
  <1>3. IsFiniteSet((L \ F) \cap S) /\ IsFiniteSet((F \cap A) \ S) /\ IsFiniteSet(F \ E)
    BY SubsetSize, (L \ F) \cap S \subseteq L, (F \cap A) \ S \subseteq L,
       F \ E \subseteq L, Zenon
  <1>4. /\ Cardinality(((L \cup {x}) \ E) \cap S)
             <= Cardinality((L \ F) \cap S) + Cardinality(F \ E)
        /\ Cardinality((L \ F) \cap S) \in Nat
        /\ Cardinality(F \ E) \in Nat
        /\ Cardinality(((L \cup {x}) \ E) \cap S) \in Nat
    <2> DEFINE U == ((L \cup {x}) \ E) \cap S
               V == (L \ F) \cap S
               W == F \ E
    <2>1. U \subseteq V \cup W /\ IsFiniteSet(V) /\ IsFiniteSet(W)
      BY <1>1, <1>3, Zenon
    <2> HIDE DEF U, V, W
    <2>2. /\ Cardinality(U) <= Cardinality(V) + Cardinality(W)
          /\ Cardinality(V) \in Nat /\ Cardinality(W) \in Nat /\ Cardinality(U) \in Nat
      BY <2>1, CoverSize, Zenon
    <2> QED BY <2>2, Zenon DEF U, V, W
  <1>5. /\ Cardinality((E \cap A) \ S) <= Cardinality((F \cap A) \ S)
        /\ Cardinality((F \cap A) \ S) \in Nat
        /\ Cardinality((E \cap A) \ S) \in Nat
    BY <1>2, <1>3, SubsetSize, Zenon
  <1> QED BY <1>4, <1>5

-----------------------------------------------------------------------------
(* The model's operators.                                                  *)

(* sort_by compares created_at first and the handle second, which orders   *)
(* any set of handles.                                                     *)
LEMMA OrderIs ==
  ASSUME Types, NEW L, L \subseteq KeyHandle
  PROVE  IsOrder(Order, L)
  <1>1. \A g, h \in L : <<g, h>> \in Order <=> Before(g, h)
    BY Zenon DEF Order
  <1>2. L \subseteq Nat /\ \A h \in L : created_at[h] \in Nat
    BY EnumerationAssumption, Zenon DEF Types
  <1>3. \A g \in L : ~Before(g, g)
    BY <1>2 DEF Before
  <1>4. \A f, g, h \in L : Before(f, g) /\ Before(g, h) => Before(f, h)
    BY <1>2 DEF Before
  <1>5. \A g, h \in L : g = h \/ Before(g, h) \/ Before(h, g)
    BY <1>2 DEF Before
  <1> QED BY <1>1, <1>3, <1>4, <1>5, Zenon DEF IsOrder

(* The live keys are finitely many of those that were added.               *)
LEMMA LiveIs ==
  ASSUME Types
  PROVE  /\ IsFiniteSet(Live)
         /\ Live \subseteq KeyHandle
         /\ Live \subseteq Added
         /\ IsOrder(Order, Live)
  <1>1. Live \subseteq keys /\ Live \subseteq Added /\ Live \subseteq KeyHandle
    BY Zenon DEF Types, Live, Added
  <1>2. IsFiniteSet(Live)
    BY <1>1, SubsetSize, Zenon DEF Types
  <1> QED BY <1>1, <1>2, OrderIs, Zenon

(* The list that list_all_keys cuts its pages out of is sorted.            *)
LEMMA SortedLists ==
  ASSUME Types
  PROVE  Lists(Sorted(Live), Live, Order)
  <1> DEFINE N == Cardinality(Live)
             Ok(r) == \A i, j \in DOMAIN r : i < j => Before(r[i], r[j])
  <1>1. IsFiniteSet(Live) /\ Live \subseteq KeyHandle /\ IsOrder(Order, Live)
    BY LiveIs, Zenon
  <1>2. \A g, h \in Live : <<g, h>> \in Order <=> Before(g, h)
    BY <1>1, Zenon DEF Order
  <1>3. PICK s : Lists(s, Live, Order)
    BY <1>1, ListExists, Zenon
  <1>4. HasOnce(s, Live)
    BY <1>1, <1>3, ListOnce, Zenon
  <1>5. s \in Bijection(1 .. N, Live)
    <2>1. s \in [1 .. N -> Live] /\ DOMAIN s = 1 .. N
      BY <1>3, Zenon DEF Lists
    <2>2. IsInjective(s) /\ \A k \in Live : \E i \in 1 .. N : s[i] = k
      BY <1>4, <2>1, Zenon DEF HasOnce, IsInjective
    <2> QED BY <2>1, <2>2, Zenon DEF Bijection, Injection, Surjection
  <1>6. Ok(s)
    BY <1>2, <1>3, Zenon DEF Lists
  <1>7. Sorted(Live) \in Bijection(1 .. N, Live) /\ Ok(Sorted(Live))
    BY <1>5, <1>6, Zenon DEF Sorted
  <1>8. Sorted(Live) \in [1 .. N -> Live]
    BY <1>7, Zenon DEF Bijection, Injection
  <1> QED BY <1>2, <1>7, <1>8, Zenon DEF Lists

(* What the pages returned is a finite set of handles.                     *)
LEMMA SeenIs ==
  ASSUME Types
  PROVE  /\ IsFiniteSet(Range(seen))
         /\ Cardinality(Range(seen)) \in Nat
         /\ Len(seen) \in Nat
  <1>1. Len(seen) \in Nat /\ DOMAIN seen = 1 .. Len(seen)
    BY DEF Types
  <1>2. IsFiniteSet(1 .. Len(seen))
    BY <1>1, FS_Interval
  <1>3. [i \in 1 .. Len(seen) |-> seen[i]] \in Surjection(1 .. Len(seen), Range(seen))
    BY <1>1, Zenon DEF Surjection, Range
  <1>4. IsFiniteSet(Range(seen))
    BY <1>2, <1>3, FS_Surjection, Zenon
  <1> QED BY <1>1, <1>4, FS_CardinalityType, Zenon

(* Another page adds its keys to those seen.                               *)
LEMMA ConcatSet ==
  ASSUME NEW S, NEW s \in Seq(S), NEW t \in Seq(S)
  PROVE  /\ s \o t \in Seq(S)
         /\ Len(s \o t) = Len(s) + Len(t)
         /\ Range(s \o t) = Range(s) \cup Range(t)
  <1>1. s \o t \in Seq(S) /\ Len(s \o t) = Len(s) + Len(t)
    OBVIOUS
  <1>2. Range(s \o t) \subseteq Range(s) \cup Range(t)
    BY DEF Range
  <1>3. Range(s) \subseteq Range(s \o t)
    BY DEF Range
  <1>4. Range(t) \subseteq Range(s \o t)
    <2>1. \A i \in DOMAIN t : Len(s) + i \in DOMAIN (s \o t) /\ (s \o t)[Len(s) + i] = t[i]
      OBVIOUS
    <2> QED BY <2>1, Zenon DEF Range
  <1> QED BY <1>1, <1>2, <1>3, <1>4, Zenon

(* One page, asked for with the offset of what has been seen, keeps the    *)
(* accounts; with no more to come the offset skips every live key.         *)
LEMMA TurnPage ==
  ASSUME Types, NEW n \in Nat, NEW page, page = ListAllKeys(Len(seen), n),
         NEW F, IsFront(F, Live, Order, Len(seen)), NEW A,
         Len(seen) - Cardinality(Range(seen)) + Cardinality((Live \ F) \cap Range(seen))
           <= Cardinality(came),
         Cardinality((F \cap A) \ Range(seen)) <= Cardinality(gone)
  PROVE  LET s == seen \o page
             E == F \cup Range(page)
         IN /\ s \in Seq(KeyHandle)
            /\ Len(s) = Len(seen) + Len(page)
            /\ Range(s) = Range(seen) \cup Range(page)
            /\ Range(page) \subseteq Live
            /\ E \in SUBSET Live
            /\ IsFront(E, Live, Order, Len(s))
            /\ Len(s) - Cardinality(Range(s)) + Cardinality((Live \ E) \cap Range(s))
                 <= Cardinality(came)
            /\ Cardinality((E \cap A) \ Range(s)) <= Cardinality(gone)
            /\ HasMore(Len(seen), Len(page)) => Len(page) = n
            /\ ~HasMore(Len(seen), Len(page)) => E = Live
  <1> DEFINE s == seen \o page
             E == F \cup Range(page)
             S == Range(seen)
             P == Range(page)
  <1>1. /\ IsFiniteSet(Live) /\ Live \subseteq KeyHandle /\ IsOrder(Order, Live)
        /\ Lists(Sorted(Live), Live, Order)
    BY LiveIs, SortedLists, Zenon
  <1>2. /\ IsFiniteSet(S) /\ Cardinality(S) \in Nat /\ Len(seen) \in Nat
    BY SeenIs, Zenon
  <1>3. page = Page(Sorted(Live), Len(seen), n)
    BY Zenon DEF ListAllKeys
  <1>4. /\ page \in Seq(Live)
        /\ Len(page) \in Nat
        /\ P \subseteq Live
        /\ Cardinality(P) = Len(page)
        /\ P \cap F = {}
        /\ IsFront(E, Live, Order, Len(seen) + Len(page))
        /\ Len(seen) + Len(page) < Cardinality(Live) => Len(page) = n
    <2>1. \A o, m \in Nat : \A G : IsFront(G, Live, Order, o) =>
            IsPage(Page(Sorted(Live), o, m), Live, Order, o, m, G)
      BY <1>1, PageFront, Zenon
    <2>2. IsPage(page, Live, Order, Len(seen), n, F)
      BY <1>2, <1>3, <2>1, Zenon
    <2> QED BY <2>2, Zenon DEF IsPage
  <1>5. F \subseteq Live /\ E \in SUBSET Live
    BY <1>4, Zenon DEF IsFront
  <1>6. s \in Seq(KeyHandle) /\ Len(s) = Len(seen) + Len(page) /\ Range(s) = S \cup P
    <2>1. page \in Seq(KeyHandle)
      BY <1>1, <1>4
    <2>2. seen \in Seq(KeyHandle)
      BY Zenon DEF Types
    <2> QED BY <2>1, <2>2, ConcatSet, SMT
  <1>7. /\ Cardinality(S \cup P) + Cardinality((Live \ F) \cap S)
             = Cardinality(S) + Cardinality(P) + Cardinality((Live \ E) \cap (S \cup P))
        /\ Cardinality((E \cap A) \ (S \cup P)) <= Cardinality((F \cap A) \ S)
    BY <1>1, <1>2, <1>4, <1>5, PageAccounts, Zenon
  <1>8. /\ Cardinality((Live \ F) \cap S) \in Nat
        /\ Cardinality((Live \ E) \cap (S \cup P)) \in Nat
        /\ Cardinality(S \cup P) \in Nat
        /\ Cardinality((E \cap A) \ (S \cup P)) \in Nat
        /\ Cardinality((F \cap A) \ S) \in Nat
    <2>1. /\ IsFiniteSet((Live \ F) \cap S)
          /\ IsFiniteSet((Live \ E) \cap (S \cup P))
          /\ IsFiniteSet((E \cap A) \ (S \cup P))
          /\ IsFiniteSet((F \cap A) \ S)
          /\ IsFiniteSet(P)
      BY <1>1, <1>4, <1>5, SubsetSize, (Live \ F) \cap S \subseteq Live,
         (Live \ E) \cap (S \cup P) \subseteq Live,
         (E \cap A) \ (S \cup P) \subseteq Live,
         (F \cap A) \ S \subseteq Live, Zenon
    <2>2. IsFiniteSet(S \cup P)
      BY <1>2, <2>1, FS_Union, Zenon
    <2> QED BY <2>1, <2>2, FS_CardinalityType, Zenon
  <1>9. Cardinality(came) \in Nat /\ Cardinality(gone) \in Nat
    BY FS_CardinalityType, Zenon DEF Types
  <1>10. /\ Cardinality(Range(s)) = Cardinality(S \cup P)
         /\ Cardinality((Live \ E) \cap Range(s)) = Cardinality((Live \ E) \cap (S \cup P))
         /\ Cardinality((E \cap A) \ Range(s)) = Cardinality((E \cap A) \ (S \cup P))
    BY <1>6, Zenon
  <1>11. Len(s) - Cardinality(Range(s)) + Cardinality((Live \ E) \cap Range(s))
           <= Cardinality(came)
    <2> DEFINE r == Cardinality((Live \ F) \cap S)
               q == Cardinality((Live \ E) \cap (S \cup P))
               t == Cardinality(S)
               u == Cardinality(S \cup P)
               c == Cardinality(came)
    <2>1. /\ r \in Nat /\ q \in Nat /\ t \in Nat /\ u \in Nat /\ c \in Nat
          /\ Len(seen) \in Nat /\ Len(page) \in Nat
          /\ u + r = t + Len(page) + q
          /\ Len(seen) - t + r <= c
      BY <1>2, <1>4, <1>7, <1>8, <1>9, Zenon
    <2> HIDE DEF r, q, t, u, c
    <2>2. Len(seen) + Len(page) - u + q <= c
      BY <2>1
    <2> DEFINE v == Len(s)
               w == Cardinality(Range(s))
               x == Cardinality((Live \ E) \cap Range(s))
    <2>3. v = Len(seen) + Len(page) /\ w = u /\ x = q
      BY <1>6, <1>10, Zenon DEF q, u
    <2> HIDE DEF v, w, x
    <2>4. v - w + x <= c
      BY <2>1, <2>2, <2>3
    <2> QED BY <2>4, Zenon DEF v, w, x, c
  <1>12. Cardinality((E \cap A) \ Range(s)) <= Cardinality(gone)
    <2>1. Cardinality((E \cap A) \ (S \cup P)) <= Cardinality(gone)
      BY <1>7, <1>8, <1>9
    <2> QED BY <1>10, <2>1, Zenon
  <1>13. /\ HasMore(Len(seen), Len(page)) => Len(page) = n
         /\ ~HasMore(Len(seen), Len(page)) => E = Live
    <2>1. Len(seen) + Len(page) \in Nat
      BY <1>2, <1>4
    <2>2. ~(Len(seen) + Len(page) < Cardinality(Live)) => E = Live
      BY <1>1, <1>4, <2>1, FrontAll, Zenon
    <2> QED BY <1>4, <2>2, Zenon DEF HasMore
  <1> QED BY <1>4, <1>5, <1>6, <1>11, <1>12, <1>13, Zenon


(* Any page has live keys only, and none twice.                            *)
LEMMA PageIs ==
  ASSUME Types, NEW o \in Nat, NEW n \in Nat
  PROVE  /\ ListAllKeys(o, n) \in Seq(KeyHandle)
         /\ Range(ListAllKeys(o, n)) \subseteq Live
         /\ Cardinality(Range(ListAllKeys(o, n))) = Len(ListAllKeys(o, n))
  <1>1. /\ IsFiniteSet(Live) /\ Live \subseteq KeyHandle /\ IsOrder(Order, Live)
        /\ Lists(Sorted(Live), Live, Order)
    BY LiveIs, SortedLists, Zenon
  <1>2. PICK F : IsFront(F, Live, Order, o)
    BY <1>1, FrontExists, Zenon
  <1>3. \A c, m \in Nat : \A G : IsFront(G, Live, Order, c) =>
          IsPage(Page(Sorted(Live), c, m), Live, Order, c, m, G)
    BY <1>1, PageFront, Zenon
  <1>4. IsPage(ListAllKeys(o, n), Live, Order, o, n, F)
    BY <1>2, <1>3, Zenon DEF ListAllKeys
  <1>5. ListAllKeys(o, n) \in Seq(Live)
    BY <1>4, Zenon DEF IsPage
  <1>6. ListAllKeys(o, n) \in Seq(KeyHandle)
    BY <1>1, <1>5
  <1> QED BY <1>4, <1>6, Zenon DEF IsPage

-----------------------------------------------------------------------------
(* Steps of the registry.                                                  *)

(* A step of the registry leaves the scan alone, and a key that becomes    *)
(* live has not been in the registry before.                               *)
RegistryStep ==
  /\ UNCHANGED scanVars
  /\ Track
  /\ Added \subseteq Added'
  /\ Live \subseteq Added /\ Live' \subseteq Added'
  /\ Live' \cap Added \subseteq Live

(* What the scan has met stays met.                                        *)
LEMMA RegistryMet ==
  ASSUME Types, Met, RegistryStep
  PROVE  Met'
  <1>1. Range(seen)' = Range(seen) /\ atStart' = atStart /\ scan' = scan /\ seen' = seen
    BY Zenon DEF RegistryStep, scanVars
  <1>2. CASE scan = "paging"
    <2>1. came' = came \cup (Live' \ Live) /\ gone' = gone \cup (Live \ Live')
      BY <1>2, Zenon DEF RegistryStep, Track
    <2>2. Range(seen)' \subseteq Added' /\ atStart' \subseteq Added'
          /\ came' \subseteq Added' /\ gone' \subseteq Added'
      BY <1>1, <2>1, Zenon DEF Met, RegistryStep
    <2>3. atStart' \ gone' \subseteq Live' /\ gone' \cap Live' = {}
      BY <1>1, <1>2, <2>1, Zenon DEF Met, RegistryStep
    <2>4. scan' # "none"
      BY <1>1, <1>2, Zenon
    <2> QED BY <2>2, <2>3, <2>4, Zenon DEF Met
  <1>3. CASE scan # "paging"
    <2>1. came' = came /\ gone' = gone
      BY <1>3, Zenon DEF RegistryStep, Track
    <2>2. Range(seen)' \subseteq Added' /\ atStart' \subseteq Added'
          /\ came' \subseteq Added' /\ gone' \subseteq Added'
      BY <1>1, <2>1, Zenon DEF Met, RegistryStep
    <2>3. scan' = "none" => seen' = <<>> /\ came' = {} /\ gone' = {}
      BY <1>1, <2>1, Zenon DEF Met
    <2> QED BY <1>1, <1>3, <2>2, <2>3, Zenon DEF Met
  <1> QED BY <1>2, <1>3, Zenon

(* What a finished scan returned does not change.                          *)
LEMMA RegistryDone ==
  ASSUME MissesAtMostGone, scan # "paging" => RepeatsAtMostCame, ListsUpToLimit,
         RegistryStep
  PROVE  /\ MissesAtMostGone'
         /\ (scan # "paging" => RepeatsAtMostCame)'
         /\ ListsUpToLimit'
  <1>1. scan' = scan /\ seen' = seen /\ atStart' = atStart
    BY Zenon DEF RegistryStep, scanVars
  <1>2. scan # "paging" => came' = came /\ gone' = gone
    BY Zenon DEF RegistryStep, Track
  <1>3. scan = "done" => scan # "paging"
    BY Zenon
  <1>4. MissesAtMostGone'
    BY <1>1, <1>2, <1>3, Zenon DEF MissesAtMostGone
  <1>5. (scan # "paging" => RepeatsAtMostCame)'
    BY <1>1, <1>2, Zenon DEF RepeatsAtMostCame
  <1>6. ListsUpToLimit'
    BY <1>1, Zenon DEF ListsUpToLimit
  <1> QED BY <1>4, <1>5, <1>6, Zenon

(* Live keys that go: each makes the offset skip at most one key more.     *)
LEMMA ShrinkCounted ==
  ASSUME Types, Met, Counted, RegistryStep, Types',
         Live' \subseteq Live, Order' = Order
  PROVE  Counted'
  <1> SUFFICES ASSUME scan = "paging"
               PROVE  \E E \in SUBSET Live' :
                         IsFront(E, Live', Order, Len(seen)') /\ Accounts(E)'
    BY Zenon DEF Counted, RegistryStep, scanVars
  <1> DEFINE G == Live \ Live'
             S == Range(seen)
  <1>1. seen' = seen /\ atStart' = atStart
    BY Zenon DEF RegistryStep, scanVars
  <1>2. came' = came /\ gone' = gone \cup G /\ gone \cap G = {}
    <2>1. came' = came \cup (Live' \ Live) /\ gone' = gone \cup G
      BY Zenon DEF RegistryStep, Track
    <2> QED BY <2>1, Zenon DEF Met
  <1>3. Live \ G = Live' /\ G \in SUBSET Live
    BY Zenon
  <1>4. /\ IsFiniteSet(Live) /\ IsOrder(Order, Live)
        /\ Live \subseteq KeyHandle /\ Len(seen) \in Nat
    BY LiveIs, SeenIs, Zenon
  <1>5. IsFiniteSet(Live') /\ IsOrder(Order, Live') /\ IsFiniteSet(G)
    BY <1>3, <1>4, SubsetSize, OrderIs, Zenon
  <1>6. PICK F \in SUBSET Live : IsFront(F, Live, Order, Len(seen)) /\ Accounts(F)
    BY Zenon DEF Counted
  <1>7. PICK E : IsFront(E, Live', Order, Len(seen))
    BY <1>4, <1>5, FrontExists, Zenon
  <1>8. E \in SUBSET Live'
    BY <1>7, Zenon DEF IsFront
  <1>9. F \ G \subseteq E /\ Cardinality(E \ F) <= Cardinality(G)
    <2>1. IsFront(E, Live \ G, Order, Len(seen))
      BY <1>3, <1>7, Zenon
    <2> HIDE DEF G
    <2>2. FrontMoves(Live, Order, Len(seen), G)
      BY <1>3, <1>4, FrontRemove, Zenon
    <2> QED BY <1>6, <2>1, <2>2, Zenon DEF FrontMoves
  <1>10. /\ Cardinality(((Live \ G) \ E) \cap S) <= Cardinality((Live \ F) \cap S)
         /\ Cardinality((E \cap atStart) \ S)
              <= Cardinality((F \cap atStart) \ S) + Cardinality(G)
         /\ Cardinality((F \cap atStart) \ S) \in Nat
         /\ Cardinality((E \cap atStart) \ S) \in Nat
         /\ Cardinality((Live \ F) \cap S) \in Nat
         /\ Cardinality(((Live \ G) \ E) \cap S) \in Nat
    <2>1. E \subseteq Live
      BY <1>8, Zenon
    <2> HIDE DEF G, S
    <2>2. \A T, A :
            /\ Cardinality(((Live \ G) \ E) \cap T) <= Cardinality((Live \ F) \cap T)
            /\ Cardinality((E \cap A) \ T) <= Cardinality((F \cap A) \ T) + Cardinality(G)
            /\ Cardinality((F \cap A) \ T) \in Nat
            /\ Cardinality((E \cap A) \ T) \in Nat
            /\ Cardinality((Live \ F) \cap T) \in Nat
            /\ Cardinality(((Live \ G) \ E) \cap T) \in Nat
      BY <1>3, <1>4, <1>6, <1>9, <2>1, RemoveAccounts, Zenon
    <2> QED BY <2>2, Zenon
  <1>11. /\ Cardinality(gone') = Cardinality(gone) + Cardinality(G)
         /\ Cardinality(gone) \in Nat /\ Cardinality(G) \in Nat
    <2>1. IsFiniteSet(gone)
      BY Zenon DEF Types
    <2> HIDE DEF G
    <2> QED BY <1>2, <1>5, <2>1, DisjointSize, Zenon
  <1>12. Len(seen) - Cardinality(S) + Cardinality((Live' \ E) \cap S) <= Cardinality(came)
    <2> DEFINE r == Cardinality((Live \ F) \cap S)
               q == Cardinality((Live' \ E) \cap S)
               c == Cardinality(came)
               t == Cardinality(S)
    <2>1. r \in Nat /\ q \in Nat /\ q <= r
      BY <1>3, <1>10, Zenon
    <2>2. c \in Nat /\ t \in Nat /\ Len(seen) \in Nat
      BY SeenIs, FS_CardinalityType, Zenon DEF Types
    <2>3. Len(seen) - t + r <= c
      BY <1>6, Zenon DEF Accounts
    <2> HIDE DEF r, q, c, t
    <2>4. Len(seen) - t + q <= c
      BY <2>1, <2>2, <2>3
    <2> QED BY <2>4, Zenon DEF t, q, c
  <1>13. Cardinality((E \cap atStart) \ S) <= Cardinality(gone')
    <2> DEFINE r == Cardinality((F \cap atStart) \ S)
               q == Cardinality((E \cap atStart) \ S)
    <2>1. r \in Nat /\ q \in Nat /\ q <= r + Cardinality(G)
      BY <1>10, Zenon
    <2>2. r <= Cardinality(gone)
      BY <1>6, Zenon DEF Accounts
    <2> HIDE DEF r, q, G
    <2>3. q <= Cardinality(gone')
      BY <1>11, <2>1, <2>2
    <2> QED BY <2>3, Zenon DEF q
  <1>14. Accounts(E)'
    BY <1>1, <1>2, <1>12, <1>13, Zenon DEF Accounts
  <1> QED BY <1>1, <1>7, <1>8, <1>14, Zenon

(* A key that comes: it makes the offset skip at most one key less.        *)
LEMMA GrowCounted ==
  ASSUME Types, Met, Counted, RegistryStep, Types',
         NEW x \in KeyHandle \ Added, Live' = Live \cup {x}, Order' = Order
  PROVE  Counted'
  <1> SUFFICES ASSUME scan = "paging"
               PROVE  \E E \in SUBSET Live' :
                         IsFront(E, Live', Order, Len(seen)') /\ Accounts(E)'
    BY Zenon DEF Counted, RegistryStep, scanVars
  <1> DEFINE S == Range(seen)
  <1>1. seen' = seen /\ atStart' = atStart
    BY Zenon DEF RegistryStep, scanVars
  <1>2. x \notin Live /\ x \notin S /\ x \notin atStart /\ x \notin came
    BY Zenon DEF Met, RegistryStep
  <1>3. came' = came \cup {x} /\ gone' = gone
    <2>1. came' = came \cup (Live' \ Live) /\ gone' = gone \cup (Live \ Live')
      BY Zenon DEF RegistryStep, Track
    <2> QED BY <1>2, <2>1, Zenon
  <1>4. /\ IsFiniteSet(Live) /\ Live \subseteq KeyHandle /\ Len(seen) \in Nat
    BY LiveIs, SeenIs, Zenon
  <1>5. IsFiniteSet(Live') /\ IsOrder(Order, Live')
    <2>1. IsFiniteSet(Live')
      BY <1>4, FS_AddElement, Zenon
    <2>2. Live' \subseteq KeyHandle
      BY <1>4, Zenon
    <2> QED BY <2>1, <2>2, OrderIs, Zenon
  <1>6. PICK F \in SUBSET Live : IsFront(F, Live, Order, Len(seen)) /\ Accounts(F)
    BY Zenon DEF Counted
  <1>7. PICK E : IsFront(E, Live', Order, Len(seen))
    BY <1>4, <1>5, FrontExists, Zenon
  <1>8. E \in SUBSET Live'
    BY <1>7, Zenon DEF IsFront
  <1>9. E \ {x} \subseteq F /\ Cardinality(F \ E) <= Cardinality({x})
    <2>1. Live' \ {x} = Live /\ {x} \in SUBSET Live'
      BY <1>2, Zenon
    <2>2. IsFront(F, Live' \ {x}, Order, Len(seen))
      BY <1>6, <2>1, Zenon
    <2> DEFINE M == Live'
               G == {x}
    <2>3. /\ IsFiniteSet(M) /\ IsOrder(Order, M) /\ G \in SUBSET M
          /\ IsFront(E, M, Order, Len(seen)) /\ IsFront(F, M \ G, Order, Len(seen))
      BY <1>5, <1>7, <2>1, <2>2, Zenon
    <2> HIDE DEF M, G
    <2>4. FrontMoves(M, Order, Len(seen), G)
      BY <1>4, <2>3, FrontRemove, Zenon
    <2>5. E \ G \subseteq F /\ Cardinality(F \ E) <= Cardinality(G)
      BY <2>3, <2>4, Zenon DEF FrontMoves
    <2> QED BY <2>5, Zenon DEF G
  <1>10. /\ Cardinality(((Live \cup {x}) \ E) \cap S) <= Cardinality((Live \ F) \cap S) + 1
         /\ Cardinality((E \cap atStart) \ S) <= Cardinality((F \cap atStart) \ S)
         /\ Cardinality((F \cap atStart) \ S) \in Nat
         /\ Cardinality((E \cap atStart) \ S) \in Nat
         /\ Cardinality((Live \ F) \cap S) \in Nat
         /\ Cardinality(((Live \cup {x}) \ E) \cap S) \in Nat
    <2>1. Cardinality(F \ E) <= 1
      BY <1>9, FS_Singleton, Zenon
    <2> HIDE DEF S
    <2> QED BY <1>2, <1>4, <1>6, <1>9, <2>1, AddAccounts, Zenon
  <1>11. /\ Cardinality(came') = Cardinality(came) + 1
         /\ Cardinality(came) \in Nat
    BY <1>2, <1>3, FS_AddElement, FS_CardinalityType, Zenon DEF Types
  <1>12. Len(seen) - Cardinality(S) + Cardinality((Live' \ E) \cap S) <= Cardinality(came')
    <2> DEFINE r == Cardinality((Live \ F) \cap S)
               q == Cardinality((Live' \ E) \cap S)
               t == Cardinality(S)
    <2>1. r \in Nat /\ q \in Nat /\ q <= r + 1
      BY <1>10, Zenon
    <2>2. t \in Nat /\ Len(seen) \in Nat
      BY SeenIs, Zenon
    <2>3. Len(seen) - t + r <= Cardinality(came)
      BY <1>6, Zenon DEF Accounts
    <2> HIDE DEF r, q, t
    <2>4. Len(seen) - t + q <= Cardinality(came')
      BY <1>11, <2>1, <2>2, <2>3
    <2> QED BY <2>4, Zenon DEF t, q
  <1>13. Cardinality((E \cap atStart) \ S) <= Cardinality(gone)
    <2> DEFINE r == Cardinality((F \cap atStart) \ S)
               q == Cardinality((E \cap atStart) \ S)
    <2>1. r \in Nat /\ q \in Nat /\ q <= r
      BY <1>10, Zenon
    <2>2. r <= Cardinality(gone) /\ Cardinality(gone) \in Nat
      BY <1>6, FS_CardinalityType, Zenon DEF Accounts, Types
    <2> HIDE DEF r, q
    <2>3. q <= Cardinality(gone)
      BY <2>1, <2>2
    <2> QED BY <2>3, Zenon DEF q
  <1>14. Accounts(E)'
    BY <1>1, <1>3, <1>12, <1>13, Zenon DEF Accounts
  <1> QED BY <1>1, <1>7, <1>8, <1>14, Zenon

(* A step that changes neither the live keys nor their order.              *)
LEMMA SameCounted ==
  ASSUME Counted, RegistryStep, Live' = Live,
         \A g, h \in Live : <<g, h>> \in Order' => <<g, h>> \in Order
  PROVE  Counted'
  <1> SUFFICES ASSUME scan = "paging"
               PROVE  \E E \in SUBSET Live' :
                         IsFront(E, Live', Order', Len(seen)') /\ Accounts(E)'
    BY Zenon DEF Counted, RegistryStep, scanVars
  <1>1. seen' = seen /\ atStart' = atStart
    BY Zenon DEF RegistryStep, scanVars
  <1>2. came' = came /\ gone' = gone
    <2>1. came' = came \cup (Live' \ Live) /\ gone' = gone \cup (Live \ Live')
      BY Zenon DEF RegistryStep, Track
    <2> QED BY <2>1, Zenon
  <1>3. PICK F \in SUBSET Live : IsFront(F, Live, Order, Len(seen)) /\ Accounts(F)
    BY Zenon DEF Counted
  <1>4. IsFront(F, Live, Order', Len(seen))
    BY <1>3, Zenon DEF IsFront
  <1>5. Accounts(F)'
    BY <1>1, <1>2, <1>3, Zenon DEF Accounts
  <1> QED BY <1>1, <1>4, <1>5, Zenon

(* create_key_internal draws a handle that is nowhere yet.                 *)
LEMMA CreateKeyStep ==
  ASSUME Types, Met, Counted, NEW h \in KeyHandle, NEW life \in Lifespan,
         CreateKey(h, life)
  PROVE  Types' /\ RegistryStep /\ Counted'
  <1>1. delete_after[h] = 0 /\ h \notin Added /\ h \notin keys /\ h \notin made
    BY Zenon DEF Types, CreateKey, Added
  <1>2. UNCHANGED <<now, keys, scanVars, came, gone>>
    BY Zenon DEF CreateKey
  <1>3. /\ delete_after' \in [KeyHandle -> Nat]
        /\ delete_after'[h] # 0
        /\ created_at' \in [KeyHandle -> Nat]
    BY EnumerationAssumption DEF Types, CreateKey
  <1>4. \A g \in KeyHandle \ {h} :
          delete_after'[g] = delete_after[g] /\ created_at'[g] = created_at[g]
    BY Zenon DEF Types, CreateKey
  <1>5. made' = made \cup {h}
    BY Zenon DEF CreateKey
  <1>6. Added' = Added
    BY <1>1, <1>3, <1>4, <1>5, Zenon DEF Added
  <1>7. Live' = Live
    BY <1>1, <1>2, <1>4, Zenon DEF Live, Types, Added
  <1>8. Types'
    <2>1. \A g \in made' : delete_after'[g] # 0
      BY <1>3, <1>4, <1>5, Zenon DEF Types
    <2> QED BY <1>2, <1>3, <1>5, <1>6, <2>1, Zenon DEF Types, scanVars
  <1>9. RegistryStep
    <2>1. Track
      BY <1>2, <1>7, Zenon DEF Track
    <2> QED BY <1>2, <1>6, <1>7, <2>1, LiveIs, Zenon DEF RegistryStep
  <1>10. \A g, k \in Live : <<g, k>> \in Order' => <<g, k>> \in Order
    <2>1. \A g \in Live : g \in KeyHandle \ {h}
      BY <1>1, Zenon DEF Live, Types, Added
    <2> SUFFICES ASSUME NEW g \in Live, NEW k \in Live, <<g, k>> \in Order'
                 PROVE  <<g, k>> \in Order
      BY Zenon
    <2>2. Before(g, k)'
      BY Zenon DEF Order
    <2>3. created_at'[g] = created_at[g] /\ created_at'[k] = created_at[k]
      BY <1>4, <2>1, Zenon
    <2>4. Before(g, k)
      BY <2>2, <2>3, Zenon DEF Before
    <2> QED BY <2>1, <2>4, Zenon DEF Order
  <1> QED BY <1>7, <1>8, <1>9, <1>10, SameCounted, Zenon

(* add_key adds a key that has not been in the registry before.            *)
LEMMA AddKeyStep ==
  ASSUME Types, Met, Counted, NEW h \in KeyHandle, AddKey(h)
  PROVE  Types' /\ RegistryStep /\ Counted'
  <1>1. h \notin Added /\ h \notin keys /\ delete_after[h] # 0
    BY Zenon DEF Types, AddKey, Added
  <1>2. UNCHANGED <<now, created_at, delete_after, scanVars>> /\ Track
        /\ made' = made \ {h} /\ keys' = keys \cup {h}
    BY Zenon DEF AddKey
  <1>3. Added' = Added \cup {h} /\ Order' = Order
    BY <1>1, <1>2, Zenon DEF Added, Order, Before
  <1>4. IsFiniteSet(keys') /\ keys' \subseteq Added'
    BY <1>2, <1>3, FS_AddElement, Zenon DEF Types
  <1>5. Live' = Live \/ Live' = Live \cup {h}
    BY <1>2, Zenon DEF Live
  <1>6. IsFiniteSet(came') /\ IsFiniteSet(gone')
    <2>1. came' \subseteq came \cup {h} /\ gone' \subseteq gone
      BY <1>2, <1>5, Zenon DEF Track
    <2>2. IsFiniteSet(came \cup {h}) /\ IsFiniteSet(gone)
      BY FS_AddElement, Zenon DEF Types
    <2> QED BY <2>1, <2>2, SubsetSize, Zenon
  <1>7. Types'
    BY <1>2, <1>4, <1>6, Zenon DEF Types, scanVars
  <1>8. RegistryStep
    <2>1. Live \subseteq Added
      BY LiveIs, Zenon
    <2> QED BY <1>1, <1>2, <1>3, <1>5, <2>1, Zenon DEF RegistryStep
  <1>9. Counted'
    <2>1. CASE Live' = Live
      BY <1>3, <1>8, <2>1, SameCounted, Zenon
    <2>2. CASE Live' = Live \cup {h}
      BY <1>1, <1>3, <1>7, <1>8, <2>2, GrowCounted, Zenon
    <2> QED BY <1>5, <2>1, <2>2, Zenon
  <1> QED BY <1>7, <1>8, <1>9, Zenon

(* A removal, by a client or by the reaper, and a tick, after which keys   *)
(* have expired: live keys can only go.                                    *)
LEMMA FewerKeys ==
  ASSUME Types, Met, Counted, UNCHANGED <<registry, scanVars>>, Track,
         keys' \subseteq keys, Live' \subseteq Live, now' \in Nat
  PROVE  Types' /\ RegistryStep /\ Counted'
  <1>1. /\ made' = made /\ created_at' = created_at /\ delete_after' = delete_after
        /\ scan' = scan /\ limit' = limit /\ seen' = seen /\ atStart' = atStart
    BY Zenon DEF registry, scanVars
  <1>2. Added' = Added /\ Order' = Order
    BY <1>1, Zenon DEF Added, Order, Before
  <1>3. IsFiniteSet(came') /\ IsFiniteSet(gone')
    <2>1. came' \subseteq came /\ gone' \subseteq gone \cup Live
      BY Zenon DEF Track
    <2>2. IsFiniteSet(Live) /\ IsFiniteSet(came) /\ IsFiniteSet(gone)
      BY LiveIs, Zenon DEF Types
    <2>3. IsFiniteSet(gone \cup Live)
      BY <2>2, FS_Union, Zenon
    <2> QED BY <2>1, <2>2, <2>3, SubsetSize, Zenon
  <1>4. IsFiniteSet(keys')
    BY SubsetSize, Zenon DEF Types
  <1>5. Types'
    BY <1>1, <1>2, <1>3, <1>4, Zenon DEF Types
  <1>6. RegistryStep
    <2>1. Live \subseteq Added
      BY LiveIs, Zenon
    <2> QED BY <1>2, <2>1, Zenon DEF RegistryStep
  <1> QED BY <1>2, <1>5, <1>6, ShrinkCounted, Zenon

-----------------------------------------------------------------------------
(* Pages.                                                                  *)

(* A page of a scan that began with the keys A, and whose offset skips F.  *)
LEMMA PageStep ==
  ASSUME Types, Met, NEW n \in Nat, EnumerateKEMKeys(n), limit' \in Nat,
         UNCHANGED <<now, registry, keys, came, gone>>,
         NEW A, atStart' = A, IsFiniteSet(A), A \subseteq Added,
         A \ gone \subseteq Live, gone \cap Live = {},
         NEW F, IsFront(F, Live, Order, Len(seen)),
         Len(seen) - Cardinality(Range(seen)) + Cardinality((Live \ F) \cap Range(seen))
           <= Cardinality(came),
         Cardinality((F \cap A) \ Range(seen)) <= Cardinality(gone)
  PROVE  Inv'
  <1> DEFINE page == ListAllKeys(Len(seen), n)
             more == HasMore(Len(seen), Len(page))
  <1>1. seen' = seen \o page /\ scan' = IF more THEN "paging" ELSE "done"
    BY Zenon DEF EnumerateKEMKeys, EnumerateInternal
  <1>2. /\ now' = now /\ made' = made /\ created_at' = created_at
        /\ delete_after' = delete_after /\ keys' = keys /\ came' = came /\ gone' = gone
    BY Zenon DEF registry
  <1>3. Live' = Live /\ Added' = Added /\ Order' = Order
    BY <1>2, Zenon DEF Live, Added, Order, Before
  <1>4. PICK E \in SUBSET Live :
        /\ seen' \in Seq(KeyHandle)
        /\ Range(seen') = Range(seen) \cup Range(page)
        /\ Range(page) \subseteq Live
        /\ IsFront(E, Live, Order, Len(seen'))
        /\ Len(seen') - Cardinality(Range(seen')) + Cardinality((Live \ E) \cap Range(seen'))
             <= Cardinality(came)
        /\ Cardinality((E \cap A) \ Range(seen')) <= Cardinality(gone)
        /\ ~more => E = Live
    <2> DEFINE G == F \cup Range(page)
    <2>1. /\ seen' \in Seq(KeyHandle)
          /\ Range(seen') = Range(seen) \cup Range(page)
          /\ Range(page) \subseteq Live
          /\ G \in SUBSET Live
          /\ IsFront(G, Live, Order, Len(seen'))
          /\ Len(seen') - Cardinality(Range(seen')) + Cardinality((Live \ G) \cap Range(seen'))
               <= Cardinality(came)
          /\ Cardinality((G \cap A) \ Range(seen')) <= Cardinality(gone)
          /\ ~more => G = Live
      BY <1>1, TurnPage, Zenon
    <2> HIDE DEF page, more, G
    <2> QED BY <2>1, Zenon
  <1> HIDE DEF page, more
  <1>5. Types'
    BY <1>1, <1>2, <1>3, <1>4, Zenon DEF Types
  <1>6. Met'
    <2>1. Live \subseteq Added
      BY LiveIs, Zenon
    <2>2. scan' # "none"
      BY <1>1, Zenon
    <2>3. Range(seen') \subseteq Added
      BY <1>4, <2>1, Zenon DEF Met
    <2> QED BY <1>2, <1>3, <2>2, <2>3, Zenon DEF Met
  <1>7. Accounts(E)'
    BY <1>2, <1>3, <1>4, Zenon DEF Accounts
  <1>8. Counted'
    BY <1>3, <1>4, <1>7, Zenon DEF Counted
  <1>9. MissesAtMostGone'
    <2> SUFFICES ASSUME scan' = "done"
                 PROVE  Cardinality((A \ gone) \ Range(seen')) <= Cardinality(gone)
      BY <1>2, Zenon DEF MissesAtMostGone
    <2>1. E = Live
      BY <1>1, <1>4, Zenon
    <2> DEFINE U == (A \ gone) \ Range(seen')
               V == (E \cap A) \ Range(seen')
    <2>2. U \subseteq V /\ V \subseteq A
      BY <2>1, Zenon
    <2>3. Cardinality(V) <= Cardinality(gone)
      BY <1>4, Zenon
    <2> HIDE DEF U, V
    <2>4. IsFiniteSet(V)
      BY <2>2, SubsetSize, Zenon
    <2>5. Cardinality(U) \in Nat /\ Cardinality(V) \in Nat /\ Cardinality(U) <= Cardinality(V)
      BY <2>2, <2>4, SubsetSize, Zenon
    <2>6. Cardinality(gone) \in Nat
      BY FS_CardinalityType, Zenon DEF Types
    <2>7. Cardinality(U) <= Cardinality(gone)
      BY <2>3, <2>5, <2>6
    <2> QED BY <2>7, Zenon DEF U
  <1>10. RepeatsAtMostCame'
    <2> DEFINE l == Len(seen')
               t == Cardinality(Range(seen'))
               r == Cardinality((Live \ E) \cap Range(seen'))
               c == Cardinality(came)
    <2>1. l \in Nat /\ t \in Nat /\ IsFiniteSet(Range(seen'))
      <3>1. l \in Nat
        BY <1>4
      <3>2. IsFiniteSet(Range(seen')) /\ Cardinality(Range(seen')) \in Nat
        <4>1. IsFiniteSet(Range(seen)) /\ IsFiniteSet(Live)
          BY SeenIs, LiveIs, Zenon
        <4>2. IsFiniteSet(Range(seen) \cup Live)
          BY <4>1, FS_Union, Zenon
        <4>3. Range(seen') \subseteq Range(seen) \cup Live
          BY <1>4, Zenon
        <4> QED BY <4>2, <4>3, SubsetSize, Zenon
      <3> QED BY <3>1, <3>2, Zenon
    <2>2. r \in Nat /\ c \in Nat
      <3>1. IsFiniteSet((Live \ E) \cap Range(seen'))
        BY <2>1, SubsetSize, (Live \ E) \cap Range(seen') \subseteq Range(seen'), Zenon
      <3> QED BY <3>1, FS_CardinalityType, Zenon DEF Types
    <2>3. l - t + r <= c
      BY <1>4, Zenon
    <2> HIDE DEF l, t, r, c
    <2>4. l - t <= c
      BY <2>1, <2>2, <2>3
    <2> QED BY <1>2, <2>4, Zenon DEF RepeatsAtMostCame, l, t, c
  <1>11. ListsUpToLimit'
    <2>1. scan' # "listed"
      BY <1>1, Zenon
    <2> QED BY <2>1, Zenon DEF ListsUpToLimit
  <1> QED BY <1>5, <1>6, <1>8, <1>9, <1>10, <1>11, Zenon DEF Inv

(* Nothing is skipped or counted before the first page.                    *)
LEMMA NothingSeen ==
  ASSUME Types, Met, scan = "none"
  PROVE  /\ seen = <<>> /\ Len(seen) = 0
         /\ IsFront({}, Live, Order, Len(seen))
         /\ Len(seen) - Cardinality(Range(seen)) + Cardinality((Live \ {}) \cap Range(seen))
              <= Cardinality(came)
         /\ \A A : Cardinality(({} \cap A) \ Range(seen)) <= Cardinality(gone)
  <1>1. seen = <<>> /\ came = {} /\ gone = {}
    BY Zenon DEF Met
  <1>2. Len(seen) = 0 /\ DOMAIN seen = {}
    BY <1>1
  <1>3. Range(seen) = {}
    BY <1>2, Zenon DEF Range
  <1>4. Cardinality({}) = 0
    BY FS_EmptySet, Zenon
  <1>5. 0 <= 0 /\ 0 - 0 + 0 <= 0
    OBVIOUS
  <1>6. IsFront({}, Live, Order, 0)
    BY <1>4, <1>5, Zenon DEF IsFront
  <1>7. (Live \ {}) \cap Range(seen) = {} /\ \A A : ({} \cap A) \ Range(seen) = {}
    BY <1>3, Zenon
  <1>8. \A A : Cardinality(({} \cap A) \ Range(seen)) <= Cardinality(gone)
    BY <1>1, <1>4, <1>5, <1>7, Zenon
  <1>9. Len(seen) - Cardinality(Range(seen)) + Cardinality((Live \ {}) \cap Range(seen))
          <= Cardinality(came)
    BY <1>1, <1>2, <1>3, <1>4, <1>5, <1>7, Zenon
  <1> QED BY <1>1, <1>2, <1>6, <1>8, <1>9, Zenon

(* The first page.                                                         *)
LEMMA FirstPageStep ==
  ASSUME Types, Met, NEW n \in Limit, FirstPage(n)
  PROVE  Inv'
  <1>1. /\ scan = "none" /\ EnumerateKEMKeys(n) /\ limit' = n /\ atStart' = Live
        /\ UNCHANGED <<now, registry, keys, came, gone>>
    BY Zenon DEF FirstPage
  <1>2. n \in Nat
    BY EnumerationAssumption, Zenon
  <1>3. IsFiniteSet(Live) /\ Live \subseteq Added
    BY LiveIs, Zenon
  <1>4. Live \ gone \subseteq Live /\ gone \cap Live = {}
    BY <1>1, Zenon DEF Met
  <1>5. /\ IsFront({}, Live, Order, Len(seen))
        /\ Len(seen) - Cardinality(Range(seen)) + Cardinality((Live \ {}) \cap Range(seen))
             <= Cardinality(came)
        /\ Cardinality(({} \cap Live) \ Range(seen)) <= Cardinality(gone)
    BY <1>1, NothingSeen, Zenon
  <1> QED BY <1>1, <1>2, <1>3, <1>4, <1>5, PageStep, Zenon

(* Another page.                                                           *)
LEMMA NextPageStep ==
  ASSUME Types, Met, Counted, NextPage
  PROVE  Inv'
  <1>1. /\ scan = "paging" /\ EnumerateKEMKeys(limit) /\ limit' = limit
        /\ atStart' = atStart
        /\ UNCHANGED <<now, registry, keys, came, gone>>
    BY Zenon DEF NextPage
  <1>2. limit \in Nat /\ IsFiniteSet(atStart)
    BY Zenon DEF Types
  <1>3. /\ atStart \subseteq Added
        /\ atStart \ gone \subseteq Live /\ gone \cap Live = {}
    BY <1>1, Zenon DEF Met
  <1>4. PICK F : /\ IsFront(F, Live, Order, Len(seen))
                 /\ Len(seen) - Cardinality(Range(seen))
                      + Cardinality((Live \ F) \cap Range(seen)) <= Cardinality(came)
                 /\ Cardinality((F \cap atStart) \ Range(seen)) <= Cardinality(gone)
    BY <1>1, Zenon DEF Counted, Accounts
  <1> QED BY <1>1, <1>2, <1>3, <1>4, PageStep, Zenon

(* The single page of GET /v1/keys.                                        *)
LEMMA ListingStep ==
  ASSUME Types, Met, HandleEnumerateKeys
  PROVE  Inv'
  <1> DEFINE n == DefaultEnumerateLimit
             page == ListAllKeys(0, n)
  <1>1. /\ scan = "none" /\ scan' = "listed" /\ limit' = n /\ atStart' = Live
        /\ seen' = page
    BY Zenon DEF HandleEnumerateKeys, EnumerateInternal
  <1>2. /\ now' = now /\ made' = made /\ created_at' = created_at
        /\ delete_after' = delete_after /\ keys' = keys /\ came' = came /\ gone' = gone
    BY Zenon DEF HandleEnumerateKeys, registry
  <1>3. Live' = Live /\ Added' = Added
    BY <1>2, Zenon DEF Live, Added
  <1>4. IsFiniteSet(Live) /\ Live \subseteq Added
    BY LiveIs, Zenon
  <1>5. n \in Nat /\ 0 \in Nat
    BY EnumerationAssumption
  <1>6. /\ page \in Seq(KeyHandle)
        /\ Range(page) \subseteq Live
        /\ Cardinality(Range(page)) = Len(page)
    BY <1>5, PageIs, Zenon
  <1>7. Cardinality(Live) <= n => Range(page) = Live
    <2>1. /\ IsFront({}, Live, Order, Len(seen)) /\ Len(seen) = 0
          /\ Len(seen) - Cardinality(Range(seen)) + Cardinality((Live \ {}) \cap Range(seen))
               <= Cardinality(came)
          /\ Cardinality(({} \cap Live) \ Range(seen)) <= Cardinality(gone)
      BY <1>1, NothingSeen, Zenon
    <2>2. /\ HasMore(Len(seen), Len(page)) => Len(page) = n
          /\ ~HasMore(Len(seen), Len(page)) => {} \cup Range(page) = Live
      BY <1>5, <2>1, TurnPage, Zenon
    <2>3. HasMore(Len(seen), Len(page)) => 0 + Len(page) < Cardinality(Live)
      BY <2>1, Zenon DEF HasMore
    <2>4. Cardinality(Live) \in Nat
      BY <1>4, FS_CardinalityType, Zenon
    <2> HIDE DEF page, n
    <2>5. Cardinality(Live) <= n => ~HasMore(Len(seen), Len(page))
      BY <1>5, <2>2, <2>3, <2>4
    <2> QED BY <2>2, <2>5, Zenon
  <1>8. Types'
    BY <1>1, <1>2, <1>3, <1>4, <1>5, <1>6, Zenon DEF Types
  <1>9. Met'
    <2>1. Range(seen') \subseteq Added
      BY <1>1, <1>4, <1>6, Zenon
    <2>2. scan' # "none" /\ scan' # "paging"
      BY <1>1, Zenon
    <2> QED BY <1>1, <1>2, <1>3, <1>4, <2>1, <2>2, Zenon DEF Met
  <1>10. Counted' /\ MissesAtMostGone'
    <2>1. scan' # "paging" /\ scan' # "done"
      BY <1>1, Zenon
    <2> QED BY <2>1, Zenon DEF Counted, MissesAtMostGone
  <1>11. RepeatsAtMostCame'
    <2>1. Cardinality(came) \in Nat
      BY FS_CardinalityType, Zenon DEF Types
    <2>2. Len(page) \in Nat
      BY <1>6
    <2> HIDE DEF page, n
    <2>3. Len(page) - Len(page) <= Cardinality(came)
      BY <2>1, <2>2
    <2> QED BY <1>1, <1>2, <1>6, <2>3, Zenon DEF RepeatsAtMostCame
  <1>12. ListsUpToLimit'
    BY <1>1, <1>6, <1>7, Zenon DEF ListsUpToLimit
  <1> QED BY <1>8, <1>9, <1>10, <1>11, <1>12, Zenon DEF Inv

-----------------------------------------------------------------------------
(* The theorems.                                                           *)

(* Before anything happened.                                               *)
LEMMA InvInit == Init => Inv
  <1> SUFFICES ASSUME Init PROVE Inv
    OBVIOUS
  <1>1. /\ now = 0 /\ made = {} /\ keys = {} /\ scan = "none" /\ limit = 0
        /\ seen = <<>> /\ atStart = {} /\ came = {} /\ gone = {}
        /\ created_at = [h \in KeyHandle |-> 0]
        /\ delete_after = [h \in KeyHandle |-> 0]
    BY Zenon DEF Init
  <1>2. IsFiniteSet({}) /\ Cardinality({}) = 0
    BY FS_EmptySet, Zenon
  <1>3. 0 \in Nat /\ seen \in Seq(KeyHandle) /\ Len(seen) = 0 /\ DOMAIN seen = {}
    BY <1>1
  <1>4. Range(seen) = {}
    BY <1>3, Zenon DEF Range
  <1>5. Types
    BY <1>1, <1>2, <1>3, Zenon DEF Types
  <1>6. Met
    BY <1>1, <1>4, Zenon DEF Met
  <1>7. Counted /\ MissesAtMostGone /\ ListsUpToLimit
    BY <1>1, Zenon DEF Counted, MissesAtMostGone, ListsUpToLimit
  <1>8. RepeatsAtMostCame
    <2>1. 0 - 0 <= 0
      OBVIOUS
    <2> QED BY <1>1, <1>2, <1>3, <1>4, <2>1, Zenon DEF RepeatsAtMostCame
  <1> QED BY <1>5, <1>6, <1>7, <1>8, Zenon DEF Inv

(* Every step keeps the invariant.                                         *)
LEMMA InvStep == Inv /\ [Next]_vars => Inv'
  <1> SUFFICES ASSUME Inv, [Next]_vars PROVE Inv'
    OBVIOUS
  <1>1. /\ Types /\ Met /\ Counted /\ MissesAtMostGone
        /\ (scan # "paging" => RepeatsAtMostCame) /\ ListsUpToLimit
    BY Zenon DEF Inv
  <1>2. ASSUME Types' /\ RegistryStep /\ Counted'
        PROVE  Inv'
    BY <1>1, <1>2, RegistryMet, RegistryDone, Zenon DEF Inv
  <1>3. ASSUME NEW h \in KeyHandle, NEW life \in Lifespan, CreateKey(h, life)
        PROVE  Inv'
    BY <1>1, <1>2, <1>3, CreateKeyStep, Zenon
  <1>4. ASSUME NEW h \in KeyHandle, AddKey(h)
        PROVE  Inv'
    BY <1>1, <1>2, <1>4, AddKeyStep, Zenon
  <1>5. ASSUME NEW h \in KeyHandle, RemoveKey(h)
        PROVE  Inv'
    <2>1. /\ UNCHANGED <<registry, scanVars>> /\ Track /\ now' = now
          /\ keys' \subseteq keys /\ delete_after' = delete_after
      BY <1>5, Zenon DEF RemoveKey, registry
    <2>2. Live' \subseteq Live /\ now' \in Nat
      BY <1>1, <2>1, Zenon DEF Live, Types
    <2> QED BY <1>1, <1>2, <2>1, <2>2, FewerKeys, Zenon
  <1>6. ASSUME Tick
        PROVE  Inv'
    <2>1. /\ UNCHANGED <<registry, scanVars>> /\ Track /\ now' = now + 1
          /\ keys' = keys /\ delete_after' = delete_after
      BY <1>6, Zenon DEF Tick, registry
    <2>2. now \in Nat /\ delete_after \in [KeyHandle -> Nat] /\ keys \subseteq KeyHandle
      BY <1>1, Zenon DEF Types, Added
    <2>3. now' \in Nat /\ \A d \in Nat : d > now' => d > now
      BY <2>1, <2>2
    <2>4. Live' \subseteq Live
      BY <2>1, <2>2, <2>3, Zenon DEF Live
    <2> QED BY <1>1, <1>2, <2>1, <2>3, <2>4, FewerKeys, Zenon
  <1>7. ASSUME HandleEnumerateKeys
        PROVE  Inv'
    BY <1>1, <1>7, ListingStep, Zenon
  <1>8. ASSUME NEW n \in Limit, FirstPage(n)
        PROVE  Inv'
    BY <1>1, <1>8, FirstPageStep, Zenon
  <1>9. ASSUME NextPage
        PROVE  Inv'
    BY <1>1, <1>9, NextPageStep, Zenon
  <1>10. ASSUME UNCHANGED vars
         PROVE  Inv'
    <2>1. /\ UNCHANGED <<registry, scanVars>> /\ now' = now /\ keys' = keys
          /\ delete_after' = delete_after /\ came' = came /\ gone' = gone
      BY <1>10, Zenon DEF vars, registry
    <2>2. Live' = Live /\ now' \in Nat
      BY <1>1, <2>1, Zenon DEF Live, Types
    <2>3. Track
      BY <2>1, <2>2, Zenon DEF Track
    <2> QED BY <1>1, <1>2, <2>1, <2>2, <2>3, FewerKeys, Zenon
  <1> QED BY <1>3, <1>4, <1>5, <1>6, <1>7, <1>8, <1>9, <1>10, Zenon DEF Next

(* The invariant holds of every reachable state.                           *)
THEOREM InvAlways == Spec => []Inv
  <1> QED BY InvInit, InvStep, PTL DEF Spec

(* Each key that went made the scan skip at most one key that stayed, so   *)
(* a scan that follows has_more to the end misses no more keys than went.  *)
THEOREM ScanMisses == Spec => []MissesAtMostGone
  <1>1. Inv => MissesAtMostGone
    BY Zenon DEF Inv
  <1> QED BY <1>1, InvAlways, PTL

(* Each key that came made the scan return at most one key again.          *)
THEOREM ScanRepeats == Spec => []RepeatsAtMostCame
  <1>1. Inv => RepeatsAtMostCame
    <2> SUFFICES ASSUME Inv PROVE RepeatsAtMostCame
      OBVIOUS
    <2>1. CASE scan # "paging"
      BY <2>1, Zenon DEF Inv
    <2>2. CASE scan = "paging"
      <3>1. Types /\ Counted
        BY Zenon DEF Inv
      <3>2. PICK F : Accounts(F)
        BY <2>2, <3>1, Zenon DEF Counted
      <3> DEFINE r == Cardinality((Live \ F) \cap Range(seen))
                 t == Cardinality(Range(seen))
                 c == Cardinality(came)
      <3>3. Len(seen) - t + r <= c
        BY <3>2, Zenon DEF Accounts
      <3>4. /\ IsFiniteSet(Range(seen)) /\ t \in Nat /\ Len(seen) \in Nat
        BY <3>1, SeenIs, Zenon
      <3>5. r \in Nat /\ c \in Nat
        <4>1. IsFiniteSet((Live \ F) \cap Range(seen))
          BY <3>4, SubsetSize, (Live \ F) \cap Range(seen) \subseteq Range(seen), Zenon
        <4> QED BY <3>1, <4>1, FS_CardinalityType, Zenon DEF Types
      <3> HIDE DEF r, t, c
      <3>6. Len(seen) - t <= c
        BY <3>3, <3>4, <3>5
      <3> QED BY <3>6, Zenon DEF RepeatsAtMostCame, t, c
    <2> QED BY <2>1, <2>2, Zenon
  <1> QED BY <1>1, InvAlways, PTL

(* GET /v1/keys lists every live key when they fit on its one page.        *)
THEOREM ListingComplete == Spec => []ListsUpToLimit
  <1>1. Inv => ListsUpToLimit
    BY Zenon DEF Inv
  <1> QED BY <1>1, InvAlways, PTL

(* A page that announces another one is full, also when keys went since    *)
(* the page before: following has_more, the offset grows by the limit with *)
(* every page, whatever the registry does meanwhile.                       *)
THEOREM PagesAdvance ==
  Spec => [][NextPage /\ scan' = "paging" =>
               limit > 0 /\ Len(seen') = Len(seen) + limit]_vars
  <1> DEFINE Full == NextPage /\ scan' = "paging" =>
                       limit > 0 /\ Len(seen') = Len(seen) + limit
  <1>1. Inv /\ [Next]_vars => [Full]_vars
    <2> SUFFICES ASSUME Inv, NextPage, scan' = "paging"
                 PROVE  limit > 0 /\ Len(seen') = Len(seen) + limit
      BY Zenon
    <2> DEFINE page == ListAllKeys(Len(seen), limit)
    <2>1. Types /\ Counted /\ limit \in Nat
      BY Zenon DEF Inv, Types
    <2>2. /\ scan = "paging" /\ limit > 0 /\ seen' = seen \o page
          /\ scan' = IF HasMore(Len(seen), Len(page)) THEN "paging" ELSE "done"
      BY Zenon DEF NextPage, EnumerateKEMKeys, EnumerateInternal
    <2>3. HasMore(Len(seen), Len(page))
      BY <2>2, Zenon
    <2>4. PICK F : IsFront(F, Live, Order, Len(seen)) /\ Accounts(F)
      BY <2>1, <2>2, Zenon DEF Counted
    <2>5. /\ Len(seen \o page) = Len(seen) + Len(page)
          /\ HasMore(Len(seen), Len(page)) => Len(page) = limit
      BY <2>1, <2>4, TurnPage, Zenon DEF Accounts
    <2> QED BY <2>2, <2>3, <2>5, Zenon
  <1> QED BY <1>1, InvAlways, PTL DEF Spec

=============================================================================
