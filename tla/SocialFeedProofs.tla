--------------------------- MODULE SocialFeedProofs ---------------------------
(***************************************************************************)
(* What a client that pages through a changing feed sees twice, and what   *)
(* it misses, for any page size, any feed and any number of requests.      *)
(***************************************************************************)
EXTENDS SocialFeed, SocialProofs

(* The rank of a post in a list, the newest first.                         *)
Above(V, p) == {y \in V : y >= p}
Rank(V, p) == Cardinality(Above(V, p))
-------------------------------------------------------------------------------
(* Ranks                                                                   *)

LEMMA PostsFinite ==
    ASSUME NEW V, V \subseteq PostId
    PROVE  /\ IsFiniteSet(V) /\ Cardinality(V) \in Nat
           /\ \A y \in V : y \in Nat
<1>1. MaxPosts \in Nat
  BY BoundsAssumption
<1>2. IsFiniteSet(PostId)
  BY <1>1, FS_Interval DEF PostId
<1>3. IsFiniteSet(V)
  BY <1>2, FS_Subset
<1>4. \A y \in V : y \in Nat
  BY <1>1 DEF PostId
<1>. QED BY <1>3, <1>4, FS_CardinalityType

LEMMA RankType ==
    ASSUME NEW V, V \subseteq PostId, NEW p
    PROVE  /\ Rank(V, p) \in Nat /\ IsFiniteSet(Above(V, p)) /\ Rank(V, p) <= Cardinality(V)
<1>1. Above(V, p) \subseteq V
  BY DEF Above
<1>2. IsFiniteSet(Above(V, p)) /\ Cardinality(Above(V, p)) <= Cardinality(V)
  BY <1>1, PostsFinite, FS_Subset
<1>. QED BY <1>2, FS_CardinalityType DEF Rank

LEMMA RankPositive ==
    ASSUME NEW V, V \subseteq PostId, NEW p \in V
    PROVE  Rank(V, p) > 0
<1>1. p \in Above(V, p)
  BY PostsFinite DEF Above
<1>2. Rank(V, p) # 0
  BY <1>1, RankType, FS_EmptySet DEF Rank
<1>. QED BY <1>2, RankType

LEMMA RankLess ==
    ASSUME NEW V, V \subseteq PostId, NEW y \in V, NEW z \in V, y < z
    PROVE  Rank(V, z) < Rank(V, y)
<1> DEFINE R == Above(V, y) \ {y}
<1>1. y \in Nat /\ z \in Nat /\ \A x \in V : x \in Nat
  BY PostsFinite
<1>2. y \in Above(V, y) /\ y \notin Above(V, z)
  BY <1>1 DEF Above
<1>3. Above(V, z) \subseteq Above(V, y)
  <2> SUFFICES ASSUME NEW x \in V, x >= z
               PROVE  x >= y
    BY DEF Above
  <2>1. x \in Nat
    BY <1>1
  <2>. QED BY <1>1, <2>1
<1>4. Above(V, z) \subseteq R
  BY <1>2, <1>3
<1>5. IsFiniteSet(Above(V, y))
  BY RankType
<1>6. IsFiniteSet(R) /\ Cardinality(R) = Cardinality(Above(V, y)) - 1
  BY <1>2, <1>5, FS_RemoveElement
<1>7. Cardinality(Above(V, z)) <= Cardinality(R)
  BY <1>4, <1>6, FS_Subset
<1>8. Rank(V, y) \in Nat /\ Rank(V, z) \in Nat
  BY RankType
<1>. QED BY <1>6, <1>7, <1>8 DEF Rank

LEMMA RankOrder ==
    ASSUME NEW V, V \subseteq PostId, NEW y \in V, NEW z \in V
    PROVE  /\ Rank(V, y) = Rank(V, z) => y = z
           /\ Rank(V, y) <= Rank(V, z) <=> z <= y
<1>1. y \in Nat /\ z \in Nat /\ Rank(V, y) \in Nat /\ Rank(V, z) \in Nat
  BY PostsFinite, RankType
<1>2. y < z => Rank(V, z) < Rank(V, y)
  BY RankLess
<1>3. z < y => Rank(V, y) < Rank(V, z)
  BY RankLess
<1>. QED BY <1>1, <1>2, <1>3

LEMMA UpTo ==
    ASSUME NEW n \in Nat
    PROVE  IsFiniteSet(1..n) /\ Cardinality(1..n) = n
BY FS_Interval

(* Some ranks belong to as many posts at most.                             *)
LEMMA FewRanks ==
    ASSUME NEW V, V \subseteq PostId, NEW k \in Nat, NEW d \in Nat, NEW W, W \subseteq V,
           \A y \in W : k < Rank(V, y) /\ Rank(V, y) <= k + d
    PROVE  IsFiniteSet(W) /\ Cardinality(W) \in Nat /\ Cardinality(W) <= d
<1> DEFINE f == [y \in W |-> Rank(V, y) - k]
<1>1. \A y \in W : Rank(V, y) \in Nat
  BY RankType
<1>2. \A y \in W : Rank(V, y) - k \in 1..d
  BY <1>1
<1>3. \A y, z \in W : Rank(V, y) - k = Rank(V, z) - k => y = z
  <2> SUFFICES ASSUME NEW y \in W, NEW z \in W, Rank(V, y) - k = Rank(V, z) - k
               PROVE  y = z
    OBVIOUS
  <2>1. Rank(V, y) = Rank(V, z)
    BY <1>1
  <2>. QED BY <2>1, RankOrder
<1>4. f \in Injection(W, 1..d)
  <2>1. f \in [W -> 1..d]
    BY <1>2
  <2>2. \A y, z \in W : f[y] = f[z] => y = z
    BY <1>3
  <2>. QED BY <2>1, <2>2 DEF Injection, IsInjective
<1>5. IsFiniteSet(1..d) /\ Cardinality(1..d) = d
  BY FS_Interval
<1>. QED BY <1>4, <1>5, FS_Injection, FS_CardinalityType

(* Each rank up to the number of posts belongs to one.                     *)
LEMMA EveryRank ==
    ASSUME NEW V, V \subseteq PostId, NEW i \in 1..Cardinality(V)
    PROVE  \E y \in V : Rank(V, y) = i
<1> DEFINE N == Cardinality(V)
           f == [y \in V |-> Rank(V, y)]
<1>1. N \in Nat /\ IsFiniteSet(V)
  BY PostsFinite
<1>2. \A y \in V : Rank(V, y) \in 1..N
  BY <1>1, RankType, RankPositive
<1>3. f \in Injection(V, 1..N)
  <2>1. f \in [V -> 1..N]
    BY <1>2
  <2>2. \A y, z \in V : f[y] = f[z] => y = z
    BY RankOrder
  <2>. QED BY <2>1, <2>2 DEF Injection, IsInjective
<1>4. IsFiniteSet(1..N) /\ Cardinality(1..N) = N
  BY <1>1, FS_Interval
<1>5. f \in Surjection(V, 1..N)
  BY <1>1, <1>3, <1>4, FS_Injection
<1>. QED BY <1>5 DEF Surjection

(* The list sorted by id, descending: position and rank are the same.      *)
LEMMA Sorted ==
    ASSUME NEW V, V \subseteq PostId, NEW q, q = NewestFirst(V)
    PROVE  /\ q \in [1..Cardinality(V) -> V]
           /\ q \in Seq(V) /\ Len(q) = Cardinality(V)
           /\ \A i \in 1..Cardinality(V) : Rank(V, q[i]) = i
           /\ \A y \in V : Rank(V, y) \in 1..Cardinality(V) /\ q[Rank(V, y)] = y
<1> DEFINE N == Cardinality(V)
           good(p) == p \in [1..N -> V] /\ \A i, j \in 1..N : i < j => p[i] > p[j]
           r == [i \in 1..N |-> CHOOSE y \in V : Rank(V, y) = i]
<1>1. N \in Nat /\ \A y \in V : y \in Nat /\ Rank(V, y) \in Nat
  BY PostsFinite, RankType
<1>2. \A i \in 1..N : r[i] \in V /\ Rank(V, r[i]) = i
  BY EveryRank
<1>3. r \in [1..N -> V]
  BY <1>2
<1> HIDE DEF r
<1>4. ASSUME NEW i \in 1..N, NEW j \in 1..N, i < j
      PROVE  r[i] > r[j]
  <2>1. Rank(V, r[i]) = i /\ Rank(V, r[j]) = j /\ r[i] \in V /\ r[j] \in V
    BY <1>2
  <2>2. ~(Rank(V, r[j]) <= Rank(V, r[i]))
    BY <1>1, <1>4, <2>1
  <2>3. ~(r[i] <= r[j])
    BY <2>1, <2>2, RankOrder
  <2>. QED BY <1>1, <2>1, <2>3
<1>5. good(r)
  BY <1>3, <1>4
<1>6. good(q)
  <2>1. \E p \in [1..N -> V] : \A i, j \in DOMAIN p : i < j => p[i] > p[j]
    BY <1>5
  <2>. QED BY <2>1 DEF NewestFirst
<1>7. q \in Seq(V) /\ Len(q) = N
  BY <1>1, <1>6
<1>8. \A y \in V : Rank(V, y) \in 1..N
  BY <1>1, RankType, RankPositive
<1>9. q \in Injection(1..N, V) /\ q \in Surjection(1..N, V)
  <2>1. \A m, n \in 1..N : q[m] = q[n] => m = n
    <3> SUFFICES ASSUME NEW m \in 1..N, NEW n \in 1..N, q[m] = q[n]
                 PROVE  m = n
      OBVIOUS
    <3>1. ~(m < n) /\ ~(n < m)
      BY <1>1, <1>6
    <3>. QED BY <1>1, <3>1
  <2>2. q \in Injection(1..N, V)
    BY <1>6, <2>1 DEF Injection, IsInjective
  <2>3. Cardinality(1..N) = N /\ IsFiniteSet(V)
    BY <1>1, PostsFinite, FS_Interval
  <2>. QED BY <2>2, <2>3, FS_Injection
<1>10. ASSUME NEW i \in 1..N
       PROVE  Rank(V, q[i]) = i
  <2> DEFINE f == [m \in 1..i |-> q[m]]
  <2>1. i \in Nat /\ \A m \in 1..i : m \in 1..N /\ q[m] \in V
    BY <1>1, <1>6
  <2>2. \A m \in 1..i : q[m] >= q[i]
    BY <1>1, <1>6, <2>1
  <2>3. \A y \in Above(V, q[i]) : \E m \in 1..i : q[m] = y
    <3> SUFFICES ASSUME NEW y \in V, y >= q[i]
                 PROVE  \E m \in 1..i : q[m] = y
      BY DEF Above
    <3>1. PICK m \in 1..N : q[m] = y
      BY <1>9 DEF Surjection
    <3>2. ~(i < m)
      BY <1>1, <1>6, <3>1
    <3>. QED BY <1>1, <3>1, <3>2
  <2>4. f \in [1..i -> Above(V, q[i])]
    BY <2>1, <2>2 DEF Above
  <2>5. f \in Surjection(1..i, Above(V, q[i]))
    BY <2>3, <2>4 DEF Surjection
  <2>6. f \in Injection(1..i, Above(V, q[i]))
    <3>1. \A m, n \in 1..i : f[m] = f[n] => m = n
      BY <1>9, <2>1 DEF Injection, IsInjective
    <3>. QED BY <2>4, <3>1 DEF Injection, IsInjective
  <2>7. ExistsBijection(1..i, Above(V, q[i]))
    BY <2>5, <2>6 DEF ExistsBijection, Bijection
  <2>8. IsFiniteSet(1..i) /\ Cardinality(1..i) = i
    BY <2>1, FS_Interval
  <2>. QED BY <2>7, <2>8, FS_Bijection DEF Rank
<1>11. ASSUME NEW y \in V
       PROVE  Rank(V, y) \in 1..N /\ q[Rank(V, y)] = y
  <2>1. PICK m \in 1..N : q[m] = y
    BY <1>9 DEF Surjection
  <2>. QED BY <2>1, <1>8, <1>10
<1>. QED BY <1>6, <1>7, <1>10, <1>11
-------------------------------------------------------------------------------
(* What the client has, against the list it would be cut from now: few posts
   repeat, none of them is deep in the list without as many above it, and few
   of those that stayed are above the next page and not shown.             *)
Unseen(s, V, S) == {y \in S \ ToSet(s) : Rank(V, y) <= Len(s)}
Fits(s, V, S, outs, ins) ==
    /\ Len(s) - Cardinality(ToSet(s)) <= ins
    /\ \A x \in ToSet(s) : Rank(V, x) <= Cardinality(ToSet(s)) + ins
    /\ Cardinality(Unseen(s, V, S)) <= outs

FeedInv ==
    /\ FeedTypeOK
    /\ stage = "closed" => shown = <<>> /\ stayed = {} /\ left = 0 /\ entered = 0
    /\ stage # "fetch" => listed = <<>>
    /\ stage # "closed" =>
          /\ viewer \in Wallet /\ use \in DOMAIN PageSize
          /\ stayed \subseteq View
          /\ Fits(shown, View, stayed, left, entered)
    /\ stage = "fetch" => Fits(shown \o listed, View, stayed, left, entered)
-------------------------------------------------------------------------------
LEMMA SetOf ==
    ASSUME NEW s \in Seq(PostId)
    PROVE  /\ ToSet(s) \subseteq PostId
           /\ Len(s) \in Nat /\ Cardinality(ToSet(s)) \in Nat /\ IsFiniteSet(ToSet(s))
<1>1. ToSet(s) \subseteq PostId /\ Len(s) \in Nat
  BY DEF ToSet
<1>. QED BY <1>1, PostsFinite

LEMMA SetOfConcat ==
    ASSUME NEW s \in Seq(PostId), NEW q \in Seq(PostId)
    PROVE  /\ s \o q \in Seq(PostId) /\ Len(s \o q) = Len(s) + Len(q)
           /\ ToSet(s \o q) = ToSet(s) \cup ToSet(q)
<1>1. /\ s \o q \in Seq(PostId) /\ Len(s \o q) = Len(s) + Len(q)
      /\ Len(s) \in Nat /\ Len(q) \in Nat
      /\ \A i \in 1..(Len(s) + Len(q)) :
            (s \o q)[i] = IF i <= Len(s) THEN s[i] ELSE q[i - Len(s)]
  OBVIOUS
<1>2. DOMAIN s = 1..Len(s) /\ DOMAIN q = 1..Len(q) /\ DOMAIN (s \o q) = 1..(Len(s) + Len(q))
  BY <1>1
<1>3. ASSUME NEW i \in 1..(Len(s) + Len(q))
      PROVE  (s \o q)[i] \in ToSet(s) \cup ToSet(q)
  <2>1. CASE i <= Len(s)
    BY <1>1, <1>2, <2>1 DEF ToSet
  <2>2. CASE ~(i <= Len(s))
    <3>1. i - Len(s) \in 1..Len(q) /\ (s \o q)[i] = q[i - Len(s)]
      BY <1>1, <2>2
    <3>. QED BY <1>2, <3>1 DEF ToSet
  <2>. QED BY <2>1, <2>2
<1>4. ASSUME NEW i \in 1..Len(s)
      PROVE  s[i] \in ToSet(s \o q)
  <2>1. i \in 1..(Len(s) + Len(q)) /\ (s \o q)[i] = s[i]
    BY <1>1
  <2>. QED BY <1>2, <2>1 DEF ToSet
<1>5. ASSUME NEW i \in 1..Len(q)
      PROVE  q[i] \in ToSet(s \o q)
  <2>1. /\ i + Len(s) \in 1..(Len(s) + Len(q)) /\ ~(i + Len(s) <= Len(s))
        /\ i + Len(s) - Len(s) = i
    BY <1>1
  <2>2. (s \o q)[i + Len(s)] = q[i]
    BY <1>1, <2>1
  <2>. QED BY <1>2, <2>1, <2>2 DEF ToSet
<1>6. \A x \in ToSet(s \o q) : x \in ToSet(s) \cup ToSet(q)
  BY <1>2, <1>3 DEF ToSet
<1>7. \A x \in ToSet(s) : x \in ToSet(s \o q)
  BY <1>2, <1>4 DEF ToSet
<1>8. \A x \in ToSet(q) : x \in ToSet(s \o q)
  BY <1>2, <1>5 DEF ToSet
<1>. QED BY <1>1, <1>6, <1>7, <1>8

(* A post that leaves lifts those below it by one, one that enters lowers
   them by one.                                                            *)
LEMMA RankMoves ==
    ASSUME NEW V, V \subseteq PostId, NEW V2, V2 \subseteq PostId, NEW p
    PROVE  Rank(V2, p) <= Rank(V, p) + Cardinality(V2 \ V)
<1>1. IsFiniteSet(Above(V, p)) /\ IsFiniteSet(V2 \ V)
  <2>1. V2 \ V \subseteq PostId
    OBVIOUS
  <2>. QED BY <2>1, RankType, PostsFinite
<1>2. Above(V2, p) \subseteq Above(V, p) \cup (V2 \ V)
  BY DEF Above
<1>3. /\ IsFiniteSet(Above(V, p) \cup (V2 \ V))
      /\ Cardinality(Above(V, p) \cup (V2 \ V)) <= Cardinality(Above(V, p)) + Cardinality(V2 \ V)
  <2>1. IsFiniteSet(Above(V, p) \cup (V2 \ V))
    BY <1>1, FS_Union
  <2>2. Cardinality(Above(V, p) \cup (V2 \ V)) =
          Cardinality(Above(V, p)) + Cardinality(V2 \ V) - Cardinality(Above(V, p) \cap (V2 \ V))
    BY <1>1, FS_Union
  <2>3. Cardinality(Above(V, p) \cap (V2 \ V)) = 0
    <3>1. Above(V, p) \cap (V2 \ V) = {}
      BY DEF Above
    <3>. QED BY <3>1, FS_EmptySet
  <2>4. Cardinality(Above(V, p)) \in Nat /\ Cardinality(V2 \ V) \in Nat
    BY <1>1, FS_CardinalityType
  <2>. QED BY <2>1, <2>2, <2>3, <2>4
<1>4. Cardinality(Above(V2, p)) <= Cardinality(Above(V, p) \cup (V2 \ V))
  BY <1>2, <1>3, FS_Subset
<1>5. /\ Cardinality(Above(V2, p)) \in Nat /\ Cardinality(Above(V, p)) \in Nat
      /\ Cardinality(V2 \ V) \in Nat
      /\ Cardinality(Above(V, p) \cup (V2 \ V)) \in Nat
  BY <1>1, <1>3, RankType, FS_CardinalityType DEF Rank
<1>. QED BY <1>3, <1>4, <1>5 DEF Rank

(* What the client has keeps fitting while the feed moves.                 *)
LEMMA Shift ==
    ASSUME NEW s \in Seq(PostId), NEW V, V \subseteq PostId, NEW V2, V2 \subseteq PostId,
           NEW S, S \subseteq V, NEW S2, S2 \subseteq S, S2 \subseteq V2,
           NEW outs \in Nat, NEW ins \in Nat, Fits(s, V, S, outs, ins)
    PROVE  Fits(s, V2, S2, outs + Cardinality(V \ V2), ins + Cardinality(V2 \ V))
<1> DEFINE T == ToSet(s)
           gone == Cardinality(V \ V2)
           new == Cardinality(V2 \ V)
<1>1. /\ Len(s) \in Nat /\ Cardinality(T) \in Nat
      /\ Len(s) - Cardinality(T) <= ins
      /\ \A x \in T : Rank(V, x) <= Cardinality(T) + ins
      /\ Cardinality(Unseen(s, V, S)) <= outs
  BY SetOf DEF Fits
<1>2. gone \in Nat /\ new \in Nat
  <2>1. V \ V2 \subseteq PostId /\ V2 \ V \subseteq PostId
    OBVIOUS
  <2>. QED BY <2>1, PostsFinite
<1>3. \A x : Rank(V, x) \in Nat /\ Rank(V2, x) \in Nat
  BY RankType
<1>4. \A x : Rank(V2, x) <= Rank(V, x) + new /\ Rank(V, x) <= Rank(V2, x) + gone
  BY RankMoves
<1>5. Unseen(s, V2, S2) \subseteq PostId /\ Unseen(s, V, S) \subseteq PostId
  BY DEF Unseen
<1> DEFINE N == {y \in S2 \ T : Rank(V2, y) <= Len(s) /\ Len(s) < Rank(V, y)}
<1>6. IsFiniteSet(N) /\ Cardinality(N) \in Nat /\ Cardinality(N) <= gone
  <2> HIDE DEF gone, new, T
  <2>1. N \subseteq V
    OBVIOUS
  <2>2. \A y \in N : Len(s) < Rank(V, y) /\ Rank(V, y) <= Len(s) + gone
    <3> SUFFICES ASSUME NEW y \in N
                 PROVE  Len(s) < Rank(V, y) /\ Rank(V, y) <= Len(s) + gone
      OBVIOUS
    <3>1. Rank(V2, y) <= Len(s) /\ Len(s) < Rank(V, y)
      OBVIOUS
    <3>2. Rank(V, y) <= Rank(V2, y) + gone /\ Rank(V, y) \in Nat /\ Rank(V2, y) \in Nat
      BY <1>3, <1>4
    <3>. QED BY <1>1, <1>2, <3>1, <3>2
  <2> HIDE DEF N
  <2>. QED BY <1>1, <1>2, <2>1, <2>2, FewRanks
<1>7. Unseen(s, V2, S2) \subseteq Unseen(s, V, S) \cup N
  <2> SUFFICES ASSUME NEW y \in S2, y \notin T, Rank(V2, y) <= Len(s),
                      ~(Len(s) < Rank(V, y))
               PROVE  y \in Unseen(s, V, S)
    BY DEF Unseen
  <2>1. Rank(V, y) <= Len(s)
    BY <1>1, <1>3
  <2>. QED BY <2>1 DEF Unseen
<1> HIDE DEF N, gone, new, T
<1>8. IsFiniteSet(Unseen(s, V, S)) /\ Cardinality(Unseen(s, V, S)) \in Nat
  BY <1>5, PostsFinite
<1>9. Cardinality(Unseen(s, V2, S2)) <= Cardinality(Unseen(s, V, S)) + Cardinality(N)
  <2>1. /\ IsFiniteSet(Unseen(s, V, S) \cup N)
        /\ Cardinality(Unseen(s, V, S) \cup N) =
             Cardinality(Unseen(s, V, S)) + Cardinality(N) - Cardinality(Unseen(s, V, S) \cap N)
    BY <1>6, <1>8, FS_Union
  <2>2. Cardinality(Unseen(s, V, S) \cap N) \in Nat
    BY <1>8, FS_Intersection, FS_CardinalityType
  <2>3. Cardinality(Unseen(s, V2, S2)) <= Cardinality(Unseen(s, V, S) \cup N)
    BY <1>7, <2>1, FS_Subset
  <2>4. Cardinality(Unseen(s, V2, S2)) \in Nat
    BY <1>5, PostsFinite
  <2>. QED BY <1>6, <1>8, <2>1, <2>2, <2>3, <2>4
<1>10. Cardinality(Unseen(s, V2, S2)) \in Nat
  BY <1>5, PostsFinite
<1>11. Cardinality(Unseen(s, V2, S2)) <= outs + gone
  BY <1>1, <1>2, <1>6, <1>8, <1>9, <1>10
<1>12. \A x \in T : Rank(V2, x) <= Cardinality(T) + (ins + new)
  <2> SUFFICES ASSUME NEW x \in T
               PROVE  Rank(V2, x) <= Cardinality(T) + (ins + new)
    OBVIOUS
  <2>1. /\ Rank(V, x) <= Cardinality(T) + ins /\ Rank(V2, x) <= Rank(V, x) + new
        /\ Rank(V, x) \in Nat /\ Rank(V2, x) \in Nat
    BY <1>1, <1>3, <1>4
  <2>. QED BY <1>1, <1>2, <2>1
<1>13. Len(s) - Cardinality(T) <= ins + new
  BY <1>1, <1>2
<1>. QED BY <1>11, <1>12, <1>13 DEF Fits, T, gone, new
-------------------------------------------------------------------------------
(* The page that skips k posts: those of the next ranks.                   *)
Window(V, k, take, page) ==
    /\ page = <<>> => Cardinality(V) <= k
    /\ page # <<>> =>
          \E last \in Nat :
             /\ k < last /\ last <= k + take /\ last <= Cardinality(V)
             /\ page \in Seq(V) /\ Len(page) = last - k
             /\ \A y : y \in ToSet(page) <=> y \in V /\ k < Rank(V, y) /\ Rank(V, y) <= last

LEMMA PageIs ==
    ASSUME NEW V, V \subseteq PostId, NEW k \in Nat, NEW take \in Nat \ {0},
           NEW page, page = Page(NewestFirst(V), k, take)
    PROVE  Window(V, k, take, page)
<1> DEFINE N == Cardinality(V)
           q == NewestFirst(V)
           last == IF k + take < N THEN k + take ELSE N
<1>1. N \in Nat
  BY PostsFinite
<1>2. /\ q \in Seq(V) /\ Len(q) = N
      /\ \A i \in 1..N : q[i] \in V /\ Rank(V, q[i]) = i
      /\ \A y \in V : Rank(V, y) \in 1..N /\ q[Rank(V, y)] = y
  BY Sorted
<1>3. page = SubSeq(q, k + 1, last)
  BY <1>2 DEF Page
<1> HIDE DEF q
<1>4. last \in Nat /\ last <= k + take /\ last <= N
  BY <1>1
<1>5. /\ page \in Seq(V)
      /\ Len(page) = IF k + 1 <= last THEN last - k ELSE 0
      /\ \A i \in 1..Len(page) : page[i] = q[k + i]
  <2> HIDE DEF last
  <2>1. \A i \in (k + 1)..last : i \in 1..Len(q)
    BY <1>1, <1>2, <1>4
  <2>2. page = [i \in 1..(IF k + 1 <= last THEN last - k ELSE 0) |-> q[k + i]]
    <3>1. SubSeq(q, k + 1, last) = [i \in 1..(1 + last - (k + 1)) |-> q[i + (k + 1) - 1]]
      BY <1>2, <1>4
    <3>. QED BY <1>3, <1>4, <3>1
  <2>. QED BY <1>2, <1>4, <2>1, <2>2
<1>6. CASE page = <<>>
  <2>1. ~(k + 1 <= last)
    BY <1>4, <1>5, <1>6
  <2>. QED BY <1>1, <1>4, <1>6, <2>1 DEF Window
<1>7. CASE page # <<>>
  <2>1. k < last /\ Len(page) = last - k
    BY <1>4, <1>5, <1>7
  <2>2. DOMAIN page = 1..(last - k)
    BY <1>5, <2>1
  <2>3. ASSUME NEW i \in 1..(last - k)
        PROVE  page[i] \in V /\ k < Rank(V, page[i]) /\ Rank(V, page[i]) <= last
    <3> HIDE DEF last
    <3>1. k + i \in 1..N /\ k < k + i /\ k + i <= last
      BY <1>1, <1>4
    <3>2. page[i] = q[k + i]
      BY <1>5, <2>1
    <3>. QED BY <1>2, <3>1, <3>2
  <2>4. ASSUME NEW y \in V, k < Rank(V, y), Rank(V, y) <= last
        PROVE  \E i \in 1..(last - k) : page[i] = y
    <3> HIDE DEF last
    <3>1. Rank(V, y) \in 1..N /\ q[Rank(V, y)] = y
      BY <1>2
    <3>2. Rank(V, y) - k \in 1..(last - k) /\ k + (Rank(V, y) - k) = Rank(V, y)
      BY <1>1, <1>4, <2>4, <3>1
    <3>3. page[Rank(V, y) - k] = q[Rank(V, y)]
      BY <1>5, <2>1, <3>2
    <3>. QED BY <3>1, <3>2, <3>3
  <2>5. \A y : y \in ToSet(page) <=> y \in V /\ k < Rank(V, y) /\ Rank(V, y) <= last
    <3> HIDE DEF last
    <3>. QED BY <2>2, <2>3, <2>4 DEF ToSet
  <2> HIDE DEF last
  <2>. QED BY <1>1, <1>4, <1>5, <1>7, <2>1, <2>5 DEF Window
<1>. QED BY <1>6, <1>7

(* The next page fits what the client has.  Those of its posts that repeat lie
   between the skip and the deepest post that was shown.                   *)
LEMMA AppendPage ==
    ASSUME NEW s \in Seq(PostId), NEW V, V \subseteq PostId, NEW S, S \subseteq V,
           NEW outs \in Nat, NEW ins \in Nat, Fits(s, V, S, outs, ins),
           NEW last \in Nat, Len(s) < last, last <= Cardinality(V),
           NEW page \in Seq(V), Len(page) = last - Len(s),
           \A y : y \in ToSet(page) <=> y \in V /\ Len(s) < Rank(V, y) /\ Rank(V, y) <= last
    PROVE  Fits(s \o page, V, S, outs, ins)
<1> DEFINE k == Len(s)
           T == ToSet(s)
           U == ToSet(page)
<1>1. /\ k \in Nat /\ Cardinality(T) \in Nat /\ IsFiniteSet(T)
      /\ k - Cardinality(T) <= ins
      /\ \A x \in T : Rank(V, x) <= Cardinality(T) + ins
      /\ Cardinality(Unseen(s, V, S)) <= outs
  BY SetOf DEF Fits
<1>2. page \in Seq(PostId) /\ U \subseteq V /\ IsFiniteSet(U) /\ Cardinality(U) \in Nat
  <2>1. page \in Seq(PostId)
    OBVIOUS
  <2>. QED BY <2>1, SetOf
<1>3. s \o page \in Seq(PostId) /\ Len(s \o page) = last /\ ToSet(s \o page) = T \cup U
  <2>1. s \o page \in Seq(PostId) /\ ToSet(s \o page) = T \cup U
        /\ Len(s \o page) = Len(s) + Len(page)
    BY <1>2, SetOfConcat
  <2>. QED BY <1>1, <2>1
<1>4. \A x : Rank(V, x) \in Nat
  BY RankType
<1>5. \A y : y \in U <=> y \in V /\ k < Rank(V, y) /\ Rank(V, y) <= last
  OBVIOUS
<1> HIDE DEF k, T, U
<1>6. k < last /\ last <= Cardinality(V) /\ Len(s) = k
  BY DEF k
<1>7. Cardinality(U) = last - k
  <2> DEFINE r == [y \in U |-> Rank(V, y) - k]
  <2>1. \A y \in U : Rank(V, y) - k \in 1..(last - k)
    BY <1>1, <1>4, <1>5
  <2>2. ASSUME NEW y \in U, NEW z \in U, Rank(V, y) - k = Rank(V, z) - k
        PROVE  y = z
    <3>1. Rank(V, y) = Rank(V, z) /\ y \in V /\ z \in V
      BY <1>1, <1>4, <1>5, <2>2
    <3>. QED BY <3>1, RankOrder
  <2>3. r \in Injection(U, 1..(last - k))
    <3>1. r \in [U -> 1..(last - k)]
      BY <2>1
    <3>2. \A y, z \in U : r[y] = r[z] => y = z
      BY <2>2
    <3>. QED BY <3>1, <3>2 DEF Injection, IsInjective
  <2>4. ASSUME NEW i \in 1..(last - k)
        PROVE  \E y \in U : r[y] = i
    <3>1. i + k \in 1..Cardinality(V)
      BY <1>1, <1>6, PostsFinite
    <3>2. PICK y \in V : Rank(V, y) = i + k
      BY <3>1, EveryRank
    <3>3. y \in U
      BY <1>1, <1>5, <3>2
    <3>4. Rank(V, y) - k = i
      BY <1>1, <3>2
    <3>. QED BY <3>3, <3>4
  <2>5. r \in Bijection(U, 1..(last - k))
    <3>1. r \in [U -> 1..(last - k)]
      BY <2>1
    <3>2. r \in Surjection(U, 1..(last - k))
      <4> HIDE DEF r
      <4>. QED BY <2>4, <3>1 DEF Surjection
    <3>. QED BY <2>3, <3>2 DEF Bijection
  <2> HIDE DEF r
  <2>6. ExistsBijection(U, 1..(last - k))
    BY <2>5 DEF ExistsBijection
  <2>7. IsFiniteSet(1..(last - k)) /\ Cardinality(1..(last - k)) = last - k
    <3>1. last - k \in Nat
      BY <1>1, <1>6
    <3>. QED BY <3>1, UpTo
  <2>. QED BY <1>2, <2>6, <2>7, FS_Bijection
<1>8. /\ IsFiniteSet(T \cup U) /\ Cardinality(T \cup U) \in Nat
      /\ Cardinality(T \cap U) \in Nat
      /\ Cardinality(T \cup U) = Cardinality(T) + Cardinality(U) - Cardinality(T \cap U)
      /\ Cardinality(T) <= Cardinality(T \cup U)
  <2>1. /\ IsFiniteSet(T \cup U)
        /\ Cardinality(T \cup U) = Cardinality(T) + Cardinality(U) - Cardinality(T \cap U)
    BY <1>1, <1>2, FS_Union
  <2>2. Cardinality(T \cap U) \in Nat
    BY <1>1, FS_Intersection, FS_CardinalityType
  <2>3. Cardinality(T) <= Cardinality(T \cup U)
    BY <2>1, FS_Subset
  <2>. QED BY <2>1, <2>2, <2>3, FS_CardinalityType
<1>9. k - Cardinality(T) + Cardinality(T \cap U) <= ins
  <2>1. CASE T \cap U = {}
    <3>1. Cardinality(T \cap U) = 0
      BY <2>1, FS_EmptySet
    <3>. QED BY <1>1, <3>1
  <2>2. CASE T \cap U # {}
    <3> DEFINE d == Cardinality(T) + ins - k
    <3>1. \A y \in T \cap U : k < Rank(V, y) /\ Rank(V, y) <= Cardinality(T) + ins
      BY <1>1, <1>5
    <3>2. d \in Nat /\ k + d = Cardinality(T) + ins
      BY <1>1, <1>4, <2>2, <3>1
    <3>3. T \cap U \subseteq V
      BY <1>2
    <3> HIDE DEF d
    <3>4. \A y \in T \cap U : k < Rank(V, y) /\ Rank(V, y) <= k + d
      BY <3>1, <3>2
    <3>5. Cardinality(T \cap U) <= d
      BY <1>1, <3>2, <3>3, <3>4, FewRanks
    <3>. QED BY <1>1, <1>8, <3>2, <3>5
  <2>. QED BY <2>1, <2>2
<1>10. last - Cardinality(T \cup U) <= ins
  BY <1>1, <1>6, <1>7, <1>8, <1>9
<1>11. \A x \in T \cup U : Rank(V, x) <= Cardinality(T \cup U) + ins
  <2> SUFFICES ASSUME NEW x \in T \cup U
               PROVE  Rank(V, x) <= Cardinality(T \cup U) + ins
    OBVIOUS
  <2>1. CASE x \in T
    <3>1. Rank(V, x) <= Cardinality(T) + ins /\ Rank(V, x) \in Nat
      BY <1>1, <1>4, <2>1
    <3>. QED BY <1>1, <1>8, <3>1
  <2>2. CASE x \in U
    <3>1. Rank(V, x) <= last /\ Rank(V, x) \in Nat
      BY <1>4, <1>5, <2>2
    <3>. QED BY <1>8, <1>10, <3>1
  <2>. QED BY <2>1, <2>2
<1>12. Unseen(s \o page, V, S) \subseteq Unseen(s, V, S)
  <2> SUFFICES ASSUME NEW y \in S, y \notin T \cup U, Rank(V, y) <= last
               PROVE  y \in Unseen(s, V, S)
    BY <1>3 DEF Unseen
  <2>1. ~(k < Rank(V, y))
    BY <1>5
  <2>2. Rank(V, y) <= k
    BY <1>1, <1>4, <2>1
  <2>. QED BY <1>6, <2>2 DEF Unseen, T
<1>13. Cardinality(Unseen(s \o page, V, S)) <= outs
  <2>1. Unseen(s, V, S) \subseteq PostId /\ Unseen(s \o page, V, S) \subseteq PostId
    BY DEF Unseen
  <2>2. IsFiniteSet(Unseen(s, V, S)) /\ Cardinality(Unseen(s, V, S)) \in Nat
        /\ Cardinality(Unseen(s \o page, V, S)) \in Nat
    BY <2>1, PostsFinite
  <2>3. Cardinality(Unseen(s \o page, V, S)) <= Cardinality(Unseen(s, V, S))
    BY <1>12, <2>2, FS_Subset
  <2>. QED BY <1>1, <2>2, <2>3
<1>. QED BY <1>3, <1>10, <1>11, <1>13 DEF Fits
-------------------------------------------------------------------------------
(* What a step of a request, or of the reader, does to the feed.            *)
LEMMA FeedTypes ==
    ASSUME TypeOK
    PROVE  /\ \A ws : PostsOf(ws) \subseteq PostId
           /\ \A w \in Wallet : AuthorsFor(w) \subseteq Wallet
           /\ View \subseteq PostId /\ Feed \subseteq PostId
<1>1. posts \subseteq [id : PostId, by : Wallet]
  BY DEF TypeOK
<1>2. \A ws : PostsOf(ws) \subseteq PostId
  BY <1>1 DEF PostsOf
<1>3. \A w \in Wallet : AuthorsFor(w) \subseteq Wallet
  BY DEF AuthorsFor, Following
<1>. QED BY <1>2, <1>3 DEF View, Feed

(* A post keeps its author as long as it exists.                           *)
LEMMA SameAuthor ==
    ASSUME SocialInv, [Next]_vars, NEW ws
    PROVE  PostsOf(ws) \cap {x.id : x \in posts'} \subseteq PostsOf(ws)'
<1>1. \A x \in posts' : x \in posts \/ lastPost < x.id
  <2>1. CASE UNCHANGED vars
    BY <2>1, Stutter
  <2>2. ASSUME NEW r \in Request, Serve(r)
        PROVE  \A x \in posts' : x \in posts \/ lastPost < x.id
    BY <2>2, ServeStep DEF TablesMove, NewRows
  <2>. QED BY <2>1, <2>2, StepOf
<1>2. SUFFICES ASSUME NEW x \in posts, x.by \in ws, NEW z \in posts', z.id = x.id
               PROVE  x.id \in PostsOf(ws)'
  BY DEF PostsOf
<1>3. Keys(posts, lastPost) /\ lastPost \in Nat
  BY BoundsAssumption DEF SocialInv, KeysInv, TypeOK
<1>4. x.id \in 1..lastPost
  BY <1>3 DEF Keys
<1>5. ~(lastPost < z.id)
  BY <1>2, <1>3, <1>4
<1>6. z \in posts
  BY <1>1, <1>5
<1>7. z = x
  BY <1>2, <1>3, <1>6 DEF Keys
<1>. QED BY <1>2, <1>7 DEF PostsOf

(* What stayed is still in the list the next page is cut from.              *)
LEMMA StayedInView ==
    ASSUME SocialInv, [Next]_vars, stayed \subseteq View, stayed' = stayed \cap Feed',
           stage' = "list" => stage = "list" /\ authors' = authors
    PROVE  stayed' \subseteq View'
<1>1. CASE stage' # "list"
  BY <1>1 DEF View
<1>2. CASE stage' = "list"
  <2>1. View' = PostsOf(authors)' /\ View = PostsOf(authors) /\ authors' = authors
    BY <1>2 DEF View
  <2>2. Feed' \subseteq {x.id : x \in posts'}
    BY DEF Feed, PostsOf
  <2>3. PostsOf(authors) \cap {x.id : x \in posts'} \subseteq View'
    BY <2>1, SameAuthor DEF PostsOf
  <2>. QED BY <2>1, <2>2, <2>3
<1>. QED BY <1>1, <1>2

(* A watched step keeps everything the client has within the bounds.        *)
LEMMA WatchStep ==
    ASSUME SocialInv, SocialInv', [Next]_vars, FeedTypeOK, stage # "closed", Watch,
           stayed \subseteq View, NEW s \in Seq(PostId),
           Fits(s, View, stayed, left, entered),
           stage' = "list" => stage = "list" /\ authors' = authors
    PROVE  /\ stayed' \subseteq View' /\ stayed' \subseteq PostId
           /\ left' \in Nat /\ entered' \in Nat
           /\ Fits(s, View', stayed', left', entered')
<1> DEFINE V == View
           V2 == View'
<1>1. V \subseteq PostId /\ V2 \subseteq PostId
  <2>1. V \subseteq PostId
    BY FeedTypes DEF SocialInv
  <2>2. TypeOK'
    BY DEF SocialInv
  <2>3. posts' \subseteq [id : PostId, by : Wallet]
    BY <2>2 DEF TypeOK
  <2>4. V2 \subseteq PostId
    BY <2>3 DEF View, Feed, PostsOf
  <2>. QED BY <2>1, <2>4
<1>2. /\ stayed' = stayed \cap Feed'
      /\ left' = left + Cardinality(V \ V2)
      /\ entered' = entered + Cardinality(V2 \ V)
  BY DEF Watch
<1>3. stayed' \subseteq V2
  BY <1>2, StayedInView
<1>4. left \in Nat /\ entered \in Nat /\ stayed \subseteq PostId
  BY DEF FeedTypeOK
<1>5. stayed \subseteq V /\ Fits(s, V, stayed, left, entered)
  OBVIOUS
<1> HIDE DEF V, V2
<1>6. Cardinality(V \ V2) \in Nat /\ Cardinality(V2 \ V) \in Nat
  <2>1. V \ V2 \subseteq PostId /\ V2 \ V \subseteq PostId
    BY <1>1
  <2>. QED BY <2>1, PostsFinite
<1>7. Fits(s, V2, stayed', left + Cardinality(V \ V2), entered + Cardinality(V2 \ V))
  <2>1. stayed' \subseteq stayed
    BY <1>2
  <2>. QED BY <1>1, <1>3, <1>4, <1>5, <2>1, Shift
<1>8. Fits(s, V2, stayed', left', entered')
  BY <1>2, <1>7
<1>. QED BY <1>2, <1>3, <1>4, <1>6, <1>8 DEF V2
-------------------------------------------------------------------------------
LEMMA FeedStart == FeedInit => FeedInv
BY DEF FeedInit, FeedInv, FeedTypeOK, ToSet

(* The handlers and the reader change nothing of each other.               *)
LEMMA FeedNextIs ==
    ASSUME [FeedNext]_feedVars
    PROVE  [Next]_vars /\ use' = use
BY Stutter DEF FeedNext, feedVars, Next, vars

LEMMA FeedSame ==
    ASSUME UNCHANGED vars
    PROVE  /\ \A ws : PostsOf(ws)' = PostsOf(ws)
           /\ \A w : AuthorsFor(w)' = AuthorsFor(w)
<1>. UNCHANGED <<hash, follows, posts>>
  BY Stutter
<1>. QED BY DEF PostsOf, AuthorsFor, Following, HasAccount

(* A request writes while the client waits.                                *)
LEMMA OthersStep ==
    ASSUME SocialInv, SocialInv', FeedInv, Next, UNCHANGED reader, Watch
    PROVE  FeedInv'
<1>1. UNCHANGED <<viewer, stage, authors, listed, missing, shown>> /\ use' = use
  BY DEF reader, Next
<1>2. FeedTypeOK
  BY DEF FeedInv
<1>3. CASE stage = "closed"
  <2>1. UNCHANGED <<stayed, left, entered>>
    BY <1>3 DEF Watch, history
  <2>2. FeedTypeOK'
    BY <1>1, <1>2, <2>1 DEF FeedTypeOK
  <2>. QED BY <1>1, <1>3, <2>1, <2>2 DEF FeedInv
<1>4. CASE stage # "closed"
  <2>1. /\ stayed \subseteq View /\ shown \in Seq(PostId) /\ listed \in Seq(PostId)
        /\ Fits(shown, View, stayed, left, entered)
        /\ stage = "fetch" => Fits(shown \o listed, View, stayed, left, entered)
        /\ viewer \in Wallet /\ use \in DOMAIN PageSize
        /\ stage # "fetch" => listed = <<>>
    <3>1. shown \in Seq(PostId) /\ listed \in Seq(PostId)
      BY <1>2 DEF FeedTypeOK
    <3>. QED BY <1>4, <3>1 DEF FeedInv
  <2>2. /\ stayed' \subseteq View' /\ stayed' \subseteq PostId
        /\ left' \in Nat /\ entered' \in Nat
        /\ Fits(shown, View', stayed', left', entered')
    BY <1>1, <1>2, <1>4, <2>1, WatchStep
  <2>3. stage = "fetch" => Fits(shown \o listed, View', stayed', left', entered')
    <3>1. shown \o listed \in Seq(PostId)
      BY <2>1
    <3>. QED BY <1>1, <1>2, <1>4, <2>1, <3>1, WatchStep
  <2>4. FeedTypeOK'
    BY <1>1, <1>2, <2>2 DEF FeedTypeOK
  <2>. QED BY <1>1, <1>4, <2>1, <2>2, <2>3, <2>4 DEF FeedInv
<1>. QED BY <1>3, <1>4

LEMMA OpenFeedStep ==
    ASSUME SocialInv, FeedInv, UNCHANGED vars, NEW w \in Wallet, OpenFeed(w)
    PROVE  FeedInv'
<1>1. /\ stage = "closed" /\ use \in DOMAIN PageSize /\ viewer' = w /\ stage' = "ask"
      /\ stayed' = PostsOf(AuthorsFor(w))
      /\ UNCHANGED <<authors, listed, missing, shown, left, entered>>
      /\ use' = use
  BY DEF OpenFeed, vars
<1>2. FeedTypeOK /\ shown = <<>> /\ left = 0 /\ entered = 0 /\ listed = <<>>
  BY <1>1 DEF FeedInv
<1>3. stayed' \subseteq PostId
  BY <1>1, FeedTypes DEF SocialInv
<1>4. FeedTypeOK'
  BY <1>1, <1>2, <1>3 DEF FeedTypeOK
<1>5. View' = stayed'
  <2>1. View' = PostsOf(AuthorsFor(viewer))'
    BY <1>1 DEF View, Feed
  <2>2. PostsOf(AuthorsFor(viewer))' = PostsOf(AuthorsFor(w))
    <3>1. UNCHANGED <<hash, follows, posts>>
      BY Stutter
    <3>. QED BY <1>1, <3>1 DEF PostsOf, AuthorsFor, Following, HasAccount
  <2>. QED BY <1>1, <2>1, <2>2
<1>6. Fits(<<>>, stayed', stayed', 0, 0)
  <2>1. ToSet(<<>>) = {} /\ Len(<<>>) = 0 /\ Cardinality({}) = 0
    BY FS_EmptySet DEF ToSet
  <2>2. Unseen(<<>>, stayed', stayed') = {}
    <3> SUFFICES ASSUME NEW y \in stayed', Rank(stayed', y) <= 0
                 PROVE  FALSE
      BY <2>1 DEF Unseen
    <3>1. Rank(stayed', y) \in Nat /\ Rank(stayed', y) > 0
      BY <1>3, RankType, RankPositive
    <3>. QED BY <3>1
  <2>3. Cardinality(Unseen(<<>>, stayed', stayed')) = 0
    BY <2>1, <2>2
  <2>4. Len(<<>>) - Cardinality(ToSet(<<>>)) <= 0 /\ ToSet(<<>>) = {}
    BY <2>1
  <2>. QED BY <2>3, <2>4 DEF Fits
<1>. QED BY <1>1, <1>2, <1>4, <1>5, <1>6 DEF FeedInv

LEMMA FindAuthorsStep ==
    ASSUME SocialInv, FeedInv, UNCHANGED vars, FindAuthors
    PROVE  FeedInv'
<1>1. /\ stage = "ask" /\ authors' = AuthorsFor(viewer) /\ stage' = "list"
      /\ UNCHANGED <<viewer, listed, missing, shown, stayed, left, entered>>
      /\ use' = use
  BY DEF FindAuthors, history, vars
<1>2. /\ FeedTypeOK /\ viewer \in Wallet /\ use \in DOMAIN PageSize /\ listed = <<>>
      /\ stayed \subseteq View /\ Fits(shown, View, stayed, left, entered)
  BY <1>1 DEF FeedInv
<1>3. authors' \subseteq Wallet
  BY <1>1, <1>2, FeedTypes DEF SocialInv
<1>4. FeedTypeOK'
  BY <1>1, <1>2, <1>3 DEF FeedTypeOK
<1>5. View' = View
  <2>1. View = PostsOf(AuthorsFor(viewer)) /\ View' = PostsOf(authors)'
    BY <1>1 DEF View, Feed
  <2>2. posts' = posts
    BY Stutter
  <2>. QED BY <1>1, <2>1, <2>2 DEF PostsOf
<1>. QED BY <1>1, <1>2, <1>4, <1>5 DEF FeedInv

LEMMA CloseFeedStep ==
    ASSUME FeedInv, UNCHANGED vars, CloseFeed
    PROVE  FeedInv'
<1>1. /\ viewer' = None /\ stage' = "closed" /\ authors' = {}
      /\ listed' = <<>> /\ missing' = {} /\ shown' = <<>>
      /\ stayed' = {} /\ left' = 0 /\ entered' = 0
  BY DEF CloseFeed
<1>2. FeedTypeOK'
  BY <1>1 DEF FeedTypeOK
<1>. QED BY <1>1, <1>2 DEF FeedInv

(* What the step of the reader that lists a page knows.                    *)
LEMMA PageListed ==
    ASSUME SocialInv, FeedInv, stage = "list",
           NEW page, page = Page(NewestFirst(PostsOf(authors)), Len(shown), PageSize[use])
    PROVE  /\ page = <<>> => Cardinality(stayed \ ToSet(shown)) <= left
           /\ page # <<>> => /\ page \in Seq(PostId) /\ Len(page) <= PageSize[use]
                             /\ Fits(shown \o page, View, stayed, left, entered)
<1>1. /\ FeedTypeOK /\ use \in DOMAIN PageSize /\ stayed \subseteq View
      /\ Fits(shown, View, stayed, left, entered) /\ View = PostsOf(authors)
  BY DEF FeedInv, View
<1>2. shown \in Seq(PostId) /\ left \in Nat /\ entered \in Nat
  BY <1>1 DEF FeedTypeOK
<1>3. View \subseteq PostId
  BY FeedTypes DEF SocialInv
<1>4. PageSize[use] \in Nat \ {0}
  BY <1>1, PageAssumption
<1>5. Len(shown) \in Nat
  BY <1>2
<1> DEFINE N == Cardinality(View)
<1>6. page = Page(NewestFirst(View), Len(shown), PageSize[use])
  BY <1>1
<1>7. /\ N \in Nat
      /\ page = <<>> => N <= Len(shown)
      /\ page # <<>> =>
            \E last \in Nat :
               /\ Len(shown) < last /\ last <= Len(shown) + PageSize[use] /\ last <= N
               /\ page \in Seq(View) /\ Len(page) = last - Len(shown)
               /\ \A y : y \in ToSet(page) <=>
                           y \in View /\ Len(shown) < Rank(View, y) /\ Rank(View, y) <= last
  <2>1. Window(View, Len(shown), PageSize[use], page)
    BY <1>3, <1>4, <1>5, <1>6, PageIs
  <2>2. N \in Nat
    BY <1>3, PostsFinite
  <2>. QED BY <2>1, <2>2 DEF Window
<1>8. CASE page = <<>>
  <2>1. \A y \in stayed : Rank(View, y) <= Len(shown)
    <3> SUFFICES ASSUME NEW y \in stayed
                 PROVE  Rank(View, y) <= Len(shown)
      OBVIOUS
    <3>1. Rank(View, y) \in Nat /\ Rank(View, y) <= N
      BY <1>3, RankType
    <3>. QED BY <1>5, <1>7, <1>8, <3>1
  <2>2. stayed \ ToSet(shown) = Unseen(shown, View, stayed)
    BY <2>1 DEF Unseen
  <2>. QED BY <1>1, <1>8, <2>2 DEF Fits
<1>9. CASE page # <<>>
  <2>1. PICK last \in Nat :
               /\ Len(shown) < last /\ last <= Len(shown) + PageSize[use] /\ last <= N
               /\ page \in Seq(View) /\ Len(page) = last - Len(shown)
               /\ \A y : y \in ToSet(page) <=>
                           y \in View /\ Len(shown) < Rank(View, y) /\ Rank(View, y) <= last
    BY <1>7, <1>9
  <2>2. page \in Seq(PostId)
    BY <1>3, <2>1
  <2>3. Len(page) <= PageSize[use]
    BY <1>4, <1>5, <2>1
  <2>4. Fits(shown \o page, View, stayed, left, entered)
    BY <1>1, <1>2, <1>3, <2>1, AppendPage
  <2>. QED BY <1>9, <2>2, <2>3, <2>4
<1>. QED BY <1>8, <1>9

LEMMA ListPostsStep ==
    ASSUME SocialInv, SocialInv', FeedInv, UNCHANGED vars,
           ListPosts, stage' # "closed" => Watch
    PROVE  FeedInv'
<1> DEFINE page == Page(NewestFirst(PostsOf(authors)), Len(shown), PageSize[use])
<1>1. stage = "list"
  BY DEF ListPosts
<1>2. CASE page = <<>>
  BY <1>2, CloseFeedStep DEF ListPosts
<1>3. CASE page # <<>>
  <2>1. /\ listed' = page /\ missing' = ToSet(page) /\ authors' = {} /\ stage' = "fetch"
        /\ viewer' = viewer /\ shown' = shown /\ use' = use
    BY <1>3 DEF ListPosts, vars
  <2>2. /\ page \in Seq(PostId) /\ Len(page) <= PageSize[use]
        /\ Fits(shown \o page, View, stayed, left, entered)
    BY <1>1, <1>3, PageListed
  <2> HIDE DEF page
  <2>3. /\ FeedTypeOK /\ stayed \subseteq View /\ viewer \in Wallet /\ use \in DOMAIN PageSize
        /\ Fits(shown, View, stayed, left, entered)
    BY <1>1 DEF FeedInv
  <2>4. shown \in Seq(PostId) /\ shown \o page \in Seq(PostId)
    BY <2>2, <2>3 DEF FeedTypeOK
  <2>5. Watch
    BY <2>1
  <2>6. /\ stayed' \subseteq View' /\ stayed' \subseteq PostId
        /\ left' \in Nat /\ entered' \in Nat
        /\ Fits(shown, View', stayed', left', entered')
    BY <1>1, <2>1, <2>3, <2>4, <2>5, WatchStep
  <2>7. Fits(shown \o page, View', stayed', left', entered')
    BY <1>1, <2>1, <2>2, <2>3, <2>4, <2>5, WatchStep
  <2>8. FeedTypeOK'
    BY <2>1, <2>2, <2>3, <2>6 DEF FeedTypeOK
  <2>. QED BY <2>1, <2>3, <2>6, <2>7, <2>8 DEF FeedInv
<1>. QED BY <1>2, <1>3

LEMMA GetPostByIdStep ==
    ASSUME SocialInv, SocialInv', FeedInv, UNCHANGED vars,
           NEW p \in PostId, GetPostById(p), Watch
    PROVE  FeedInv'
<1>1. /\ stage = "fetch" /\ missing' = missing \ {p}
      /\ viewer' = viewer /\ authors' = authors /\ use' = use
      /\ stage' # "list"
      /\ \/ shown' = shown \o listed /\ listed' = <<>> /\ stage' = "ask" /\ missing' = {}
         \/ UNCHANGED <<shown, listed, stage>>
  BY DEF GetPostById, vars
<1>2. /\ FeedTypeOK /\ stayed \subseteq View /\ viewer \in Wallet /\ use \in DOMAIN PageSize
      /\ Fits(shown, View, stayed, left, entered)
      /\ Fits(shown \o listed, View, stayed, left, entered)
  BY <1>1 DEF FeedInv
<1>3. shown \in Seq(PostId) /\ listed \in Seq(PostId) /\ shown \o listed \in Seq(PostId)
  BY <1>2 DEF FeedTypeOK
<1>4. /\ stayed' \subseteq View' /\ stayed' \subseteq PostId
      /\ left' \in Nat /\ entered' \in Nat
      /\ Fits(shown, View', stayed', left', entered')
  BY <1>1, <1>2, <1>3, WatchStep
<1>5. Fits(shown \o listed, View', stayed', left', entered')
  BY <1>1, <1>2, <1>3, WatchStep
<1>6. CASE shown' = shown \o listed /\ listed' = <<>> /\ stage' = "ask" /\ missing' = {}
  <2>1. FeedTypeOK'
    BY <1>1, <1>2, <1>3, <1>4, <1>6 DEF FeedTypeOK
  <2>. QED BY <1>1, <1>2, <1>4, <1>5, <1>6, <2>1 DEF FeedInv
<1>7. CASE UNCHANGED <<shown, listed, stage>>
  <2>1. missing' \subseteq ToSet(listed)
    BY <1>1, <1>2 DEF FeedTypeOK
  <2>2. FeedTypeOK'
    BY <1>1, <1>2, <1>4, <1>7, <2>1 DEF FeedTypeOK
  <2>. QED BY <1>1, <1>2, <1>4, <1>5, <1>7, <2>2 DEF FeedInv
<1>. QED BY <1>1, <1>6, <1>7

LEMMA PageFailsStep ==
    ASSUME SocialInv, SocialInv', FeedInv, UNCHANGED vars, PageFails, Watch
    PROVE  FeedInv'
<1>1. /\ stage \in {"list", "fetch"} /\ stage' = "ask"
      /\ authors' = {} /\ listed' = <<>> /\ missing' = {}
      /\ viewer' = viewer /\ shown' = shown /\ use' = use
  BY DEF PageFails, vars
<1>2. /\ FeedTypeOK /\ stayed \subseteq View /\ viewer \in Wallet /\ use \in DOMAIN PageSize
      /\ Fits(shown, View, stayed, left, entered)
  BY <1>1 DEF FeedInv
<1>3. shown \in Seq(PostId)
  BY <1>2 DEF FeedTypeOK
<1>4. /\ stayed' \subseteq View' /\ stayed' \subseteq PostId
      /\ left' \in Nat /\ entered' \in Nat
      /\ Fits(shown, View', stayed', left', entered')
  BY <1>1, <1>2, <1>3, WatchStep
<1>5. FeedTypeOK'
  BY <1>1, <1>2, <1>4 DEF FeedTypeOK
<1>. QED BY <1>1, <1>2, <1>4, <1>5 DEF FeedInv

LEMMA FeedStutter ==
    ASSUME FeedInv, UNCHANGED feedVars
    PROVE  FeedInv'
<1>1. UNCHANGED <<vars, viewer, stage, authors, listed, missing, shown, stayed, left, entered>>
      /\ use' = use
  BY DEF feedVars, reader, history, vars
<1>2. View' = View
  <2>1. UNCHANGED <<hash, follows, posts>>
    BY <1>1, Stutter
  <2>. QED BY <1>1, <2>1 DEF View, Feed, PostsOf, AuthorsFor, Following, HasAccount
<1>3. FeedTypeOK'
  BY <1>1 DEF FeedInv, FeedTypeOK
<1>. QED BY <1>1, <1>2, <1>3 DEF FeedInv

LEMMA FeedStep ==
    ASSUME SocialInv, SocialInv', FeedInv, [FeedNext]_feedVars
    PROVE  FeedInv'
<1>1. CASE Next /\ UNCHANGED reader /\ Watch
  BY <1>1, OthersStep
<1>2. ASSUME UNCHANGED vars, NEW w \in Wallet, OpenFeed(w)
      PROVE  FeedInv'
  BY <1>2, OpenFeedStep
<1>3. CASE UNCHANGED vars /\ FindAuthors
  BY <1>3, FindAuthorsStep
<1>4. CASE UNCHANGED vars /\ ListPosts /\ (stage' # "closed" => Watch)
  BY <1>4, ListPostsStep
<1>5. CASE UNCHANGED vars /\ PageFails /\ Watch
  BY <1>5, PageFailsStep
<1>6. ASSUME UNCHANGED vars, NEW p \in PostId, GetPostById(p), Watch
      PROVE  FeedInv'
  BY <1>6, GetPostByIdStep
<1>7. CASE UNCHANGED feedVars
  BY <1>7, FeedStutter
<1>. QED BY <1>1, <1>2, <1>3, <1>4, <1>5, <1>6, <1>7 DEF FeedNext, Read
-------------------------------------------------------------------------------
(* The handlers keep their invariants whatever the reader does.            *)
THEOREM FeedKeepsSocial == FeedSpec => Spec
<1>1. FeedInit => Init
  BY DEF FeedInit
<1>2. [FeedNext]_feedVars => [Next]_vars
  BY FeedNextIs
<1>. QED BY <1>1, <1>2, PTL DEF FeedSpec, Spec

(* What the client has always fits the list it is cut from: as many repeats as
   posts entered at most, nobody deep in the list without as many above, and
   as many unseen ones above the next page as posts left.                  *)
THEOREM FeedInvariant == FeedSpec => []FeedInv
<1>1. FeedInit => FeedInv
  BY FeedStart
<1>2. SocialInv /\ SocialInv' /\ FeedInv /\ [FeedNext]_feedVars => FeedInv'
  BY FeedStep
<1>3. FeedSpec => []SocialInv
  BY FeedKeepsSocial, SocialInvariant, PTL
<1>. QED BY <1>1, <1>2, <1>3, PTL DEF FeedSpec

(* The reader keeps its types: a page has as many posts as it was asked for at
   most, and only posts that were listed are fetched.                      *)
THEOREM FeedTypeCorrect == FeedSpec => []FeedTypeOK
BY FeedInvariant, PTL DEF FeedInv

(* A client that pages through a feed sees a post again only if others were
   written, or their author followed, meanwhile: each repeats at most one, for
   any page size, any number of requests and however often a page fails.   *)
THEOREM RepeatsAreBounded == FeedSpec => []NothingRepeated
<1>1. FeedInv => NothingRepeated
  <2> SUFFICES ASSUME FeedInv
               PROVE  NothingRepeated
    OBVIOUS
  <2>1. CASE stage = "closed"
    <3>1. shown = <<>> /\ entered = 0
      BY <2>1 DEF FeedInv
    <3>2. Len(<<>>) = 0 /\ ToSet(<<>>) = {} /\ Cardinality({}) = 0
      BY FS_EmptySet DEF ToSet
    <3>. QED BY <3>1, <3>2 DEF NothingRepeated
  <2>2. CASE stage # "closed"
    BY <2>2 DEF FeedInv, Fits, NothingRepeated
  <2>. QED BY <2>1, <2>2
<1>. QED BY <1>1, FeedInvariant, PTL

(* A post that is in the feed while a client pages through all of it is shown,
   unless others left the feed meanwhile: each hides at most one.          *)
THEOREM MissesAreBounded == FeedSpec => NothingMissed
<1>1. ASSUME SocialInv, FeedInv, [FeedNext]_feedVars, stage = "list", stage' = "closed"
      PROVE  Cardinality(stayed \ ToSet(shown)) <= left
  <2>1. ListPosts
    BY <1>1 DEF FeedNext, Read, FindAuthors, PageFails, GetPostById, OpenFeed, reader, feedVars
  <2>2. Page(NewestFirst(PostsOf(authors)), Len(shown), PageSize[use]) = <<>>
    BY <1>1, <2>1 DEF ListPosts
  <2>. QED BY <1>1, <2>2, PageListed
<1>2. SocialInv /\ FeedInv /\ [FeedNext]_feedVars =>
        [stage = "list" /\ stage' = "closed" => Cardinality(stayed \ ToSet(shown)) <= left]_feedVars
  BY <1>1
<1>3. FeedSpec => []SocialInv
  BY FeedKeepsSocial, SocialInvariant, PTL
<1>. QED BY <1>2, <1>3, FeedInvariant, PTL DEF FeedSpec, NothingMissed
===============================================================================
