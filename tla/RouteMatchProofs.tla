-------------------------- MODULE RouteMatchProofs --------------------------
(***************************************************************************)
(* What is proved of the route matchers, for every routing table and every *)
(* request: that sorting a copy of the table and taking the first route    *)
(* that fits finds the longest prefix, and the first of equally long ones, *)
(* and when the two matchers agree.                                        *)
(***************************************************************************)
EXTENDS RouteMatch, ArrangeProofs

\* A table of any length, with routes of any kind that have a prefix.
IsTable(routes) ==
    /\ Len(routes) \in Nat /\ DOMAIN routes = 1 .. Len(routes)
    /\ \A i \in DOMAIN routes : Len(routes[i].prefix) \in Nat

\* Route j is tried no later than route i.
Before(routes, j, i) ==
    \/ Len(routes[j].prefix) > Len(routes[i].prefix)
    \/ Len(routes[j].prefix) = Len(routes[i].prefix) /\ j <= i

Rank(routes, i) == Cardinality({j \in DOMAIN routes : Before(routes, j, i)})

\* Where ByPrefixLength takes its k-th route from.
Place(routes, k) == CHOOSE i \in DOMAIN routes : Rank(routes, i) = k

-----------------------------------------------------------------------------
\* The order in which routes are tried is total.
LEMMA BeforeIsTotal ==
    ASSUME NEW routes, IsTable(routes), NEW i \in DOMAIN routes, NEW j \in DOMAIN routes
    PROVE  /\ Before(routes, i, i)
           /\ Before(routes, i, j) \/ Before(routes, j, i)
           /\ Before(routes, i, j) /\ Before(routes, j, i) => i = j
           /\ \A k \in DOMAIN routes :
                 Before(routes, k, i) /\ Before(routes, i, j) => Before(routes, k, j)
  BY DEF IsTable, Before

\* A route that is tried later has a greater rank.
LEMMA RankGrows ==
    ASSUME NEW routes, IsTable(routes), NEW i \in DOMAIN routes, NEW j \in DOMAIN routes,
           Before(routes, i, j), i # j
    PROVE  Rank(routes, i) < Rank(routes, j)
  <1> DEFINE upTo(k) == {l \in DOMAIN routes : Before(routes, l, k)}
  <1>1. IsFiniteSet(DOMAIN routes)
    BY FS_Interval DEF IsTable
  <1>2. IsFiniteSet(upTo(i)) /\ IsFiniteSet(upTo(j))
    BY <1>1, FS_Subset
  <1>3. upTo(i) \subseteq upTo(j)
    BY BeforeIsTotal
  <1>4. j \in upTo(j) /\ j \notin upTo(i)
    BY BeforeIsTotal
  <1>5. Cardinality(upTo(i)) <= Cardinality(upTo(j)) /\ Cardinality(upTo(i)) # Cardinality(upTo(j))
    BY <1>2, <1>3, <1>4, FS_Subset
  <1>6. Cardinality(upTo(i)) \in Nat /\ Cardinality(upTo(j)) \in Nat
    BY <1>2, FS_CardinalityType
  <1> QED
    BY <1>5, <1>6 DEF Rank

\* Ranks are the positions of the sorted table, each taken once.
LEMMA RankIsPosition ==
    ASSUME NEW routes, IsTable(routes)
    PROVE  /\ \A i \in DOMAIN routes : Rank(routes, i) \in DOMAIN routes
           /\ \A i, j \in DOMAIN routes : Rank(routes, i) = Rank(routes, j) => i = j
           /\ \A k \in DOMAIN routes : \E i \in DOMAIN routes : Rank(routes, i) = k
  <1> DEFINE upTo(k) == {l \in DOMAIN routes : Before(routes, l, k)}
             rank == [i \in DOMAIN routes |-> Rank(routes, i)]
  <1>1. IsFiniteSet(DOMAIN routes) /\ Cardinality(DOMAIN routes) = Len(routes)
    BY FS_Interval DEF IsTable
  <1>2. ASSUME NEW i \in DOMAIN routes PROVE Rank(routes, i) \in DOMAIN routes
    <2>1. /\ IsFiniteSet(upTo(i))
          /\ Cardinality(upTo(i)) <= Len(routes)
      BY <1>1, FS_Subset
    <2>2. Cardinality(upTo(i)) \in Nat
      BY <2>1, FS_CardinalityType
    <2>3. i \in upTo(i)
      BY BeforeIsTotal
    <2>4. Cardinality(upTo(i)) # 0
      BY <2>1, <2>3, FS_EmptySet
    <2> QED
      BY <2>1, <2>2, <2>4 DEF Rank, IsTable
  <1>3. ASSUME NEW i \in DOMAIN routes, NEW j \in DOMAIN routes,
               Rank(routes, i) = Rank(routes, j)
        PROVE  i = j
    <2>1. Rank(routes, i) \in Nat /\ Rank(routes, j) \in Nat
      BY <1>2 DEF IsTable
    <2> QED
      BY <1>3, <2>1, BeforeIsTotal, RankGrows
  <1>4. rank \in Injection(DOMAIN routes, DOMAIN routes)
    BY <1>2, <1>3 DEF Injection, IsInjective
  <1> HIDE DEF rank
  <1>5. rank \in Surjection(DOMAIN routes, DOMAIN routes)
    BY <1>1, <1>4, FS_Injection
  <1> QED
    BY <1>2, <1>3, <1>5 DEF Surjection, rank

\* Place is the inverse of Rank.
LEMMA PlaceOfRank ==
    ASSUME NEW routes, IsTable(routes)
    PROVE  /\ \A k \in DOMAIN routes :
                 Place(routes, k) \in DOMAIN routes /\ Rank(routes, Place(routes, k)) = k
           /\ \A i \in DOMAIN routes : Place(routes, Rank(routes, i)) = i
  <1>1. \A k \in DOMAIN routes :
            Place(routes, k) \in DOMAIN routes /\ Rank(routes, Place(routes, k)) = k
    BY RankIsPosition DEF Place
  <1> QED
    BY <1>1, RankIsPosition

LEMMA SortedByPlace ==
    ASSUME NEW routes
    PROVE  /\ DOMAIN ByPrefixLength(routes) = DOMAIN routes
           /\ \A k \in DOMAIN routes : ByPrefixLength(routes)[k] = routes[Place(routes, k)]
  BY DEF ByPrefixLength, Place, Rank, Before
-----------------------------------------------------------------------------
\* What Prescribed takes: of the routes that fit, the one tried first.
FirstFit(routes, i, request) ==
    /\ i \in DOMAIN routes /\ FitsRequest(routes[i], request)
    /\ \A j \in DOMAIN routes : FitsRequest(routes[j], request) => Before(routes, i, j)

LEMMA PrescribedIsFirstFit ==
    ASSUME NEW routes, IsTable(routes), NEW request, NEW i, FirstFit(routes, i, request)
    PROVE  Prescribed(routes, request) = routes[i]
  <1> DEFINE fitting == {j \in DOMAIN routes : FitsRequest(routes[j], request)}
             first(k) == \A j \in fitting :
                            \/ Len(routes[j].prefix) < Len(routes[k].prefix)
                            \/ Len(routes[j].prefix) = Len(routes[k].prefix) /\ k <= j
  <1>1. i \in fitting /\ first(i)
    BY DEF FirstFit, Before, IsTable
  <1>2. \A k \in fitting : first(k) => k = i
    <2> SUFFICES ASSUME NEW k \in fitting, first(k) PROVE k = i
      OBVIOUS
    <2>1. Before(routes, k, i) /\ Before(routes, i, k)
      BY <1>1 DEF FirstFit, Before, IsTable
    <2> QED
      BY <1>1, <2>1, BeforeIsTotal
  <1>3. (CHOOSE k \in fitting : first(k)) = i
    <2> HIDE DEF fitting, first
    <2> QED
      BY <1>1, <1>2
  <1>4. fitting # {}
    BY <1>1
  <1> QED
    BY <1>3, <1>4 DEF Prescribed

\* For every routing table and every request, the gateway's matcher, which
\* sorts the table and takes the first route that fits, finds the route with
\* the longest prefix that fits, the first in the table among equals.
THEOREM LongestPrefixMatched ==
    ASSUME NEW routes, IsTable(routes), NEW request
    PROVE  MatchRequest(routes, request) = Prescribed(routes, request)
  <1> DEFINE sorted == ByPrefixLength(routes)
             fitting == {k \in DOMAIN sorted :
                            \E route \in {sorted[k]} : FitsRequest(route, request)}
  <1>1. /\ DOMAIN sorted = DOMAIN routes
        /\ \A k \in DOMAIN routes : sorted[k] = routes[Place(routes, k)]
    BY SortedByPlace
  <1>2. fitting = {k \in DOMAIN routes : FitsRequest(routes[Place(routes, k)], request)}
    BY <1>1
  <1>3. MatchRequest(routes, request) = FirstOf(sorted, fitting)
    BY DEF MatchRequest
  <1> HIDE DEF sorted, fitting
  <1>4. CASE fitting = {}
    <2>1. \A i \in DOMAIN routes : ~FitsRequest(routes[i], request)
      BY <1>2, <1>4, PlaceOfRank, RankIsPosition
    <2>2. {i \in DOMAIN routes : FitsRequest(routes[i], request)} = {}
      BY <2>1
    <2> QED
      BY <1>3, <1>4, <2>2 DEF FirstOf, Prescribed
  <1>5. CASE fitting # {}
    <2>1. fitting \in SUBSET Nat
      BY <1>2 DEF IsTable
    <2> DEFINE first == CHOOSE k \in fitting : \A j \in fitting : k <= j
    <2>2. first \in fitting /\ \A j \in fitting : first <= j
      BY <1>5, <2>1, FirstExists
    <2>3. MatchRequest(routes, request) = sorted[first]
      BY <1>3, <1>5 DEF FirstOf
    <2> HIDE DEF first
    <2> DEFINE i == Place(routes, first)
    <2>4. /\ first \in DOMAIN routes /\ i \in DOMAIN routes
          /\ Rank(routes, i) = first /\ FitsRequest(routes[i], request)
      BY <1>2, <2>2, PlaceOfRank
    <2>5. ASSUME NEW j \in DOMAIN routes, FitsRequest(routes[j], request)
          PROVE  Before(routes, i, j)
      <3>1. Rank(routes, j) \in fitting
        BY <1>2, <2>5, PlaceOfRank, RankIsPosition
      <3>2. Rank(routes, i) <= Rank(routes, j)
        BY <2>2, <2>4, <3>1
      <3>3. Rank(routes, i) \in Nat /\ Rank(routes, j) \in Nat
        BY <2>1, <2>2, <2>4, <3>1
      <3>4. ~(Rank(routes, j) < Rank(routes, i))
        BY <3>2, <3>3
      <3> QED
        BY <2>4, <3>4, BeforeIsTotal, RankGrows
    <2>6. Prescribed(routes, request) = routes[i]
      BY <2>4, <2>5, PrescribedIsFirstFit DEF FirstFit
    <2> QED
      BY <1>1, <2>3, <2>4, <2>6
  <1> QED
    BY <1>4, <1>5

\* Of a prefix that ends in at most one slash, both trim the same.
LEMMA TrimsAgree ==
    ASSUME NEW p \in Seq(STRING), ~EndsInTwoSlashes(p)
    PROVE  TrimSlashes(p) = TrimOneSlash(p)
  <1> DEFINE kept == {i \in DOMAIN p : p[i] # "/"}
             last == CHOOSE i \in kept : \A j \in kept : j <= i
  <1>1. Len(p) \in Nat /\ DOMAIN p = 1 .. Len(p)
    OBVIOUS
  <1>2. ASSUME NEW i \in kept, \A j \in kept : j <= i PROVE kept # {} /\ last = i
    <2>1. \A k \in kept : (\A j \in kept : j <= k) => k = i
      BY <1>1, <1>2
    <2> HIDE DEF kept
    <2> QED
      BY <1>2, <2>1
  <1>3. SubSeq(p, 1, Len(p)) = p /\ (Len(p) = 0 => p = <<>> /\ SubSeq(p, 1, 0) = p)
    OBVIOUS
  <1>4. CASE Len(p) = 0
    <2>1. kept = {} /\ p = <<>>
      BY <1>1, <1>3, <1>4
    <2> QED
      BY <1>3, <1>4, <2>1 DEF TrimSlashes, TrimOneSlash
  <1>5. CASE Len(p) > 0 /\ p[Len(p)] # "/"
    <2>1. Len(p) \in kept /\ \A j \in kept : j <= Len(p)
      BY <1>1, <1>5
    <2>2. kept # {} /\ last = Len(p)
      BY <1>2, <2>1
    <2>3. TrimSlashes(p) = p
      BY <1>3, <2>2 DEF TrimSlashes
    <2>4. TrimOneSlash(p) = p
      BY <1>5 DEF TrimOneSlash, Last
    <2> QED
      BY <2>3, <2>4
  <1>6. CASE Len(p) = 1 /\ p[1] = "/"
    <2>1. kept = {} /\ p # <<>>
      <3>1. \A i \in DOMAIN p : i = 1
        BY <1>1, <1>6
      <3>2. kept = {}
        BY <1>6, <3>1
      <3>3. Len(<<>>) # 1
        OBVIOUS
      <3>4. p # <<>>
        BY <1>6, <3>3, Zenon
      <3> QED
        BY <3>2, <3>4
    <2>2. TrimSlashes(p) = SubSeq(p, 1, 0)
      BY <2>1 DEF TrimSlashes
    <2>3. TrimOneSlash(p) = SubSeq(p, 1, 0)
      BY <1>6, <2>1 DEF TrimOneSlash, Last, Front
    <2> QED
      BY <2>2, <2>3
  <1>7. CASE Len(p) > 1 /\ p[Len(p)] = "/"
    <2>1. /\ Len(p) - 1 \in kept /\ \A j \in kept : j <= Len(p) - 1
          /\ p # <<>>
      BY <1>1, <1>7 DEF EndsInTwoSlashes
    <2>2. kept # {} /\ last = Len(p) - 1
      BY <1>2, <2>1
    <2>3. TrimSlashes(p) = SubSeq(p, 1, Len(p) - 1)
      BY <2>2 DEF TrimSlashes
    <2>4. TrimOneSlash(p) = SubSeq(p, 1, Len(p) - 1)
      BY <1>7, <2>1 DEF TrimOneSlash, Last, Front
    <2> QED
      BY <2>3, <2>4
  <1> QED
    BY <1>1, <1>4, <1>5, <1>6, <1>7

\* The gateway cuts all slashes off the end of a prefix and the router Worker
\* one.  They match the same route for every request in every table in which no
\* prefix ends in two.
THEOREM MatchersAgree ==
    ASSUME NEW routes, IsTable(routes), NEW request,
           \A i \in DOMAIN routes :
               routes[i].prefix \in Seq(STRING) /\ ~EndsInTwoSlashes(routes[i].prefix)
    PROVE  MatchRoute(routes, request) = MatchRequest(routes, request)
  <1> DEFINE sorted == ByPrefixLength(routes)
  <1>1. \A k \in DOMAIN sorted : Place(routes, k) \in DOMAIN routes
                                 /\ sorted[k] = routes[Place(routes, k)]
    BY SortedByPlace, PlaceOfRank
  <1>2. \A k \in DOMAIN sorted :
            FitsInRouter(sorted[k], request) <=> FitsRequest(sorted[k], request)
    BY <1>1, TrimsAgree DEF FitsInRouter, FitsRequest
  <1> HIDE DEF sorted
  <1>3. {k \in DOMAIN sorted : \E route \in {sorted[k]} : FitsInRouter(route, request)}
        = {k \in DOMAIN sorted : \E route \in {sorted[k]} : FitsRequest(route, request)}
    BY <1>2
  <1> QED
    BY <1>3 DEF MatchRoute, MatchRequest, sorted
=============================================================================
