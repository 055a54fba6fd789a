--------------------------- MODULE Handoff_proofs ---------------------------
(***************************************************************************)
(* Proofs about how an order becomes a handoff: the catalog of a stop, the *)
(* plan of a handoff, and the call that places it.                         *)
(*                                                                         *)
(* The catalog of a stop, for every set of stops, kitchens and requests.   *)
(* Serve: a request is new, refused, or at a place of its handler, and     *)
(* Knows says what it has learnt by then.  CanBeListed: a finite set with  *)
(* a strict total order can be listed in it, so the handler's order of the *)
(* kitchens exists.                                                        *)
(*                                                                         *)
(* What is worked out about a handoff, for every question.  LoopIs,        *)
(* LoopsAgree: the values of a recursive function over the places of a     *)
(* list are those of a loop, and two loops agree as far as they take the   *)
(* same steps; so a line more adds to a sum, a sequence more comes after   *)
(* those joined, and the hops of a list stay good line by line (GoodHops). *)
(*                                                                         *)
(* The call that places an order, for any number of calls, attempts and    *)
(* faults: it is executed again only for an attempt that callTool repeated *)
(* blindly, and to its caller a call never is anything but a call of       *)
(* PlaceCall.                                                              *)
(***************************************************************************)
EXTENDS StopCatalog, HandoffPlan, SwiggyClient, FiniteSetTheorems, FunctionTheorems, SequenceTheorems,
        WellFoundedInduction, TLAPS


----------------------------------------------------------------------------
\* A finite set with a strict total order can be listed in that order.
LEMMA CanBeListed ==
    ASSUME NEW S, IsFiniteSet(S), NEW R,
           \A x \in S : <<x, x>> \notin R,
           \A x, y, z \in S : <<x, y>> \in R /\ <<y, z>> \in R => <<x, z>> \in R,
           \A x, y \in S : x # y => <<x, y>> \in R \/ <<y, x>> \in R
    PROVE  \E q \in SetToSeqs(S) : \A m, n \in 1..Cardinality(S) : m < n => <<q[m], q[n]>> \in R
<1> DEFINE N == Cardinality(S)
           below(x) == {y \in S : <<y, x>> \in R}
           r == [x \in S |-> Cardinality(below(x)) + 1]
<1>1. N \in Nat /\ IsFiniteSet(1..N) /\ Cardinality(1..N) = N
  BY FS_CardinalityType, FS_Interval
<1>2. \A x \in S : /\ IsFiniteSet(below(x)) /\ Cardinality(below(x)) \in Nat
                   /\ Cardinality(below(x)) < N
  <2> SUFFICES ASSUME NEW x \in S
               PROVE  /\ IsFiniteSet(below(x)) /\ Cardinality(below(x)) \in Nat
                      /\ Cardinality(below(x)) < N
    OBVIOUS
  <2>1. below(x) \subseteq S /\ below(x) # S
    OBVIOUS
  <2> HIDE DEF below
  <2> QED  BY <2>1, <1>1, FS_Subset, FS_CardinalityType
<1>3. \A x, y \in S : <<x, y>> \in R => Cardinality(below(x)) < Cardinality(below(y))
  <2> SUFFICES ASSUME NEW x \in S, NEW y \in S, <<x, y>> \in R
               PROVE  Cardinality(below(x)) < Cardinality(below(y))
    OBVIOUS
  <2>1. below(x) \subseteq below(y) /\ x \in below(y) /\ x \notin below(x)
    OBVIOUS
  <2>2. /\ IsFiniteSet(below(y)) /\ Cardinality(below(y)) \in Nat
        /\ IsFiniteSet(below(x)) /\ Cardinality(below(x)) \in Nat
    BY <1>2
  <2> HIDE DEF below
  <2>3. Cardinality(below(x)) <= Cardinality(below(y)) /\ Cardinality(below(x)) # Cardinality(below(y))
    BY <2>1, <2>2, FS_Subset
  <2> QED  BY <2>2, <2>3
<1> HIDE DEF below
<1>r. \A x \in S : r[x] = Cardinality(below(x)) + 1 /\ r[x] \in 1..N
  BY <1>1, <1>2
<1>o. \A x, y \in S : <<x, y>> \in R => r[x] < r[y]
  <2> SUFFICES ASSUME NEW x \in S, NEW y \in S, <<x, y>> \in R PROVE r[x] < r[y]
    OBVIOUS
  <2>1. Cardinality(below(x)) < Cardinality(below(y))
    BY <1>3
  <2> QED  BY <2>1, <1>2, <1>r
<1>4. r \in Injection(S, 1..N)
  <2>1. r \in [S -> 1..N]
    BY <1>r
  <2>2. \A x, y \in S : r[x] = r[y] => x = y
    <3> SUFFICES ASSUME NEW x \in S, NEW y \in S, r[x] = r[y], x # y PROVE FALSE
      OBVIOUS
    <3>1. r[x] < r[y] \/ r[y] < r[x]
      BY <1>o
    <3> QED  BY <3>1, <1>r
  <2> QED  BY <2>1, <2>2 DEF Injection, IsInjective
<1>5. r \in Surjection(S, 1..N)
  <2>1. Cardinality(S) = Cardinality(1..N)
    BY <1>1
  <2> HIDE DEF r, N
  <2> QED  BY <1>1, <1>4, <2>1, FS_Injection
<1>6. \A x, y \in S : r[x] < r[y] => <<x, y>> \in R
  <2> SUFFICES ASSUME NEW x \in S, NEW y \in S, r[x] < r[y], <<x, y>> \notin R PROVE FALSE
    OBVIOUS
  <2>1. x # y
    BY <1>r
  <2>2. r[y] < r[x]
    BY <2>1, <1>o
  <2> QED  BY <2>2, <1>r
<1> HIDE DEF r, N
<1> DEFINE q == [m \in 1..N |-> CHOOSE x \in S : r[x] = m]
<1>7. \A m \in 1..N : q[m] \in S /\ r[q[m]] = m
  BY <1>5 DEF Surjection
<1> HIDE DEF q
<1>8. q \in [1..N -> S]
  BY <1>7 DEF q
<1>9. q \in SetToSeqs(S)
  <2>1. \A i, j \in 1..N : i # j => q[i] # q[j]
    BY <1>7
  <2> QED  BY <1>8, <2>1 DEF SetToSeqs, N
<1>10. \A m, n \in 1..N : m < n => <<q[m], q[n]>> \in R
  BY <1>6, <1>7
<1> QED  BY <1>9, <1>10 DEF N

\* A list of all of a finite set names each of them.
LEMMA ListsAll ==
    ASSUME NEW S, IsFiniteSet(S), NEW q \in SetToSeqs(S)
    PROVE  /\ q \in Seq(S) /\ DOMAIN q = 1..Cardinality(S) /\ Len(q) = Cardinality(S)
           /\ ToSet(q) = S
<1> DEFINE N == Cardinality(S)
<1>1. N \in Nat /\ IsFiniteSet(1..N) /\ Cardinality(1..N) = N
  BY FS_CardinalityType, FS_Interval
<1>2. q \in [1..N -> S] /\ \A i, j \in 1..N : i # j => q[i] # q[j]
  BY DEF SetToSeqs
<1>3. q \in Injection(1..N, S)
  BY <1>2 DEF Injection, IsInjective
<1>4. q \in Surjection(1..N, S)
  <2> HIDE DEF N
  <2> QED  BY <1>1, <1>3, FS_Injection DEF N
<1>5. ToSet(q) = S
  BY <1>2, <1>4 DEF ToSet, Surjection
<1> QED  BY <1>1, <1>2, <1>5

----------------------------------------------------------------------------
\* The order of the kitchens.

Zones == [ok : BOOLEAN, area : BOOLEAN, span : Nat]
Told  == OrAbsent(0 .. 14400)
Tolds == [DOMAIN Kitchens -> Told]
Open  == {i \in DOMAIN Kitchens : Kitchens[i].open}

\* A list is helpful when it names the open kitchens, and those outside come last.
Helpful(list, z) ==
    /\ ToSet(list) = Open
    /\ \A i, j \in DOMAIN list : i < j =>
          ~(Inside(Kitchens[list[i]], z) = FALSE /\ Inside(Kitchens[list[j]], z) = TRUE)

LEMMA AbsentIsNoAnswer == Absent \notin BOOLEAN
  BY KitchensAssumption

LEMMA KitchensAre == IsFiniteSet(Open) /\ Open \subseteq Nat /\ \A i \in Open : Kitchens[i] \in Kits
<1>1. Kitchens \in Seq(Kits)
  BY KitchensAssumption
<1>2. /\ Len(Kitchens) \in Nat /\ DOMAIN Kitchens = 1..Len(Kitchens)
      /\ \A i \in DOMAIN Kitchens : Kitchens[i] \in Kits
  BY <1>1, LenProperties
<1>3. Open \subseteq 1..Len(Kitchens)
  BY <1>2 DEF Open
<1>4. IsFiniteSet(Open)
  <2>1. IsFiniteSet(1..Len(Kitchens))
    BY <1>2, FS_Interval
  <2> QED  BY <1>3, <2>1, FS_Subset
<1> QED  BY <1>2, <1>3, <1>4

\* Ride times are numbers, and less than 15,000 s to a kitchen within 25 minutes.
LEMMA RidesAre ==
    \A k \in Kits, says \in Told :
        /\ RideTime(k, says) \in Nat
        /\ k.km # Absent /\ k.km * 180 <= 1500 => RideTime(k, says) < 15000
<1> SUFFICES ASSUME NEW k \in Kits, NEW says \in Told
             PROVE  /\ RideTime(k, says) \in Nat
                    /\ k.km # Absent /\ k.km * 180 <= 1500 => RideTime(k, says) < 15000
  OBVIOUS
<1>1. k.km \in OrAbsent(Nat) /\ k.crow \in Nat
  BY DEF Kits
<1>2. says # Absent => says \in 0..14400
  BY DEF Told, OrAbsent
<1>3. k.km # Absent => k.km \in Nat
  BY <1>1 DEF OrAbsent
<1>4. CASE says # Absent
  <2>1. RideTime(k, says) = says
    BY <1>4 DEF RideTime
  <2>2. says \in 0..14400
    BY <1>2, <1>4
  <2>3. says \in Nat /\ says < 15000
    BY <2>2
  <2>4. RideTime(k, says) \in Nat /\ RideTime(k, says) < 15000
    BY <2>1, <2>3
  <2> QED  BY <2>4
<1>5. CASE says = Absent /\ k.km # Absent
  <2>1. RideTime(k, says) = k.km * 180
    BY <1>5 DEF RideTime
  <2> QED  BY <1>3, <1>5, <2>1
<1>6. CASE says = Absent /\ k.km = Absent
  <2>1. RideTime(k, says) \in Nat
    BY <1>1, <1>6 DEF RideTime
  <2> QED  BY <1>6, <2>1
<1> QED  BY <1>4, <1>5, <1>6

\* The list that the handler answers with is helpful.
LEMMA RankIsHelpful ==
    \A times \in Tolds, z \in Zones :
        /\ RankRestaurantsForIntercept(times, z) \in Seq(Nat)
        /\ Helpful(RankRestaurantsForIntercept(times, z), z)
<1> SUFFICES ASSUME NEW times \in Tolds, NEW z \in Zones
             PROVE  /\ RankRestaurantsForIntercept(times, z) \in Seq(Nat)
                    /\ Helpful(RankRestaurantsForIntercept(times, z), z)
  OBVIOUS
<1> DEFINE outside(i) == z.area /\ Inside(Kitchens[i], z) = FALSE
           score(i) == RankScore(Kitchens[i], times[i], z)
           before(i, j) == \/ outside(j) /\ ~outside(i)
                           \/ (outside(j) <=> outside(i)) /\ (score(i) > score(j) \/ (score(i) = score(j) /\ i < j))
           R == {p \in Open \X Open : before(p[1], p[2])}
           N == Cardinality(Open)
           list == RankRestaurantsForIntercept(times, z)
<1>1. \A i \in Open : score(i) \in Int /\ i \in Nat /\ times[i] \in Told
  <2> SUFFICES ASSUME NEW i \in Open PROVE score(i) \in Int /\ i \in Nat /\ times[i] \in Told
    OBVIOUS
  <2>1. i \in Nat /\ times[i] \in Told
    BY KitchensAre DEF Tolds, Open
  <2>2. RideTime(Kitchens[i], times[i]) \in Nat
    BY <2>1, RidesAre, KitchensAre
  <2> QED  BY <2>1, <2>2 DEF RankScore
<1>2. list = CHOOSE q \in SetToSeqs(Open) : \A m, n \in 1..N : m < n => before(q[m], q[n])
  BY DEF RankRestaurantsForIntercept, Open
<1> HIDE DEF outside, score, list
<1>3. \A x \in Open : ~before(x, x)
  BY <1>1
<1>4. \A x, y, w \in Open : before(x, y) /\ before(y, w) => before(x, w)
  BY <1>1
<1>5. \A x, y \in Open : x # y => before(x, y) \/ before(y, x)
  BY <1>1
<1> HIDE DEF before
<1>6. \A x, y \in Open : <<x, y>> \in R <=> before(x, y)
  OBVIOUS
<1> HIDE DEF R
<1>7. \E q \in SetToSeqs(Open) : \A m, n \in 1..N : m < n => <<q[m], q[n]>> \in R
  BY <1>3, <1>4, <1>5, <1>6, KitchensAre, CanBeListed
<1>8. \A q \in SetToSeqs(Open) : \A m \in 1..N : q[m] \in Open
  BY DEF SetToSeqs
<1>9. \E q \in SetToSeqs(Open) : \A m, n \in 1..N : m < n => before(q[m], q[n])
  BY <1>6, <1>7, <1>8
<1>10. list \in SetToSeqs(Open) /\ \A m, n \in 1..N : m < n => before(list[m], list[n])
  BY <1>2, <1>9
<1>11. list \in Seq(Open) /\ DOMAIN list = 1..N /\ ToSet(list) = Open
  BY <1>10, KitchensAre, ListsAll
<1>12. list \in Seq(Nat)
  BY <1>11, KitchensAre, SeqMonotonic
<1>13. ASSUME NEW i \in DOMAIN list, NEW j \in DOMAIN list, i < j,
              Inside(Kitchens[list[i]], z) = FALSE, Inside(Kitchens[list[j]], z) = TRUE
       PROVE  FALSE
  <2> DEFINE x == list[i]  y == list[j]
  <2>1. x \in Open /\ y \in Open /\ before(x, y)
    BY <1>8, <1>10, <1>11, <1>13
  <2>2. Inside(Kitchens[x], z) = FALSE /\ Inside(Kitchens[y], z) = TRUE
    BY <1>13
  <2> HIDE DEF x, y
  <2>3. CASE z.area
    BY <2>1, <2>2, <2>3 DEF before, outside
  <2>4. CASE ~z.area
    <3>1. score(x) >= score(y)
      BY <1>1, <2>1, <2>4 DEF before, outside
    <3>2. score(x) = -10000 - RideTime(Kitchens[x], times[x])
      BY <2>2 DEF score, RankScore
    <3>3. score(y) = 5000 - RideTime(Kitchens[y], times[y])
      BY <2>2 DEF score, RankScore
    <3>4. Kitchens[y].km # Absent /\ Kitchens[y].km * 180 <= RiderBudget(z.span)
      BY <2>2, <2>4, AbsentIsNoAnswer DEF Inside
    <3>5. Kitchens[y].km \in Nat
      BY <2>1, <3>4, KitchensAre DEF OrAbsent, Kits
    <3>6. z.span \in Int
      BY DEF Zones
    <3>7. RiderBudget(z.span) \in Int /\ RiderBudget(z.span) <= 1500
      BY <3>6 DEF RiderBudget
    <3>8. Kitchens[y].km * 180 <= 1500
      BY <3>4, <3>5, <3>7
    <3>9. /\ RideTime(Kitchens[x], times[x]) \in Nat /\ RideTime(Kitchens[y], times[y]) \in Nat
          /\ RideTime(Kitchens[y], times[y]) < 15000
      BY <1>1, <2>1, <3>4, <3>8, RidesAre, KitchensAre
    <3> QED  BY <3>1, <3>2, <3>3, <3>9
  <2> QED  BY <2>3, <2>4
<1> QED  BY <1>11, <1>12, <1>13 DEF Helpful, list

----------------------------------------------------------------------------
\* The handlers and their places.

AllCalls == Asks \union {"zone", "keep", "rank"}
Refusals == {400, 401, 404, 500, 502}

CallsOf(kind) == CatalogHandlers[kind].calls

\* The handlers and the calls they make.
LEMMA CallsAre ==
    /\ DOMAIN CatalogHandlers = {"reachability", "restaurants", "menu", "products", "dishes", "goto", "coverage", "meal", "halt", "other", "address", "coupons", "preview", "basket"}
    /\ CallsOf("reachability") = <<"zone", "keep">>
    /\ CallsOf("restaurants") = <<"address", "search", "zone", "rank">>
    /\ CallsOf("menu") = <<"address", "menu">>
    /\ CallsOf("products") = <<"address", "products">>
    /\ CallsOf("dishes") = <<"address", "dishes">>
    /\ CallsOf("goto") = <<"address", "goto">>
    /\ CallsOf("coverage") = <<"address", "zone", "search", "products", "goto">>
    /\ CallsOf("meal") = <<>>
    /\ CallsOf("halt") = <<>>
    /\ CallsOf("other") = <<>>
    /\ CallsOf("address") = <<"address">>
    /\ CallsOf("coupons") = <<"address", "coupons">>
    /\ CallsOf("preview") = <<"address", "update", "coupon", "read", "coupons">>
    /\ CallsOf("basket") = <<"address", "update", "read">>
  BY DEF CallsOf, CatalogHandlers, GetCoverage, MealHint, HaltGate, ReIntercept, GetReachability, Forgiving,
         Handler, GetRestaurants, GetMenu, GetProducts, MenuSearch, GoTo, Intercept, PostAddress, Coupons,
         CheckoutPreview, BasketPreview, Commerce

\* The calls and the statuses of each are calls and statuses.
LEMMA HandlersAre ==
    \A kind \in DOMAIN CatalogHandlers :
        /\ CallsOf(kind) \in Seq(AllCalls)
        /\ CatalogHandlers[kind].address \subseteq Refusals
        /\ CatalogHandlers[kind].refused \subseteq Refusals
        /\ CatalogHandlers[kind].thrown \subseteq Refusals
<1>1. {"zone", "keep", "rank", "address", "search", "menu", "products", "dishes", "goto", "coupons", "coupon",
       "update", "read"} \subseteq AllCalls
  BY DEF AllCalls, Asks
<1>2. CallsOf("reachability") \in Seq(AllCalls)
  <2>1. <<"zone", "keep">> \in Seq(AllCalls)
    BY <1>1
  <2> QED  BY <2>1, CallsAre
<1>3. CallsOf("restaurants") \in Seq(AllCalls)
  <2>1. <<"address", "search", "zone", "rank">> \in Seq(AllCalls)
    BY <1>1
  <2> QED  BY <2>1, CallsAre
<1>4. CallsOf("menu") \in Seq(AllCalls)
  <2>1. <<"address", "menu">> \in Seq(AllCalls)
    BY <1>1
  <2> QED  BY <2>1, CallsAre
<1>5. CallsOf("products") \in Seq(AllCalls)
  <2>1. <<"address", "products">> \in Seq(AllCalls)
    BY <1>1
  <2> QED  BY <2>1, CallsAre
<1>6. CallsOf("dishes") \in Seq(AllCalls)
  <2>1. <<"address", "dishes">> \in Seq(AllCalls)
    BY <1>1
  <2> QED  BY <2>1, CallsAre
<1>7. CallsOf("goto") \in Seq(AllCalls)
  <2>1. <<"address", "goto">> \in Seq(AllCalls)
    BY <1>1
  <2> QED  BY <2>1, CallsAre
<1>8. CallsOf("coverage") \in Seq(AllCalls)
  <2>1. <<"address", "zone", "search", "products", "goto">> \in Seq(AllCalls)
    BY <1>1
  <2> QED  BY <2>1, CallsAre
<1>9. CallsOf("meal") \in Seq(AllCalls)
  <2>1. <<>> \in Seq(AllCalls)
    BY <1>1
  <2> QED  BY <2>1, CallsAre
<1>10. CallsOf("halt") \in Seq(AllCalls)
  <2>1. <<>> \in Seq(AllCalls)
    BY <1>1
  <2> QED  BY <2>1, CallsAre
<1>11. CallsOf("other") \in Seq(AllCalls)
  <2>1. <<>> \in Seq(AllCalls)
    BY <1>1
  <2> QED  BY <2>1, CallsAre
<1>12. CallsOf("address") \in Seq(AllCalls)
  <2>1. <<"address">> \in Seq(AllCalls)
    BY <1>1
  <2> QED  BY <2>1, CallsAre
<1>13. CallsOf("coupons") \in Seq(AllCalls)
  <2>1. <<"address", "coupons">> \in Seq(AllCalls)
    BY <1>1
  <2> QED  BY <2>1, CallsAre
<1>14. CallsOf("preview") \in Seq(AllCalls)
  <2>1. <<"address", "update", "coupon", "read", "coupons">> \in Seq(AllCalls)
    BY <1>1
  <2> QED  BY <2>1, CallsAre
<1>15. CallsOf("basket") \in Seq(AllCalls)
  <2>1. <<"address", "update", "read">> \in Seq(AllCalls)
    BY <1>1
  <2> QED  BY <2>1, CallsAre
<1>16. \A kind \in DOMAIN CatalogHandlers :
          /\ CatalogHandlers[kind].address \subseteq Refusals
          /\ CatalogHandlers[kind].refused \subseteq Refusals
          /\ CatalogHandlers[kind].thrown \subseteq Refusals
  BY DEF CatalogHandlers, GetCoverage, MealHint, HaltGate, ReIntercept, GetReachability, Forgiving,
         Handler, GetRestaurants, GetMenu, GetProducts, MenuSearch, GoTo, Intercept, PostAddress, Coupons,
         CheckoutPreview, BasketPreview, Commerce, Refusals
<1> QED  BY <1>2, <1>3, <1>4, <1>5, <1>6, <1>7, <1>8, <1>9, <1>10, <1>11, <1>12, <1>13, <1>14, <1>15, <1>16, CallsAre

LEMMA FewNumbers ==
    \A p \in Nat \ {0} : /\ p <= 1 => p = 1
                         /\ p <= 2 => p \in {1, 2}
                         /\ p <= 3 => p \in {1, 2, 3}
                         /\ p <= 4 => p \in {1, 2, 3, 4}
                         /\ p <= 5 => p \in {1, 2, 3, 4, 5}
  OBVIOUS

ReadAt(kind) == IF kind = "preview" THEN 4 ELSE 3

PlaceIs(kind, p) ==
    LET ask == CallsOf(kind)[p]
    IN  /\ ask = "keep" => kind = "reachability" /\ p = 2
        /\ ask = "rank" => kind = "restaurants" /\ p = 4
        /\ ask = "update" => kind \in Previews /\ p = 2
        /\ ask = "read" => kind \in Previews /\ p = ReadAt(kind)
        /\ kind = "reachability" /\ p = 1 => ask = "zone"
        /\ kind = "restaurants" /\ p = 3 => ask = "zone"
        /\ kind = "restaurants" /\ p = 4 => ask = "rank"
        /\ kind \in Previews /\ p = 2 => ask = "update"
        /\ kind \in Previews /\ p = ReadAt(kind) => ask = "read"
        /\ kind = "coverage" => (p = 1 <=> ask = "address") /\ (p = 3 <=> ask = "search")
                               /\ (p \in {4, 5} <=> ask \in {"products", "goto"})

\* The call to keep an area is the second of its handler, and so on.
LEMMA PlacesAre ==
    \A kind \in DOMAIN CatalogHandlers, p \in Nat \ {0} :
        p <= Len(CallsOf(kind)) => PlaceIs(kind, p)
<1>1. \A p \in Nat \ {0} : p <= Len(CallsOf("reachability")) => PlaceIs("reachability", p)
  <2> DEFINE h == <<"zone", "keep">>
  <2>1. Len(h) = 2 /\ h[1] = "zone" /\ h[2] = "keep"
    OBVIOUS
  <2>2. CallsOf("reachability") = h
    BY CallsAre
  <2> HIDE DEF h
  <2> QED  BY <2>1, <2>2, FewNumbers DEF PlaceIs, ReadAt, Previews
<1>2. \A p \in Nat \ {0} : p <= Len(CallsOf("restaurants")) => PlaceIs("restaurants", p)
  <2> DEFINE h == <<"address", "search", "zone", "rank">>
  <2>1. Len(h) = 4 /\ h[1] = "address" /\ h[2] = "search" /\ h[3] = "zone" /\ h[4] = "rank"
    OBVIOUS
  <2>2. CallsOf("restaurants") = h
    BY CallsAre
  <2> HIDE DEF h
  <2> QED  BY <2>1, <2>2, FewNumbers DEF PlaceIs, ReadAt, Previews
<1>3. \A p \in Nat \ {0} : p <= Len(CallsOf("menu")) => PlaceIs("menu", p)
  <2> DEFINE h == <<"address", "menu">>
  <2>1. Len(h) = 2 /\ h[1] = "address" /\ h[2] = "menu"
    OBVIOUS
  <2>2. CallsOf("menu") = h
    BY CallsAre
  <2> HIDE DEF h
  <2> QED  BY <2>1, <2>2, FewNumbers DEF PlaceIs, ReadAt, Previews
<1>4. \A p \in Nat \ {0} : p <= Len(CallsOf("products")) => PlaceIs("products", p)
  <2> DEFINE h == <<"address", "products">>
  <2>1. Len(h) = 2 /\ h[1] = "address" /\ h[2] = "products"
    OBVIOUS
  <2>2. CallsOf("products") = h
    BY CallsAre
  <2> HIDE DEF h
  <2> QED  BY <2>1, <2>2, FewNumbers DEF PlaceIs, ReadAt, Previews
<1>5. \A p \in Nat \ {0} : p <= Len(CallsOf("dishes")) => PlaceIs("dishes", p)
  <2> DEFINE h == <<"address", "dishes">>
  <2>1. Len(h) = 2 /\ h[1] = "address" /\ h[2] = "dishes"
    OBVIOUS
  <2>2. CallsOf("dishes") = h
    BY CallsAre
  <2> HIDE DEF h
  <2> QED  BY <2>1, <2>2, FewNumbers DEF PlaceIs, ReadAt, Previews
<1>6. \A p \in Nat \ {0} : p <= Len(CallsOf("goto")) => PlaceIs("goto", p)
  <2> DEFINE h == <<"address", "goto">>
  <2>1. Len(h) = 2 /\ h[1] = "address" /\ h[2] = "goto"
    OBVIOUS
  <2>2. CallsOf("goto") = h
    BY CallsAre
  <2> HIDE DEF h
  <2> QED  BY <2>1, <2>2, FewNumbers DEF PlaceIs, ReadAt, Previews
<1>7. \A p \in Nat \ {0} : p <= Len(CallsOf("coverage")) => PlaceIs("coverage", p)
  <2> DEFINE h == <<"address", "zone", "search", "products", "goto">>
  <2>1. Len(h) = 5 /\ h[1] = "address" /\ h[2] = "zone" /\ h[3] = "search" /\ h[4] = "products" /\ h[5] = "goto"
    OBVIOUS
  <2>2. CallsOf("coverage") = h
    BY CallsAre
  <2> HIDE DEF h
  <2> QED  BY <2>1, <2>2, FewNumbers DEF PlaceIs, ReadAt, Previews
<1>8. \A p \in Nat \ {0} : p <= Len(CallsOf("meal")) => PlaceIs("meal", p)
  <2> DEFINE h == <<>>
  <2>1. Len(h) = 0
    OBVIOUS
  <2>2. CallsOf("meal") = h
    BY CallsAre
  <2> HIDE DEF h
  <2> QED  BY <2>1, <2>2, FewNumbers DEF PlaceIs, ReadAt, Previews
<1>9. \A p \in Nat \ {0} : p <= Len(CallsOf("halt")) => PlaceIs("halt", p)
  <2> DEFINE h == <<>>
  <2>1. Len(h) = 0
    OBVIOUS
  <2>2. CallsOf("halt") = h
    BY CallsAre
  <2> HIDE DEF h
  <2> QED  BY <2>1, <2>2, FewNumbers DEF PlaceIs, ReadAt, Previews
<1>10. \A p \in Nat \ {0} : p <= Len(CallsOf("other")) => PlaceIs("other", p)
  <2> DEFINE h == <<>>
  <2>1. Len(h) = 0
    OBVIOUS
  <2>2. CallsOf("other") = h
    BY CallsAre
  <2> HIDE DEF h
  <2> QED  BY <2>1, <2>2, FewNumbers DEF PlaceIs, ReadAt, Previews
<1>11. \A p \in Nat \ {0} : p <= Len(CallsOf("address")) => PlaceIs("address", p)
  <2> DEFINE h == <<"address">>
  <2>1. Len(h) = 1 /\ h[1] = "address"
    OBVIOUS
  <2>2. CallsOf("address") = h
    BY CallsAre
  <2> HIDE DEF h
  <2> QED  BY <2>1, <2>2, FewNumbers DEF PlaceIs, ReadAt, Previews
<1>12. \A p \in Nat \ {0} : p <= Len(CallsOf("coupons")) => PlaceIs("coupons", p)
  <2> DEFINE h == <<"address", "coupons">>
  <2>1. Len(h) = 2 /\ h[1] = "address" /\ h[2] = "coupons"
    OBVIOUS
  <2>2. CallsOf("coupons") = h
    BY CallsAre
  <2> HIDE DEF h
  <2> QED  BY <2>1, <2>2, FewNumbers DEF PlaceIs, ReadAt, Previews
<1>13. \A p \in Nat \ {0} : p <= Len(CallsOf("preview")) => PlaceIs("preview", p)
  <2> DEFINE h == <<"address", "update", "coupon", "read", "coupons">>
  <2>1. Len(h) = 5 /\ h[1] = "address" /\ h[2] = "update" /\ h[3] = "coupon" /\ h[4] = "read" /\ h[5] = "coupons"
    OBVIOUS
  <2>2. CallsOf("preview") = h
    BY CallsAre
  <2> HIDE DEF h
  <2> QED  BY <2>1, <2>2, FewNumbers DEF PlaceIs, ReadAt, Previews
<1>14. \A p \in Nat \ {0} : p <= Len(CallsOf("basket")) => PlaceIs("basket", p)
  <2> DEFINE h == <<"address", "update", "read">>
  <2>1. Len(h) = 3 /\ h[1] = "address" /\ h[2] = "update" /\ h[3] = "read"
    OBVIOUS
  <2>2. CallsOf("basket") = h
    BY CallsAre
  <2> HIDE DEF h
  <2> QED  BY <2>1, <2>2, FewNumbers DEF PlaceIs, ReadAt, Previews
<1> QED  BY <1>1, <1>2, <1>3, <1>4, <1>5, <1>6, <1>7, <1>8, <1>9, <1>10, <1>11, <1>12, <1>13, <1>14, CallsAre

----------------------------------------------------------------------------
\* Requests and what they know.

Counts3 == [{"search", "products", "goto"} -> Nat]
Jobs == [calls : Seq(AllCalls \union {"admit"}), status : {NotYet, 200} \union Refusals,
         seen : OrAbsent(Zones), have : OrAbsent(Zones), lacking : SUBSET AllCalls, list : Seq(Nat),
         shown : OrAbsent(Workers), found : Counts3]

\* What After and a refusal leave of a request.
Refused(j, status) == [j EXCEPT !.status = status, !.calls = <<>>]

LEMMA AfterIs ==
    \A j \in Jobs :
        /\ After(j).calls = Tail(j.calls) /\ After(j).status = (IF Len(j.calls) = 1 THEN 200 ELSE NotYet)
        /\ After(j).seen = j.seen /\ After(j).have = j.have /\ After(j).lacking = j.lacking
        /\ After(j).list = j.list /\ After(j).shown = j.shown /\ After(j).found = j.found
        /\ Tail(j.calls) \in Seq(AllCalls \union {"admit"}) => After(j) \in Jobs
<1> SUFFICES ASSUME NEW j \in Jobs
             PROVE  /\ After(j).calls = Tail(j.calls)
                    /\ After(j).status = (IF Len(j.calls) = 1 THEN 200 ELSE NotYet)
                    /\ After(j).seen = j.seen /\ After(j).have = j.have /\ After(j).lacking = j.lacking
                    /\ After(j).list = j.list /\ After(j).shown = j.shown /\ After(j).found = j.found
                    /\ Tail(j.calls) \in Seq(AllCalls \union {"admit"}) => After(j) \in Jobs
  OBVIOUS
<1> DEFINE c == Tail(j.calls)  s == IF Len(j.calls) = 1 THEN 200 ELSE NotYet
<1>1. After(j) = [j EXCEPT !.calls = c, !.status = s]
  BY DEF After
<1>2. s \in {NotYet, 200} \union Refusals
  OBVIOUS
<1> HIDE DEF c, s
<1>3. /\ After(j).calls = c /\ After(j).status = s
      /\ After(j).seen = j.seen /\ After(j).have = j.have /\ After(j).lacking = j.lacking
      /\ After(j).list = j.list /\ After(j).shown = j.shown /\ After(j).found = j.found
  BY <1>1 DEF Jobs
<1>4. c \in Seq(AllCalls \union {"admit"}) => After(j) \in Jobs
  BY <1>1, <1>2 DEF Jobs
<1> QED  BY <1>3, <1>4 DEF c, s

LEMMA RefusedIs ==
    \A j \in Jobs, status \in Refusals :
        Refused(j, status) \in Jobs /\ Refused(j, status).calls = <<>> /\ Refused(j, status).status = status
<1>1. <<>> \in Seq(AllCalls \union {"admit"})
  OBVIOUS
<1> QED  BY <1>1 DEF Refused, Jobs

\* The place of a request in its handler.
At(j, h, p) ==
    /\ p \in Nat \ {0} /\ p <= Len(h) + 1 /\ j.calls = SubSeq(h, p, Len(h))
    /\ j.status = (IF p = Len(h) + 1 THEN 200 ELSE NotYet)

LEMMA CallIs ==
    \A h \in Seq(AllCalls), p \in Nat \ {0} :
        /\ p <= Len(h) => /\ SubSeq(h, p, Len(h)) # <<>>
                          /\ Head(SubSeq(h, p, Len(h))) = h[p] /\ h[p] \in AllCalls
                          /\ Tail(SubSeq(h, p, Len(h))) = SubSeq(h, p + 1, Len(h))
                          /\ Len(SubSeq(h, p, Len(h))) = Len(h) + 1 - p
                          /\ SubSeq(h, p, Len(h)) \in Seq(AllCalls)
        /\ SubSeq(h, Len(h) + 1, Len(h)) = <<>>
        /\ SubSeq(h, 1, Len(h)) = h
<1> SUFFICES ASSUME NEW h \in Seq(AllCalls), NEW p \in Nat \ {0}
             PROVE  /\ p <= Len(h) => /\ SubSeq(h, p, Len(h)) # <<>>
                                      /\ Head(SubSeq(h, p, Len(h))) = h[p] /\ h[p] \in AllCalls
                                      /\ Tail(SubSeq(h, p, Len(h))) = SubSeq(h, p + 1, Len(h))
                                      /\ Len(SubSeq(h, p, Len(h))) = Len(h) + 1 - p
                                      /\ SubSeq(h, p, Len(h)) \in Seq(AllCalls)
                    /\ SubSeq(h, Len(h) + 1, Len(h)) = <<>>
                    /\ SubSeq(h, 1, Len(h)) = h
  OBVIOUS
<1>1. /\ Len(h) \in Nat /\ \A i \in 1..Len(h) : h[i] \in AllCalls
  BY LenProperties
<1>2. SubSeq(h, 1, Len(h)) = h /\ SubSeq(h, Len(h) + 1, Len(h)) = <<>>
  BY <1>1, SubSeqFull, SubSeqEmpty
<1>3. ASSUME p <= Len(h)
      PROVE  /\ SubSeq(h, p, Len(h)) # <<>>
             /\ Head(SubSeq(h, p, Len(h))) = h[p] /\ h[p] \in AllCalls
             /\ Tail(SubSeq(h, p, Len(h))) = SubSeq(h, p + 1, Len(h))
             /\ Len(SubSeq(h, p, Len(h))) = Len(h) + 1 - p
             /\ SubSeq(h, p, Len(h)) \in Seq(AllCalls)
  <2>1. p \in 1..Len(h) /\ Len(h) \in p..Len(h) /\ h[p] \in AllCalls
    BY <1>1, <1>3
  <2>2. Head(SubSeq(h, p, Len(h))) = h[p] /\ Tail(SubSeq(h, p, Len(h))) = SubSeq(h, p + 1, Len(h))
    BY <2>1, HeadTailOfSubSeq
  <2>3. SubSeq(h, p, Len(h)) \in Seq(AllCalls) /\ Len(SubSeq(h, p, Len(h))) = Len(h) - p + 1
    <3>1. p \in Int /\ Len(h) \in Int /\ p <= Len(h) /\ \A i \in p..Len(h) : h[i] \in AllCalls
      BY <1>1, <1>3
    <3> QED  BY <3>1, SubSeqProperties
  <2>4. SubSeq(h, p, Len(h)) # <<>>
    BY <1>1, <1>3, <2>3, LenProperties, EmptySeq
  <2> QED  BY <1>1, <2>1, <2>2, <2>3, <2>4
<1> QED  BY <1>2, <1>3

\* A call takes a request to the next place.
LEMMA AfterAt ==
    \A h \in Seq(AllCalls), p \in Nat \ {0}, k \in Jobs :
        p <= Len(h) /\ k.calls = SubSeq(h, p, Len(h)) => After(k) \in Jobs /\ At(After(k), h, p + 1)
<1> SUFFICES ASSUME NEW h \in Seq(AllCalls), NEW p \in Nat \ {0}, NEW k \in Jobs,
                    p <= Len(h), k.calls = SubSeq(h, p, Len(h))
             PROVE  After(k) \in Jobs /\ At(After(k), h, p + 1)
  OBVIOUS
<1>1. Len(h) \in Nat
  BY LenProperties
<1>2. Tail(k.calls) = SubSeq(h, p + 1, Len(h)) /\ Len(k.calls) = Len(h) + 1 - p
  BY CallIs
<1>3. SubSeq(h, p + 1, Len(h)) \in Seq(AllCalls)
  <2>1. CASE p + 1 <= Len(h)
    BY <2>1, CallIs
  <2>2. CASE p = Len(h)
    BY <2>2, CallIs, EmptySeq
  <2> QED  BY <1>1, <2>1, <2>2
<1>4. SubSeq(h, p + 1, Len(h)) \in Seq(AllCalls \union {"admit"})
  BY <1>3, SeqMonotonic
<1>5. After(k) \in Jobs
  BY <1>2, <1>4, AfterIs
<1>6. After(k).calls = SubSeq(h, p + 1, Len(h)) /\ After(k).status = (IF Len(k.calls) = 1 THEN 200 ELSE NotYet)
  BY <1>2, AfterIs
<1>7. Len(k.calls) = 1 <=> p + 1 = Len(h) + 1
  BY <1>1, <1>2
<1> QED  BY <1>1, <1>5, <1>6, <1>7 DEF At

----------------------------------------------------------------------------
\* What holds of a request at each place of its handler.

\* The requests of one account for one cart.
Peers(f, key) == {v \in Workers : f[v].account = key[1] /\ f[v].kind = key[2]}
CartOf(f, w)  == <<f[w].account, f[w].kind>>

\* The area that GetReachability keeps is that of the whole halt if none was stored.
Keeps(e, j, p) ==
    e.kind = "reachability" /\ p = 2 =>
        j.have \in Zones /\ (j.seen = Absent => j.have.span = Stops[e.stop].dwell)

\* GetRestaurants has an area when it ranks, and then a helpful list.
Lists(e, j, p) ==
    e.kind = "restaurants" => /\ p >= 4 => j.have \in Zones
                              /\ p = 5 => Helpful(j.list, j.have)

\* A preview that filled the cart finds a preview of its account in it.
Shows(f, c, w, j, p) ==
    f[w].kind \in Previews /\ "update" \notin j.lacking =>
        /\ p > 2 => c[CartOf(f, w)] \in Peers(f, CartOf(f, w))
        /\ p > ReadAt(f[w].kind) /\ "read" \notin j.lacking => j.shown \in Peers(f, CartOf(f, w))

\* A coverage found nothing where it did not ask.
Covers(e, j, p) ==
    e.kind = "coverage" =>
        /\ p = 1 => j.lacking = {} /\ j.found = NothingFound
        /\ p <= 3 => "search" \notin j.lacking /\ j.found.search = 0
        /\ "address" \in j.lacking => j.found = NothingFound
        /\ "search" \in j.lacking => j.found.search = 0

Knows(f, c, w, j, p) ==
    Keeps(f[w], j, p) /\ Lists(f[w], j, p) /\ Shows(f, c, w, j, p) /\ Covers(f[w], j, p)

\* A request is new, refused, or at a place of its handler.
Serve(f, c, w, j) ==
    \/ j = NoWork
    \/ j.calls = <<>> /\ j.status \in Refusals
    \/ Owned(f[w]) /\ \E p \in Nat \ {0} : At(j, CallsOf(f[w].kind), p) /\ Knows(f, c, w, j, p)

Carts == [Accounts \X Previews -> OrAbsent(Workers)]

CatalogInv ==
    /\ errand \in Errands
    /\ zone \in [DOMAIN Stops -> OrAbsent(Zones)] /\ StoredZoneIsWhole
    /\ cart \in Carts
    /\ \A key \in Accounts \X Previews : cart[key] \in OrAbsent(Peers(errand, key))
    /\ work \in [Workers -> Jobs]
    /\ \A w \in Workers : Serve(errand, cart, w, work[w])

LEMMA ErrandsAre ==
    \A f \in Errands, w \in Workers :
        /\ f[w].kind \in DOMAIN CatalogHandlers /\ f[w].account \in Accounts
        /\ f[w].eta \in OrAbsent(Nat)
        /\ f[w].kind # "restaurants" => f[w].eta = Absent
  BY ErrandsAssumption, Zenon

LEMMA RideTimesAre == \A times \in RideTimes, i \in DOMAIN Kitchens : times[i] \in Told
  BY KitchensAssumption DEF Told

LEMMA DwellIs == \A s \in DOMAIN Stops : Stops[s].dwell \in Nat
  BY ZonesAssumption, Zenon

\* Who calls is at the place of that call.
LEMMA Calling ==
    \A f \in Errands, w \in Workers, j \in Jobs, c \in Carts, ask \in AllCalls :
        Serve(f, c, w, j) /\ j.status = NotYet /\ j.calls # <<>> /\ Head(j.calls) = ask =>
            /\ Owned(f[w])
            /\ \E p \in Nat \ {0} :
                  /\ p <= Len(CallsOf(f[w].kind)) /\ CallsOf(f[w].kind)[p] = ask
                  /\ j.calls = SubSeq(CallsOf(f[w].kind), p, Len(CallsOf(f[w].kind)))
                  /\ PlaceIs(f[w].kind, p) /\ Knows(f, c, w, j, p)
<1> TAKE f \in Errands, w \in Workers, j \in Jobs, c \in Carts, ask \in AllCalls
<1> HAVE Serve(f, c, w, j) /\ j.status = NotYet /\ j.calls # <<>> /\ Head(j.calls) = ask
<1> DEFINE h == CallsOf(f[w].kind)
<1>1. h \in Seq(AllCalls) /\ Len(h) \in Nat
  BY ErrandsAre, HandlersAre, LenProperties
<1>2. j # NoWork
  BY DEF NoWork, AllCalls, Asks
<1>3. j.status \notin Refusals
  BY DEF Refusals, NotYet
<1>4. Owned(f[w]) /\ \E p \in Nat \ {0} : At(j, h, p) /\ Knows(f, c, w, j, p)
  BY <1>2, <1>3 DEF Serve
<1>5. PICK p \in Nat \ {0} : At(j, h, p) /\ Knows(f, c, w, j, p)
  BY <1>4
<1>6. p <= Len(h)
  BY <1>1, <1>5 DEF At, NotYet
<1>7. j.calls = SubSeq(h, p, Len(h))
  BY <1>5 DEF At
<1>8. h[p] = ask
  BY <1>1, <1>6, <1>7, CallIs
<1>9. PlaceIs(f[w].kind, p)
  BY <1>6, ErrandsAre, PlacesAre
<1> QED  BY <1>4, <1>5, <1>6, <1>7, <1>8, <1>9

\* A call that leaves k of a request leaves it at the next place.
LEMMA CallServes ==
    \A f \in Errands, w \in Workers, k \in Jobs, c \in Carts, p \in Nat \ {0} :
        /\ Owned(f[w]) /\ p <= Len(CallsOf(f[w].kind))
        /\ k.calls = SubSeq(CallsOf(f[w].kind), p, Len(CallsOf(f[w].kind)))
        /\ Knows(f, c, w, k, p + 1)
        => After(k) \in Jobs /\ Serve(f, c, w, After(k))
<1> SUFFICES ASSUME NEW f \in Errands, NEW w \in Workers, NEW k \in Jobs, NEW c \in Carts, NEW p \in Nat \ {0},
                    Owned(f[w]), p <= Len(CallsOf(f[w].kind)),
                    k.calls = SubSeq(CallsOf(f[w].kind), p, Len(CallsOf(f[w].kind))),
                    Knows(f, c, w, k, p + 1)
             PROVE  After(k) \in Jobs /\ Serve(f, c, w, After(k))
  OBVIOUS
<1>1. CallsOf(f[w].kind) \in Seq(AllCalls)
  BY ErrandsAre, HandlersAre
<1>2. After(k) \in Jobs /\ At(After(k), CallsOf(f[w].kind), p + 1)
  BY <1>1, AfterAt
<1>3. /\ After(k).seen = k.seen /\ After(k).have = k.have /\ After(k).lacking = k.lacking
      /\ After(k).list = k.list /\ After(k).shown = k.shown /\ After(k).found = k.found
  BY AfterIs
<1>4. Knows(f, c, w, After(k), p + 1)
  BY <1>3 DEF Knows, Keeps, Lists, Shows, Covers
<1>5. p + 1 \in Nat \ {0}
  OBVIOUS
<1> QED  BY <1>2, <1>4, <1>5 DEF Serve

\* Another request's preview takes a cart of the account over, and no more.
LEMMA CartMoves ==
    \A f \in Errands, v \in Workers, j \in Jobs, c \in Carts, d \in Carts :
        /\ Serve(f, c, v, j)
        /\ \A key \in Accounts \X Previews : d[key] = c[key] \/ d[key] \in Peers(f, key)
        => Serve(f, d, v, j)
<1> SUFFICES ASSUME NEW f \in Errands, NEW v \in Workers, NEW j \in Jobs, NEW c \in Carts, NEW d \in Carts,
                    Serve(f, c, v, j),
                    \A key \in Accounts \X Previews : d[key] = c[key] \/ d[key] \in Peers(f, key)
             PROVE  Serve(f, d, v, j)
  OBVIOUS
<1>1. f[v].kind \in Previews => CartOf(f, v) \in Accounts \X Previews
  BY ErrandsAre DEF CartOf
<1>2. \A p \in Nat \ {0} : Shows(f, c, v, j, p) => Shows(f, d, v, j, p)
  BY <1>1 DEF Shows
<1>3. \A p \in Nat \ {0} : Knows(f, c, v, j, p) => Knows(f, d, v, j, p)
  BY <1>2 DEF Knows
<1> QED  BY <1>3 DEF Serve

\* What is left to show of a step of w.
Around ==
    /\ errand' = errand
    /\ zone' \in [DOMAIN Stops -> OrAbsent(Zones)] /\ StoredZoneIsWhole'
    /\ cart' \in Carts
    /\ \A key \in Accounts \X Previews : cart'[key] = cart[key] \/ cart'[key] \in Peers(errand, key)

LEMMA Served ==
    CatalogInv /\ Around =>
        \A w \in Workers, j \in Jobs : Goes(w, j) /\ Serve(errand, cart', w, j) => CatalogInv'
<1> SUFFICES ASSUME CatalogInv, Around, NEW w \in Workers, NEW j \in Jobs,
                    Goes(w, j), Serve(errand, cart', w, j)
             PROVE  CatalogInv'
  OBVIOUS
<1>1. work' \in [Workers -> Jobs] /\ work'[w] = j /\ \A v \in Workers : v # w => work'[v] = work[v]
  BY DEF CatalogInv, Goes
<1>2. \A v \in Workers : Serve(errand, cart', v, work'[v])
  <2> SUFFICES ASSUME NEW v \in Workers, v # w PROVE Serve(errand, cart', v, work'[v])
    BY <1>1
  <2>1. work[v] \in Jobs /\ Serve(errand, cart, v, work[v]) /\ errand \in Errands /\ cart \in Carts /\ cart' \in Carts
    BY DEF CatalogInv, Around
  <2>2. Serve(errand, cart', v, work[v])
    BY <2>1, CartMoves DEF Around
  <2> QED  BY <1>1, <2>2
<1>3. \A key \in Accounts \X Previews : cart'[key] \in OrAbsent(Peers(errand, key))
  BY DEF CatalogInv, Around, OrAbsent
<1>4. \A v \in Workers : Serve(errand, cart, v, work[v])' <=> Serve(errand, cart', v, work'[v])
  BY DEF Around, Serve, Owned, Knows, Keeps, Lists, Shows, Covers, Peers, CartOf
<1> QED  BY <1>1, <1>2, <1>3 DEF CatalogInv, Around

LEMMA RefusalServes ==
    CatalogInv /\ Around => \A w \in Workers, status \in Refusals : Refuses(w, status) => CatalogInv'
<1> SUFFICES ASSUME CatalogInv, Around, NEW w \in Workers, NEW status \in Refusals, Refuses(w, status)
             PROVE  CatalogInv'
  OBVIOUS
<1>1. work[w] \in Jobs
  BY DEF CatalogInv
<1>2. Goes(w, Refused(work[w], status))
  BY DEF Refuses, Refused
<1>3. Refused(work[w], status) \in Jobs /\ Serve(errand, cart', w, Refused(work[w], status))
  BY <1>1, RefusedIs DEF Serve
<1> QED  BY <1>2, <1>3, Served

LEMMA StaysAround == CatalogInv /\ UNCHANGED <<zone, cart, errand>> => Around
  BY DEF CatalogInv, Around, StoredZoneIsWhole

\* A request admitted with an area z.
Admitted(j, calls, z) ==
    [j EXCEPT !.calls = calls, !.seen = z, !.have = z, !.status = IF calls = <<>> THEN 200 ELSE NotYet]

LEMMA AdmittedIs ==
    \A calls \in Seq(AllCalls \union {"admit"}), z \in OrAbsent(Zones) : NoWork \in Jobs =>
        /\ Admitted(NoWork, calls, z) \in Jobs
        /\ Admitted(NoWork, calls, z).calls = calls
        /\ Admitted(NoWork, calls, z).status = (IF calls = <<>> THEN 200 ELSE NotYet)
        /\ Admitted(NoWork, calls, z).lacking = NoWork.lacking
        /\ Admitted(NoWork, calls, z).found = NoWork.found
<1> SUFFICES ASSUME NEW calls \in Seq(AllCalls \union {"admit"}), NEW z \in OrAbsent(Zones), NoWork \in Jobs
             PROVE  /\ Admitted(NoWork, calls, z) \in Jobs
                    /\ Admitted(NoWork, calls, z).calls = calls
                    /\ Admitted(NoWork, calls, z).status = (IF calls = <<>> THEN 200 ELSE NotYet)
                    /\ Admitted(NoWork, calls, z).lacking = NoWork.lacking
                    /\ Admitted(NoWork, calls, z).found = NoWork.found
  OBVIOUS
<1> DEFINE s == IF calls = <<>> THEN 200 ELSE NotYet
<1>1. s \in {NotYet, 200} \union Refusals
  OBVIOUS
<1>2. Admitted(NoWork, calls, z) = [NoWork EXCEPT !.calls = calls, !.seen = z, !.have = z, !.status = s]
  BY DEF Admitted
<1> HIDE DEF s
<1> QED  BY <1>1, <1>2, ZenonT(30) DEF Jobs, s

LEMMA NoWorkIs == NoWork \in Jobs /\ NoWork.lacking = {} /\ NoWork.found = NothingFound
<1>1. <<"admit">> \in Seq(AllCalls \union {"admit"}) /\ <<>> \in Seq(Nat)
  OBVIOUS
<1>2. NothingFound \in Counts3
  BY DEF NothingFound, Counts3
<1>3. \A S : Absent \in OrAbsent(S)
  BY DEF OrAbsent
<1> QED  BY <1>1, <1>2, <1>3 DEF NoWork, Jobs

LEMMA AdmitStep == CatalogInv => \A w \in Workers : AdmitRequest(w) => CatalogInv'
<1> SUFFICES ASSUME CatalogInv, NEW w \in Workers, AdmitRequest(w) PROVE CatalogInv'
  OBVIOUS
<1> DEFINE e == errand[w]  h == CallsOf(e.kind)
<1>1. Around
  BY StaysAround DEF AdmitRequest
<1>2. CASE Refuses(w, 400) \/ Refuses(w, 404)
  <2>1. 400 \in Refusals /\ 404 \in Refusals
    BY DEF Refusals
  <2> QED  BY <1>1, <1>2, <2>1, RefusalServes
<1>3. CASE Owned(e) /\ Goes(w, Admitted(work[w], h, zone[e.stop]))
  <2>1. /\ work[w] \in Jobs /\ Serve(errand, cart, w, work[w]) /\ errand \in Errands /\ cart \in Carts
        /\ work[w].status = NotYet /\ work[w].calls # <<>> /\ Head(work[w].calls) = "admit"
    BY DEF CatalogInv, AdmitRequest, Doing
  <2>2. h \in Seq(AllCalls) /\ Len(h) \in Nat
    BY <2>1, ErrandsAre, HandlersAre, LenProperties
  <2>3. work[w] = NoWork
    <3> SUFFICES ASSUME work[w] # NoWork PROVE FALSE
      OBVIOUS
    <3>1. PICK p \in Nat \ {0} : At(work[w], h, p)
      BY <2>1 DEF Serve
    <3>2. p <= Len(h) /\ work[w].calls = SubSeq(h, p, Len(h))
      BY <2>1, <2>2, <3>1 DEF At, NotYet
    <3>3. "admit" \in AllCalls
      BY <2>1, <2>2, <3>2, CallIs
    <3> QED  BY <3>3 DEF AllCalls, Asks
  <2>4. zone[e.stop] \in OrAbsent(Zones)
    BY <1>3 DEF CatalogInv, Owned
  <2> DEFINE j == Admitted(work[w], h, zone[e.stop])
  <2>5. /\ j \in Jobs /\ j.calls = h /\ j.status = (IF h = <<>> THEN 200 ELSE NotYet)
        /\ j.lacking = {} /\ j.found = NothingFound
    <3>1. h \in Seq(AllCalls \union {"admit"})
      BY <2>2, SeqMonotonic
    <3> QED  BY <2>3, <2>4, <3>1, NoWorkIs, AdmittedIs
  <2> HIDE DEF j
  <2>6. At(j, h, 1)
    <3>1. h = SubSeq(h, 1, Len(h)) /\ (h = <<>> <=> Len(h) = 0)
      BY <2>2, CallIs, EmptySeq
    <3> QED  BY <2>2, <2>5, <3>1 DEF At
  <2>7. Knows(errand, cart', w, j, 1)
    <3>1. Keeps(e, j, 1) /\ Lists(e, j, 1)
      BY DEF Keeps, Lists
    <3>2. Shows(errand, cart', w, j, 1)
      BY DEF Shows, ReadAt
    <3>3. Covers(e, j, 1)
      <4>1. j.found.search = 0
        BY <2>5 DEF NothingFound
      <4> QED  BY <2>5, <4>1 DEF Covers
    <3> QED  BY <3>1, <3>2, <3>3 DEF Knows
  <2>8. Serve(errand, cart', w, j)
    BY <1>3, <2>6, <2>7 DEF Serve
  <2> QED  BY <1>1, <1>3, <2>5, <2>8, Served DEF j
<1> QED  BY <1>2, <1>3 DEF AdmitRequest, Admitted, CallsOf

LEMMA CallStep ==
    CatalogInv /\ Around =>
        \A w \in Workers, k \in Jobs, p \in Nat \ {0} :
            /\ Goes(w, After(k)) /\ Owned(errand[w]) /\ p <= Len(CallsOf(errand[w].kind))
            /\ k.calls = SubSeq(CallsOf(errand[w].kind), p, Len(CallsOf(errand[w].kind)))
            /\ Knows(errand, cart', w, k, p + 1)
            => CatalogInv'
<1> SUFFICES ASSUME CatalogInv, Around, NEW w \in Workers, NEW k \in Jobs, NEW p \in Nat \ {0},
                    Goes(w, After(k)), Owned(errand[w]), p <= Len(CallsOf(errand[w].kind)),
                    k.calls = SubSeq(CallsOf(errand[w].kind), p, Len(CallsOf(errand[w].kind))),
                    Knows(errand, cart', w, k, p + 1)
             PROVE  CatalogInv'
  OBVIOUS
<1>1. errand \in Errands /\ cart' \in Carts
  BY DEF CatalogInv, Around
<1>2. After(k) \in Jobs /\ Serve(errand, cart', w, After(k))
  BY <1>1, CallServes
<1> QED  BY <1>2, Served

\* What the calls change of a request: what was found, what is lacking, the cart
\* shown, the area and the list.
Finds(j, ask, n) == [j EXCEPT !.found = [c \in DOMAIN @ |-> IF c = ask THEN n ELSE @[c]]]
Lacks(j, ask) == [j EXCEPT !.lacking = @ \union {ask}]
Reads(j, v) == [j EXCEPT !.shown = v]
Reaches(j, z) == [j EXCEPT !.have = z]
Ranks(j, l) == [j EXCEPT !.list = l]

LEMMA FindsIs ==
    \A j \in Jobs, ask \in AllCalls, n \in Nat :
        /\ Finds(j, ask, n) \in Jobs
        /\ Finds(j, ask, n).calls = j.calls /\ Finds(j, ask, n).seen = j.seen
        /\ Finds(j, ask, n).have = j.have /\ Finds(j, ask, n).lacking = j.lacking
        /\ Finds(j, ask, n).list = j.list /\ Finds(j, ask, n).shown = j.shown
        /\ ask # "search" => Finds(j, ask, n).found.search = j.found.search
        /\ ask \notin {"search", "products", "goto"} => Finds(j, ask, n).found = j.found
<1> SUFFICES ASSUME NEW j \in Jobs, NEW ask \in AllCalls, NEW n \in Nat
             PROVE  /\ Finds(j, ask, n) \in Jobs
                    /\ Finds(j, ask, n).calls = j.calls /\ Finds(j, ask, n).seen = j.seen
                    /\ Finds(j, ask, n).have = j.have /\ Finds(j, ask, n).lacking = j.lacking
                    /\ Finds(j, ask, n).list = j.list /\ Finds(j, ask, n).shown = j.shown
                    /\ ask # "search" => Finds(j, ask, n).found.search = j.found.search
                    /\ ask \notin {"search", "products", "goto"} => Finds(j, ask, n).found = j.found
  OBVIOUS
<1> DEFINE g == [c \in DOMAIN j.found |-> IF c = ask THEN n ELSE j.found[c]]
<1>1. j.found \in Counts3
  BY DEF Jobs
<1>2. g \in Counts3 /\ (ask # "search" => g.search = j.found.search)
  BY <1>1 DEF Counts3
<1>3. ask \notin {"search", "products", "goto"} => g = j.found
  BY <1>1 DEF Counts3
<1>4. Finds(j, ask, n) = [j EXCEPT !.found = g]
  BY DEF Finds, Jobs
<1> HIDE DEF g
<1> QED  BY <1>2, <1>3, <1>4 DEF Jobs

LEMMA LacksIs ==
    \A j \in Jobs, ask \in AllCalls :
        /\ Lacks(j, ask) \in Jobs
        /\ Lacks(j, ask).calls = j.calls /\ Lacks(j, ask).seen = j.seen /\ Lacks(j, ask).have = j.have
        /\ Lacks(j, ask).list = j.list /\ Lacks(j, ask).shown = j.shown /\ Lacks(j, ask).found = j.found
        /\ Lacks(j, ask).lacking = j.lacking \union {ask}
  BY DEF Lacks, Jobs

LEMMA ReadsIs ==
    \A j \in Jobs, v \in OrAbsent(Workers) :
        /\ Reads(j, v) \in Jobs
        /\ Reads(j, v).calls = j.calls /\ Reads(j, v).seen = j.seen /\ Reads(j, v).have = j.have
        /\ Reads(j, v).list = j.list /\ Reads(j, v).lacking = j.lacking /\ Reads(j, v).found = j.found
        /\ Reads(j, v).shown = v
  BY DEF Reads, Jobs

LEMMA ReachesIs ==
    \A j \in Jobs, z \in Zones :
        /\ Reaches(j, z) \in Jobs
        /\ Reaches(j, z).calls = j.calls /\ Reaches(j, z).seen = j.seen /\ Reaches(j, z).shown = j.shown
        /\ Reaches(j, z).list = j.list /\ Reaches(j, z).lacking = j.lacking /\ Reaches(j, z).found = j.found
        /\ Reaches(j, z).have = z
<1>1. \A z \in Zones : z \in OrAbsent(Zones)
  BY DEF OrAbsent
<1> QED  BY <1>1 DEF Reaches, Jobs

LEMMA RanksIs ==
    \A j \in Jobs, l \in Seq(Nat) :
        /\ Ranks(j, l) \in Jobs
        /\ Ranks(j, l).calls = j.calls /\ Ranks(j, l).seen = j.seen /\ Ranks(j, l).shown = j.shown
        /\ Ranks(j, l).have = j.have /\ Ranks(j, l).lacking = j.lacking /\ Ranks(j, l).found = j.found
        /\ Ranks(j, l).list = l
  BY DEF Ranks, Jobs

\* A request that knows nothing more at the next place, because the call was not
\* one that tells it anything.
LEMMA CallTellsNothing ==
    \A f \in Errands, w \in Workers, j \in Jobs, k \in Jobs, c \in Carts, p \in Nat \ {0} :
        /\ PlaceIs(f[w].kind, p) /\ Knows(f, c, w, j, p)
        /\ k.seen = j.seen /\ k.have = j.have /\ k.list = j.list /\ k.shown = j.shown
        /\ j.lacking \subseteq k.lacking
        =>
        /\ CallsOf(f[w].kind)[p] # "zone" => Keeps(f[w], k, p + 1)
        /\ CallsOf(f[w].kind)[p] \notin {"zone", "rank"} => Lists(f[w], k, p + 1)
        /\ CallsOf(f[w].kind)[p] \notin {"update", "read"} \/ CallsOf(f[w].kind)[p] \in k.lacking =>
              Shows(f, c, w, k, p + 1)
<1> SUFFICES ASSUME NEW f \in Errands, NEW w \in Workers, NEW j \in Jobs, NEW k \in Jobs, NEW c \in Carts,
                    NEW p \in Nat \ {0}, PlaceIs(f[w].kind, p), Knows(f, c, w, j, p),
                    k.seen = j.seen, k.have = j.have, k.list = j.list, k.shown = j.shown,
                    j.lacking \subseteq k.lacking
             PROVE  /\ CallsOf(f[w].kind)[p] # "zone" => Keeps(f[w], k, p + 1)
                    /\ CallsOf(f[w].kind)[p] \notin {"zone", "rank"} => Lists(f[w], k, p + 1)
                    /\ CallsOf(f[w].kind)[p] \notin {"update", "read"} \/ CallsOf(f[w].kind)[p] \in k.lacking =>
                          Shows(f, c, w, k, p + 1)
  OBVIOUS
<1> DEFINE ask == CallsOf(f[w].kind)[p]
<1>1. /\ f[w].kind = "reachability" /\ p = 1 => ask = "zone"
      /\ f[w].kind = "restaurants" /\ p = 3 => ask = "zone"
      /\ f[w].kind = "restaurants" /\ p = 4 => ask = "rank"
      /\ f[w].kind \in Previews /\ p = 2 => ask = "update"
      /\ f[w].kind \in Previews /\ p = ReadAt(f[w].kind) => ask = "read"
  BY DEF PlaceIs
<1>2. Keeps(f[w], j, p) /\ Lists(f[w], j, p) /\ Shows(f, c, w, j, p)
  BY DEF Knows
<1>3. ReadAt(f[w].kind) \in Nat
  BY DEF ReadAt
<1> HIDE DEF ask
<1>4. ask # "zone" => Keeps(f[w], k, p + 1)
  BY <1>1 DEF Keeps
<1>5. ask \notin {"zone", "rank"} => Lists(f[w], k, p + 1)
  BY <1>1, <1>2 DEF Lists
<1>6. ask \notin {"update", "read"} \/ ask \in k.lacking => Shows(f, c, w, k, p + 1)
  BY <1>1, <1>2, <1>3 DEF Shows
<1> QED  BY <1>4, <1>5, <1>6 DEF ask

\* At the place of its call, w is at work on an own stop.
LEMMA CallingNow ==
    CatalogInv => \A w \in Workers, ask \in AllCalls : Doing(w, ask) =>
        /\ Owned(errand[w])
        /\ \E p \in Nat \ {0} :
              /\ p <= Len(CallsOf(errand[w].kind)) /\ CallsOf(errand[w].kind)[p] = ask
              /\ work[w].calls = SubSeq(CallsOf(errand[w].kind), p, Len(CallsOf(errand[w].kind)))
              /\ PlaceIs(errand[w].kind, p) /\ Knows(errand, cart, w, work[w], p)
<1> SUFFICES ASSUME CatalogInv, NEW w \in Workers, NEW ask \in AllCalls, Doing(w, ask)
             PROVE  /\ Owned(errand[w])
                    /\ \E p \in Nat \ {0} :
                          /\ p <= Len(CallsOf(errand[w].kind)) /\ CallsOf(errand[w].kind)[p] = ask
                          /\ work[w].calls = SubSeq(CallsOf(errand[w].kind), p, Len(CallsOf(errand[w].kind)))
                          /\ PlaceIs(errand[w].kind, p) /\ Knows(errand, cart, w, work[w], p)
  OBVIOUS
<1>1. errand \in Errands /\ cart \in Carts /\ work[w] \in Jobs /\ Serve(errand, cart, w, work[w])
  BY DEF CatalogInv
<1>2. work[w].status = NotYet /\ work[w].calls # <<>> /\ Head(work[w].calls) = ask
  BY DEF Doing
<1> QED  BY <1>1, <1>2, Calling

LEMMA AsksAre == Asks \subseteq AllCalls /\ "zone" \notin Asks /\ "rank" \notin Asks
  BY DEF AllCalls, Asks

LEMMA SucceedsStep == CatalogInv => \A w \in Workers : CallSucceeds(w) => CatalogInv'
<1> SUFFICES ASSUME CatalogInv, NEW w \in Workers, CallSucceeds(w) PROVE CatalogInv'
  OBVIOUS
<1> DEFINE e == errand[w]  h == CallsOf(e.kind)
<1>1. PICK ask \in Asks \ {"update", "read"}, n \in {0, 2, 12} :
         /\ Doing(w, ask) /\ ~Skips(w, ask) /\ Goes(w, After(Finds(work[w], ask, n)))
         /\ UNCHANGED <<zone, cart, errand>>
  BY DEF CallSucceeds, Finds
<1>2. ask \in AllCalls /\ ask \notin {"zone", "rank", "update", "read"} /\ n \in Nat
  BY AsksAre
<1>3. Around /\ work[w] \in Jobs /\ errand \in Errands /\ cart \in Carts /\ cart' = cart
  BY <1>1, StaysAround DEF CatalogInv
<1>4. PICK p \in Nat \ {0} :
         /\ p <= Len(h) /\ h[p] = ask /\ work[w].calls = SubSeq(h, p, Len(h))
         /\ PlaceIs(e.kind, p) /\ Knows(errand, cart, w, work[w], p)
  BY <1>1, <1>2, CallingNow
<1>5. Owned(e)
  BY <1>1, <1>2, CallingNow
<1> DEFINE k == Finds(work[w], ask, n)
<1>6. /\ k \in Jobs /\ k.calls = work[w].calls /\ k.seen = work[w].seen
      /\ k.have = work[w].have /\ k.lacking = work[w].lacking /\ k.list = work[w].list
      /\ k.shown = work[w].shown
      /\ ask # "search" => k.found.search = work[w].found.search
      /\ ask \notin {"search", "products", "goto"} => k.found = work[w].found
  BY <1>2, <1>3, FindsIs
<1> HIDE DEF k
<1>7. Keeps(e, k, p + 1) /\ Lists(e, k, p + 1) /\ Shows(errand, cart, w, k, p + 1)
  BY <1>2, <1>3, <1>4, <1>6, CallTellsNothing
<1>8. Covers(e, k, p + 1)
  <2>1. Covers(e, work[w], p) /\ (e.kind = "coverage" =>
           (p = 1 <=> ask = "address") /\ (p = 3 <=> ask = "search")
           /\ (p \in {4, 5} <=> ask \in {"products", "goto"}))
    BY <1>4 DEF Knows, PlaceIs
  <2>2. e.kind = "coverage" /\ "address" \in work[w].lacking => ask \notin {"search", "products", "goto"}
    BY <1>1 DEF Skips
  <2> QED  BY <1>6, <2>1, <2>2 DEF Covers
<1>9. Knows(errand, cart', w, k, p + 1)
  BY <1>3, <1>7, <1>8 DEF Knows
<1> QED  BY <1>1, <1>3, <1>4, <1>5, <1>6, <1>9, CallStep DEF k

LEMMA FailsStep == CatalogInv => \A w \in Workers : CallFails(w) => CatalogInv'
<1> SUFFICES ASSUME CatalogInv, NEW w \in Workers, CallFails(w) PROVE CatalogInv'
  OBVIOUS
<1> DEFINE e == errand[w]  h == CallsOf(e.kind)
<1>1. PICK ask \in Asks :
         LET g == CatalogHandlers[e.kind]
             statuses == IF ask = "address" THEN {g.address} ELSE {g.refused, g.thrown}
         IN  /\ Doing(w, ask)
             /\ \E how \in statuses :
                   IF how = {} THEN Goes(w, After([work[w] EXCEPT !.lacking = @ \union {ask}]))
                   ELSE \E status \in how : Refuses(w, status)
             /\ UNCHANGED <<zone, cart, errand>>
  BY DEF CallFails
<1>2. ask \in AllCalls /\ ask \notin {"zone", "rank"}
  BY AsksAre
<1>3. Around /\ work[w] \in Jobs /\ errand \in Errands /\ cart \in Carts /\ cart' = cart
  BY <1>1, StaysAround DEF CatalogInv
<1>4. Goes(w, After(Lacks(work[w], ask))) \/ \E status \in Refusals : Refuses(w, status)
  <2>1. e.kind \in DOMAIN CatalogHandlers
    BY <1>3, ErrandsAre
  <2>2. /\ CatalogHandlers[e.kind].address \subseteq Refusals
        /\ CatalogHandlers[e.kind].refused \subseteq Refusals
        /\ CatalogHandlers[e.kind].thrown \subseteq Refusals
    BY <2>1, HandlersAre
  <2> QED  BY <1>1, <2>2 DEF Lacks
<1>5. CASE \E status \in Refusals : Refuses(w, status)
  BY <1>3, <1>5, RefusalServes
<1>6. CASE Goes(w, After(Lacks(work[w], ask)))
  <2>1. PICK p \in Nat \ {0} :
           /\ p <= Len(h) /\ h[p] = ask /\ work[w].calls = SubSeq(h, p, Len(h))
           /\ PlaceIs(e.kind, p) /\ Knows(errand, cart, w, work[w], p)
    BY <1>1, <1>2, CallingNow
  <2>2. Owned(e)
    BY <1>1, <1>2, CallingNow
  <2> DEFINE k == Lacks(work[w], ask)
  <2>3. /\ k \in Jobs /\ k.calls = work[w].calls /\ k.seen = work[w].seen
        /\ k.have = work[w].have /\ k.list = work[w].list /\ k.shown = work[w].shown
        /\ k.found = work[w].found /\ k.lacking = work[w].lacking \union {ask}
    BY <1>2, <1>3, LacksIs
  <2> HIDE DEF k
  <2>4. Keeps(e, k, p + 1) /\ Lists(e, k, p + 1) /\ Shows(errand, cart, w, k, p + 1)
    BY <1>2, <1>3, <2>1, <2>3, CallTellsNothing
  <2>5. Covers(e, k, p + 1)
    <3>1. Covers(e, work[w], p) /\ (e.kind = "coverage" =>
             (p = 1 <=> ask = "address") /\ (p = 3 <=> ask = "search"))
      BY <2>1 DEF Knows, PlaceIs
    <3> QED  BY <2>3, <3>1 DEF Covers
  <2>6. Knows(errand, cart', w, k, p + 1)
    BY <1>3, <2>4, <2>5 DEF Knows
  <2> QED  BY <1>3, <1>6, <2>1, <2>2, <2>3, <2>6, CallStep DEF k
<1> QED  BY <1>4, <1>5, <1>6

LEMMA RefusesStep == CatalogInv => \A w \in Workers : RefusesPreview(w) => CatalogInv'
<1>1. 400 \in Refusals
  BY DEF Refusals
<1> QED  BY <1>1, StaysAround, RefusalServes DEF RefusesPreview

LEMMA UpdateStep == CatalogInv => \A w \in Workers : UpdateCart(w) => CatalogInv'
<1> SUFFICES ASSUME CatalogInv, NEW w \in Workers, UpdateCart(w) PROVE CatalogInv'
  OBVIOUS
<1> DEFINE e == errand[w]  h == CallsOf(e.kind)
<1>1. /\ Doing(w, "update") /\ UNCHANGED <<zone, errand>>
      /\ cart' = [cart EXCEPT ![CartOf(errand, w)] = w]
      /\ Goes(w, After(work[w])) \/ \E status \in {401, 502} : Refuses(w, status)
  BY DEF UpdateCart, CartOf
<1>2. "update" \in AllCalls /\ Doing(w, "update")
  BY <1>1 DEF AllCalls, Asks
<1>3. PICK p \in Nat \ {0} :
         /\ p <= Len(h) /\ h[p] = "update" /\ work[w].calls = SubSeq(h, p, Len(h))
         /\ PlaceIs(e.kind, p) /\ Knows(errand, cart, w, work[w], p)
  BY <1>2, CallingNow
<1>4. Owned(e)
  BY <1>2, CallingNow
<1>5. work[w] \in Jobs /\ errand \in Errands /\ cart \in Carts
  BY DEF CatalogInv
<1>6. e.kind \in Previews /\ p = 2
  BY <1>3 DEF PlaceIs
<1>7. w \in Peers(errand, CartOf(errand, w)) /\ CartOf(errand, w) \in Accounts \X Previews
  BY <1>5, <1>6, ErrandsAre DEF Peers, CartOf
<1>8. cart' \in Carts /\ \A key \in Accounts \X Previews : cart'[key] = cart[key] \/ cart'[key] \in Peers(errand, key)
  <2>1. w \in OrAbsent(Workers)
    BY DEF OrAbsent
  <2> QED  BY <1>1, <1>5, <1>7, <2>1 DEF Carts
<1>9. Around
  BY <1>1, <1>8 DEF Around, CatalogInv, StoredZoneIsWhole
<1>10. CASE \E status \in {401, 502} : Refuses(w, status)
  BY <1>9, <1>10, RefusalServes DEF Refusals
<1>11. CASE Goes(w, After(work[w]))
  <2>1. cart'[CartOf(errand, w)] = w
    BY <1>1, <1>5, <1>7 DEF Carts
  <2>2. e.kind \notin {"reachability", "restaurants", "coverage"}
    BY <1>6 DEF Previews
  <2>3. ~(p + 1 > ReadAt(e.kind))
    BY <1>6 DEF ReadAt
  <2>4. Shows(errand, cart', w, work[w], p + 1)
    BY <1>7, <2>1, <2>3 DEF Shows
  <2>5. Knows(errand, cart', w, work[w], p + 1)
    BY <2>2, <2>4 DEF Knows, Keeps, Lists, Covers
  <2> QED  BY <1>3, <1>4, <1>5, <1>9, <1>11, <2>5, CallStep
<1> QED  BY <1>1, <1>10, <1>11

LEMMA ReadStep == CatalogInv => \A w \in Workers : GetCart(w) => CatalogInv'
<1> SUFFICES ASSUME CatalogInv, NEW w \in Workers, GetCart(w) PROVE CatalogInv'
  OBVIOUS
<1> DEFINE e == errand[w]  h == CallsOf(e.kind)  k == Reads(work[w], cart[CartOf(errand, w)])
<1>1. /\ Doing(w, "read") /\ UNCHANGED <<zone, cart, errand>> /\ Goes(w, After(k))
  BY DEF GetCart, CartOf, Reads
<1>2. "read" \in AllCalls
  BY DEF AllCalls, Asks
<1>3. PICK p \in Nat \ {0} :
         /\ p <= Len(h) /\ h[p] = "read" /\ work[w].calls = SubSeq(h, p, Len(h))
         /\ PlaceIs(e.kind, p) /\ Knows(errand, cart, w, work[w], p)
  BY <1>1, <1>2, CallingNow
<1>4. Owned(e)
  BY <1>1, <1>2, CallingNow
<1>5. Around /\ work[w] \in Jobs /\ errand \in Errands /\ cart \in Carts /\ cart' = cart
  BY <1>1, StaysAround DEF CatalogInv
<1>6. e.kind \in Previews /\ p = ReadAt(e.kind) /\ p > 2
  BY <1>3 DEF PlaceIs, ReadAt
<1>7. cart[CartOf(errand, w)] \in OrAbsent(Workers)
  <2>1. CartOf(errand, w) \in Accounts \X Previews
    BY <1>5, <1>6, ErrandsAre DEF CartOf
  <2> QED  BY <1>5, <2>1 DEF Carts
<1>8. /\ k \in Jobs /\ k.calls = work[w].calls /\ k.shown = cart[CartOf(errand, w)]
      /\ k.lacking = work[w].lacking
  BY <1>5, <1>7, ReadsIs
<1> HIDE DEF k
<1>9. e.kind \notin {"reachability", "restaurants", "coverage"}
  BY <1>6 DEF Previews
<1>10. Shows(errand, cart, w, k, p + 1)
  BY <1>3, <1>6, <1>8 DEF Knows, Shows
<1>11. Knows(errand, cart', w, k, p + 1)
  BY <1>5, <1>9, <1>10 DEF Knows, Keeps, Lists, Covers
<1> QED  BY <1>1, <1>3, <1>4, <1>5, <1>8, <1>11, CallStep

\* The areas that ReachZone finds are areas, and without an estimated arrival
\* they are those of the whole halt unless one was seen.
LEMMA ReachIs ==
    \A seen \in OrAbsent(Zones), dwell \in Nat :
        /\ \A z \in EnsureInterceptReachability(seen, dwell) :
              z \in Zones /\ (seen = Absent => z.span = dwell)
        /\ \A eta \in Nat : DeepenIsochroneForApproach(seen, dwell, eta) \subseteq Zones
<1> SUFFICES ASSUME NEW seen \in OrAbsent(Zones), NEW dwell \in Nat
             PROVE  /\ \A z \in EnsureInterceptReachability(seen, dwell) :
                          z \in Zones /\ (seen = Absent => z.span = dwell)
                    /\ \A eta \in Nat : DeepenIsochroneForApproach(seen, dwell, eta) \subseteq Zones
  OBVIOUS
<1>1. \A span \in Nat : Built(span) \subseteq Zones /\ \A z \in Built(span) : z.span = span
  BY DEF Built, Zones
<1>2. seen # Absent => seen \in Zones
  BY DEF OrAbsent
<1>3. \A eta \in Nat : Budget(dwell, eta) \in Nat
  BY DEF Budget
<1>4. \A z \in EnsureInterceptReachability(seen, dwell) : z \in Zones /\ (seen = Absent => z.span = dwell)
  BY <1>1, <1>2 DEF EnsureInterceptReachability
<1>5. \A eta \in Nat : DeepenIsochroneForApproach(seen, dwell, eta) \subseteq Zones
  BY <1>1, <1>2, <1>3 DEF DeepenIsochroneForApproach
<1> QED  BY <1>4, <1>5

LEMMA ReachStep == CatalogInv => \A w \in Workers : ReachZone(w) => CatalogInv'
<1> SUFFICES ASSUME CatalogInv, NEW w \in Workers, ReachZone(w) PROVE CatalogInv'
  OBVIOUS
<1> DEFINE e == errand[w]  h == CallsOf(e.kind)  dwell == Stops[e.stop].dwell  seen == work[w].seen
<1>1. /\ Doing(w, "zone") /\ UNCHANGED <<zone, cart, errand>>
      /\ \E z \in IF e.eta = Absent THEN EnsureInterceptReachability(seen, dwell)
                  ELSE DeepenIsochroneForApproach(seen, dwell, e.eta) : Goes(w, After(Reaches(work[w], z)))
  BY DEF ReachZone, Reaches
<1>2. "zone" \in AllCalls
  BY DEF AllCalls
<1>3. PICK p \in Nat \ {0} :
         /\ p <= Len(h) /\ h[p] = "zone" /\ work[w].calls = SubSeq(h, p, Len(h))
         /\ PlaceIs(e.kind, p) /\ Knows(errand, cart, w, work[w], p)
  BY <1>1, <1>2, CallingNow
<1>4. Owned(e)
  BY <1>1, <1>2, CallingNow
<1>5. Around /\ work[w] \in Jobs /\ errand \in Errands /\ cart \in Carts /\ cart' = cart
  BY <1>1, StaysAround DEF CatalogInv
<1>6. seen \in OrAbsent(Zones) /\ dwell \in Nat
  BY <1>4, <1>5, DwellIs DEF Jobs, Owned
<1>7. e.eta # Absent => e.eta \in Nat /\ e.kind = "restaurants"
  BY <1>5, ErrandsAre DEF OrAbsent
<1>8. PICK z \in Zones : /\ Goes(w, After(Reaches(work[w], z)))
                         /\ e.kind # "restaurants" => (seen = Absent => z.span = dwell)
  <2>1. CASE e.eta = Absent
    BY <1>1, <1>6, <2>1, ReachIs
  <2>2. CASE e.eta # Absent
    BY <1>1, <1>6, <1>7, <2>2, ReachIs
  <2> QED  BY <2>1, <2>2
<1> DEFINE k == Reaches(work[w], z)
<1>9. /\ k \in Jobs /\ k.calls = work[w].calls /\ k.seen = seen /\ k.shown = work[w].shown
      /\ k.list = work[w].list /\ k.lacking = work[w].lacking /\ k.found = work[w].found /\ k.have = z
  BY <1>5, ReachesIs
<1> HIDE DEF k
<1>10. Keeps(e, k, p + 1)
  BY <1>8, <1>9 DEF Keeps
<1>11. Lists(e, k, p + 1)
  <2>1. e.kind = "restaurants" => p # 4
    BY <1>3 DEF PlaceIs
  <2> QED  BY <1>9, <2>1 DEF Lists
<1>12. Shows(errand, cart, w, k, p + 1)
  <2>1. e.kind \in Previews => p # 2 /\ p # ReadAt(e.kind)
    BY <1>3 DEF PlaceIs
  <2>2. ReadAt(e.kind) \in Nat
    BY DEF ReadAt
  <2> QED  BY <1>3, <1>9, <2>1, <2>2 DEF Knows, Shows
<1>13. Covers(e, k, p + 1)
  <2>1. e.kind = "coverage" => p # 1 /\ p # 3
    BY <1>3 DEF PlaceIs
  <2> QED  BY <1>3, <1>9, <2>1 DEF Knows, Covers
<1>14. Knows(errand, cart', w, k, p + 1)
  BY <1>5, <1>10, <1>11, <1>12, <1>13 DEF Knows
<1> QED  BY <1>3, <1>4, <1>5, <1>8, <1>9, <1>14, CallStep DEF k

LEMMA KeepStep == CatalogInv => \A w \in Workers : KeepZone(w) => CatalogInv'
<1> SUFFICES ASSUME CatalogInv, NEW w \in Workers, KeepZone(w) PROVE CatalogInv'
  OBVIOUS
<1> DEFINE e == errand[w]  h == CallsOf(e.kind)
<1>1. /\ Doing(w, "keep") /\ UNCHANGED <<cart, errand>> /\ Goes(w, After(work[w]))
      /\ zone' = (IF work[w].have.ok /\ work[w].seen = Absent THEN [zone EXCEPT ![e.stop] = work[w].have] ELSE zone)
  BY DEF KeepZone
<1>2. "keep" \in AllCalls
  BY DEF AllCalls
<1>3. PICK p \in Nat \ {0} :
         /\ p <= Len(h) /\ h[p] = "keep" /\ work[w].calls = SubSeq(h, p, Len(h))
         /\ PlaceIs(e.kind, p) /\ Knows(errand, cart, w, work[w], p)
  BY <1>1, <1>2, CallingNow
<1>4. Owned(e)
  BY <1>1, <1>2, CallingNow
<1>5. work[w] \in Jobs /\ errand \in Errands /\ cart \in Carts
  BY DEF CatalogInv
<1>6. e.kind = "reachability" /\ p = 2
  BY <1>3 DEF PlaceIs
<1>7. work[w].have \in Zones /\ (work[w].seen = Absent => work[w].have.span = Stops[e.stop].dwell)
  BY <1>3, <1>6 DEF Knows, Keeps
<1>8. zone' \in [DOMAIN Stops -> OrAbsent(Zones)] /\ StoredZoneIsWhole'
  <2>1. work[w].have \in OrAbsent(Zones)
    BY <1>7 DEF OrAbsent
  <2>2. zone \in [DOMAIN Stops -> OrAbsent(Zones)] /\ StoredZoneIsWhole
    BY DEF CatalogInv
  <2> QED  BY <1>1, <1>7, <2>1, <2>2 DEF StoredZoneIsWhole
<1>9. Around
  BY <1>1, <1>5, <1>8 DEF Around
<1>10. Knows(errand, cart', w, work[w], p + 1)
  BY <1>6 DEF Knows, Keeps, Lists, Shows, Covers, Previews
<1> QED  BY <1>1, <1>3, <1>4, <1>5, <1>9, <1>10, CallStep

LEMMA RankStep == CatalogInv => \A w \in Workers : RankKitchensAt(w) => CatalogInv'
<1> SUFFICES ASSUME CatalogInv, NEW w \in Workers, RankKitchensAt(w) PROVE CatalogInv'
  OBVIOUS
<1> DEFINE e == errand[w]  h == CallsOf(e.kind)
           says(times) == [i \in DOMAIN Kitchens |-> IF Kitchens[i].located THEN times[i] ELSE Absent]
           list(times) == RankRestaurantsForIntercept(says(times), work[w].have)
<1>1. PICK times \in RideTimes : /\ Doing(w, "rank") /\ UNCHANGED <<zone, cart, errand>>
                                 /\ Goes(w, After(Ranks(work[w], list(times))))
  BY DEF RankKitchensAt, Ranks
<1>2. "rank" \in AllCalls
  BY DEF AllCalls
<1>3. PICK p \in Nat \ {0} :
         /\ p <= Len(h) /\ h[p] = "rank" /\ work[w].calls = SubSeq(h, p, Len(h))
         /\ PlaceIs(e.kind, p) /\ Knows(errand, cart, w, work[w], p)
  BY <1>1, <1>2, CallingNow
<1>4. Owned(e)
  BY <1>1, <1>2, CallingNow
<1>5. Around /\ work[w] \in Jobs /\ errand \in Errands /\ cart \in Carts /\ cart' = cart
  BY <1>1, StaysAround DEF CatalogInv
<1>6. e.kind = "restaurants" /\ p = 4
  BY <1>3 DEF PlaceIs
<1>7. work[w].have \in Zones
  BY <1>3, <1>6 DEF Knows, Lists
<1>8. says(times) \in Tolds
  <2>1. \A i \in DOMAIN Kitchens : times[i] \in Told
    BY RideTimesAre
  <2>2. Absent \in Told
    BY DEF Told, OrAbsent
  <2> QED  BY <2>1, <2>2 DEF Tolds
<1>9. list(times) \in Seq(Nat) /\ Helpful(list(times), work[w].have)
  BY <1>7, <1>8, RankIsHelpful
<1> HIDE DEF list
<1> DEFINE k == Ranks(work[w], list(times))
<1>10. k \in Jobs /\ k.calls = work[w].calls /\ k.have = work[w].have /\ k.list = list(times)
  BY <1>5, <1>9, RanksIs
<1> HIDE DEF k
<1>11. Knows(errand, cart', w, k, p + 1)
  BY <1>6, <1>7, <1>9, <1>10 DEF Knows, Keeps, Lists, Shows, Covers, Previews
<1> QED  BY <1>1, <1>3, <1>4, <1>5, <1>10, <1>11, CallStep DEF k

LEMMA CatalogStart == CatalogInit => CatalogInv
<1> SUFFICES ASSUME CatalogInit PROVE CatalogInv
  OBVIOUS
<1>1. zone \in [DOMAIN Stops -> OrAbsent(Zones)] /\ StoredZoneIsWhole
  <2>1. /\ StoredZones \subseteq [DOMAIN Stops -> OrAbsent(Zones)]
        /\ \A z \in StoredZones, s \in DOMAIN Stops : z[s] # Absent => z[s].span = Stops[s].dwell
    BY ZonesAssumption, Zenon DEF Zones
  <2> QED  BY <2>1 DEF CatalogInit, StoredZoneIsWhole
<1>2. \A S : Absent \in OrAbsent(S)
  BY DEF OrAbsent
<1>3. cart \in Carts /\ \A key \in Accounts \X Previews : cart[key] \in OrAbsent(Peers(errand, key))
  BY <1>2 DEF CatalogInit, Carts
<1>4. work \in [Workers -> Jobs] /\ \A w \in Workers : Serve(errand, cart, w, work[w])
  BY NoWorkIs DEF CatalogInit, Serve
<1> QED  BY <1>1, <1>3, <1>4 DEF CatalogInit, CatalogInv

LEMMA CatalogStep == CatalogInv /\ [CatalogNext]_catalogVars => CatalogInv'
<1> SUFFICES ASSUME CatalogInv, [CatalogNext]_catalogVars PROVE CatalogInv'
  OBVIOUS
<1>1. CASE UNCHANGED catalogVars
  BY <1>1 DEF catalogVars, CatalogInv, StoredZoneIsWhole, Serve, Owned, Knows, Keeps, Lists, Shows, Covers,
              Peers, CartOf
<1>2. CASE CatalogNext
  BY <1>2, AdmitStep, SucceedsStep, FailsStep, RefusesStep, UpdateStep, ReadStep, ReachStep, KeepStep,
     RankStep DEF CatalogNext
<1> QED  BY <1>1, <1>2

\* The invariant has what the catalog promises.
LEMMA CatalogKeeps == CatalogInv => CatalogKeepsItsWord
<1> SUFFICES ASSUME CatalogInv PROVE CatalogKeepsItsWord
  OBVIOUS
<1>1. \A w \in Workers :
         /\ work[w] \in Jobs /\ errand[w].kind \in DOMAIN CatalogHandlers
         /\ CallsOf(errand[w].kind) \in Seq(AllCalls) /\ Len(CallsOf(errand[w].kind)) \in Nat
         /\ Serve(errand, cart, w, work[w])
  BY ErrandsAre, HandlersAre, LenProperties DEF CatalogInv
<1>2. \A w \in Workers : work[w].status = 200 =>
         /\ Owned(errand[w])
         /\ Knows(errand, cart, w, work[w], Len(CallsOf(errand[w].kind)) + 1)
  <2> SUFFICES ASSUME NEW w \in Workers, work[w].status = 200
               PROVE  /\ Owned(errand[w])
                      /\ Knows(errand, cart, w, work[w], Len(CallsOf(errand[w].kind)) + 1)
    OBVIOUS
  <2>1. work[w] # NoWork /\ work[w].status \notin Refusals
    BY DEF NoWork, NotYet, Refusals
  <2>2. /\ Owned(errand[w])
        /\ \E p \in Nat \ {0} : At(work[w], CallsOf(errand[w].kind), p) /\ Knows(errand, cart, w, work[w], p)
    BY <1>1, <2>1 DEF Serve
  <2> QED  BY <1>1, <2>2 DEF At, NotYet
<1>3. OnlyOwnersSee
  <2> SUFFICES ASSUME NEW w \in Workers, work[w].status = NotYet, Doing(w, "admit") = FALSE
               PROVE  Owned(errand[w])
    BY <1>2, ZenonT(30) DEF OnlyOwnersSee
  <2>1. work[w] # NoWork
    BY DEF NoWork, Doing
  <2>2. work[w].status \notin Refusals
    BY DEF NotYet, Refusals
  <2> QED  BY <1>1, <2>1, <2>2 DEF Serve
<1>4. StoredZoneIsWhole
  BY DEF CatalogInv
<1> DEFINE last(kind) == Len(CallsOf(kind)) + 1
<1>5. last("preview") = 6 /\ last("basket") = 4 /\ last("restaurants") = 5
  <2>1. /\ Len(<<"address", "update", "coupon", "read", "coupons">>) = 5
        /\ Len(<<"address", "update", "read">>) = 3 /\ Len(<<"address", "search", "zone", "rank">>) = 4
    OBVIOUS
  <2>2. Len(CallsOf("preview")) = 5 /\ Len(CallsOf("basket")) = 3 /\ Len(CallsOf("restaurants")) = 4
    BY <2>1, CallsAre, Zenon
  <2>3. last("preview") = 5 + 1 /\ last("basket") = 3 + 1 /\ last("restaurants") = 4 + 1
    BY <2>2, Zenon
  <2> HIDE DEF last
  <2> QED  BY <2>3
<1> HIDE DEF last
<1>6. PreviewIsOwn
  <2> SUFFICES ASSUME NEW w \in Workers, errand[w].kind \in Previews, work[w].status = 200,
                      "read" \notin work[w].lacking, "update" \notin work[w].lacking
               PROVE  \/ work[w].shown = w
                      \/ \E v \in Workers \ {w} : /\ work[w].shown = v /\ errand[v].account = errand[w].account
                                                  /\ errand[v].kind = errand[w].kind
    BY DEF PreviewIsOwn
  <2>1. last(errand[w].kind) > ReadAt(errand[w].kind)
    BY <1>5 DEF Previews, ReadAt
  <2>2. Shows(errand, cart, w, work[w], last(errand[w].kind))
    BY <1>2 DEF Knows, last
  <2>3. work[w].shown \in Peers(errand, CartOf(errand, w))
    BY <2>1, <2>2 DEF Shows
  <2> QED  BY <2>3 DEF Peers, CartOf
<1>7. ListIsHelpful
  <2> SUFFICES ASSUME NEW w \in Workers, errand[w].kind = "restaurants", work[w].status = 200
               PROVE  Helpful(work[w].list, work[w].have)
    BY DEF ListIsHelpful, Helpful, Open
  <2>1. Lists(errand[w], work[w], 5)
    BY <1>2, <1>5 DEF Knows, last
  <2> QED  BY <2>1 DEF Lists
<1>8. CoverageIsHonest
  <2> SUFFICES ASSUME NEW w \in Workers, errand[w].kind = "coverage", work[w].status = 200
               PROVE  /\ "address" \in work[w].lacking =>
                            CoverageTiers(work[w]) = [food |-> "none", goods |-> "none"]
                      /\ "search" \in work[w].lacking => CoverageTiers(work[w]).food = "none"
    BY DEF CoverageIsHonest
  <2>1. \A p \in Nat : Covers(errand[w], work[w], p) =>
           /\ "address" \in work[w].lacking => work[w].found = NothingFound
           /\ "search" \in work[w].lacking => work[w].found.search = 0
    BY DEF Covers
  <2>2. /\ "address" \in work[w].lacking => work[w].found = NothingFound
        /\ "search" \in work[w].lacking => work[w].found.search = 0
    BY <1>1, <1>2, <2>1 DEF Knows
  <2>3. NothingFound.search = 0 /\ NothingFound.products = 0 /\ NothingFound.goto = 0
    BY DEF NothingFound
  <2> QED  BY <2>2, <2>3 DEF CoverageTiers, TierFromCount
<1> QED  BY <1>3, <1>4, <1>6, <1>7, <1>8 DEF CatalogKeepsItsWord

\* Whatever the requests about stops are and however they overlap, and whichever of
\* their calls fail, stops are shown to their owners only, the stored area is that
\* of the whole halt, a preview shows a cart of its account, no kitchen out of reach
\* is listed before one within reach, and what was not asked for is not promised
\* (routes/intercepts.ts, routes/swiggy-commerce.ts, order/restaurant-rank.ts).
THEOREM TheCatalogKeepsItsWord == CatalogSpec => []CatalogKeepsItsWord
<1>1. CatalogSpec => []CatalogInv
  BY CatalogStart, CatalogStep, PTL DEF CatalogSpec
<1>2. CatalogInv => CatalogKeepsItsWord
  BY CatalogKeeps
<1> QED  BY <1>1, <1>2, PTL

----------------------------------------------------------------------------
\* A set of numbers that is not empty has a least one.
LEMMA LeastOne ==
    ASSUME NEW S \in SUBSET Nat, S # {}
    PROVE  \E n \in S : \A m \in S : n <= m
<1> DEFINE R == {ss \in Nat \X Nat : ss[1] < ss[2]}
<1>1. IsWellFoundedOn(R, Nat)
  BY NatLessThanWellFounded, Zenon DEF OpToRel
<1> HIDE DEF R
<1>2. \E n \in S : \A m \in S : <<m, n>> \notin R
  BY <1>1, WFMin, Zenon
<1>3. \A m, n \in Nat : m < n => <<m, n>> \in R
  BY DEF R
<1>4. \A m, n \in S : <<m, n>> \notin R => n <= m
  BY <1>3
<1> QED  BY <1>2, <1>4, Zenon

\* A set that has 0, and a number when it has the one before, has them all.
LEMMA StepByStep ==
    ASSUME NEW N \in Nat, NEW S, 0 \in S, \A i \in 1 .. N : i - 1 \in S => i \in S
    PROVE  \A i \in 0 .. N : i \in S
<1> DEFINE out == {i \in 0 .. N : i \notin S}
<1> SUFFICES ASSUME out # {} PROVE FALSE
  OBVIOUS
<1>1. PICK n \in out : \A m \in out : n <= m
  <2>1. out \in SUBSET Nat
    OBVIOUS
  <2> HIDE DEF out
  <2> QED  BY <2>1, LeastOne
<1>2. n \in 1 .. N /\ n - 1 \in 0 .. N /\ n - 1 \notin out
  BY <1>1
<1> QED  BY <1>1, <1>2

\* The values a variable has in a loop over the numbers up to N.
Loops(N, V, b, G) == {f \in [0 .. N -> V] : f[0] = b /\ \A i \in 1 .. N : f[i] = G[i][f[i - 1]]}

\* Such a loop runs.
LEMMA LoopRuns ==
    ASSUME NEW N \in Nat, NEW V, NEW b \in V, NEW G \in [1 .. N -> [V -> V]]
    PROVE  Loops(N, V, b, G) # {}
<1> DEFINE Done(n) == \E f \in [0 .. n -> V] : f[0] = b /\ \A i \in 1 .. n : f[i] = G[i][f[i - 1]]
           S == {n \in Nat : Done(n)}
<1>1. 0 \in S
  <2> DEFINE f == [i \in 0 .. 0 |-> b]
  <2>1. f \in [0 .. 0 -> V] /\ f[0] = b /\ \A i \in 1 .. 0 : f[i] = G[i][f[i - 1]]
    OBVIOUS
  <2> HIDE DEF f
  <2> QED  BY <2>1
<1>2. ASSUME NEW n \in 1 .. N, n - 1 \in S PROVE n \in S
  <2>1. PICK f \in [0 .. n - 1 -> V] : f[0] = b /\ \A i \in 1 .. n - 1 : f[i] = G[i][f[i - 1]]
    BY <1>2
  <2> DEFINE g == [i \in 0 .. n |-> IF i = n THEN G[n][f[n - 1]] ELSE f[i]]
  <2>2. g \in [0 .. n -> V]
    BY <2>1
  <2>3. g[0] = b
    BY <2>1
  <2>4. \A i \in 1 .. n : g[i] = G[i][g[i - 1]]
    BY <2>1
  <2> HIDE DEF g
  <2> QED  BY <2>2, <2>3, <2>4
<1> HIDE DEF S
<1>3. \A i \in 0 .. N : i \in S
  <2>1. \A i \in 1 .. N : i - 1 \in S => i \in S
    BY <1>2
  <2> QED  BY <1>1, <2>1, StepByStep, Zenon
<1>4. N \in S
  BY <1>3
<1>5. Done(N)
  BY <1>4 DEF S
<1> QED  BY <1>5 DEF Loops

IsTable(f, N) == f = [i \in 0 .. N |-> f[i]]

\* A function that takes these steps while it has such values is one.
LEMMA LoopIs ==
    ASSUME NEW N \in Nat, NEW V, NEW b \in V, NEW G \in [1 .. N -> [V -> V]],
           NEW f, IsTable(f, N), f[0] = b,
           \A i \in 1 .. N : f[i - 1] \in V => f[i] = G[i][f[i - 1]]
    PROVE  f \in Loops(N, V, b, G)
<1> DEFINE S == {i \in 0 .. N : f[i] \in V}
<1>s. \A i \in 1 .. N : f[i - 1] \in V => f[i] \in V /\ f[i] = G[i][f[i - 1]]
  <2> SUFFICES ASSUME NEW i \in 1 .. N, f[i - 1] \in V PROVE f[i] \in V /\ f[i] = G[i][f[i - 1]]
    OBVIOUS
  <2>1. f[i] = G[i][f[i - 1]]
    OBVIOUS
  <2>2. G[i] \in [V -> V]
    OBVIOUS
  <2> QED  BY <2>1, <2>2
<1>1. 0 \in S /\ \A i \in 1 .. N : i - 1 \in S => i \in S
  BY <1>s
<1> HIDE DEF S
<1>2. \A i \in 0 .. N : i \in S
  BY <1>1, StepByStep
<1>3. \A i \in 0 .. N : f[i] \in V
  BY <1>2 DEF S
<1>4. f \in [0 .. N -> V]
  BY <1>3 DEF IsTable
<1>5. \A i \in 1 .. N : f[i] = G[i][f[i - 1]]
  <2>1. \A i \in 1 .. N : i - 1 \in 0 .. N
    OBVIOUS
  <2> QED  BY <1>3, <1>s, <2>1, Zenon
<1> QED  BY <1>4, <1>5 DEF Loops

\* Two loops have the same values as long as they take the same steps.
LEMMA LoopsAgree ==
    ASSUME NEW N \in Nat, NEW M \in Nat, N <= M, NEW V, NEW b, NEW G, NEW H,
           \A i \in 1 .. N, v \in V : G[i][v] = H[i][v],
           NEW f \in Loops(N, V, b, G), NEW g \in Loops(M, V, b, H)
    PROVE  \A i \in 0 .. N : f[i] = g[i]
<1> DEFINE S == {i \in 0 .. N : f[i] = g[i]}
<1>1. 0 \in S /\ \A i \in 1 .. N : i - 1 \in S => i \in S
  BY DEF Loops
<1> HIDE DEF S
<1>2. \A i \in 0 .. N : i \in S
  BY <1>1, StepByStep
<1> QED  BY <1>2 DEF S

----------------------------------------------------------------------------
\* The sum of lines, as a loop over them.
Summing(lines) == [i \in 1 .. Len(lines) |-> [v \in Int |-> v + LineTotal(lines[i])]]

LEMMA LineTotalIs == \A l \in Line : LineTotal(l) \in Int
BY DEF Line, LineTotal

LEMMA SummingIs ==
    ASSUME NEW lines \in Seq(Line)
    PROVE  /\ Len(lines) \in Nat /\ Summing(lines) \in [1 .. Len(lines) -> [Int -> Int]]
           /\ \A i \in 1 .. Len(lines) : lines[i] \in Line /\ LineTotal(lines[i]) \in Int
           /\ \A i \in 1 .. Len(lines), v \in Int : Summing(lines)[i][v] = v + LineTotal(lines[i])
<1>1. Len(lines) \in Nat /\ \A i \in 1 .. Len(lines) : lines[i] \in Line /\ LineTotal(lines[i]) \in Int
  BY LineTotalIs
<1> QED  BY <1>1 DEF Summing

LEMMA SumIs ==
    ASSUME NEW lines \in Seq(Line)
    PROVE  \E f \in Loops(Len(lines), Int, 0, Summing(lines)) : Subtotal(lines) = f[Len(lines)]
<1> DEFINE N == Len(lines)
           G == Summing(lines)
           step(f) == [i \in 0 .. N |-> IF i = 0 THEN 0 ELSE f[i - 1] + LineTotal(lines[i])]
           s == CHOOSE f : f = step(f)
<1>1. N \in Nat /\ 0 \in Int /\ G \in [1 .. N -> [Int -> Int]]
  BY SummingIs
<1>2. \A i \in 1 .. N, v \in Int : G[i][v] = v + LineTotal(lines[i])
  BY SummingIs
<1>3. Subtotal(lines) = s[N]
  BY DEF Subtotal
<1> HIDE DEF G, N, s
<1>4. PICK f : f \in Loops(N, Int, 0, G)
  BY <1>1, LoopRuns, Zenon
<1>5. f = step(f)
  <2>0. f \in [0 .. N -> Int] /\ f[0] = 0 /\ \A i \in 1 .. N : f[i] = G[i][f[i - 1]]
    BY <1>4 DEF Loops
  <2>1. \A i \in 1 .. N : f[i] = f[i - 1] + LineTotal(lines[i])
    BY <1>1, <1>2, <2>0
  <2>2. \A i \in 0 .. N : f[i] = step(f)[i]
    BY <1>1, <2>0, <2>1
  <2> QED  BY <2>0, <2>2
<1>6. s = step(s)
  BY <1>5, Zenon DEF s
<1>7. /\ IsTable(s, N) /\ s[0] = 0
      /\ \A i \in 1 .. N : s[i - 1] \in Int => s[i] = G[i][s[i - 1]]
  <2>0. \A i \in 0 .. N : s[i] = IF i = 0 THEN 0 ELSE s[i - 1] + LineTotal(lines[i])
    BY <1>6, Zenon
  <2>1. s[0] = 0 /\ \A i \in 1 .. N : s[i] = s[i - 1] + LineTotal(lines[i])
    BY <1>1, <2>0
  <2>2. \A i \in 1 .. N : s[i - 1] \in Int => s[i] = G[i][s[i - 1]]
    BY <1>2, <2>1
  <2>3. IsTable(s, N)
    BY <1>6 DEF IsTable
  <2> QED  BY <2>1, <2>2, <2>3
<1>8. s \in Loops(N, Int, 0, G)
  BY <1>1, <1>7, LoopIs, Zenon
<1> QED  BY <1>3, <1>8 DEF N, G

LEMMA SubtotalIs == \A lines \in Seq(Line) : Subtotal(lines) \in Int
<1> SUFFICES ASSUME NEW lines \in Seq(Line) PROVE Subtotal(lines) \in Int
  OBVIOUS
<1>1. PICK f \in Loops(Len(lines), Int, 0, Summing(lines)) : Subtotal(lines) = f[Len(lines)]
  BY SumIs
<1> QED  BY <1>1 DEF Loops

\* A line more adds its total.
LEMMA SubtotalGrows ==
    ASSUME NEW lines \in Seq(Line), NEW l \in Line
    PROVE  Subtotal(Append(lines, l)) = Subtotal(lines) + LineTotal(l)
<1> DEFINE N == Len(lines)
           more == Append(lines, l)
           G == Summing(lines)
           H == Summing(more)
           V == Int
<1>1. N \in Nat /\ more \in Seq(Line) /\ Len(more) = N + 1 /\ more[N + 1] = l
      /\ \A i \in 1 .. N : more[i] = lines[i]
  OBVIOUS
<1> HIDE DEF more
<1>2. /\ \A i \in 1 .. N, v \in V : G[i][v] = v + LineTotal(lines[i])
      /\ \A i \in 1 .. N + 1, v \in V : H[i][v] = v + LineTotal(more[i])
  BY <1>1, SummingIs
<1>3. PICK f \in Loops(N, V, 0, G) : Subtotal(lines) = f[N]
  BY SumIs
<1>4. PICK g \in Loops(N + 1, V, 0, H) : Subtotal(more) = g[N + 1]
  <2>1. \E g \in Loops(Len(more), V, 0, H) : Subtotal(more) = g[Len(more)]
    BY <1>1, SumIs
  <2> QED  BY <1>1, <2>1
<1> HIDE DEF G, H, N, V
<1>5. f[N] = g[N]
  <2>1. N + 1 \in Nat /\ N <= N + 1 /\ \A i \in 1 .. N, v \in V : G[i][v] = H[i][v]
    BY <1>1, <1>2
  <2>2. \A i \in 0 .. N : f[i] = g[i]
    BY <1>1, <2>1, LoopsAgree, SMTT(30)
  <2> QED  BY <1>1, <2>2
<1>6. g[N + 1] = g[N] + LineTotal(l)
  <2>1. g \in [0 .. N + 1 -> Int] /\ g[N + 1] = H[N + 1][g[N]]
    BY <1>1 DEF Loops, V
  <2> QED  BY <1>1, <1>2, <2>1 DEF V
<1> QED  BY <1>3, <1>4, <1>5, <1>6 DEF more

----------------------------------------------------------------------------
\* One sequence after the other, as a loop over them.
Joining(T, seqs) == [i \in 1 .. Len(seqs) |-> [v \in Seq(T) |-> v \o seqs[i]]]

LEMMA JoiningIs ==
    ASSUME NEW T, NEW seqs \in Seq(Seq(T))
    PROVE  /\ Len(seqs) \in Nat /\ <<>> \in Seq(T)
           /\ Joining(T, seqs) \in [1 .. Len(seqs) -> [Seq(T) -> Seq(T)]]
           /\ \A i \in 1 .. Len(seqs) : seqs[i] \in Seq(T)
           /\ \A i \in 1 .. Len(seqs), v \in Seq(T) : Joining(T, seqs)[i][v] = v \o seqs[i]
<1>1. Len(seqs) \in Nat /\ <<>> \in Seq(T) /\ \A i \in 1 .. Len(seqs) : seqs[i] \in Seq(T)
  OBVIOUS
<1>2. \A v, w \in Seq(T) : v \o w \in Seq(T)
  OBVIOUS
<1> QED  BY <1>1, <1>2 DEF Joining

LEMMA FlatIs ==
    ASSUME NEW T, NEW seqs \in Seq(Seq(T))
    PROVE  \E f \in Loops(Len(seqs), Seq(T), <<>>, Joining(T, seqs)) : FlattenSeq(seqs) = f[Len(seqs)]
<1> DEFINE N == Len(seqs)
           G == Joining(T, seqs)
           cat(v, w) == v \o w
           step(f) == [i \in 1 .. N |-> IF i = 1 THEN seqs[i] ELSE cat(f[i - 1], seqs[i])]
           flat == CHOOSE f : f = step(f)
           V == Seq(T)
           none == <<>>
<1>1. N \in Nat /\ none \in V /\ G \in [1 .. N -> [V -> V]] /\ \A i \in 1 .. N : seqs[i] \in V
  BY JoiningIs
<1>2. \A i \in 1 .. N, v \in V : G[i][v] = cat(v, seqs[i])
  BY JoiningIs
<1>3. FlattenSeq(seqs) = IF N = 0 THEN seqs ELSE flat[N]
  BY Zenon DEF FlattenSeq
<1>4. \A v \in V : cat(none, v) = v
  BY ConcatEmptySeq
<1>5. N = 0 => seqs = none
  OBVIOUS
<1> HIDE DEF G, N, flat, cat, V, none
<1>6. PICK f : f \in Loops(N, V, none, G)
  BY <1>1, LoopRuns, Zenon
<1>7. f \in [0 .. N -> V] /\ f[0] = none /\ \A i \in 1 .. N : f[i] = cat(f[i - 1], seqs[i])
  BY <1>1, <1>2, <1>6 DEF Loops
<1> DEFINE g == [i \in 1 .. N |-> f[i]]
<1>8. g = step(g)
  <2>1. \A i \in 1 .. N : g[i] = step(g)[i]
    BY <1>1, <1>4, <1>7
  <2> QED  BY <2>1
<1> HIDE DEF g
<1>9. flat = step(flat)
  BY <1>8, Zenon DEF flat
<1> DEFINE h == [i \in 0 .. N |-> IF i = 0 THEN none ELSE flat[i]]
<1>10. /\ IsTable(h, N) /\ h[0] = none /\ h[N] = (IF N = 0 THEN none ELSE flat[N])
       /\ \A i \in 1 .. N : h[i - 1] \in V => h[i] = G[i][h[i - 1]]
  <2>1. \A i \in 1 .. N : flat[i] = IF i = 1 THEN seqs[i] ELSE cat(flat[i - 1], seqs[i])
    BY <1>9, Zenon
  <2>2. h[0] = none /\ h[N] = (IF N = 0 THEN none ELSE flat[N]) /\ \A i \in 1 .. N : h[i] = flat[i]
    BY <1>1
  <2>3. IsTable(h, N)
    BY DEF IsTable
  <2> HIDE DEF h
  <2>4. \A i \in 1 .. N : h[i - 1] \in V => h[i] = G[i][h[i - 1]]
    BY <1>1, <1>2, <1>4, <2>1, <2>2
  <2> QED  BY <2>2, <2>3, <2>4
<1> HIDE DEF h
<1>11. h \in Loops(N, V, none, G)
  BY <1>1, <1>10, LoopIs, Zenon
<1>12. FlattenSeq(seqs) = h[N]
  BY <1>3, <1>5, <1>10
<1> QED  BY <1>11, <1>12 DEF N, V, none, G

LEMMA FlatType == ASSUME NEW T, NEW seqs \in Seq(Seq(T)) PROVE FlattenSeq(seqs) \in Seq(T)
<1>1. PICK f \in Loops(Len(seqs), Seq(T), <<>>, Joining(T, seqs)) : FlattenSeq(seqs) = f[Len(seqs)]
  BY FlatIs
<1>2. Len(seqs) \in 0 .. Len(seqs)
  OBVIOUS
<1> QED  BY <1>1, <1>2 DEF Loops

\* A sequence more comes after the others.
LEMMA FlatGrows ==
    ASSUME NEW T, NEW seqs \in Seq(Seq(T)), NEW s \in Seq(T)
    PROVE  FlattenSeq(Append(seqs, s)) = FlattenSeq(seqs) \o s
<1> DEFINE N == Len(seqs)
           more == Append(seqs, s)
           G == Joining(T, seqs)
           H == Joining(T, more)
           V == Seq(T)
           none == <<>>
           cat(v, w) == v \o w
<1>1. N \in Nat /\ more \in Seq(V) /\ Len(more) = N + 1 /\ more[N + 1] = s
      /\ \A i \in 1 .. N : more[i] = seqs[i]
  OBVIOUS
<1> HIDE DEF more
<1>2. /\ \A i \in 1 .. N, v \in V : G[i][v] = cat(v, seqs[i])
      /\ \A i \in 1 .. Len(more), v \in V : H[i][v] = cat(v, more[i])
  BY <1>1, JoiningIs, ZenonT(30)
<1>3. PICK f \in Loops(N, V, none, G) : FlattenSeq(seqs) = f[N]
  BY FlatIs
<1>4. PICK g \in Loops(Len(more), V, none, H) : FlattenSeq(more) = g[Len(more)]
  BY <1>1, FlatIs
<1> HIDE DEF G, H, N, V, none, cat
<1>5. f[N] = g[N]
  <2>1. N + 1 \in Nat /\ N <= N + 1 /\ \A i \in 1 .. N, v \in V : G[i][v] = H[i][v]
    BY <1>1, <1>2
  <2>2. g \in Loops(N + 1, V, none, H)
    BY <1>1, <1>4
  <2>3. \A i \in 0 .. N : f[i] = g[i]
    BY <1>1, <2>1, <2>2, LoopsAgree, SMTT(30)
  <2> QED  BY <1>1, <2>3
<1>6. g[N + 1] = cat(g[N], s)
  <2>1. g[N] \in V /\ g[N + 1] = H[N + 1][g[N]]
    <3>1. g \in Loops(N + 1, V, none, H)
      BY <1>1, <1>4
    <3>2. g \in [0 .. N + 1 -> V] /\ \A i \in 1 .. N + 1 : g[i] = H[i][g[i - 1]]
      BY <3>1, Zenon DEF Loops
    <3>3. N \in 0 .. N + 1 /\ N + 1 \in 1 .. N + 1 /\ (N + 1) - 1 = N
      BY <1>1
    <3>4. g[N + 1] = H[N + 1][g[(N + 1) - 1]]
      BY <3>2, <3>3, Zenon
    <3> QED  BY <3>2, <3>3, <3>4
  <2>2. H[N + 1][g[N]] = cat(g[N], more[N + 1])
    <3>1. N + 1 \in 1 .. Len(more)
      BY <1>1
    <3> QED  BY <1>2, <2>1, <3>1, Zenon
  <2> QED  BY <1>1, <2>1, <2>2, Zenon
<1>7. FlattenSeq(more) = cat(FlattenSeq(seqs), s)
  BY <1>1, <1>3, <1>4, <1>5, <1>6
<1> QED  BY <1>7, Zenon DEF more, cat

\* So does an element of the last one.
LEMMA FlatLengthens ==
    ASSUME NEW T, NEW seqs \in Seq(Seq(T)), seqs # <<>>, NEW x \in T
    PROVE  FlattenSeq(Append(Front(seqs), Append(Last(seqs), x))) = Append(FlattenSeq(seqs), x)
<1> DEFINE front == Front(seqs)
           last == Last(seqs)
<1>1. front \in Seq(Seq(T)) /\ last \in Seq(T) /\ seqs = Append(front, last)
  BY DEF Front, Last
<1> HIDE DEF front, last
<1>2. Append(last, x) \in Seq(T) /\ FlattenSeq(front) \in Seq(T)
  BY <1>1, FlatType
<1>3. FlattenSeq(seqs) = FlattenSeq(front) \o last
  BY <1>1, FlatGrows
<1>4. FlattenSeq(Append(front, Append(last, x))) = FlattenSeq(front) \o Append(last, x)
  BY <1>1, <1>2, FlatGrows
<1>5. \A v \in Seq(T) : v \o Append(last, x) = Append(v \o last, x)
  BY <1>1
<1> QED  BY <1>2, <1>3, <1>4, <1>5 DEF front, last

----------------------------------------------------------------------------
\* Hops are lists of lines that are not empty, not over the cap, and as full as
\* they can be.
GoodHops(hops) ==
    /\ hops \in Seq(Seq(Line))
    /\ \A i \in 1 .. Len(hops) : hops[i] # <<>>
    /\ HopsUnderCap(hops) /\ HopsAreFull(hops)

\* They stay so with one more line, which comes after all others.
LEMMA PackedKeeps ==
    ASSUME NEW hops, GoodHops(hops), NEW l \in Line
    PROVE  /\ GoodHops(Packed(hops, l))
           /\ FlattenSeq(Packed(hops, l)) = Append(FlattenSeq(hops), l)
<1> DEFINE N == Len(hops)
<1>1. /\ hops \in Seq(Seq(Line)) /\ N \in Nat
      /\ \A i \in 1 .. N : hops[i] \in Seq(Line) /\ hops[i] # <<>> /\ Subtotal(hops[i]) \in Int
      /\ \A i \in 1 .. N : Len(hops[i]) = 1 \/ Subtotal(hops[i]) < FoodCap
      /\ \A i \in 1 .. N - 1 : Subtotal(hops[i]) + LineTotal(hops[i + 1][1]) >= FoodCap
  <2>1. hops \in Seq(Seq(Line)) /\ DOMAIN hops = 1 .. N /\ N \in Nat
    BY DEF GoodHops
  <2>2. \A i \in 1 .. N : hops[i] \in Seq(Line)
    BY <2>1, ElementOfSeq
  <2>3. \A i \in 1 .. N : Subtotal(hops[i]) \in Int
    BY <2>2, SubtotalIs
  <2> QED  BY <2>1, <2>2, <2>3 DEF GoodHops, HopsUnderCap, HopsAreFull
<1>2. <<l>> \in Seq(Line) /\ <<l>> # <<>> /\ Len(<<l>>) = 1 /\ <<l>>[1] = l
  OBVIOUS
<1>3. LineTotal(l) \in Int /\ FoodCap \in Int
  BY LineTotalIs, HandoffAssumption
<1> DEFINE one == Append(hops, <<l>>)
<1>4. /\ one \in Seq(Seq(Line)) /\ Len(one) = N + 1 /\ one[N + 1] = <<l>>
      /\ \A i \in 1 .. N : one[i] = hops[i]
  BY <1>1, <1>2
<1>5. FlattenSeq(one) = Append(FlattenSeq(hops), l)
  <2>1. FlattenSeq(one) = FlattenSeq(hops) \o <<l>>
    BY <1>1, <1>2, FlatGrows
  <2>2. FlattenSeq(hops) \in Seq(Line)
    BY <1>1, FlatType
  <2> HIDE DEF one
  <2> QED  BY <2>1, <2>2, AppendIsConcat
<1>6. ASSUME N # 0 => Subtotal(hops[N]) + LineTotal(l) >= FoodCap
      PROVE  GoodHops(one)
  <2> HIDE DEF one
  <2>1. HopsUnderCap(one) /\ \A i \in 1 .. N + 1 : one[i] # <<>>
    <3>1. DOMAIN one = 1 .. N + 1
      BY <1>4
    <3>2. \A i \in 1 .. N + 1 : i = N + 1 \/ i \in 1 .. N
      BY <1>1
    <3>3. \A i \in 1 .. N + 1 : one[i] # <<>> /\ (Len(one[i]) = 1 \/ Subtotal(one[i]) < FoodCap)
      BY <1>1, <1>2, <1>4, <3>2, Zenon
    <3> QED  BY <3>1, <3>3, Zenon DEF HopsUnderCap
  <2>2. HopsAreFull(one)
    <3> SUFFICES ASSUME NEW i \in 1 .. N PROVE Subtotal(one[i]) + LineTotal(one[i + 1][1]) >= FoodCap
      BY <1>1, <1>4 DEF HopsAreFull
    <3>1. CASE i = N
      BY <3>1, <1>1, <1>2, <1>4, <1>6
    <3>2. CASE i # N
      <4>1. i \in 1 .. N - 1 /\ i + 1 \in 1 .. N
        BY <3>2, <1>1
      <4>2. one[i] = hops[i] /\ one[i + 1] = hops[i + 1]
        BY <4>1, <1>4
      <4> QED  BY <4>1, <4>2, <1>1
    <3> QED  BY <3>1, <3>2
  <2> QED  BY <1>4, <2>1, <2>2 DEF GoodHops
<1>7. CASE hops = <<>>
  <2>1. one = <<<<l>>>> /\ N = 0
    BY <1>7
  <2>2. Packed(hops, l) = one
    BY <1>7, <2>1, Zenon DEF Packed
  <2> QED  BY <1>5, <1>6, <2>1, <2>2
<1>8. CASE hops # <<>> /\ Subtotal(Last(hops)) + LineTotal(l) >= FoodCap
  <2>1. Packed(hops, l) = one
    BY <1>8, Zenon DEF Packed
  <2>2. Subtotal(hops[N]) + LineTotal(l) >= FoodCap
    BY <1>8 DEF Last
  <2> QED  BY <1>5, <1>6, <2>1, <2>2
<1>9. CASE hops # <<>> /\ ~(Subtotal(Last(hops)) + LineTotal(l) >= FoodCap)
  <2> DEFINE last == Append(Last(hops), l)
             grown == Append(Front(hops), last)
  <2>1. Packed(hops, l) = grown
    BY <1>9, Zenon DEF Packed
  <2>2. N >= 1 /\ Last(hops) = hops[N]
    BY <1>1, <1>9 DEF Last
  <2>3. Front(hops) \in Seq(Seq(Line)) /\ Len(Front(hops)) = N - 1 /\ \A i \in 1 .. N - 1 : Front(hops)[i] = hops[i]
    <3>1. Front(hops) = SubSeq(hops, 1, N - 1)
      BY Zenon DEF Front
    <3>2. \A i \in 1 .. N - 1 : hops[i] \in Seq(Line)
      BY <1>1
    <3>3. /\ SubSeq(hops, 1, N - 1) \in Seq(Seq(Line)) /\ Len(SubSeq(hops, 1, N - 1)) = N - 1
          /\ \A i \in 1 .. N - 1 : SubSeq(hops, 1, N - 1)[i] = hops[i]
      <4> DEFINE T == Seq(Line)
      <4>1. \A i \in 1 .. N - 1 : hops[i] \in T
        BY <3>2
      <4>2. 1 \in Int /\ N - 1 \in Int /\ 1 <= N - 1 + 1
        BY <1>1, <2>2
      <4> HIDE DEF T, N
      <4>3. /\ SubSeq(hops, 1, N - 1) \in Seq(T)
            /\ Len(SubSeq(hops, 1, N - 1)) = IF 1 <= N - 1 THEN N - 1 - 1 + 1 ELSE 0
            /\ \A i \in 1 .. N - 1 - 1 + 1 : SubSeq(hops, 1, N - 1)[i] = hops[1 + i - 1]
        BY <4>1, <4>2, SubSeqProperties
      <4>4. N \in Nat /\ N >= 1
        BY <1>1, <2>2
      <4>5. \A i \in 1 .. N - 1 : i \in 1 .. N - 1 - 1 + 1 /\ 1 + i - 1 = i
        BY <4>4
      <4>6. \A i \in 1 .. N - 1 : SubSeq(hops, 1, N - 1)[i] = hops[i]
        BY <4>3, <4>5, Zenon
      <4>7. Len(SubSeq(hops, 1, N - 1)) = N - 1
        BY <4>3, <4>4
      <4> QED  BY <4>3, <4>6, <4>7 DEF T
    <3> QED  BY <3>1, <3>3
  <2>4. /\ last \in Seq(Line) /\ last # <<>> /\ last[1] = hops[N][1]
        /\ Subtotal(last) = Subtotal(hops[N]) + LineTotal(l)
    <3>1. hops[N] \in Seq(Line) /\ hops[N] # <<>>
      BY <1>1, <2>2
    <3>2. Subtotal(last) = Subtotal(hops[N]) + LineTotal(l)
      BY <2>2, <3>1, SubtotalGrows
    <3> QED  BY <2>2, <3>1, <3>2
  <2> HIDE DEF last
  <2>5. /\ grown \in Seq(Seq(Line)) /\ Len(grown) = N /\ grown[N] = last
        /\ \A i \in 1 .. N - 1 : grown[i] = hops[i]
    BY <1>1, <2>2, <2>3, <2>4
  <2>6. FlattenSeq(grown) = Append(FlattenSeq(hops), l)
    BY <1>1, <1>9, FlatLengthens DEF last
  <2> HIDE DEF grown
  <2>7. Subtotal(last) < FoodCap
    <3>1. Subtotal(hops[N]) \in Int
      BY <1>1, <2>2
    <3>2. ~(Subtotal(hops[N]) + LineTotal(l) >= FoodCap)
      BY <1>9, <2>2, Zenon
    <3>3. \A a, b, c \in Int : ~(a + b >= c) => a + b < c
      OBVIOUS
    <3> QED  BY <1>3, <2>4, <3>1, <3>2, <3>3
  <2>8. HopsUnderCap(grown) /\ \A i \in 1 .. N : grown[i] # <<>>
    <3>1. DOMAIN grown = 1 .. N
      BY <2>5
    <3>2. \A i \in 1 .. N : i = N \/ (i \in 1 .. N - 1 /\ i \in 1 .. N)
      BY <1>1
    <3>3. \A i \in 1 .. N : grown[i] # <<>> /\ (Len(grown[i]) = 1 \/ Subtotal(grown[i]) < FoodCap)
      BY <1>1, <2>4, <2>5, <2>7, <3>2, Zenon
    <3> QED  BY <3>1, <3>3, Zenon DEF HopsUnderCap
  <2>9. HopsAreFull(grown)
    <3> SUFFICES ASSUME NEW i \in 1 .. N - 1 PROVE Subtotal(grown[i]) + LineTotal(grown[i + 1][1]) >= FoodCap
      BY <1>1, <2>5 DEF HopsAreFull
    <3>1. grown[i] = hops[i] /\ grown[i + 1][1] = hops[i + 1][1]
      <4>1. i + 1 = N \/ i + 1 \in 1 .. N - 1
        BY <1>1
      <4> QED  BY <2>4, <2>5, <4>1
    <3> QED  BY <3>1, <1>1
  <2> QED  BY <2>1, <2>5, <2>6, <2>8, <2>9 DEF GoodHops
<1> QED  BY <1>7, <1>8, <1>9

\* So the hops of a list of lines are good, and have its lines in their order.
LEMMA HopsAre ==
    ASSUME NEW lines \in Seq(Line)
    PROVE  GoodHops(Hops(lines)) /\ FlattenSeq(Hops(lines)) = lines
<1> DEFINE N == Len(lines)
           step(f) == [i \in 0 .. N |-> IF i = 0 THEN <<>> ELSE Packed(f[i - 1], lines[i])]
           h == CHOOSE f : f = step(f)
           V == {hops \in Seq(Seq(Line)) : GoodHops(hops)}
           G == [i \in 1 .. N |-> [v \in V |-> Packed(v, lines[i])]]
           none == <<>>
<1>1. N \in Nat /\ \A i \in 1 .. N : lines[i] \in Line
  OBVIOUS
<1>2. \A v \in V, l \in Line : Packed(v, l) \in V /\ FlattenSeq(Packed(v, l)) = Append(FlattenSeq(v), l)
  BY PackedKeeps DEF GoodHops
<1>3. none \in V /\ FlattenSeq(none) = <<>>
  <2>1. none \in Seq(Seq(Line)) /\ Len(none) = 0
    OBVIOUS
  <2>2. GoodHops(none)
    BY <2>1 DEF GoodHops, HopsUnderCap, HopsAreFull
  <2>3. FlattenSeq(none) = none
    BY <2>1, Zenon DEF FlattenSeq
  <2> QED  BY <2>1, <2>2, <2>3
<1>4. Hops(lines) = h[N]
  BY DEF Hops
<1>v. \A v \in V : GoodHops(v) /\ v \in Seq(Seq(Line))
  OBVIOUS
<1> HIDE DEF N, h, V
<1>5. G \in [1 .. N -> [V -> V]] /\ \A i \in 1 .. N, v \in V : G[i][v] = Packed(v, lines[i])
  BY <1>1, <1>2
<1> HIDE DEF G, none
<1>6. PICK f : f \in Loops(N, V, none, G)
  BY <1>1, <1>3, <1>5, LoopRuns, Zenon
<1>7. /\ f \in [0 .. N -> V] /\ f[0] = none
      /\ \A i \in 1 .. N : f[i] = Packed(f[i - 1], lines[i])
  <2>1. f \in [0 .. N -> V] /\ f[0] = none /\ \A i \in 1 .. N : f[i] = G[i][f[i - 1]]
    BY <1>6 DEF Loops
  <2> QED  BY <1>1, <1>5, <2>1
<1>8. f = step(f)
  <2>1. \A i \in 0 .. N : f[i] = step(f)[i]
    BY <1>1, <1>7 DEF none
  <2> QED  BY <1>7, <2>1
<1>9. h = step(h)
  BY <1>8, Zenon DEF h
<1>10. /\ IsTable(h, N) /\ h[0] = none
       /\ \A i \in 1 .. N : h[i] = Packed(h[i - 1], lines[i])
  <2>1. \A i \in 0 .. N : h[i] = IF i = 0 THEN none ELSE Packed(h[i - 1], lines[i])
    BY <1>9, Zenon DEF none
  <2>2. IsTable(h, N)
    BY <1>9 DEF IsTable
  <2> QED  BY <1>1, <2>1, <2>2
<1>11. h \in Loops(N, V, none, G)
  <2>1. \A i \in 1 .. N : h[i - 1] \in V => h[i] = G[i][h[i - 1]]
    BY <1>5, <1>10
  <2> QED  BY <1>1, <1>3, <1>5, <1>10, <2>1, LoopIs, Zenon
<1>12. \A i \in 0 .. N : h[i] \in V
  BY <1>11 DEF Loops
<1> DEFINE flat(i) == FlattenSeq(h[i])
           S == {i \in 0 .. N : flat(i) \in Seq(Line) /\ Len(flat(i)) = i /\ \A j \in 1 .. i : flat(i)[j] = lines[j]}
<1>13. 0 \in S
  <2>1. flat(0) = <<>> /\ 0 \in 0 .. N
    BY <1>1, <1>3, <1>10
  <2>2. <<>> \in Seq(Line) /\ Len(<<>>) = 0 /\ \A j \in 1 .. 0 : <<>>[j] = lines[j]
    OBVIOUS
  <2>3. flat(0) \in Seq(Line) /\ Len(flat(0)) = 0 /\ \A j \in 1 .. 0 : flat(0)[j] = lines[j]
    BY <2>1, <2>2, Zenon
  <2> QED  BY <2>1, <2>3, Zenon
<1>14. \A i \in 1 .. N : i - 1 \in S => i \in S
  <2> SUFFICES ASSUME NEW i \in 1 .. N, i - 1 \in S PROVE i \in S
    OBVIOUS
  <2>1. flat(i) = Append(flat(i - 1), lines[i])
    BY <1>1, <1>2, <1>10, <1>12
  <2> DEFINE was == flat(i - 1)
  <2>2. was \in Seq(Line) /\ Len(was) = i - 1 /\ \A j \in 1 .. i - 1 : was[j] = lines[j]
    OBVIOUS
  <2> HIDE DEF was
  <2>3. /\ Append(was, lines[i]) \in Seq(Line) /\ Len(Append(was, lines[i])) = i
        /\ \A j \in 1 .. i : Append(was, lines[i])[j] = lines[j]
    BY <1>1, <2>2
  <2>4. flat(i) \in Seq(Line) /\ Len(flat(i)) = i /\ \A j \in 1 .. i : flat(i)[j] = lines[j]
    BY <2>1, <2>3, Zenon DEF was
  <2>5. i \in 0 .. N
    BY <1>1
  <2> QED  BY <2>4, <2>5, Zenon
<1> HIDE DEF S
<1>15. \A i \in 0 .. N : i \in S
  BY <1>1, <1>13, <1>14, StepByStep
<1>16. flat(N) \in Seq(Line) /\ Len(flat(N)) = N /\ \A j \in 1 .. N : flat(N)[j] = lines[j]
  BY <1>1, <1>15 DEF S
<1>17. flat(N) = lines
  BY <1>16, SeqEqual DEF N
<1>18. N \in 0 .. N
  BY <1>1
<1> QED  BY <1>4, <1>12, <1>17, <1>18, <1>v

----------------------------------------------------------------------------
\* The lines of one server, as a loop over the cart.
Taking(lines, server) ==
    [i \in 1 .. Len(lines) |->
        [v \in Seq(Line) |-> IF lines[i].server = server THEN Append(v, lines[i]) ELSE v]]

LEMMA LinesOfIs ==
    ASSUME NEW lines \in Seq(Line), NEW server
    PROVE  \E f \in Loops(Len(lines), Seq(Line), <<>>, Taking(lines, server)) :
              LinesOf(lines, server) = f[Len(lines)]
<1> DEFINE N == Len(lines)
           G == Taking(lines, server)
           V == Seq(Line)
           none == <<>>
           put(v, l) == Append(v, l)
           took(v, i) == IF lines[i].server = server THEN put(v, lines[i]) ELSE v
           step(f) == [i \in 0 .. N |-> IF i = 0 THEN none ELSE took(f[i - 1], i)]
           t == CHOOSE f : f = step(f)
<1>1. N \in Nat /\ none \in V /\ \A i \in 1 .. N : lines[i] \in Line
  OBVIOUS
<1>2. \A v \in V, i \in 1 .. N : took(v, i) \in V
  BY <1>1
<1>3. G = [i \in 1 .. N |-> [v \in V |-> took(v, i)]]
  BY Zenon DEF Taking
<1>4. LinesOf(lines, server) = t[N]
  BY Zenon DEF LinesOf
<1> HIDE DEF N, V, none, took, t, G
<1>5. G \in [1 .. N -> [V -> V]] /\ \A i \in 1 .. N, v \in V : G[i][v] = took(v, i)
  BY <1>2, <1>3
<1>6. PICK f : f \in Loops(N, V, none, G)
  BY <1>1, <1>5, LoopRuns, Zenon
<1>7. f \in [0 .. N -> V] /\ f[0] = none /\ \A i \in 1 .. N : f[i] = took(f[i - 1], i)
  <2>1. f \in [0 .. N -> V] /\ f[0] = none /\ \A i \in 1 .. N : f[i] = G[i][f[i - 1]]
    BY <1>6 DEF Loops
  <2> QED  BY <1>1, <1>5, <2>1
<1>8. f = step(f)
  <2>1. \A i \in 0 .. N : f[i] = step(f)[i]
    BY <1>1, <1>7
  <2> QED  BY <1>7, <2>1
<1>9. t = step(t)
  BY <1>8, Zenon DEF t
<1>10. IsTable(t, N) /\ t[0] = none /\ \A i \in 1 .. N : t[i] = took(t[i - 1], i)
  <2>1. \A i \in 0 .. N : t[i] = IF i = 0 THEN none ELSE took(t[i - 1], i)
    BY <1>9, Zenon
  <2>2. IsTable(t, N)
    BY <1>9 DEF IsTable
  <2> QED  BY <1>1, <2>1, <2>2
<1>11. t \in Loops(N, V, none, G)
  <2>1. \A i \in 1 .. N : t[i - 1] \in V => t[i] = G[i][t[i - 1]]
    BY <1>5, <1>10
  <2> QED  BY <1>1, <1>5, <1>10, <2>1, LoopIs, Zenon
<1> QED  BY <1>4, <1>11 DEF N, V, none, G

\* The places of these lines in the cart, up to the n-th.
PlacesOf(lines, server, n) == {j \in 1 .. n : lines[j].server = server}

\* How many these are.
CountsOf(lines, server, N) ==
    {c \in [0 .. N -> Nat] :
        /\ \A i \in 0 .. N : c[i] = Cardinality(PlacesOf(lines, server, i))
        /\ c[0] = 0
        /\ \A i \in 1 .. N : c[i] = IF lines[i].server = server THEN c[i - 1] + 1 ELSE c[i - 1]}

LEMMA PlacesAreCounted ==
    ASSUME NEW lines, NEW server, NEW N \in Nat PROVE CountsOf(lines, server, N) # {}
<1> DEFINE of(i) == PlacesOf(lines, server, i)
           c == [i \in 0 .. N |-> Cardinality(of(i))]
<1>1. \A i \in 0 .. N : IsFiniteSet(of(i)) /\ Cardinality(of(i)) \in Nat
  <2> SUFFICES ASSUME NEW i \in 0 .. N PROVE IsFiniteSet(of(i)) /\ Cardinality(of(i)) \in Nat
    OBVIOUS
  <2>1. IsFiniteSet(1 .. i)
    BY FS_Interval
  <2>2. of(i) \subseteq 1 .. i
    BY DEF PlacesOf
  <2>3. IsFiniteSet(of(i))
    BY <2>1, <2>2, FS_Subset
  <2> QED  BY <2>3, FS_CardinalityType
<1>2. of(0) = {}
  BY DEF PlacesOf
<1>3. \A i \in 1 .. N : of(i) = (IF lines[i].server = server THEN of(i - 1) \union {i} ELSE of(i - 1))
  BY DEF PlacesOf
<1>4. \A i \in 1 .. N : i \notin of(i - 1)
  BY DEF PlacesOf
<1> HIDE DEF of
<1>5. \A i \in 1 .. N : Cardinality(of(i)) = IF lines[i].server = server THEN Cardinality(of(i - 1)) + 1
                                             ELSE Cardinality(of(i - 1))
  <2> SUFFICES ASSUME NEW i \in 1 .. N, lines[i].server = server
               PROVE Cardinality(of(i)) = Cardinality(of(i - 1)) + 1
    BY <1>3
  <2>1. IsFiniteSet(of(i - 1)) /\ i \notin of(i - 1) /\ of(i) = of(i - 1) \union {i}
    BY <1>1, <1>3, <1>4
  <2>2. Cardinality(of(i - 1) \union {i}) = Cardinality(of(i - 1)) + 1
    BY <2>1, FS_AddElement
  <2> QED  BY <2>1, <2>2
<1>6. Cardinality(of(0)) = 0
  BY <1>2, FS_EmptySet
<1>7. c \in [0 .. N -> Nat]
  BY <1>1
<1>8. \A i \in 0 .. N : c[i] = Cardinality(of(i))
  OBVIOUS
<1> HIDE DEF c
<1>9. c[0] = 0 /\ \A i \in 1 .. N : c[i] = IF lines[i].server = server THEN c[i - 1] + 1 ELSE c[i - 1]
  BY <1>5, <1>6, <1>8
<1> QED  BY <1>7, <1>8, <1>9 DEF of, CountsOf

\* All of them are taken, in their order.
LEMMA LinesOfAre ==
    ASSUME NEW lines \in Seq(Line), NEW server
    PROVE  /\ LinesOf(lines, server) \in Seq(Line)
           /\ Len(LinesOf(lines, server)) = Cardinality(PlacesOf(lines, server, Len(lines)))
           /\ \A i \in PlacesOf(lines, server, Len(lines)) :
                 LinesOf(lines, server)[Cardinality(PlacesOf(lines, server, i))] = lines[i]
<1> DEFINE N == Len(lines)
           G == Taking(lines, server)
           of(i) == PlacesOf(lines, server, i)
<1>1. N \in Nat /\ \A i \in 1 .. N : lines[i] \in Line
  OBVIOUS
<1>2. PICK f \in Loops(N, Seq(Line), <<>>, G) : LinesOf(lines, server) = f[N]
  BY LinesOfIs
<1>c. PICK c : c \in CountsOf(lines, server, N)
  BY <1>1, PlacesAreCounted, Zenon
<1>3. /\ c \in [0 .. N -> Nat]
      /\ \A i \in 0 .. N : c[i] = Cardinality(of(i))
      /\ c[0] = 0
      /\ \A i \in 1 .. N : c[i] = IF lines[i].server = server THEN c[i - 1] + 1 ELSE c[i - 1]
  BY <1>c DEF CountsOf
<1>4. /\ f \in [0 .. N -> Seq(Line)] /\ f[0] = <<>>
      /\ \A i \in 1 .. N : f[i] = IF lines[i].server = server THEN Append(f[i - 1], lines[i]) ELSE f[i - 1]
  <2>1. f \in [0 .. N -> Seq(Line)] /\ f[0] = <<>> /\ \A i \in 1 .. N : f[i] = G[i][f[i - 1]]
    BY <1>2, Zenon DEF Loops
  <2>2. \A i \in 1 .. N : \A v \in Seq(Line) :
           G[i][v] = IF lines[i].server = server THEN Append(v, lines[i]) ELSE v
    BY DEF Taking
  <2>3. \A i \in 1 .. N : i - 1 \in 0 .. N /\ f[i - 1] \in Seq(Line)
    BY <1>1, <2>1
  <2> HIDE DEF G, N
  <2> QED  BY <2>1, <2>2, <2>3, Zenon
<1>5. \A i \in 0 .. N : \A j \in of(i) : j \in 1 .. i /\ lines[j].server = server /\ (j = i \/ j \in of(i - 1))
  BY <1>1 DEF PlacesOf
<1> HIDE DEF N, G, of
<1> DEFINE Holds(i) == Len(f[i]) = c[i] /\ \A j \in of(i) : c[j] \in 1 .. c[i] /\ f[i][c[j]] = lines[j]
           S == {i \in 0 .. N : Holds(i)}
<1>6. 0 \in S
  <2>1. Len(<<>>) = 0
    OBVIOUS
  <2> QED  BY <1>1, <1>3, <1>4, <1>5, <2>1
<1>7. \A i \in 1 .. N : i - 1 \in S => i \in S
  <2>n. \A i \in 1 .. N : i \in 0 .. N
    BY <1>1
  <2> SUFFICES ASSUME NEW i \in 1 .. N, Holds(i - 1) PROVE Holds(i)
    <3> HIDE DEF Holds
    <3> QED  BY <2>n
  <2>1. f[i - 1] \in Seq(Line) /\ lines[i] \in Line /\ c[i - 1] \in Nat /\ i - 1 \in 0 .. N /\ i \in 0 .. N
    BY <1>1, <1>4
  <2>2. Len(f[i - 1]) = c[i - 1] /\ \A j \in of(i - 1) : c[j] \in 1 .. c[i - 1] /\ f[i - 1][c[j]] = lines[j]
    OBVIOUS
  <2>3. \A j \in of(i) : (j = i /\ lines[i].server = server) \/ j \in of(i - 1)
    BY <1>5, <2>1
  <2>4. CASE lines[i].server = server
    <3> DEFINE was == f[i - 1]
               m == c[i - 1]
    <3>1. f[i] = Append(was, lines[i]) /\ c[i] = m + 1
      BY <1>3, <1>4, <2>4
    <3>2. was \in Seq(Line) /\ Len(was) = m /\ m \in Nat
      BY <2>1, <2>2
    <3>3. \A j \in of(i - 1) : c[j] \in 1 .. m /\ was[c[j]] = lines[j]
      BY <2>2
    <3> HIDE DEF was, m
    <3>4. /\ Len(Append(was, lines[i])) = m + 1 /\ Append(was, lines[i])[m + 1] = lines[i]
          /\ \A k \in 1 .. m : Append(was, lines[i])[k] = was[k]
      BY <2>1, <3>2
    <3>5. Len(f[i]) = c[i] /\ f[i][c[i]] = lines[i] /\ c[i] \in 1 .. c[i]
      BY <3>1, <3>2, <3>4
    <3>6. \A j \in of(i - 1) : c[j] \in 1 .. c[i] /\ f[i][c[j]] = lines[j]
      BY <3>1, <3>2, <3>3, <3>4
    <3> QED  BY <2>3, <3>5, <3>6, Zenon
  <2>5. CASE lines[i].server # server
    <3>1. f[i] = f[i - 1] /\ c[i] = c[i - 1]
      BY <1>3, <1>4, <2>5
    <3> QED  BY <2>2, <2>3, <2>5, <3>1, Zenon
  <2> QED  BY <2>4, <2>5
<1> HIDE DEF S
<1>8. \A i \in 0 .. N : i \in S
  BY <1>1, <1>6, <1>7, StepByStep
<1>9. N \in 0 .. N /\ Holds(N)
  BY <1>1, <1>8 DEF S
<1>10. \A i \in of(N) : i \in 0 .. N /\ c[i] = Cardinality(of(i))
  BY <1>3, <1>5, <1>9
<1> QED  BY <1>2, <1>3, <1>4, <1>9, <1>10, Zenon DEF N, of

LEMMA NothingIsLost ==
    ASSUME NEW lines \in Seq(Line), NEW server, NEW hops, FlattenSeq(hops) = LinesOf(lines, server)
    PROVE  NothingLost(lines, server, hops)
<1> DEFINE all == FlattenSeq(hops)
           N == Len(lines)
           of(n) == PlacesOf(lines, server, n)
<1>1. Len(all) = Cardinality(of(N)) /\ \A i \in of(N) : all[Cardinality(of(i))] = lines[i]
  BY LinesOfAre
<1> QED  BY <1>1, Zenon DEF NothingLost, PlacesOf

\* The plan of a cart.
LEMMA CartsAreSplit ==
    ASSUME NEW q \in Questions, q.about = "hops"
    PROVE  CartIsSplitWhole(q, PlanHopPacking(q.lines))
<1> DEFINE lines == q.lines
           food == LinesOf(lines, "food")
           goods == LinesOf(lines, "instamart")
           packed == IF goods = <<>> THEN <<>> ELSE IF Subtotal(goods) >= FoodCap THEN Hops(goods) ELSE <<goods>>
<1>1. lines \in Seq(Line)
  BY HandoffAssumption
<1>2. PlanHopPacking(lines).food = Hops(food) /\ PlanHopPacking(lines).instamart = packed
  BY DEF PlanHopPacking
<1> HIDE DEF lines
<1>3. food \in Seq(Line) /\ goods \in Seq(Line)
  BY <1>1, LinesOfAre
<1>4. GoodHops(Hops(food)) /\ FlattenSeq(Hops(food)) = food
  BY <1>3, HopsAre
<1> HIDE DEF food, goods
<1>5. FlattenSeq(<<>>) = <<>>
  <2>1. Len(<<>>) = 0
    OBVIOUS
  <2> QED  BY <2>1, Zenon DEF FlattenSeq
<1>6. FlattenSeq(packed) = goods /\ HopsUnderCap(packed) /\ HopsAreFull(packed)
  <2>1. CASE goods = <<>>
    <3>1. packed = <<>> /\ Len(<<>>) = 0 /\ DOMAIN <<>> = {}
      BY <2>1
    <3> QED  BY <2>1, <3>1, <1>5 DEF HopsUnderCap, HopsAreFull
  <2>2. CASE goods # <<>> /\ Subtotal(goods) >= FoodCap
    <3>1. packed = Hops(goods)
      BY <2>2, Zenon
    <3>2. GoodHops(Hops(goods)) /\ FlattenSeq(Hops(goods)) = goods
      BY <1>3, HopsAre
    <3> HIDE DEF packed
    <3> QED  BY <3>1, <3>2, Zenon DEF GoodHops
  <2>3. CASE goods # <<>> /\ ~(Subtotal(goods) >= FoodCap)
    <3>1. packed = <<goods>>
      BY <2>3, Zenon
    <3>2. Subtotal(goods) < FoodCap
      <4>1. Subtotal(goods) \in Int /\ FoodCap \in Int
        BY <1>3, SubtotalIs, HandoffAssumption
      <4> QED  BY <2>3, <4>1
    <3>3. Append(<<>>, goods) = <<goods>> /\ <<>> \in Seq(Seq(Line)) /\ <<>> \o goods = goods
      BY <1>3
    <3>4. FlattenSeq(Append(<<>>, goods)) = FlattenSeq(<<>>) \o goods
      BY <1>3, <3>3, FlatGrows
    <3>5. FlattenSeq(<<goods>>) = goods
      BY <1>5, <3>3, <3>4, Zenon
    <3>6. Len(<<goods>>) = 1 /\ DOMAIN <<goods>> = {1} /\ <<goods>>[1] = goods
      OBVIOUS
    <3>7. HopsUnderCap(<<goods>>) /\ HopsAreFull(<<goods>>)
      <4> DEFINE one == <<goods>>
      <4>1. Len(one) = 1 /\ DOMAIN one = {1} /\ one[1] = goods
        BY <3>6
      <4> HIDE DEF one
      <4>2. HopsUnderCap(one) /\ HopsAreFull(one)
        BY <3>2, <4>1 DEF HopsUnderCap, HopsAreFull
      <4> QED  BY <4>2 DEF one
    <3> QED  BY <3>1, <3>5, <3>7, Zenon
  <2> QED  BY <2>1, <2>2, <2>3
<1> HIDE DEF packed
<1>7. NothingLost(lines, "food", Hops(food)) /\ NothingLost(lines, "instamart", packed)
  BY <1>1, <1>4, <1>6, NothingIsLost DEF food, goods
<1> QED  BY <1>2, <1>4, <1>6, <1>7, Zenon DEF CartIsSplitWhole, GoodHops, lines

----------------------------------------------------------------------------
\* The list of kitchens by their ride.
LEMMA KitchensAreListed ==
    ASSUME NEW q \in Questions, q.about = "kitchens"
    PROVE  NearestFirstList(q, RankByTravelTime(q.times))
<1> DEFINE times == q.times
           D == DOMAIN times
           before(i, j) == \/ times[i] # None /\ (times[j] = None \/ times[i] < times[j])
                           \/ times[i] = times[j] /\ i < j
           R == {p \in D \X D : before(p[1], p[2])}
           N == Cardinality(D)
           list == RankByTravelTime(times)
<1>1. times \in Seq(OrNone(Int)) /\ None \notin Int
  BY HandoffAssumption
<1> HIDE DEF times
<1>2. D = 1 .. Len(times) /\ Len(times) \in Nat /\ \A i \in D : times[i] \in Int \/ times[i] = None
  BY <1>1 DEF OrNone
<1>3. IsFiniteSet(D) /\ N = Len(times)
  BY <1>2, FS_Interval
<1>4. \A i, j \in D : <<i, j>> \in R <=> before(i, j)
  OBVIOUS
<1>5. \A i \in D : i \in Nat
  BY <1>2
<1> HIDE DEF D
<1>6. \A x \in D : ~before(x, x)
  BY <1>1, <1>2, <1>5
<1>7. \A x, y, z \in D : before(x, y) /\ before(y, z) => before(x, z)
  BY <1>1, <1>2, <1>5
<1>8. \A x, y \in D : x # y => before(x, y) \/ before(y, x)
  BY <1>1, <1>2, <1>5
<1>9. list = CHOOSE s \in SetToSeqs(D) : \A m, n \in 1 .. N : m < n => before(s[m], s[n])
  BY Zenon DEF RankByTravelTime, D
<1> HIDE DEF R, before, N
<1>10. PICK s \in SetToSeqs(D) : \A m, n \in 1 .. N : m < n => <<s[m], s[n]>> \in R
  <2>1. \A x \in D : <<x, x>> \notin R
    BY <1>4, <1>6
  <2>2. \A x, y, z \in D : <<x, y>> \in R /\ <<y, z>> \in R => <<x, z>> \in R
    BY <1>4, <1>7
  <2>3. \A x, y \in D : x # y => <<x, y>> \in R \/ <<y, x>> \in R
    BY <1>4, <1>8
  <2> QED  BY <1>3, <2>1, <2>2, <2>3, CanBeListed, Zenon DEF N
<1>11. s \in Seq(D) /\ DOMAIN s = 1 .. N /\ Len(s) = N
  BY <1>3, ListsAll DEF N
<1>12. \A m, n \in 1 .. N : m < n => before(s[m], s[n])
  <2>1. \A m \in 1 .. N : s[m] \in D
    BY <1>11, ElementOfSeq
  <2>2. \A m, n \in 1 .. N : m < n => <<s[m], s[n]>> \in R
    BY <1>10
  <2> QED  BY <1>4, <2>1, <2>2, Zenon
<1>13. list \in SetToSeqs(D) /\ \A m, n \in 1 .. N : m < n => before(list[m], list[n])
  BY <1>9, <1>12, Zenon
<1>14. list \in Seq(D) /\ DOMAIN list = 1 .. N /\ Len(list) = N /\ ToSet(list) = D
  BY <1>3, <1>13, ListsAll DEF N
<1> HIDE DEF list
<1>15. \A i, j \in DOMAIN list : i < j /\ times[list[j]] # None =>
          times[list[i]] # None /\ times[list[i]] <= times[list[j]]
  <2> SUFFICES ASSUME NEW i \in 1 .. N, NEW j \in 1 .. N, i < j, times[list[j]] # None
               PROVE  times[list[i]] # None /\ times[list[i]] <= times[list[j]]
    BY <1>14
  <2>1. before(list[i], list[j]) /\ list[i] \in D /\ list[j] \in D
    BY <1>13, <1>14
  <2> DEFINE a == times[list[i]]
             b == times[list[j]]
  <2>2. a # None /\ (a < b \/ a = b)
    BY <2>1 DEF before
  <2>3. a \in Int /\ b \in Int
    BY <1>2, <2>1, <2>2
  <2> HIDE DEF a, b
  <2>4. a <= b
    BY <2>2, <2>3
  <2> QED  BY <2>2, <2>4 DEF a, b
<1> QED  BY <1>3, <1>14, <1>15, Zenon DEF NearestFirstList, list, times, D

----------------------------------------------------------------------------
\* The stop suggested.
LEMMA RichestIsSuggested ==
    ASSUME NEW q \in Questions, q.about = "stop"
    PROVE  SuggestsRichest(q, SuggestReIntercept(q))
<1> DEFINE points == q.stops
           D == DOMAIN points
           others == {i \in D : points[i].id # q.current}
           richer(i, j) == Richer(points[i], points[j])
           first(i, j) == \/ richer(i, j)
                          \/ ~richer(j, i) /\ i < j
           R == {p \in others \X others : first(p[1], p[2])}
           one == CHOOSE i \in others : \A j \in others \ {i} : first(i, j)
           next == IF others = {} THEN None ELSE points[one].id
           switch == q.outside \/ (q.level \in {"poor", "fair"} /\ next # None)
           said == SuggestReIntercept(q)
<1>1. /\ points \in Seq(StopFacts) /\ q.current \in STRING /\ q.outside \in BOOLEAN
      /\ None \notin Int /\ None \notin STRING
  BY HandoffAssumption
<1>2. said.to = (IF switch THEN next ELSE None) /\ said.switch = switch
  <2>1. said = [switch |-> switch, to |-> IF switch THEN next ELSE None, stay |-> ~switch \/ next = None]
    BY DEF SuggestReIntercept
  <2> HIDE DEF said, switch, next
  <2> QED  BY <2>1
<1> HIDE DEF said, points
<1>3. D = 1 .. Len(points) /\ Len(points) \in Nat /\ \A i \in D : points[i] \in StopFacts
  BY <1>1
<1>4. IsFiniteSet(others) /\ others \subseteq D
  <2>1. IsFiniteSet(D)
    BY <1>3, FS_Interval
  <2>2. others \subseteq D
    OBVIOUS
  <2> HIDE DEF others, D
  <2> QED  BY <2>1, <2>2, FS_Subset
<1>5. \A i \in D : i \in Nat /\ Supply(points[i]) \in Int /\ points[i].score \in Int
  BY <1>1, <1>3 DEF StopFacts, Supply, Or, OrNone
<1>6. \A i, j \in D : richer(i, j) <=> \/ Supply(points[i]) > Supply(points[j])
                                       \/ Supply(points[i]) = Supply(points[j]) /\ points[i].score > points[j].score
  BY DEF Richer
<1>7. \A i \in others : i \in D /\ points[i].id # q.current
  OBVIOUS
<1>8. \A i, j \in others : <<i, j>> \in R <=> first(i, j)
  OBVIOUS
<1>9. \A j \in D : points[j].id # q.current => j \in others
  OBVIOUS
<1> HIDE DEF richer, D, others
<1>10. \A i \in D : ~richer(i, i)
  BY <1>5, <1>6
<1>11. \A i, j \in D : richer(i, j) => ~richer(j, i)
  BY <1>5, <1>6
<1>12. \A x, y, z \in D : first(x, y) /\ first(y, z) => first(x, z)
  BY <1>5, <1>6
<1>13. \A x, y \in D : x # y => first(x, y) \/ first(y, x)
  <2>1. \A x, y \in D : x # y => x < y \/ y < x
    BY <1>5
  <2> QED  BY <2>1, Zenon
<1>14. \A x \in D : ~first(x, x)
  BY <1>5, <1>10
<1> HIDE DEF R, first
<1>15. others # {} => \E i \in others : \A j \in others \ {i} : first(i, j)
  <2> SUFFICES ASSUME others # {} PROVE \E i \in others : \A j \in others \ {i} : first(i, j)
    OBVIOUS
  <2> DEFINE N == Cardinality(others)
  <2>1. \A x \in others : <<x, x>> \notin R
    BY <1>7, <1>8, <1>14, Zenon
  <2>2. \A x, y, z \in others : <<x, y>> \in R /\ <<y, z>> \in R => <<x, z>> \in R
    BY <1>7, <1>8, <1>12, Zenon
  <2>3. \A x, y \in others : x # y => <<x, y>> \in R \/ <<y, x>> \in R
    BY <1>7, <1>8, <1>13, Zenon
  <2> HIDE DEF N
  <2>4. PICK s \in SetToSeqs(others) : \A m, n \in 1 .. N : m < n => <<s[m], s[n]>> \in R
    <3>1. IsFiniteSet(others)
      BY <1>4
    <3> QED  BY <2>1, <2>2, <2>3, <3>1, CanBeListed, Zenon DEF N
  <2>5. s \in Seq(others) /\ Len(s) = N /\ ToSet(s) = others
    BY <1>4, ListsAll DEF N
  <2>6. N \in Nat
    BY <1>4, FS_CardinalityType DEF N
  <2>7. \A j \in others : \E n \in 1 .. N : s[n] = j
    BY <2>5 DEF ToSet
  <2>8. 1 \in 1 .. N /\ s[1] \in others
    BY <2>5, <2>6, <2>7
  <2>9. \A j \in others \ {s[1]} : \E n \in 1 .. N : s[n] = j /\ 1 < n
    BY <2>6, <2>7
  <2>10. \A j \in others \ {s[1]} : <<s[1], j>> \in R
    BY <2>4, <2>8, <2>9
  <2>11. \A j \in others \ {s[1]} : first(s[1], j)
    BY <1>8, <2>8, <2>10, Zenon
  <2> QED  BY <2>8, <2>11, Zenon
<1>16. others # {} => one \in others /\ \A j \in others \ {one} : first(one, j)
  BY <1>15, Zenon
<1> HIDE DEF one
<1>17. next # None => /\ next # q.current
                      /\ one \in D /\ points[one].id = next
                      /\ \A j \in D : points[j].id # q.current => ~richer(j, one)
  <2> SUFFICES ASSUME next # None
               PROVE  /\ next # q.current /\ one \in D /\ points[one].id = next
                      /\ \A j \in D : points[j].id # q.current => ~richer(j, one)
    OBVIOUS
  <2>1. others # {} /\ points[one].id = next
    OBVIOUS
  <2>2. one \in others /\ one \in D /\ points[one].id # q.current
    BY <1>7, <1>16, <2>1
  <2>3. \A j \in others : ~richer(j, one)
    BY <1>7, <1>10, <1>11, <1>16, <2>1, <2>2, Zenon DEF first
  <2> QED  BY <1>9, <2>1, <2>2, <2>3, Zenon
<1>18. q.current # None
  BY <1>1
<1> HIDE DEF next
<1>19. said.to # q.current /\ (said.to # None => said.switch) /\ (q.outside => said.switch)
  <2>1. CASE switch
    <3>1. said.to = next /\ said.switch = TRUE
      BY <1>2, <2>1
    <3> QED  BY <1>17, <1>18, <3>1
  <2>2. CASE ~switch
    <3>1. said.to = None /\ said.switch = FALSE /\ ~q.outside
      BY <1>2, <2>2
    <3> QED  BY <1>18, <3>1
  <2> QED  BY <2>1, <2>2
<1>20. said.to # None => said.to = next
  BY <1>2
<1> HIDE DEF switch
<1>21. said.to # None => \E i \in D : /\ points[i].id = said.to
                                     /\ \A j \in D : points[j].id # q.current => ~richer(j, i)
  BY <1>17, <1>20, Zenon
<1> QED  BY <1>19, <1>21, Zenon DEF SuggestsRichest, said, points, D, richer

----------------------------------------------------------------------------
\* The two clocks.
LEMMA LevelIs ==
    \A n \in Int : LevelOf(n) = IF Size(n) > 600 THEN "poor" ELSE IF Size(n) > 300 THEN "fair"
                                ELSE IF Size(n) > 120 THEN "good" ELSE "excellent"
<1> SUFFICES ASSUME NEW n \in Int
             PROVE  LevelOf(n) = IF Size(n) > 600 THEN "poor" ELSE IF Size(n) > 300 THEN "fair"
                                 ELSE IF Size(n) > 120 THEN "good" ELSE "excellent"
  OBVIOUS
<1> DEFINE m == Size(n)
           over == {limit \in {120, 300, 600} : m > limit}
<1>1. m \in Int
  BY DEF Size
<1>2. /\ Cardinality({}) = 0 /\ IsFiniteSet({})
  BY FS_EmptySet
<1>3. /\ Cardinality({120}) = 1 /\ IsFiniteSet({120})
  BY FS_Singleton
<1>4. /\ Cardinality({120, 300}) = 2 /\ IsFiniteSet({120, 300})
  <2>1. {120} \union {300} = {120, 300} /\ 300 \notin {120}
    OBVIOUS
  <2>2. Cardinality({120} \union {300}) = Cardinality({120}) + 1 /\ IsFiniteSet({120} \union {300})
    BY <1>3, <2>1, FS_AddElement
  <2> QED  BY <1>3, <2>1, <2>2
<1>5. Cardinality({120, 300, 600}) = 3
  <2>1. {120, 300} \union {600} = {120, 300, 600} /\ 600 \notin {120, 300}
    OBVIOUS
  <2>2. Cardinality({120, 300} \union {600}) = Cardinality({120, 300}) + 1
    BY <1>4, <2>1, FS_AddElement
  <2> QED  BY <1>4, <2>1, <2>2
<1>6. LevelOf(n) = Levels[1 + Cardinality(over)]
  BY Zenon DEF LevelOf
<1>l. Levels[1] = "excellent" /\ Levels[2] = "good" /\ Levels[3] = "fair" /\ Levels[4] = "poor"
  BY DEF Levels
<1> HIDE DEF m
<1>7. CASE m > 600
  <2>1. over = {120, 300, 600} /\ 1 + 3 = 4
    BY <1>1, <1>7
  <2> HIDE DEF over
  <2>2. LevelOf(n) = "poor"
    BY <1>5, <1>6, <1>l, <2>1
  <2> QED  BY <1>7, <2>2 DEF m
<1>8. CASE ~(m > 600) /\ m > 300
  <2>1. over = {120, 300} /\ 1 + 2 = 3
    BY <1>1, <1>8
  <2> HIDE DEF over
  <2>2. LevelOf(n) = "fair"
    BY <1>4, <1>6, <1>l, <2>1
  <2> QED  BY <1>8, <2>2 DEF m
<1>9. CASE ~(m > 600) /\ ~(m > 300) /\ m > 120
  <2>1. over = {120} /\ 1 + 1 = 2
    BY <1>1, <1>9
  <2> HIDE DEF over
  <2>2. LevelOf(n) = "good"
    BY <1>3, <1>6, <1>l, <2>1
  <2> QED  BY <1>9, <2>2 DEF m
<1>10. CASE ~(m > 600) /\ ~(m > 300) /\ ~(m > 120)
  <2>1. over = {} /\ 1 + 0 = 1
    BY <1>1, <1>10
  <2> HIDE DEF over
  <2>2. LevelOf(n) = "excellent"
    BY <1>2, <1>6, <1>l, <2>1
  <2> QED  BY <1>10, <2>2 DEF m
<1> QED  BY <1>7, <1>8, <1>9, <1>10

\* The place of a level among the levels.
PlaceOf(level) == CHOOSE i \in DOMAIN Levels : Levels[i] = level

LEMMA LevelsArePlaced ==
    PlaceOf("excellent") = 1 /\ PlaceOf("good") = 2 /\ PlaceOf("fair") = 3 /\ PlaceOf("poor") = 4
<1>1. /\ DOMAIN Levels = {1, 2, 3, 4}
      /\ Levels[1] = "excellent" /\ Levels[2] = "good" /\ Levels[3] = "fair" /\ Levels[4] = "poor"
  BY DEF Levels
<1>2. ASSUME NEW i \in DOMAIN Levels PROVE PlaceOf(Levels[i]) = i
  <2>1. \A j \in DOMAIN Levels : Levels[j] = Levels[i] => j = i
    BY <1>1
  <2> QED  BY <2>1 DEF PlaceOf
<1>3. {1, 2, 3, 4} = DOMAIN Levels
  BY <1>1
<1>4. \A i \in {1, 2, 3, 4} : PlaceOf(Levels[i]) = i
  BY <1>2, <1>3
<1> QED  BY <1>1, <1>4

LEMMA ScoreFalls ==
    \A m, n \in Nat : m <= n =>
        Bounded(Rounded(6000 - 10 * Bounded(n, 0, 600), 60), 0, 100)
            <= Bounded(Rounded(6000 - 10 * Bounded(m, 0, 600), 60), 0, 100)
<1> SUFFICES ASSUME NEW m \in Nat, NEW n \in Nat, m <= n
             PROVE  Bounded(Rounded(6000 - 10 * Bounded(n, 0, 600), 60), 0, 100)
                        <= Bounded(Rounded(6000 - 10 * Bounded(m, 0, 600), 60), 0, 100)
  OBVIOUS
<1> DEFINE a == Bounded(m, 0, 600)
           b == Bounded(n, 0, 600)
           x == (2 * (6000 - 10 * a) + 60) \div (2 * 60)
           y == (2 * (6000 - 10 * b) + 60) \div (2 * 60)
<1>1. a \in 0 .. 600 /\ b \in 0 .. 600 /\ a <= b
  BY DEF Bounded
<1> HIDE DEF a, b
<1>2. x \in Int /\ y \in Int /\ y <= x
  BY <1>1
<1> HIDE DEF x, y
<1>3. Bounded(y, 0, 100) <= Bounded(x, 0, 100)
  BY <1>2 DEF Bounded
<1>4. Rounded(6000 - 10 * a, 60) = x /\ Rounded(6000 - 10 * b, 60) = y
  BY Zenon DEF Rounded, x, y
<1> HIDE DEF x, y
<1> QED  BY <1>3, <1>4 DEF a, b

\* What a level becomes when the rider is outside.
ShownLevel(level, outside) == IF outside /\ level \in {"excellent", "good"} THEN "fair" ELSE level

LEMMA WorseIsNotBetter ==
    \A m, n \in Int, outside \in BOOLEAN : Size(m) <= Size(n) =>
        PlaceOf(ShownLevel(LevelOf(m), outside)) <= PlaceOf(ShownLevel(LevelOf(n), outside))
<1> SUFFICES ASSUME NEW m \in Int, NEW n \in Int, NEW outside \in BOOLEAN, Size(m) <= Size(n)
             PROVE  PlaceOf(ShownLevel(LevelOf(m), outside)) <= PlaceOf(ShownLevel(LevelOf(n), outside))
  OBVIOUS
<1> DEFINE place(k) == IF k > 600 THEN 4 ELSE IF k > 300 THEN 3 ELSE IF outside THEN 3 ELSE IF k > 120 THEN 2 ELSE 1
<1>1. \A k \in Int : PlaceOf(ShownLevel(LevelOf(k), outside)) = place(Size(k))
  BY LevelIs, LevelsArePlaced DEF ShownLevel
<1>2. Size(m) \in Int /\ Size(n) \in Int
  BY DEF Size
<1>3. place(Size(m)) <= place(Size(n))
  BY <1>2
<1> QED  BY <1>1, <1>3

LEMMA FurtherLooksWorse ==
    ASSUME NEW q \in Questions, q.about = "alignment" PROVE FurtherIsWorse(q)
<1>1. q.customer \in Int /\ q.rider \in Int /\ q.outside \in BOOLEAN
  BY HandoffAssumption
<1> SUFFICES ASSUME NEW more \in {1, 150, 400}
    PROVE  LET here  == ComputeAlignment(q.customer, q.rider, q.prep, q.outside)
               there == ComputeAlignment(IF q.customer < q.rider THEN q.customer - more ELSE q.customer + more,
                                         q.rider, q.prep, q.outside)
           IN  there.score <= here.score /\ PlaceOf(there.status) >= PlaceOf(here.status)
  BY Zenon DEF FurtherIsWorse, PlaceOf
<1> DEFINE away == IF q.customer < q.rider THEN q.customer - more ELSE q.customer + more
           m == q.customer - q.rider
           n == away - q.rider
           score(k) == Bounded(Rounded(6000 - 10 * Bounded(Size(k), 0, 600), 60), 0, 100)
           given(k) == IF q.outside THEN Bounded(score(k), 0, 55) ELSE score(k)
           here  == ComputeAlignment(q.customer, q.rider, q.prep, q.outside)
           there == ComputeAlignment(away, q.rider, q.prep, q.outside)
<1>2. m \in Int /\ n \in Int /\ Size(m) <= Size(n) /\ Size(m) \in Nat /\ Size(n) \in Nat
  BY <1>1 DEF Size
<1>3. /\ here.status = ShownLevel(LevelOf(m), q.outside) /\ here.score = given(m)
      /\ there.status = ShownLevel(LevelOf(n), q.outside) /\ there.score = given(n)
  BY DEF ComputeAlignment, ShownLevel
<1> HIDE DEF m, n, here, there
<1>4. PlaceOf(there.status) >= PlaceOf(here.status)
  <2> DEFINE x == PlaceOf(here.status)
             y == PlaceOf(there.status)
  <2>1. x <= y
    BY <1>1, <1>2, <1>3, WorseIsNotBetter
  <2> HIDE DEF x, y
  <2>2. y >= x
    BY <2>1
  <2> QED  BY <2>2 DEF x, y
<1>5. \A k \in Nat : Bounded(Rounded(6000 - 10 * Bounded(k, 0, 600), 60), 0, 100) \in Int
  BY DEF Bounded, Rounded
<1>6. score(m) \in Int /\ score(n) \in Int /\ score(n) <= score(m)
  BY <1>2, <1>5, ScoreFalls
<1> HIDE DEF score
<1>7. given(n) <= given(m)
  BY <1>1, <1>6 DEF Bounded
<1> QED  BY <1>3, <1>4, <1>7 DEF here, there

\* Clocks are compared as soon as both are known.
LEMMA ClocksAreCompared ==
    ASSUME NEW q \in Questions, q.about = "clocks" PROVE ComparedIfKnown(q, BuildDualClock(q))
<1> DEFINE maps == IF q.located # None THEN q.matrix ELSE None
           rider == Or(maps, q.swiggy)
           both == q.customer # None /\ rider # None
           compared == ComputeAlignment(q.customer, rider, q.prep, FALSE)
<1>1. /\ q.matrix \in OrNone(Int) /\ q.swiggy \in OrNone(Int)
      /\ q.customer \in OrNone(Int) /\ q.prep \in OrNone(Int)
      /\ None \notin Int /\ None \notin Alignment
  BY HandoffAssumption
<1>2. rider # None <=> (q.swiggy # None \/ (q.located # None /\ q.matrix # None))
  BY DEF Or
<1>3. rider \in OrNone(Int)
  BY <1>1 DEF Or, OrNone
<1>4. BuildDualClock(q).alignment = IF both THEN compared ELSE None
  BY DEF BuildDualClock
<1>5. both => compared \in Alignment
  <2> SUFFICES ASSUME both PROVE compared \in Alignment
    OBVIOUS
  <2>1. q.customer \in Int /\ rider \in Int /\ Or(q.prep, 0) \in Int
    BY <1>1, <1>3 DEF Or, OrNone
  <2> HIDE DEF rider
  <2> DEFINE c == q.customer
             delta == c - rider
             p == Or(q.prep, 0)
  <2>2. delta \in Int /\ Size(delta) \in Int
    BY <2>1 DEF Size
  <2>3. LevelOf(delta) \in {"excellent", "good", "fair", "poor"}
    <3>1. \A n \in Int : LevelOf(n) \in {"excellent", "good", "fair", "poor"}
      BY LevelIs
    <3> HIDE DEF delta
    <3> QED  BY <2>2, <3>1
  <2> DEFINE score == Bounded(Rounded(6000 - 10 * Bounded(Size(delta), 0, 600), 60), 0, 100)
             ready == Bounded(rider - p, 0, rider)
  <2>4. score \in Int
    BY <2>2 DEF Bounded, Rounded
  <2>5. ready \in Int
    BY <2>1 DEF Bounded
  <2>6. compared = [status |-> LevelOf(delta), score |-> score, ready |-> ready]
    BY Zenon DEF ComputeAlignment
  <2> HIDE DEF score, ready, delta, compared
  <2> QED  BY <2>3, <2>4, <2>5, <2>6 DEF Alignment
<1> HIDE DEF rider, compared
<1>6. BuildDualClock(q).alignment # None <=> both
  BY <1>1, <1>4, <1>5
<1> QED  BY <1>2, <1>6 DEF ComparedIfKnown

\* An arrival time is always given.
LEMMA ArrivalIsGiven ==
    ASSUME NEW q \in Questions, q.about = "customer"
    PROVE  LoadCustomerContext(q).eta # None /\ (LoadCustomerContext(q).fromGps => q.live)
<1>1. q.live \in BOOLEAN /\ None \notin Int
  BY HandoffAssumption
<1> DEFINE train == IF q.mode = "train" /\ "train" \in q.known THEN q.timetable ELSE None
           gps == IF q.live /\ Or(q.matrix, 0) > 0 THEN q.matrix ELSE None
<1>2. /\ LoadCustomerContext(q).eta = Or(train, Or(gps, Or(q.dwell, 300)))
      /\ LoadCustomerContext(q).fromGps = (train = None /\ gps # None)
  BY DEF LoadCustomerContext
<1>3. gps # None => q.live
  OBVIOUS
<1>4. 300 # None
  BY <1>1
<1> HIDE DEF train, gps
<1>5. Or(train, Or(gps, Or(q.dwell, 300))) # None
  BY <1>4 DEF Or
<1> QED  BY <1>2, <1>3, <1>5

----------------------------------------------------------------------------
\* The conditions outdoors.
LEMMA NoRiskIsLost ==
    ASSUME NEW q \in Questions, q.about = "outdoor" PROVE NoRiskLost(q, FetchOutdoorConditions(q))
<1> DEFINE reading == IF ~q.reading THEN {}
                      ELSE {[kind |-> "air", of |-> "reading",
                             severity |-> IF q.risks \intersect {"air", "local"} # {} THEN "alert" ELSE "good"]}
           weather == IF ~q.weather THEN {}
                      ELSE {[kind |-> "weather", of |-> "weather",
                             severity |-> IF Or(q.rain, 0) >= 70 \/ Or(q.thunder, 0) >= 40 THEN "watch" ELSE "good"]}
           alert == IF ~q.alert THEN {} ELSE {[kind |-> "alert", of |-> "alert", severity |-> "alert"]}
           risk(r) == IF r = "pollen" THEN [kind |-> "pollen", of |-> r, severity |-> "watch"]
                      ELSE [kind |-> "air", of |-> r, severity |-> "alert"]
           risks == {risk(r) : r \in {s \in q.risks : ~(s = "air" /\ q.reading)}}
           shown == reading \union weather \union alert \union risks
           ranks == {0} \union {SeverityRank[a.severity] : a \in shown}
           worst == Max(ranks)
           severity == CHOOSE s \in DOMAIN SeverityRank : SeverityRank[s] = worst
           warnings == {a.of : a \in {b \in shown : b.severity # "good"}}
<1>1. q.reading \in BOOLEAN /\ q.alert \in BOOLEAN
  BY HandoffAssumption
<1>2. FetchOutdoorConditions(q) = [advisories |-> shown, severity |-> severity, warnings |-> warnings]
  BY Zenon DEF FetchOutdoorConditions
<1>3. \A a \in shown : a.severity \in {"good", "watch", "alert"}
  <2>1. \A a \in reading : a.severity \in {"good", "watch", "alert"}
    OBVIOUS
  <2>2. \A a \in weather : a.severity \in {"good", "watch", "alert"}
    OBVIOUS
  <2>3. \A a \in alert : a.severity \in {"good", "watch", "alert"}
    OBVIOUS
  <2>4. \A r \in q.risks : risk(r).severity \in {"good", "watch", "alert"}
    OBVIOUS
  <2>5. \A a \in risks : a.severity \in {"good", "watch", "alert"}
    BY <2>4
  <2> HIDE DEF reading, weather, alert, risks
  <2> QED  BY <2>1, <2>2, <2>3, <2>5
<1>4. q.risks # {} \/ q.alert => \E a \in shown : a.severity # "good"
  <2>1. CASE q.alert
    <3>1. [kind |-> "alert", of |-> "alert", severity |-> "alert"] \in shown
      BY <2>1
    <3> QED  BY <3>1
  <2>2. CASE \E r \in q.risks : ~(r = "air" /\ q.reading)
    <3>1. PICK r \in q.risks : ~(r = "air" /\ q.reading)
      BY <2>2
    <3>2. risk(r) \in shown
      BY <3>1
    <3>3. risk(r).severity # "good"
      OBVIOUS
    <3> QED  BY <3>2, <3>3
  <2>3. CASE "air" \in q.risks /\ q.reading
    <3>1. [kind |-> "air", of |-> "reading", severity |-> "alert"] \in shown
      BY <2>3
    <3> QED  BY <3>1
  <2> QED  BY <2>1, <2>2, <2>3
<1>5. /\ DOMAIN SeverityRank = {"good", "watch", "alert"}
      /\ SeverityRank["good"] = 0 /\ SeverityRank["watch"] = 1 /\ SeverityRank["alert"] = 2
  BY DEF SeverityRank
<1>6. ranks \subseteq {0, 1, 2} /\ 0 \in ranks /\ \A a \in shown : SeverityRank[a.severity] \in ranks
  <2> HIDE DEF shown
  <2> QED  BY <1>3, <1>5
<1> HIDE DEF ranks, shown
<1>7. worst \in ranks /\ \A n \in ranks : n <= worst
  <2>1. \E m \in ranks : \A n \in ranks : m >= n
    <3>1. CASE 2 \in ranks
      BY <3>1, <1>6
    <3>2. CASE 2 \notin ranks /\ 1 \in ranks
      BY <3>2, <1>6
    <3>3. CASE 2 \notin ranks /\ 1 \notin ranks
      BY <3>3, <1>6
    <3> QED  BY <3>1, <3>2, <3>3
  <2>2. worst \in ranks /\ \A n \in ranks : worst >= n
    BY <2>1, Zenon DEF Max
  <2> HIDE DEF worst
  <2> QED  BY <1>6, <2>2
<1> HIDE DEF worst
<1>8. severity \in {"good", "watch", "alert"} /\ SeverityRank[severity] = worst
  <2>1. \E s \in DOMAIN SeverityRank : SeverityRank[s] = worst
    BY <1>5, <1>6, <1>7
  <2>2. severity \in DOMAIN SeverityRank /\ SeverityRank[severity] = worst
    BY <2>1, Zenon
  <2> QED  BY <1>5, <2>2
<1> HIDE DEF severity
<1>9. \A a \in shown : SeverityRank[a.severity] <= SeverityRank[severity]
  BY <1>6, <1>7, <1>8
<1>10. q.risks # {} \/ q.alert => severity # "good" /\ warnings # {}
  <2> SUFFICES ASSUME NEW a \in shown, a.severity # "good" PROVE severity # "good" /\ warnings # {}
    BY <1>4
  <2>1. a.of \in warnings
    OBVIOUS
  <2>2. SeverityRank[a.severity] \in {1, 2} /\ SeverityRank[a.severity] <= SeverityRank[severity]
    BY <1>3, <1>5, <1>9
  <2>3. severity # "good"
    BY <1>5, <2>2
  <2> QED  BY <2>1, <2>3
<1> HIDE DEF warnings
<1> QED  BY <1>2, <1>9, <1>10 DEF NoRiskLost

----------------------------------------------------------------------------
PlansInv == question \in Questions /\ PlansAreSound

\* Whatever is asked, what the traveller, the rider and the page are told of a
\* handoff is sound: for every cart, cap, list of stops and of kitchens, clocks and
\* conditions, as far as the services answered (hop-packing.ts, prep-gate.ts,
\* alignment.ts, clock-resolver.ts, recommendations.ts, conditions.ts).
THEOREM PlansAreTold == HandoffSpec => []PlansAreSound
<1>1. HandoffInit => PlansInv
  BY DEF HandoffInit, PlansInv, PlansAreSound
<1>2. PlansInv /\ [HandoffNext]_handoffVars => PlansInv'
  <2> SUFFICES ASSUME PlansInv, [HandoffNext]_handoffVars PROVE PlansInv'
    OBVIOUS
  <2> USE DEF PlansInv
  <2>1. ASSUME Pack PROVE PlansInv'
    BY <2>1, CartsAreSplit DEF Pack, Answered, PlansAreSound
  <2>2. ASSUME Time PROVE PlansInv'
    BY <2>2 DEF Time, Answered, PlansAreSound
  <2>3. ASSUME RankKitchens PROVE PlansInv'
    BY <2>3, KitchensAreListed DEF RankKitchens, Answered, PlansAreSound
  <2>4. ASSUME Gate PROVE PlansInv'
    BY <2>4 DEF Gate, Answered, PlansAreSound
  <2>5. ASSUME Align PROVE PlansInv'
    BY <2>5, FurtherLooksWorse DEF Align, Answered, PlansAreSound
  <2>6. ASSUME Clocks PROVE PlansInv'
    BY <2>6, ClocksAreCompared DEF Clocks, Answered, PlansAreSound
  <2>7. ASSUME Suggest PROVE PlansInv'
    BY <2>7, RichestIsSuggested DEF Suggest, Answered, PlansAreSound
  <2>8. ASSUME Meal PROVE PlansInv'
    BY <2>8 DEF Meal, Answered, PlansAreSound
  <2>9. ASSUME Arrive PROVE PlansInv'
    BY <2>9, ArrivalIsGiven DEF Arrive, Answered, PlansAreSound
  <2>10. ASSUME Outdoor PROVE PlansInv'
    BY <2>10, NoRiskIsLost DEF Outdoor, Answered, PlansAreSound
  <2>11. ASSUME Address PROVE PlansInv'
    BY <2>11 DEF Address, Answered, PlansAreSound
  <2>12. CASE UNCHANGED handoffVars
    BY <2>12 DEF handoffVars, PlansAreSound, CartIsSplitWhole, FurtherIsWorse, ComparedIfKnown, SuggestsRichest,
                 NearestFirstList, NoRiskLost
  <2> QED
    BY <2>1, <2>2, <2>3, <2>4, <2>5, <2>6, <2>7, <2>8, <2>9, <2>10, <2>11, <2>12 DEF HandoffNext
<1>3. PlansInv => PlansAreSound
  BY DEF PlansInv
<1> QED  BY <1>1, <1>2, <1>3, PTL DEF HandoffSpec

----------------------------------------------------------------------------
Count(c) == Cardinality(OrdersOf(c))

\* What a call in state r with b blind repeats may have had executed: an
\* attempt that is still to be answered leaves room for its own order.
Fits(n, r, b) ==
    /\ n <= b + 1
    /\ r.pc \in {"idle", "send"} \/ r.result.how = "refused" => n <= b
    /\ r.result.how = "refused" => r.pc = "done"
    /\ r.pc = "probe" => r.attempt < MAX_ATTEMPTS
    /\ b <= r.attempt - 1

Inv == TypeOK /\ \A c \in Calls : Fits(Count(c), call[c], blind[c])

----------------------------------------------------------------------------
\* The orders of a call can be counted.
LEMMA Counted ==
    ASSUME TypeOK, NEW c PROVE IsFiniteSet(OrdersOf(c)) /\ Count(c) \in Nat
<1>1. Len(placed) \in Nat
  BY DEF TypeOK
<1>2. IsFiniteSet(1..Len(placed))
  BY <1>1, FS_Interval
<1>3. IsFiniteSet(OrdersOf(c))
  BY <1>2, FS_Subset DEF OrdersOf
<1> QED  BY <1>3, FS_CardinalityType DEF Count

\* An executed attempt is one more order of its call and of no other.
LEMMA ExecutedCounts ==
    ASSUME TypeOK, NEW c \in Calls, Executed(c)
    PROVE  /\ Count(c)' = Count(c) + 1
           /\ \A d \in Calls \ {c} : Count(d)' = Count(d)
           /\ placed' \in Seq(Calls \union {Others}) /\ Len(placed') <= MaxSid
<1> DEFINE n == Len(placed)
<1>1. n \in Nat /\ placed \in Seq(Calls \union {Others}) /\ n < MaxSid
  BY DEF TypeOK, Executed
<1>2. /\ placed' \in Seq(Calls \union {Others}) /\ Len(placed') = n + 1
      /\ placed'[n + 1] = c /\ \A i \in 1..n : placed'[i] = placed[i]
  BY <1>1 DEF Executed
<1>3. 1..(n + 1) = (1..n) \union {n + 1}
  BY <1>1
<1>4. OrdersOf(c)' = OrdersOf(c) \union {n + 1}
  BY <1>1, <1>2, <1>3 DEF OrdersOf
<1>5. n + 1 \notin OrdersOf(c)
  BY <1>1 DEF OrdersOf
<1>6. Count(c)' = Count(c) + 1
  BY <1>4, <1>5, Counted, FS_AddElement DEF Count
<1>7. ASSUME NEW d \in Calls \ {c} PROVE Count(d)' = Count(d)
  <2>1. OrdersOf(d)' = OrdersOf(d)
    BY <1>1, <1>2, <1>3 DEF OrdersOf
  <2> QED  BY <2>1 DEF Count
<1>8. Len(placed') <= MaxSid
  BY <1>1, <1>2, ClientAssumption
<1> QED  BY <1>2, <1>6, <1>7, <1>8

\* A step of one call is judged by that call alone.
LEMMA StepOfOne ==
    ASSUME Inv, NEW c \in Calls, NEW r \in Call, NEW b \in 0..MAX_ATTEMPTS - 1,
           call' = [call EXCEPT ![c] = r], blind' = [blind EXCEPT ![c] = b],
           \/ UNCHANGED placed /\ Fits(Count(c), r, b)
           \/ Executed(c) /\ Fits(Count(c) + 1, r, b)
    PROVE  Inv'
<1>1. /\ call'[c] = r /\ blind'[c] = b
      /\ \A d \in Calls \ {c} : call'[d] = call[d] /\ blind'[d] = blind[d]
      /\ call' \in [Calls -> Call] /\ blind' \in [Calls -> 0..MAX_ATTEMPTS - 1]
  BY DEF Inv, TypeOK
<1>2. CASE UNCHANGED placed /\ Fits(Count(c), r, b)
  <2>1. \A d \in Calls : Count(d)' = Count(d)
    BY <1>2 DEF Count, OrdersOf
  <2>2. TypeOK'
    BY <1>1, <1>2 DEF Inv, TypeOK
  <2>3. ASSUME NEW d \in Calls PROVE Fits(Count(d), call[d], blind[d])'
    <3>1. CASE d = c
      BY <3>1, <1>1, <1>2, <2>1 DEF Fits
    <3>2. CASE d # c
      BY <3>2, <1>1, <2>1 DEF Inv, Fits
    <3> QED  BY <3>1, <3>2
  <2> QED  BY <2>2, <2>3 DEF Inv
<1>3. CASE Executed(c) /\ Fits(Count(c) + 1, r, b)
  <2>1. /\ Count(c)' = Count(c) + 1 /\ \A d \in Calls \ {c} : Count(d)' = Count(d)
        /\ placed' \in Seq(Calls \union {Others}) /\ Len(placed') <= MaxSid
    BY <1>3, ExecutedCounts DEF Inv
  <2>2. TypeOK'
    BY <1>1, <2>1 DEF TypeOK
  <2>3. ASSUME NEW d \in Calls PROVE Fits(Count(d), call[d], blind[d])'
    <3>1. CASE d = c
      BY <3>1, <1>1, <1>3, <2>1 DEF Fits
    <3>2. CASE d # c
      BY <3>2, <1>1, <2>1 DEF Inv, Fits
    <3> QED  BY <3>1, <3>2
  <2> QED  BY <2>2, <2>3 DEF Inv
<1> QED  BY <1>2, <1>3

\* No call has begun, and the account's earlier orders are not theirs.
LEMMA InvInit == Init => Inv
<1> SUFFICES ASSUME Init PROVE Inv
  OBVIOUS
<1>1. PICK n \in 0..Earlier : placed = [s \in 1..n |-> Others]
  BY DEF Init
<1>2. n \in Nat /\ n <= MaxSid
  BY <1>1, ClientAssumption
<1>3. placed \in Seq(Calls \union {Others}) /\ Len(placed) = n
  BY <1>1, <1>2
<1>4. call \in [Calls -> Call] /\ blind \in [Calls -> 0..MAX_ATTEMPTS - 1]
  BY ClientAssumption DEF Init, Call, Account!Open
<1>5. ASSUME NEW c \in Calls PROVE Fits(Count(c), call[c], blind[c])
  <2>1. OrdersOf(c) = {}
    BY <1>1, <1>2, <1>3, ClientAssumption DEF OrdersOf
  <2>2. Count(c) = 0
    BY <2>1, FS_EmptySet DEF Count
  <2> QED  BY <2>2 DEF Fits, Init, Account!Open
<1> QED  BY <1>2, <1>3, <1>4, <1>5 DEF Inv, TypeOK

\* How a call is left when it returns or raises, and when it goes on.
Ended(r, h, k) == [r EXCEPT !.pc = "done", !.result = [how |-> h, sid |-> k]]
Again(r) == [r EXCEPT !.pc = "send", !.attempt = r.attempt + 1]
Moved(r, p) == [r EXCEPT !.pc = p]

\* A call that has ended is a call (client.ts: what callTool returns).
LEMMA EndedCall ==
    ASSUME NEW r \in Call, NEW h \in {"ok", "refused", "threw"}, NEW k \in 0..MaxSid
    PROVE  /\ Ended(r, h, k) \in Call /\ Ended(r, h, k).pc = "done"
           /\ Ended(r, h, k).result.how = h /\ Ended(r, h, k).attempt = r.attempt
<1> DEFINE R == [how: {"open", "ok", "refused", "threw"}, sid: 0..MaxSid]
           x == [how |-> h, sid |-> k]
<1>1. x \in R /\ x.how = h
  OBVIOUS
<1>2. Ended(r, h, k) = [r EXCEPT !.pc = "done", !.result = x]
  BY DEF Ended
<1>3. Call = [pc: {"idle", "send", "probe", "done"}, attempt: 1..MAX_ATTEMPTS, result: R]
  BY DEF Call
<1> HIDE DEF R, x
<1> QED  BY <1>1, <1>2, <1>3

\* So is one that sends its next attempt (client.ts: the loop of callTool).
LEMMA AgainCall ==
    ASSUME NEW r \in Call, r.attempt < MAX_ATTEMPTS
    PROVE  /\ Again(r) \in Call /\ Again(r).pc = "send"
           /\ Again(r).result = r.result /\ Again(r).attempt = r.attempt + 1
<1> DEFINE R == [how: {"open", "ok", "refused", "threw"}, sid: 0..MaxSid]
<1>1. Call = [pc: {"idle", "send", "probe", "done"}, attempt: 1..MAX_ATTEMPTS, result: R]
  BY DEF Call
<1> HIDE DEF R
<1>2. r.attempt + 1 \in 1..MAX_ATTEMPTS
  BY <1>1, ClientAssumption
<1> QED  BY <1>1, <1>2 DEF Again

\* So is one that sends its first attempt, or probes.
LEMMA MovedCall ==
    ASSUME NEW r \in Call, NEW p \in {"send", "probe"}
    PROVE  /\ Moved(r, p) \in Call /\ Moved(r, p).pc = p
           /\ Moved(r, p).result = r.result /\ Moved(r, p).attempt = r.attempt
<1> DEFINE R == [how: {"open", "ok", "refused", "threw"}, sid: 0..MaxSid]
<1>1. Call = [pc: {"idle", "send", "probe", "done"}, attempt: 1..MAX_ATTEMPTS, result: R]
  BY DEF Call
<1> HIDE DEF R
<1> QED  BY <1>1 DEF Moved

\* The attempt that is answered: an order, a refusal, or an error that callTool
\* passes on.
LEMMA InvAnswered ==
    ASSUME Inv, NEW c \in Calls, Succeed(c) \/ Refuse(c) \/ NotJson(c)
    PROVE  Inv'
<1>1. call \in [Calls -> Call] /\ blind \in [Calls -> 0..MAX_ATTEMPTS - 1] /\ Len(placed) \in Nat
  BY DEF Inv, TypeOK
<1>2. Fits(Count(c), call[c], blind[c]) /\ Count(c) \in Nat /\ call[c] \in Call /\ call[c].pc = "send"
  BY <1>1, Counted DEF Inv, Succeed, Refuse, NotJson
<1>3. blind' = [blind EXCEPT ![c] = blind[c]]
  BY <1>1 DEF Succeed, Refuse, NotJson
<1>4. CASE Succeed(c)
  <2> DEFINE r == Ended(call[c], "ok", Len(placed) + 1)
  <2>1. r \in Call /\ r.pc = "done" /\ r.result.how = "ok" /\ r.attempt = call[c].attempt
    BY <1>1, <1>2, <1>4, ClientAssumption, EndedCall DEF Succeed, Executed
  <2>2. call' = [call EXCEPT ![c] = r] /\ Executed(c)
    BY <1>1, <1>4 DEF Succeed, Return, Ended
  <2> HIDE DEF r
  <2>3. Fits(Count(c) + 1, r, blind[c])
    BY <1>1, <1>2, <2>1 DEF Fits, Call
  <2> QED  BY <1>1, <1>3, <2>1, <2>2, <2>3, StepOfOne
<1>5. CASE Refuse(c)
  <2> DEFINE r == Ended(call[c], "refused", 0)
  <2>1. r \in Call /\ r.pc = "done" /\ r.result.how = "refused" /\ r.attempt = call[c].attempt
    BY <1>2, ClientAssumption, EndedCall
  <2>2. call' = [call EXCEPT ![c] = r] /\ UNCHANGED placed
    BY <1>1, <1>5 DEF Refuse, Return, Ended
  <2> HIDE DEF r
  <2>3. Fits(Count(c), r, blind[c])
    BY <1>1, <1>2, <2>1 DEF Fits, Call
  <2> QED  BY <1>1, <1>3, <2>1, <2>2, <2>3, StepOfOne
<1>6. CASE NotJson(c)
  <2> DEFINE r == Ended(call[c], "threw", 0)
  <2>1. r \in Call /\ r.pc = "done" /\ r.result.how = "threw" /\ r.attempt = call[c].attempt
    BY <1>2, ClientAssumption, EndedCall
  <2>2. call' = [call EXCEPT ![c] = r] /\ (UNCHANGED placed \/ Executed(c))
    BY <1>1, <1>6 DEF NotJson, Return, MaybeExecuted, Ended
  <2> HIDE DEF r
  <2>3. Fits(Count(c), r, blind[c]) /\ Fits(Count(c) + 1, r, blind[c])
    BY <1>1, <1>2, <2>1 DEF Fits, Call
  <2> QED  BY <1>1, <1>3, <2>1, <2>2, <2>3, StepOfOne
<1> QED  BY <1>4, <1>5, <1>6

\* The attempt that fails: the last one raises, an earlier one is followed by
\* another, or by the probe.
LEMMA InvFailed ==
    ASSUME Inv, NEW c \in Calls, RateLimited(c) \/ ServerError(c) \/ TransportFails(c)
    PROVE  Inv'
<1>1. call \in [Calls -> Call] /\ blind \in [Calls -> 0..MAX_ATTEMPTS - 1]
  BY DEF Inv, TypeOK
<1>2. Fits(Count(c), call[c], blind[c]) /\ Count(c) \in Nat /\ call[c] \in Call /\ call[c].pc = "send"
  BY <1>1, Counted DEF Inv, RateLimited, ServerError, TransportFails
<1>3. /\ blind[c] \in 0..MAX_ATTEMPTS - 1 /\ call[c].attempt \in 1..MAX_ATTEMPTS
      /\ call[c].result.how # "refused" /\ Count(c) <= blind[c] /\ blind[c] <= call[c].attempt - 1
  BY <1>1, <1>2 DEF Fits, Call
<1>4. CASE IsLast(c)
  <2> DEFINE r == Ended(call[c], "threw", 0)
  <2>1. r \in Call /\ r.pc = "done" /\ r.result.how = "threw" /\ r.attempt = call[c].attempt
    BY <1>2, ClientAssumption, EndedCall
  <2>2. /\ call' = [call EXCEPT ![c] = r] /\ (UNCHANGED placed \/ Executed(c))
        /\ blind' = [blind EXCEPT ![c] = blind[c]]
    BY <1>1, <1>4 DEF RateLimited, ServerError, TransportFails, Return, MaybeExecuted, Ended
  <2> HIDE DEF r
  <2>3. Fits(Count(c), r, blind[c]) /\ Fits(Count(c) + 1, r, blind[c])
    BY <1>2, <1>3, <2>1 DEF Fits
  <2> QED  BY <1>3, <2>1, <2>2, <2>3, StepOfOne
<1>5. CASE ~IsLast(c) /\ (RateLimited(c) \/ ServerError(c))
  <2> DEFINE r == Again(call[c])
  <2>0. call[c].attempt < MAX_ATTEMPTS
    BY <1>3, <1>5, ClientAssumption DEF IsLast
  <2>1. /\ r \in Call /\ r.pc = "send" /\ r.result.how # "refused"
        /\ r.attempt = call[c].attempt + 1
    BY <1>2, <1>3, <2>0, ClientAssumption, AgainCall
  <2>2. call' = [call EXCEPT ![c] = r]
    BY <1>1, <1>5 DEF RateLimited, ServerError, NextAttempt, RepeatBlindly, Again
  <2> HIDE DEF r
  <2>3. CASE RateLimited(c)
    <3>1. UNCHANGED placed /\ blind' = [blind EXCEPT ![c] = blind[c]]
      BY <1>1, <2>3 DEF RateLimited
    <3>2. Fits(Count(c), r, blind[c])
      BY <1>2, <1>3, <2>1 DEF Fits
    <3> QED  BY <1>3, <2>1, <2>2, <3>1, <3>2, StepOfOne
  <2>4. CASE ServerError(c)
    <3>1. (UNCHANGED placed \/ Executed(c)) /\ blind' = [blind EXCEPT ![c] = blind[c] + 1]
      BY <1>1, <1>5, <2>4 DEF ServerError, MaybeExecuted, RepeatBlindly
    <3>2. blind[c] + 1 \in 0..MAX_ATTEMPTS - 1
      BY <1>3, <2>0, ClientAssumption
    <3>3. Fits(Count(c), r, blind[c] + 1) /\ Fits(Count(c) + 1, r, blind[c] + 1)
      BY <1>2, <1>3, <2>1 DEF Fits
    <3> QED  BY <2>1, <2>2, <3>1, <3>2, <3>3, StepOfOne
  <2> QED  BY <1>5, <2>3, <2>4
<1>6. CASE ~IsLast(c) /\ TransportFails(c)
  <2> DEFINE r == Moved(call[c], "probe")
  <2>1. /\ r \in Call /\ r.pc = "probe" /\ r.result.how # "refused"
        /\ r.attempt = call[c].attempt /\ r.attempt < MAX_ATTEMPTS
    BY <1>2, <1>3, <1>6, ClientAssumption, MovedCall DEF IsLast
  <2>2. /\ call' = [call EXCEPT ![c] = r] /\ (UNCHANGED placed \/ Executed(c))
        /\ blind' = [blind EXCEPT ![c] = blind[c]]
    BY <1>1, <1>6 DEF TransportFails, MaybeExecuted, Moved
  <2> HIDE DEF r
  <2>3. Fits(Count(c), r, blind[c]) /\ Fits(Count(c) + 1, r, blind[c])
    BY <1>2, <1>3, <2>1 DEF Fits
  <2> QED  BY <1>3, <2>1, <2>2, <2>3, StepOfOne
<1> QED  BY <1>4, <1>5, <1>6

\* The probe: it ends the call with the newest order, or allows another attempt.
LEMMA InvProbe ==
    ASSUME Inv, NEW c \in Calls, ProbeFinds(c) \/ ProbeFindsNothing(c) \/ ProbeFails(c)
    PROVE  Inv'
<1>1. /\ call \in [Calls -> Call] /\ blind \in [Calls -> 0..MAX_ATTEMPTS - 1]
      /\ placed \in Seq(Calls \union {Others}) /\ Len(placed) \in 0..MaxSid
  BY DEF Inv, TypeOK
<1>2. Fits(Count(c), call[c], blind[c]) /\ Count(c) \in Nat /\ call[c] \in Call /\ call[c].pc = "probe"
  BY <1>1, Counted DEF Inv, ProbeFinds, ProbeFindsNothing, ProbeFails
<1>3. /\ blind[c] \in 0..MAX_ATTEMPTS - 1 /\ call[c].attempt \in 1..MAX_ATTEMPTS
      /\ call[c].attempt < MAX_ATTEMPTS /\ call[c].result.how # "refused"
      /\ Count(c) <= blind[c] + 1 /\ blind[c] <= call[c].attempt - 1
  BY <1>1, <1>2 DEF Fits, Call
<1>4. CASE ProbeFinds(c)
  <2> DEFINE r == Ended(call[c], "ok", Len(placed))
  <2>1. r \in Call /\ r.pc = "done" /\ r.result.how = "ok" /\ r.attempt = call[c].attempt
    BY <1>1, <1>2, EndedCall
  <2>2. /\ call' = [call EXCEPT ![c] = r] /\ UNCHANGED placed
        /\ blind' = [blind EXCEPT ![c] = blind[c]]
    BY <1>1, <1>4 DEF ProbeFinds, Return, Probed, Ended
  <2> HIDE DEF r
  <2>3. Fits(Count(c), r, blind[c])
    BY <1>2, <1>3, <2>1 DEF Fits
  <2> QED  BY <1>3, <2>1, <2>2, <2>3, StepOfOne
<1>5. CASE ProbeFindsNothing(c) \/ ProbeFails(c)
  <2> DEFINE r == Again(call[c])
  <2>1. /\ r \in Call /\ r.pc = "send" /\ r.result.how # "refused"
        /\ r.attempt = call[c].attempt + 1
    BY <1>2, <1>3, ClientAssumption, AgainCall
  <2>2. call' = [call EXCEPT ![c] = r] /\ UNCHANGED placed
    BY <1>1, <1>5 DEF ProbeFindsNothing, ProbeFails, NextAttempt, RepeatBlindly, Again
  <2> HIDE DEF r
  <2>3. CASE ProbeFindsNothing(c)
    <3>1. blind' = [blind EXCEPT ![c] = blind[c]]
      BY <1>1, <2>3 DEF ProbeFindsNothing
    <3>2. Count(c) = 0
      <4>1. OrdersOf(c) = {}
        BY <2>3 DEF ProbeFindsNothing, OrdersOf
      <4> QED  BY <4>1, FS_EmptySet DEF Count
    <3>3. Fits(Count(c), r, blind[c])
      BY <1>3, <2>1, <3>2 DEF Fits
    <3> QED  BY <1>3, <2>1, <2>2, <3>1, <3>3, StepOfOne
  <2>4. CASE ProbeFails(c)
    <3>1. blind' = [blind EXCEPT ![c] = blind[c] + 1]
      BY <1>1, <2>4 DEF ProbeFails, RepeatBlindly
    <3>2. blind[c] + 1 \in 0..MAX_ATTEMPTS - 1
      BY <1>3, ClientAssumption
    <3>3. Fits(Count(c), r, blind[c] + 1)
      BY <1>2, <1>3, <2>1 DEF Fits
    <3> QED  BY <2>1, <2>2, <3>1, <3>2, <3>3, StepOfOne
  <2> QED  BY <1>5, <2>3, <2>4
<1> QED  BY <1>4, <1>5

\* callTool is entered.
LEMMA InvStart == ASSUME Inv, NEW c \in Calls, Start(c) PROVE Inv'
<1> DEFINE r == Moved(call[c], "send")
<1>1. /\ call \in [Calls -> Call] /\ blind \in [Calls -> 0..MAX_ATTEMPTS - 1]
      /\ call[c].pc = "idle" /\ Fits(Count(c), call[c], blind[c])
  BY DEF Inv, TypeOK, Start
<1>2. /\ r \in Call /\ r.pc = "send" /\ r.attempt = call[c].attempt
      /\ r.result = call[c].result
  BY <1>1, MovedCall
<1>3. /\ call' = [call EXCEPT ![c] = r] /\ UNCHANGED placed
      /\ blind' = [blind EXCEPT ![c] = blind[c]]
  BY <1>1 DEF Start, Moved
<1> HIDE DEF r
<1>4. Fits(Count(c), r, blind[c])
  BY <1>1, <1>2 DEF Fits
<1> QED  BY <1>1, <1>2, <1>3, <1>4, StepOfOne

\* Every step of the client keeps the account of the executions.
LEMMA InvStep == Inv /\ [Next]_vars => Inv'
<1> SUFFICES ASSUME Inv, [Next]_vars PROVE Inv'
  OBVIOUS
<1>1. CASE UNCHANGED vars
  BY <1>1 DEF vars, Inv, TypeOK, Fits, Count, OrdersOf
<1> QED  BY <1>1, InvStart, InvAnswered, InvFailed, InvProbe DEF Next, Step

----------------------------------------------------------------------------
\* The client's state has its types: no call is attempted more than
\* MAX_ATTEMPTS times.
THEOREM TypeCorrect == Spec => []TypeOK
<1>1. Inv => TypeOK
  BY DEF Inv
<1> QED  BY <1>1, InvInit, InvStep, PTL DEF Spec

\* A place call is executed more than once only for attempts that were repeated
\* after a 5xx or a probe that failed (client.ts: callTool).
THEOREM ExecutedOnce == Spec => []ExecutionsAreAccountedFor
<1>1. Inv => ExecutionsAreAccountedFor
  <2> SUFFICES ASSUME Inv, NEW c \in Calls
               PROVE  Count(c) <= blind[c] + (IF call[c].result.how = "refused" THEN 0 ELSE 1)
    BY DEF ExecutionsAreAccountedFor, Count
  <2>1. blind[c] \in Nat /\ Count(c) \in Nat /\ Fits(Count(c), call[c], blind[c])
    BY Counted, ClientAssumption DEF Inv, TypeOK
  <2>2. CASE call[c].result.how = "refused"
    BY <2>1, <2>2 DEF Fits
  <2>3. CASE call[c].result.how # "refused"
    BY <2>1, <2>3 DEF Fits
  <2> QED  BY <2>2, <2>3
<1> QED  BY <1>1, InvInit, InvStep, PTL DEF Spec

----------------------------------------------------------------------------
(* What the caller sees                                                    *)

\* A call that has not ended has no result yet.
OpenInv == \A c \in Calls : call[c].pc # "done" => call[c].result = Account!Open

Seen == [c \in Calls |-> IF call[c].pc = "idle" THEN Account!Idle ELSE call[c].result]

\* Of a step of one call its caller sees the result, once there is one.
LEMMA SeenStep ==
    ASSUME TypeOK, OpenInv, NEW c \in Calls, NEW r \in Call,
           call' = [call EXCEPT ![c] = r], r.pc # "idle",
           r.pc # "done" => r.result = Account!Open
    PROVE  /\ OpenInv'
           /\ Seen' = [Seen EXCEPT ![c] = r.result]
           /\ call[c].pc \in {"send", "probe"} => Seen[c] = Account!Open
           /\ call[c].pc = "idle" => Seen[c] = Account!Idle
<1>1. call \in [Calls -> Call]
  BY DEF TypeOK
<1>2. call'[c] = r /\ \A d \in Calls \ {c} : call'[d] = call[d]
  BY <1>1
<1>3. OpenInv'
  BY <1>2 DEF OpenInv
<1>4. Seen' = [Seen EXCEPT ![c] = r.result]
  <2> DEFINE O == Account!Idle
             S(d) == IF call[d].pc = "idle" THEN O ELSE call[d].result
             T(d) == IF call'[d].pc = "idle" THEN O ELSE call'[d].result
  <2>1. T(c) = r.result /\ \A d \in Calls \ {c} : T(d) = S(d)
    BY <1>2
  <2>2. Seen = [d \in Calls |-> S(d)] /\ Seen' = [d \in Calls |-> T(d)]
    BY DEF Seen, Account!Idle
  <2> HIDE DEF S, T, O
  <2> QED  BY <2>1, <2>2
<1> QED  BY <1>3, <1>4 DEF Seen, OpenInv

\* What the caller of a call that is in progress sees of its steps.
Visible(c) ==
    /\ OpenInv'
    /\ \/ Account!LoseReply(c) \/ Account!Accepted(c) \/ Account!Recovered(c)
       \/ Account!Rejected(c) \/ Account!Throw(c)
       \/ UNCHANGED <<placed, Seen>>

\* A call that ends, as PlaceCall has it end.
LEMMA SeenEnd ==
    ASSUME TypeOK, OpenInv, NEW c \in Calls, call[c].pc \in {"send", "probe"},
           NEW h \in {"ok", "refused", "threw"}, NEW k \in 0..MaxSid, Return(c, h, k),
           \/ h = "threw" /\ (UNCHANGED placed \/ Executed(c))
           \/ h = "refused" /\ k = 0 /\ UNCHANGED placed
           \/ h = "ok" /\ Executed(c) /\ k = Len(placed) + 1
           \/ h = "ok" /\ UNCHANGED placed /\ k \in 1..Len(placed),
           h = "threw" => k = 0
    PROVE  Visible(c)
<1> DEFINE r == Ended(call[c], h, k)
<1>1. call[c] \in Call /\ call \in [Calls -> Call]
  BY DEF TypeOK
<1>2. r \in Call /\ r.pc = "done"
  BY <1>1, EndedCall
<1>3. r.result = [how |-> h, sid |-> k]
  BY <1>1 DEF Ended, Call
<1>4. call' = [call EXCEPT ![c] = r]
  BY <1>1 DEF Return, Ended
<1> HIDE DEF r
<1>5. /\ OpenInv' /\ Seen[c] = Account!Open
      /\ Seen' = [Seen EXCEPT ![c] = [how |-> h, sid |-> k]]
  BY <1>2, <1>3, <1>4, SeenStep
<1>6. CASE h = "threw" /\ (UNCHANGED placed \/ Executed(c))
  BY <1>5, <1>6 DEF Visible, Account!Throw, Account!End, Executed, Seen, Account!Open, Account!Idle
<1>7. CASE h = "refused" /\ k = 0 /\ UNCHANGED placed
  BY <1>5, <1>7 DEF Visible, Account!Rejected, Account!End, Seen, Account!Open, Account!Idle
<1>8. CASE h = "ok" /\ Executed(c) /\ k = Len(placed) + 1
  BY <1>5, <1>8 DEF Visible, Account!Accepted, Account!End, Executed, Seen, Account!Open, Account!Idle
<1>9. CASE h = "ok" /\ UNCHANGED placed /\ k \in 1..Len(placed)
  BY <1>5, <1>9 DEF Visible, Account!Recovered, Account!End, Seen, Account!Open, Account!Idle
<1> QED  BY <1>6, <1>7, <1>8, <1>9

\* A call that goes on: the caller sees no more than an order it did not hear of.
LEMMA SeenGoesOn ==
    ASSUME TypeOK, OpenInv, NEW c \in Calls, call[c].pc \in {"send", "probe"},
           NEW r \in Call, call' = [call EXCEPT ![c] = r],
           r.pc \in {"send", "probe"}, r.result = call[c].result,
           UNCHANGED placed \/ Executed(c)
    PROVE  Visible(c)
<1>1. call[c].result = Account!Open
  BY DEF OpenInv
<1>2. OpenInv' /\ Seen[c] = Account!Open /\ Seen' = [Seen EXCEPT ![c] = Account!Open]
  BY <1>1, SeenStep
<1>3. Seen' = Seen
  BY <1>2 DEF Seen
<1>4. CASE UNCHANGED placed
  BY <1>2, <1>3, <1>4 DEF Visible
<1>5. CASE Executed(c)
  BY <1>2, <1>3, <1>5 DEF Visible, Account!LoseReply, Executed, Seen, Account!Open, Account!Idle
<1> QED  BY <1>4, <1>5

\* A step of a call is hidden from its caller or brings an outcome of PlaceCall.
LEMMA VisibleStep ==
    ASSUME Inv, OpenInv, NEW c \in Calls, Step(c)
    PROVE  Visible(c)
<1>1. /\ TypeOK /\ call \in [Calls -> Call] /\ call[c] \in Call
      /\ placed \in Seq(Calls \union {Others}) /\ Len(placed) \in 0..MaxSid
      /\ 0 \in 0..MaxSid /\ Fits(Count(c), call[c], blind[c])
  BY ClientAssumption DEF Inv, TypeOK
<1>2. call[c].pc \in {"send", "probe"}
  BY DEF Step, Succeed, Refuse, RateLimited, ServerError, NotJson, TransportFails,
         ProbeFinds, ProbeFindsNothing, ProbeFails
<1>3. CASE Succeed(c)
  <2>1. Executed(c) /\ Return(c, "ok", Len(placed) + 1) /\ Len(placed) + 1 \in 0..MaxSid
    BY <1>1, <1>3, ClientAssumption DEF Succeed, Executed
  <2> QED  BY <1>1, <1>2, <2>1, SeenEnd
<1>4. CASE Refuse(c)
  <2>1. Return(c, "refused", 0) /\ UNCHANGED placed
    BY <1>4 DEF Refuse
  <2> QED  BY <1>1, <1>2, <2>1, SeenEnd
<1>5. CASE NotJson(c) \/ (IsLast(c) /\ (RateLimited(c) \/ ServerError(c) \/ TransportFails(c)))
  <2>1. Return(c, "threw", 0) /\ (UNCHANGED placed \/ Executed(c))
    BY <1>5 DEF NotJson, RateLimited, ServerError, TransportFails, MaybeExecuted
  <2> QED  BY <1>1, <1>2, <2>1, SeenEnd
<1>6. CASE ~IsLast(c) /\ TransportFails(c)
  <2> DEFINE r == Moved(call[c], "probe")
  <2>1. r \in Call /\ r.pc = "probe" /\ r.result = call[c].result
    BY <1>1, MovedCall
  <2>2. call' = [call EXCEPT ![c] = r] /\ (UNCHANGED placed \/ Executed(c))
    BY <1>1, <1>6 DEF TransportFails, MaybeExecuted, Moved
  <2> HIDE DEF r
  <2> QED  BY <1>1, <1>2, <2>1, <2>2, SeenGoesOn
<1>7. CASE \/ ~IsLast(c) /\ (RateLimited(c) \/ ServerError(c))
           \/ ProbeFindsNothing(c) \/ ProbeFails(c)
  <2> DEFINE r == Again(call[c])
  <2>1. call[c].attempt < MAX_ATTEMPTS
    BY <1>1, <1>7, ClientAssumption
       DEF IsLast, Fits, Call, ProbeFindsNothing, ProbeFails
  <2>2. r \in Call /\ r.pc = "send" /\ r.result = call[c].result
    BY <1>1, <2>1, AgainCall
  <2>3. call' = [call EXCEPT ![c] = r] /\ (UNCHANGED placed \/ Executed(c))
    BY <1>1, <1>7 DEF RateLimited, ServerError, MaybeExecuted, ProbeFindsNothing, ProbeFails,
                      NextAttempt, RepeatBlindly, Again
  <2> HIDE DEF r
  <2> QED  BY <1>1, <1>2, <2>2, <2>3, SeenGoesOn
<1>8. CASE ProbeFinds(c)
  <2>1. Return(c, "ok", Len(placed)) /\ UNCHANGED placed /\ Len(placed) \in 1..Len(placed)
    BY <1>1, <1>8 DEF ProbeFinds, Probed
  <2> QED  BY <1>1, <1>2, <2>1, SeenEnd
<1> QED  BY <1>3, <1>4, <1>5, <1>6, <1>7, <1>8 DEF Step

\* A call that begins.
LEMMA VisibleStart ==
    ASSUME Inv, OpenInv, NEW c \in Calls, Start(c)
    PROVE  OpenInv' /\ Account!Ask(c)
<1> DEFINE r == Moved(call[c], "send")
<1>1. TypeOK /\ call \in [Calls -> Call] /\ call[c] \in Call /\ call[c].pc = "idle"
  BY DEF Inv, TypeOK, Start
<1>2. r \in Call /\ r.pc = "send" /\ r.result = Account!Open
  BY <1>1, MovedCall DEF OpenInv
<1>3. call' = [call EXCEPT ![c] = r] /\ UNCHANGED placed
  BY <1>1 DEF Start, Moved
<1> HIDE DEF r
<1>4. /\ OpenInv' /\ Seen[c] = Account!Idle
      /\ Seen' = [Seen EXCEPT ![c] = Account!Open]
  BY <1>1, <1>2, <1>3, SeenStep
<1> QED  BY <1>3, <1>4 DEF Account!Ask, Seen, Account!Idle

\* Every step is a step of PlaceCall or hidden.
LEMMA VisibleNext ==
    Inv /\ OpenInv /\ [Next]_vars => OpenInv' /\ [Account!Next]_<<placed, Seen>>
<1> SUFFICES ASSUME Inv, OpenInv, [Next]_vars
             PROVE  OpenInv' /\ [Account!Next]_<<placed, Seen>>
  OBVIOUS
<1>1. ASSUME NEW c \in Calls, Start(c) PROVE OpenInv' /\ Account!Next
  BY <1>1, VisibleStart DEF Account!Next
<1>2. ASSUME NEW c \in Calls, Step(c) PROVE OpenInv' /\ [Account!Next]_<<placed, Seen>>
  BY <1>2, VisibleStep DEF Visible, Account!Next, Seen, Account!Idle
<1>3. CASE UNCHANGED vars
  BY <1>3 DEF vars, OpenInv, Seen
<1> QED  BY <1>1, <1>2, <1>3 DEF Next

\* The client shows its callers nothing but the steps of PlaceCall: an order
\* they did not hear of, or one of the four ways in which a call ends, once.
\* (That every call ends is left to the run.)
THEOREM ClientIsPlaceCall == Spec => Account!Steps
<1>1. Init => OpenInv /\ Account!Init
  <2> SUFFICES ASSUME Init PROVE OpenInv /\ Account!Init
    OBVIOUS
  <2>1. OpenInv
    BY DEF Init, OpenInv
  <2>2. PICK n \in 0..Earlier : placed = [s \in 1..n |-> Others]
    BY DEF Init
  <2>3. placed \in Seq({Others})
    BY <2>2, ClientAssumption
  <2>4. \A c \in Calls : call[c].pc = "idle"
    BY DEF Init
  <2> QED  BY <2>1, <2>3, <2>4 DEF Account!Init, Account!Idle
<1> QED  BY <1>1, InvInit, InvStep, VisibleNext, PTL DEF Spec, Account!Steps, Seen, Account!Idle
=============================================================================
