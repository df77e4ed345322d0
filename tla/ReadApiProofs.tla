----------------------------- MODULE ReadApiProofs -----------------------------
(***************************************************************************)
(* Proofs about the reading handlers of ReadApi and the clients that page  *)
(* with them, for any finite catalog, any writers and any requests.        *)
(***************************************************************************)
EXTENDS ReadApi, TLAPS, FiniteSetTheorems, WellFoundedInduction

-----------------------------------------------------------------------------
(* Places in an order.                                                     *)

\* x comes before y on a page: the greatest first, or the least first.
Leads(descending, x, y) == IF descending THEN x > y ELSE x < y
Front(ids, descending, id) == { x \in ids : Leads(descending, x, id) }
Rank(ids, descending, id) == Cardinality(Front(ids, descending, id))

\* A set of natural numbers that is not empty has a least element.
LEMMA LeastOf ==
  ASSUME NEW S \in SUBSET Nat, S # {}
  PROVE  \E least \in S : \A n \in S : least <= n
<1>1. PICK least \in S : \A n \in S : <<n, least>> \notin OpToRel(<, Nat)
  BY NatLessThanWellFounded, WFMin
<1>2. \A n \in S : n \in Nat /\ least \in Nat /\ ~(n < least)
  BY <1>1 DEF OpToRel
<1>3. QED
  BY <1>2

\* Ranks are numbers, and grow along the order.
LEMMA RankGrows ==
  ASSUME NEW ids \in SUBSET Nat, IsFiniteSet(ids), NEW descending \in BOOLEAN
  PROVE  /\ \A x \in ids : /\ IsFiniteSet(Front(ids, descending, x))
                           /\ Rank(ids, descending, x) \in Nat
         /\ \A x, y \in ids : Leads(descending, x, y) <=>
                              Rank(ids, descending, x) < Rank(ids, descending, y)
         /\ \A x, y \in ids : Rank(ids, descending, x) = Rank(ids, descending, y) => x = y
<1>1. ASSUME NEW x \in ids
      PROVE  IsFiniteSet(Front(ids, descending, x)) /\ Rank(ids, descending, x) \in Nat
  <2>1. Front(ids, descending, x) \in SUBSET ids
    BY DEF Front
  <2>2. IsFiniteSet(Front(ids, descending, x))
    BY <2>1, FS_Subset
  <2>3. QED
    BY <2>2, FS_CardinalityType DEF Rank
<1>2. ASSUME NEW x \in ids, NEW y \in ids, Leads(descending, x, y)
      PROVE  Rank(ids, descending, x) < Rank(ids, descending, y)
  <2>1. x \in Nat /\ y \in Nat
    OBVIOUS
  <2>2. /\ Front(ids, descending, x) \in SUBSET Front(ids, descending, y)
        /\ x \in Front(ids, descending, y) /\ x \notin Front(ids, descending, x)
    <3>1. ASSUME NEW z \in ids, Leads(descending, z, x) PROVE Leads(descending, z, y)
      <4>1. z \in Nat
        OBVIOUS
      <4>2. QED
        BY <1>2, <2>1, <3>1, <4>1 DEF Leads
    <3>2. ~Leads(descending, x, x)
      BY <2>1 DEF Leads
    <3>3. QED
      BY <1>2, <3>1, <3>2 DEF Front
  <2>3. QED
    BY <1>1, <2>2, FS_Subset DEF Rank
<1>3. ASSUME NEW x \in ids, NEW y \in ids
      PROVE  x = y \/ Leads(descending, x, y) \/ Leads(descending, y, x)
  <2>1. x \in Nat /\ y \in Nat
    OBVIOUS
  <2>2. QED
    BY <2>1 DEF Leads
<1>4. QED
  BY <1>1, <1>2, <1>3

\* There is a first.
LEMMA FirstOf ==
  ASSUME NEW ids \in SUBSET Nat, IsFiniteSet(ids), ids # {}, NEW descending \in BOOLEAN
  PROVE  \E x \in ids : /\ Front(ids, descending, x) = {}
                        /\ Rank(ids, descending, x) = 0
                        /\ \A y \in ids : y = x \/ Leads(descending, x, y)
<1> DEFINE ranks == { n \in Nat : \E x \in ids : Rank(ids, descending, x) = n }
<1>1. ranks \in SUBSET Nat /\ ranks # {}
  BY RankGrows
<1>2. PICK n \in ranks : \A m \in ranks : n <= m
  <2> HIDE DEF ranks
  <2>1. QED
    BY <1>1, LeastOf
<1>3. PICK x \in ids : Rank(ids, descending, x) = n
  OBVIOUS
<1>4. ASSUME NEW y \in ids PROVE ~Leads(descending, y, x)
  <2>1. Rank(ids, descending, y) \in ranks /\ Rank(ids, descending, y) \in Nat /\ n \in Nat
    BY RankGrows
  <2>2. ~(Rank(ids, descending, y) < n)
    BY <1>2, <2>1
  <2>3. QED
    BY <1>3, <2>2, RankGrows
<1>5. Front(ids, descending, x) = {}
  BY <1>4 DEF Front
<1>6. Rank(ids, descending, x) = 0
  BY <1>5, FS_EmptySet DEF Rank
<1>7. ASSUME NEW y \in ids PROVE y = x \/ Leads(descending, x, y)
  <2>1. x \in Nat /\ y \in Nat /\ ~Leads(descending, y, x)
    BY <1>4
  <2>2. QED
    BY <2>1 DEF Leads
<1>8. QED
  BY <1>5, <1>6, <1>7

\* The one before has the rank before.
LEMMA RankSteps ==
  ASSUME NEW ids \in SUBSET Nat, IsFiniteSet(ids), NEW descending \in BOOLEAN,
         NEW x \in ids, Rank(ids, descending, x) # 0
  PROVE  \E y \in ids : Rank(ids, descending, x) = Rank(ids, descending, y) + 1
<1> DEFINE front == Front(ids, descending, x)
<1>1. front \in SUBSET Nat /\ front \subseteq ids /\ IsFiniteSet(front) /\ front # {}
  <2>1. IsFiniteSet(front)
    BY RankGrows
  <2>2. front # {}
    BY <2>1, FS_EmptySet DEF Rank
  <2>3. QED
    BY <2>1, <2>2 DEF Front
<1>2. PICK y \in front : \A z \in front : z = y \/ Leads(~descending, y, z)
  <2> HIDE DEF front
  <2>1. (~descending) \in BOOLEAN
    OBVIOUS
  <2>2. QED
    BY <1>1, <2>1, FirstOf
<1>3. y \in ids /\ Leads(descending, y, x) /\ IsFiniteSet(Front(ids, descending, y))
  BY <1>1, RankGrows DEF Front
<1>4. /\ front = Front(ids, descending, y) \cup {y}
      /\ y \notin Front(ids, descending, y)
  <2>1. ids \subseteq Nat /\ x \in Nat /\ y \in Nat
    BY <1>3
  <2>2. y \notin Front(ids, descending, y)
    BY <2>1 DEF Front, Leads
  <2>3. ASSUME NEW z \in ids, Leads(descending, z, y) PROVE Leads(descending, z, x)
    BY <1>3, <2>1, <2>3 DEF Leads
  <2>4. ASSUME NEW z \in ids, Leads(descending, z, x) PROVE z = y \/ Leads(descending, z, y)
    <3>1. z = y \/ Leads(~descending, y, z)
      BY <1>2, <2>4 DEF Front
    <3>2. QED
      BY <2>1, <2>4, <3>1 DEF Leads
  <2>5. QED
    BY <1>3, <2>2, <2>3, <2>4 DEF Front
<1>5. Rank(ids, descending, x) = Rank(ids, descending, y) + 1
  BY <1>3, <1>4, FS_AddElement DEF Rank
<1>6. QED
  BY <1>3, <1>5

\* No rank is left out.
LEMMA RankTaken ==
  ASSUME NEW ids \in SUBSET Nat, IsFiniteSet(ids), NEW descending \in BOOLEAN,
         NEW x \in ids, NEW n \in Nat, n <= Rank(ids, descending, x)
  PROVE  \E y \in ids : Rank(ids, descending, y) = n
<1> SUFFICES ASSUME \A y \in ids : Rank(ids, descending, y) # n PROVE FALSE
  OBVIOUS
<1> DEFINE above == { m \in Nat : n < m /\ \E y \in ids : Rank(ids, descending, y) = m }
<1>1. above \in SUBSET Nat /\ Rank(ids, descending, x) \in above
  BY RankGrows
<1>2. PICK m \in above : \A l \in above : m <= l
  <2> HIDE DEF above
  <2>1. QED
    BY <1>1, LeastOf
<1>3. PICK y \in ids : Rank(ids, descending, y) = m
  OBVIOUS
<1>4. PICK z \in ids : Rank(ids, descending, y) = Rank(ids, descending, z) + 1
  <2>1. Rank(ids, descending, y) # 0
    BY <1>2, <1>3
  <2>2. QED
    BY <2>1, RankSteps
<1>5. Rank(ids, descending, z) \in Nat /\ m \in Nat /\ n < m /\ m = Rank(ids, descending, z) + 1
  BY <1>3, <1>4, RankGrows
<1>6. Rank(ids, descending, z) \in above
  BY <1>5
<1>7. QED
  BY <1>2, <1>5, <1>6
\* The ends of a page.
LEMMA HighestIs ==
  ASSUME NEW ids \in SUBSET Nat, IsFiniteSet(ids), ids # {}
  PROVE  Highest(ids) \in ids /\ \A y \in ids : y <= Highest(ids)
<1>1. PICK x \in ids : \A y \in ids : y = x \/ Leads(TRUE, x, y)
  BY FirstOf
<1>2. \A y \in ids : y <= x
  <2> SUFFICES ASSUME NEW y \in ids PROVE y <= x
    OBVIOUS
  <2>1. x \in Nat /\ y \in Nat
    OBVIOUS
  <2>2. QED
    BY <1>1, <2>1 DEF Leads
<1>3. QED
  BY <1>2 DEF Highest

LEMMA LowestIs ==
  ASSUME NEW ids \in SUBSET Nat, ids # {}
  PROVE  Lowest(ids) \in ids /\ \A y \in ids : Lowest(ids) <= y
<1>1. \E x \in ids : \A y \in ids : x <= y
  BY LeastOf
<1>2. QED
  BY <1>1 DEF Lowest

-----------------------------------------------------------------------------
(* What ORDER BY id LIMIT limit OFFSET offset selects.                     *)

LEMMA PageIs ==
  ASSUME NEW ids \in SUBSET Nat, NEW descending \in BOOLEAN, NEW limit, NEW offset
  PROVE  PageOf(ids, descending, limit, offset) =
           { x \in ids : /\ offset <= Rank(ids, descending, x)
                         /\ Rank(ids, descending, x) < offset + limit }
BY DEF PageOf, Rank, Front, Leads

\* A page is empty only beyond the last row; its first row has `offset` rows
\* before it.
LEMMA PageStarts ==
  ASSUME NEW ids \in SUBSET Nat, IsFiniteSet(ids), NEW descending \in BOOLEAN,
         NEW limit \in Nat \ {0}, NEW offset \in Nat,
         NEW x \in ids, offset <= Rank(ids, descending, x)
  PROVE  \E z \in PageOf(ids, descending, limit, offset) :
            /\ Rank(ids, descending, z) = offset
            /\ \A y \in PageOf(ids, descending, limit, offset) :
                  y = z \/ Leads(descending, z, y)
<1>1. PICK z \in ids : Rank(ids, descending, z) = offset
  BY RankTaken
<1>2. z \in PageOf(ids, descending, limit, offset)
  BY <1>1, PageIs
<1>3. ASSUME NEW y \in PageOf(ids, descending, limit, offset)
      PROVE  y = z \/ Leads(descending, z, y)
  <2>1. y \in ids /\ offset <= Rank(ids, descending, y)
    BY PageIs
  <2>2. Rank(ids, descending, z) = Rank(ids, descending, y)
        \/ Rank(ids, descending, z) < Rank(ids, descending, y)
    <3>1. Rank(ids, descending, y) \in Nat
      BY <2>1, RankGrows
    <3>2. QED
      BY <1>1, <2>1, <3>1
  <2>3. QED
    BY <2>1, <2>2, RankGrows
<1>4. QED
  BY <1>1, <1>2, <1>3

\* A row between two of a page is on it.
LEMMA PageIsConvex ==
  ASSUME NEW ids \in SUBSET Nat, IsFiniteSet(ids), NEW descending \in BOOLEAN,
         NEW limit \in Nat \ {0}, NEW offset \in Nat,
         NEW x \in ids, NEW y \in PageOf(ids, descending, limit, offset),
         NEW z \in PageOf(ids, descending, limit, offset),
         Leads(descending, y, x), Leads(descending, x, z)
  PROVE  x \in PageOf(ids, descending, limit, offset)
<1> DEFINE rank(i) == Rank(ids, descending, i)
<1>1. /\ y \in ids /\ z \in ids /\ offset <= rank(y) /\ rank(z) < offset + limit
  BY PageIs
<1>2. rank(x) \in Nat /\ rank(y) \in Nat /\ rank(z) \in Nat
  BY <1>1, RankGrows
<1>3. rank(y) < rank(x) /\ rank(x) < rank(z)
  BY <1>1, RankGrows
<1> HIDE DEF rank
<1>4. offset <= rank(x) /\ rank(x) < offset + limit
  BY <1>1, <1>2, <1>3
<1>5. QED
  BY <1>4, PageIs DEF rank

\* A page is full if a row is left after it.
LEMMA PageIsFull ==
  ASSUME NEW ids \in SUBSET Nat, IsFiniteSet(ids), NEW descending \in BOOLEAN,
         NEW limit \in Nat \ {0}, NEW offset \in Nat,
         NEW x \in ids, offset + limit <= Rank(ids, descending, x)
  PROVE  /\ Cardinality(PageOf(ids, descending, limit, offset)) = limit
         /\ \A y \in PageOf(ids, descending, limit, offset) : Leads(descending, y, x)
<1> DEFINE P == PageOf(ids, descending, limit, offset)
           rank(i) == Rank(ids, descending, i)
           front(i) == Front(ids, descending, i)
<1>1. rank(x) \in Nat /\ offset + limit \in Nat /\ offset <= rank(x)
  BY RankGrows
<1>2. PICK z \in P : rank(z) = offset /\ \A y \in P : y = z \/ Leads(descending, z, y)
  <2>1. offset <= Rank(ids, descending, x)
    BY <1>1
  <2>2. QED
    BY <2>1, PageStarts
<1>3. PICK w \in ids : rank(w) = offset + limit
  BY <1>1, RankTaken
<1>4. /\ P \subseteq ids /\ z \in ids
      /\ \A y \in P : offset <= rank(y) /\ rank(y) < offset + limit
      /\ \A y \in ids : offset <= rank(y) /\ rank(y) < offset + limit => y \in P
  BY PageIs
<1>5. /\ \A y \in ids : rank(y) \in Nat /\ IsFiniteSet(front(y)) /\ rank(y) = Cardinality(front(y))
      /\ \A y, v \in ids : Leads(descending, y, v) <=> rank(y) < rank(v)
      /\ \A v \in ids : front(v) = { y \in ids : Leads(descending, y, v) }
  <2>1. \A y \in ids : rank(y) = Cardinality(front(y))
    BY DEF Rank
  <2>2. \A v \in ids : front(v) = { y \in ids : Leads(descending, y, v) }
    BY DEF Front
  <2>3. QED
    BY <2>1, <2>2, RankGrows
<1> HIDE DEF P, rank, front
<1>6. front(w) = front(z) \cup P /\ front(z) \cap P = {}
  <2>1. \A y \in ids : y \in front(w) <=> rank(y) < offset + limit
    BY <1>3, <1>5
  <2>2. \A y \in ids : y \in front(z) <=> rank(y) < offset
    BY <1>2, <1>4, <1>5
  <2>3. \A y \in ids : y \in P <=> offset <= rank(y) /\ rank(y) < offset + limit
    BY <1>4
  <2>4. front(w) \subseteq ids /\ front(z) \subseteq ids /\ P \subseteq ids
    BY <1>3, <1>4, <1>5
  <2>5. \A y \in ids : rank(y) \in Nat
    BY <1>5
  <2>6. ASSUME NEW y \in ids
        PROVE  /\ y \in front(w) <=> y \in front(z) \/ y \in P
               /\ ~(y \in front(z) /\ y \in P)
    BY <2>1, <2>2, <2>3, <2>5
  <2>7. QED
    BY <2>4, <2>6
<1>7. IsFiniteSet(P) /\ IsFiniteSet(front(z)) /\ P \in SUBSET ids
  BY <1>4, <1>5, FS_Subset
<1>8. Cardinality(front(w)) = Cardinality(front(z)) + Cardinality(P) - 0
  <2>1. Cardinality(front(z) \cap P) = 0
    BY <1>6, FS_EmptySet
  <2>2. QED
    BY <1>6, <1>7, <2>1, FS_Union
<1>9. Cardinality(P) = limit
  <2>1. Cardinality(front(w)) = offset + limit /\ Cardinality(front(z)) = offset
    BY <1>2, <1>3, <1>4, <1>5
  <2>2. Cardinality(P) \in Nat
    BY <1>7, FS_CardinalityType
  <2>3. QED
    BY <1>8, <2>1, <2>2
<1>10. ASSUME NEW y \in P PROVE Leads(descending, y, x)
  <2>1. rank(y) < rank(x)
    <3>1. rank(y) < offset + limit /\ rank(y) \in Nat /\ offset + limit <= rank(x)
      BY <1>4, <1>5 DEF rank
    <3>2. QED
      BY <1>1, <3>1
  <2>2. QED
    BY <1>4, <1>5, <2>1
<1>11. QED
  BY <1>9, <1>10 DEF P

\* The rows above a page without gaps, those on it and those below are all.
LEMMA Straddle ==
  ASSUME NEW all \in SUBSET Nat, IsFiniteSet(all), NEW P \in SUBSET all, P # {},
         \A x \in all : x \in P \/ x > Highest(P) \/ x < Lowest(P)
  PROVE  LET over == { x \in all : x > Highest(P) }
         IN  /\ Cardinality(over) \in Nat /\ Cardinality(P) \in Nat /\ Cardinality(all) \in Nat
             /\ Cardinality(over) + Cardinality(P) <= Cardinality(all)
             /\ Cardinality(over) + Cardinality(P) < Cardinality(all)
                  <=> \E x \in all : \A y \in P : x < y
             /\ Cardinality(over) > 0 <=> \E x \in all : \A y \in P : x > y
<1> DEFINE over == { x \in all : x > Highest(P) }
           U == over \cup P
<1>1. P \in SUBSET Nat /\ IsFiniteSet(P) /\ IsFiniteSet(over) /\ over \in SUBSET all
  BY FS_Subset
<1>2. /\ Highest(P) \in P /\ \A y \in P : y <= Highest(P)
      /\ Lowest(P) \in P /\ \A y \in P : Lowest(P) <= y
  BY <1>1, HighestIs, LowestIs
<1>3. /\ Cardinality(over) \in Nat /\ Cardinality(P) \in Nat /\ Cardinality(all) \in Nat
  BY <1>1, FS_CardinalityType
<1>4. Cardinality(U) = Cardinality(over) + Cardinality(P)
  <2>1. over \cap P = {}
    <3>1. ASSUME NEW x \in P PROVE x \notin over
      <4>1. x \in Nat /\ Highest(P) \in Nat /\ x <= Highest(P)
        BY <1>1, <1>2
      <4>2. QED
        BY <4>1
    <3>2. QED
      BY <3>1
  <2>2. Cardinality(over \cap P) = 0
    BY <2>1, FS_EmptySet
  <2>3. Cardinality(U) = Cardinality(over) + Cardinality(P) - Cardinality(over \cap P)
    BY <1>1, FS_Union
  <2>4. QED
    BY <1>3, <2>2, <2>3
<1>5. /\ Cardinality(U) <= Cardinality(all)
      /\ Cardinality(all) = Cardinality(U) => all = U
  <2>1. U \in SUBSET all
    BY <1>1
  <2> HIDE DEF U
  <2>2. QED
    BY <2>1, FS_Subset
<1>6. all # U <=> \E x \in all : \A y \in P : x < y
  <2>1. ASSUME NEW x \in all, x \notin U PROVE \A y \in P : x < y
    <3>1. x \in Nat /\ Lowest(P) \in Nat /\ x < Lowest(P)
      BY <1>1, <1>2, <2>1
    <3>2. QED
      BY <1>1, <1>2, <3>1
  <2>2. ASSUME NEW x \in all, \A y \in P : x < y PROVE x \notin U
    <3>1. x \in Nat /\ Highest(P) \in Nat /\ x < Highest(P)
      BY <1>1, <1>2, <2>2
    <3>2. x \notin over
      BY <3>1
    <3>3. x \notin P
      <4>1. ~(x < x)
        BY <3>1
      <4>2. QED
        BY <2>2, <4>1
    <3>4. QED
      BY <3>2, <3>3
  <2>3. QED
    BY <1>1, <2>1, <2>2
<1>7. Cardinality(over) > 0 <=> \E x \in all : \A y \in P : x > y
  <2>1. Cardinality(over) = 0 <=> over = {}
    BY <1>1, FS_EmptySet
  <2>2. \A x \in all : x \in over <=> \A y \in P : x > y
    <3> SUFFICES ASSUME NEW x \in all PROVE x \in over <=> \A y \in P : x > y
      OBVIOUS
    <3>1. x \in Nat /\ Highest(P) \in Nat /\ P \subseteq Nat
      BY <1>1, <1>2
    <3>2. QED
      BY <1>2, <3>1
  <2>3. over # {} <=> \E x \in all : x \in over
    BY <1>1
  <2>4. QED
    BY <1>3, <2>1, <2>2, <2>3
<1> HIDE DEF U
<1>8. QED
  BY <1>3, <1>4, <1>5, <1>6, <1>7

-----------------------------------------------------------------------------
(* What the handlers compute from a request.                               *)

LEMMA QueryFacts ==
  ASSUME NEW q \in QueryType
  PROVE  /\ q.verb \in {"list", "get", "channels"} /\ q.id \in Id
         /\ q.limit \in Parameter /\ q.page \in Parameter
         /\ q.after \in Cursor /\ q.before \in Cursor
BY DEF QueryType

\* Only a request of its own application, with parameters in range, is served.
LEMMA ServedFacts ==
  ASSUME NEW q \in QueryType, Refusal(q) = 200
  PROVE  /\ q.app \in App
         /\ q.verb = "list" => /\ Limit(q) \in Nat \ {0}
                               /\ q.page # Absent => q.page \in Nat \ {0}
<1>1. q.app \in App
  BY DEF Refusal, Authorize
<1>2. ASSUME q.verb = "list"
      PROVE  ~BadLimit(q) /\ ~BadPage(q)
  BY <1>2 DEF Refusal, Authorize
<1>3. ASSUME q.verb = "list" PROVE Limit(q) \in Nat \ {0}
  BY <1>2, <1>3, ReadAssumption DEF BadLimit, Limit
<1>4. ASSUME q.verb = "list", q.page # Absent PROVE q.page \in Nat \ {0}
  <2>1. q.page \in Int /\ ~(q.page <= 0)
    BY <1>2, <1>4, QueryFacts DEF BadPage, Parameter
  <2>2. QED
    BY <2>1
<1>5. QED
  BY <1>1, <1>3, <1>4

LEMMA SaturatedIs ==
  ASSUME NEW n \in Nat
  PROVE  Saturated(n) \in Nat /\ Saturated(n) <= n /\ (n # 0 => Saturated(n) # 0)
BY ReadAssumption DEF Saturated

LEMMA ProductIsNatural ==
  ASSUME NEW m \in Nat, NEW n \in Nat
  PROVE  m * n \in Nat
OBVIOUS

LEMMA PagesAreNatural ==
  ASSUME NEW count \in Nat, NEW limit \in Nat \ {0}
  PROVE  Pages(count, limit) \in Nat
<1>1. count \div limit \in Nat
  OBVIOUS
<1>2. QED
  BY <1>1 DEF Pages

\* No page of an empty catalog has a negative offset.
LEMMA OffsetIsNatural ==
  ASSUME NEW q \in QueryType, Refusal(q) = 200, q.verb = "list", NEW count \in Nat
  PROVE  Offset(q, count) \in Nat
<1>1. Limit(q) \in Nat \ {0}
  BY ServedFacts
<1>2. Pages(count, Limit(q)) \in Nat
  BY <1>1, PagesAreNatural
<1>3. ASSUME q.page # Absent
      PROVE  Saturated((Saturated(q.page) - 1) * Limit(q)) \in Nat
  <2>1. Saturated(q.page) - 1 \in Nat
    <3>1. q.page \in Nat /\ q.page # 0
      BY <1>3, ServedFacts
    <3>2. Saturated(q.page) \in Nat /\ Saturated(q.page) # 0
      BY <3>1, SaturatedIs
    <3>3. QED
      BY <3>2
  <2>2. (Saturated(q.page) - 1) * Limit(q) \in Nat
    BY <1>1, <2>1, ProductIsNatural
  <2>3. QED
    BY <2>2, SaturatedIs
<1>4. ASSUME Pages(count, Limit(q)) # 0
      PROVE  Saturated((Pages(count, Limit(q)) - 1) * Limit(q)) \in Nat
  <2>1. Pages(count, Limit(q)) - 1 \in Nat
    BY <1>2, <1>4
  <2>2. (Pages(count, Limit(q)) - 1) * Limit(q) \in Nat
    BY <1>1, <2>1, ProductIsNatural
  <2>3. QED
    BY <2>2, SaturatedIs
<1>5. QED
  BY <1>3, <1>4 DEF Offset

LEMMA MatchingIs ==
  ASSUME NEW q, NEW table \in [Key -> Row \cup {NoRow}]
  PROVE  /\ Matching(q, table) \in SUBSET Id /\ Matching(q, table) \in SUBSET Nat
         /\ IsFiniteSet(Matching(q, table)) /\ Cardinality(Matching(q, table)) \in Nat
         /\ \A id \in Matching(q, table) : table[<<q.app, id>>] \in Row
<1>1. Matching(q, table) \in SUBSET Id
  BY DEF Matching
<1>2. Matching(q, table) \in SUBSET Nat /\ IsFiniteSet(Matching(q, table))
  BY <1>1, ReadAssumption, FS_Subset
<1>3. Cardinality(Matching(q, table)) \in Nat
  BY <1>2, FS_CardinalityType
<1>4. ASSUME NEW id \in Matching(q, table) PROVE table[<<q.app, id>>] \in Row
  <2>1. id \in Id /\ q.app \in App /\ table[<<q.app, id>>] # NoRow
    BY <1>4 DEF Matching, Passes
  <2>2. <<q.app, id>> \in Key
    BY <2>1 DEF Key
  <2>3. QED
    BY <2>1, <2>2
<1>5. QED
  BY <1>1, <1>2, <1>3, <1>4

\* The rows a page is taken from.
Ahead == { id \in Matching(req, bundles) : PastCursor(req, id) }
PageIds == PageOf(Ahead, ~Reversed(req), Limit(req), Offset(req, total))

LEMMA AheadIs ==
  ASSUME bundles \in [Key -> Row \cup {NoRow}]
  PROVE  /\ Ahead \in SUBSET Id /\ Ahead \in SUBSET Nat /\ IsFiniteSet(Ahead)
         /\ Ahead \subseteq Matching(req, bundles)
         /\ PageIds \in SUBSET Ahead
         /\ \A id \in PageIds : id \in Id /\ PastCursor(req, id) /\ bundles[<<req.app, id>>] \in Row
<1>1. Ahead \in SUBSET Matching(req, bundles)
  BY DEF Ahead
<1>2. Ahead \in SUBSET Id /\ Ahead \in SUBSET Nat /\ IsFiniteSet(Ahead)
  BY <1>1, MatchingIs, FS_Subset
<1>3. PageIds \in SUBSET Ahead
  BY DEF PageIds, PageOf
<1>4. \A id \in PageIds : id \in Id /\ PastCursor(req, id) /\ bundles[<<req.app, id>>] \in Row
  BY <1>1, <1>2, <1>3, MatchingIs DEF Ahead
<1>5. QED
  BY <1>1, <1>2, <1>3, <1>4

LEMMA RowsAre ==
  ASSUME NEW ids
  PROVE  DOMAIN Rows(ids) = ids /\ \A id \in ids : Rows(ids)[id] = bundles[<<req.app, id>>]
BY DEF Rows

\* The cursors of an answer are ids or none.
LEMMA CursorsAre ==
  ASSUME NEW q \in QueryType, NEW count \in Nat, NEW first \in Nat, NEW ids \in SUBSET Id
  PROVE  /\ Cursors(q, count, first, ids).next \in Cursor
         /\ Cursors(q, count, first, ids).previous \in Cursor
<1>1. ids \in SUBSET Nat /\ IsFiniteSet(ids)
  BY ReadAssumption, FS_Subset
<1>2. ids # {} => Highest(ids) \in Id /\ Lowest(ids) \in Id
  BY <1>1, HighestIs, LowestIs
<1>3. q.after \in Cursor /\ q.before \in Cursor /\ Absent \in Cursor /\ Id \subseteq Cursor
  BY QueryFacts DEF Cursor
<1>4. QED
  BY <1>2, <1>3 DEF Cursors

-----------------------------------------------------------------------------
(* The handlers serve what they have checked.                              *)

Reading == pc \notin {"idle", "answered"}
Succeeded == pc = "answered" /\ answer.status = 200

\* The statement about to be executed fits the request, a walk is made of
\* list requests without a page number, and a successful answer carries ids.
Served ==
  /\ pc = "row" => req.verb = "get"
  /\ pc = "patches" => req.verb \in {"list", "get"}
  /\ pc = "channels" => req.verb = "channels"
  /\ walk # "none" => /\ req \in QueryType /\ req.verb = "list" /\ req.page = Absent
                      /\ walk = "backward" <=> Reversed(req)
  /\ walk = "none" => seen = {}
  /\ Succeeded => /\ Refusal(req) = 200
                  /\ req.verb # "channels" => DOMAIN answer.data \subseteq Id
                  /\ req.verb = "list" => /\ answer.cursors.next \in Cursor
                                          /\ answer.cursors.previous \in Cursor

Types == TypeOK /\ Served

LEMMA ServeStarts ==
  ASSUME NEW q \in QueryType, Serve(q)
  PROVE  /\ req' = q /\ touched' = {} /\ total' = 0 /\ start' = 0 /\ DOMAIN page' = {}
         /\ \/ pc' = "answered" /\ Refusal(q) # 200 /\ answer'.status # 200
            \/ /\ Refusal(q) = 200
               /\ \/ q.verb = "list" /\ pc' = "total"
                  \/ q.verb = "get" /\ pc' = "row"
                  \/ q.verb = "channels" /\ pc' = "channels"
<1>1. /\ req' = q /\ touched' = {} /\ total' = 0 /\ start' = 0 /\ page' = NoRows
  BY DEF Serve
<1>2. DOMAIN page' = {}
  BY <1>1 DEF NoRows
<1>3. CASE Refusal(q) # 200
  <2>1. answer' = Error(Refusal(q)) /\ pc' = "answered"
    BY <1>3 DEF Serve
  <2>2. answer'.status = Refusal(q)
    BY <2>1 DEF Error
  <2>3. QED
    BY <1>1, <1>2, <1>3, <2>1, <2>2
<1>4. CASE Refusal(q) = 200
  <2>1. pc' = FirstRead[q.verb]
    BY <1>4 DEF Serve
  <2>2. q.verb \in {"list", "get", "channels"}
    BY QueryFacts
  <2>3. QED
    BY <1>1, <1>2, <1>4, <2>1, <2>2 DEF FirstRead
<1>5. QED
  BY <1>3, <1>4

\* The request a client follows a cursor with.
Followed == [req EXCEPT !.after  = IF walk = "forward" THEN NextCursor ELSE Absent,
                        !.before = IF walk = "forward" THEN Absent ELSE NextCursor]

LEMMA FollowIs ==
  ASSUME Types, Truthy(NextCursor)
  PROVE  /\ Succeeded /\ walk \in {"forward", "backward"}
         /\ NextCursor \in Id
         /\ NextCursor = IF walk = "forward" THEN answer.cursors.next ELSE answer.cursors.previous
         /\ req \in QueryType /\ Followed \in QueryType
         /\ Followed.verb = "list" /\ Followed.page = Absent /\ Followed.app = req.app
         /\ \A id, row : Passes(Followed, id, row) <=> Passes(req, id, row)
         /\ Refusal(Followed) = 200
         /\ Followed.after = IF walk = "forward" THEN NextCursor ELSE Absent
         /\ Followed.before = IF walk = "forward" THEN Absent ELSE NextCursor
         /\ HasCursor(Followed)
         /\ walk = "backward" <=> Reversed(Followed)
         /\ \A id : PastCursor(Followed, id) <=> IF walk = "forward" THEN id < NextCursor
                                                  ELSE id > NextCursor
<1>1. /\ pc = "answered" /\ walk # "none" /\ answer.status = 200
      /\ NextCursor = IF walk = "forward" THEN answer.cursors.next ELSE answer.cursors.previous
  BY DEF NextCursor, Truthy
<1>2. Succeeded /\ walk \in {"forward", "backward"}
  BY <1>1 DEF Types, TypeOK, Succeeded
<1>3. /\ req \in QueryType /\ req.verb = "list" /\ req.page = Absent /\ Refusal(req) = 200
      /\ NextCursor \in Cursor
  BY <1>1, <1>2 DEF Types, Served
<1>4. NextCursor \in Id
  BY <1>3 DEF Cursor, Truthy
<1>5. NextCursor \in Cursor /\ Absent \in Cursor
  BY <1>3 DEF Cursor
<1>6. /\ Followed \in QueryType
      /\ Followed.after = IF walk = "forward" THEN NextCursor ELSE Absent
      /\ Followed.before = IF walk = "forward" THEN Absent ELSE NextCursor
      /\ Followed.verb = req.verb /\ Followed.page = req.page /\ Followed.app = req.app
      /\ Followed.token = req.token /\ Followed.malformed = req.malformed
      /\ Followed.limit = req.limit /\ Followed.channel = req.channel
      /\ Followed.target = req.target /\ Followed.idIn = req.idIn
  <2> DEFINE x == IF walk = "forward" THEN NextCursor ELSE Absent
             y == IF walk = "forward" THEN Absent ELSE NextCursor
  <2>1. x \in Cursor /\ y \in Cursor
    BY <1>5
  <2>2. Followed = [req EXCEPT !.after = x, !.before = y]
    BY DEF Followed
  <2>3. req \in QueryType
    BY <1>3
  <2>4. Followed.after = x /\ Followed.before = y
    <3> HIDE DEF x, y, Followed
    <3>1. QED
      BY <2>1, <2>2, <2>3 DEF QueryType
  <2>5. /\ Followed \in QueryType
        /\ Followed.verb = req.verb /\ Followed.page = req.page /\ Followed.app = req.app
        /\ Followed.token = req.token /\ Followed.malformed = req.malformed
        /\ Followed.limit = req.limit /\ Followed.channel = req.channel
        /\ Followed.target = req.target /\ Followed.idIn = req.idIn
    <3> HIDE DEF x, y, Followed
    <3>1. QED
      BY <2>1, <2>2, <2>3 DEF QueryType
  <2>6. QED
    BY <2>4, <2>5 DEF x, y
<1> HIDE DEF Followed
<1>7. Refusal(Followed) = 200
  BY <1>3, <1>6 DEF Refusal, Authorize, BadLimit, BadPage
<1>8. \A id, row : Passes(Followed, id, row) <=> Passes(req, id, row)
  BY <1>6 DEF Passes
<1>9. ~Truthy(Absent) /\ Truthy(NextCursor)
  BY DEF Truthy
<1>10. HasCursor(Followed) /\ (walk = "backward" <=> Reversed(Followed))
  BY <1>2, <1>3, <1>6, <1>9 DEF HasCursor, Reversed
<1>11. \A id : PastCursor(Followed, id) <=> IF walk = "forward" THEN id < NextCursor
                                            ELSE id > NextCursor
  BY <1>6, <1>9, <1>10 DEF PastCursor
<1>12. QED
  BY <1>1, <1>2, <1>3, <1>4, <1>6, <1>7, <1>8, <1>10, <1>11

LEMMA ReplyIs ==
  ASSUME NEW response, Reply(response)
  PROVE  /\ answer' = response /\ pc' = "answered"
         /\ response.status # 200 => seen' = seen
         /\ walk = "none" => seen' = seen
         /\ response.status = 200 /\ walk # "none" => seen' = seen \cup DOMAIN response.data
BY DEF Reply

LEMMA ListAnswerIs ==
  ASSUME NEW count, NEW first, NEW data
  PROVE  /\ ListAnswer(count, first, data).status = 200
         /\ ListAnswer(count, first, data).data = data
         /\ ListAnswer(count, first, data).total = count
         /\ ListAnswer(count, first, data).cursors = Cursors(req, count, first, DOMAIN data)
         /\ ListAnswer(count, first, data).meta = Pagination(req, count, first)
BY DEF ListAnswer

LEMMA TypesInit == Init => Types
<1> SUFFICES ASSUME Init PROVE Types
  OBVIOUS
<1>1. PICK c \in Catalog : bundles = c.bundles /\ patches = c.patches
  BY DEF Init
<1>2. bundles \in [Key -> Row \cup {NoRow}] /\ patches \in [Key -> SUBSET PatchRow]
  BY <1>1, ReadAssumption
<1>3. DOMAIN page = {}
  BY DEF Init, NoRows
<1>4. answer.status = 0
  BY DEF Init, NoAnswer, Error
<1>5. QED
  BY <1>2, <1>3, ReadAssumption DEF Init, Types, TypeOK, Served, Succeeded

LEMMA TypesReceive ==
  ASSUME Types, NEW q \in Query, Receive(q) PROVE Types'
<1>1. q \in QueryType
  BY ReadAssumption
<1>2. Serve(q) /\ walk' = WalkFrom(q) /\ seen' = {} /\ late' = FALSE
      /\ stayed' = { id \in Matching(q, bundles) : PastCursor(q, id) }
      /\ UNCHANGED <<bundles, patches>>
  BY DEF Receive
<1>3. stayed' \subseteq Id
  BY <1>2 DEF Matching
<1>4. /\ walk' \in {"forward", "backward", "none"}
      /\ walk' # "none" => q.verb = "list" /\ q.page = Absent
      /\ walk' # "none" => (walk' = "backward" <=> Reversed(q))
  BY <1>2 DEF WalkFrom
<1>5. /\ req' = q /\ touched' = {} /\ total' = 0 /\ start' = 0 /\ DOMAIN page' = {}
      /\ \/ pc' = "answered" /\ Refusal(q) # 200 /\ answer'.status # 200
         \/ /\ Refusal(q) = 200
            /\ \/ q.verb = "list" /\ pc' = "total"
               \/ q.verb = "get" /\ pc' = "row"
               \/ q.verb = "channels" /\ pc' = "channels"
  BY <1>1, <1>2, ServeStarts
<1>6. req' \in QueryType /\ req' # NoQuery
  BY <1>1, <1>5, ReadAssumption
<1>7. TypeOK'
  BY <1>2, <1>3, <1>4, <1>5, <1>6 DEF Types, TypeOK
<1>8. Served'
  BY <1>2, <1>4, <1>5, <1>6 DEF Served, Succeeded
<1>9. QED
  BY <1>7, <1>8 DEF Types

LEMMA TypesFollow ==
  ASSUME Types, Follow PROVE Types'
<1>1. Truthy(NextCursor) /\ Serve(Followed)
      /\ UNCHANGED <<bundles, patches, walk, seen, stayed, late>>
  BY DEF Follow, Followed
<1>2. /\ Followed \in QueryType /\ Refusal(Followed) = 200
      /\ Followed.verb = "list" /\ Followed.page = Absent
      /\ walk = "backward" <=> Reversed(Followed)
      /\ walk # "none"
  BY <1>1, FollowIs
<1> HIDE DEF Followed
<1>3. /\ req' = Followed /\ touched' = {} /\ total' = 0 /\ start' = 0 /\ DOMAIN page' = {}
      /\ pc' = "total"
  BY <1>1, <1>2, ServeStarts
<1>4. req' \in QueryType /\ req' # NoQuery
  BY <1>2, <1>3, ReadAssumption
<1>5. TypeOK'
  BY <1>1, <1>2, <1>3, <1>4 DEF Types, TypeOK
<1>6. Served'
  BY <1>1, <1>2, <1>3, <1>4 DEF Served, Succeeded
<1>7. QED
  BY <1>5, <1>6 DEF Types

LEMMA TypesReadTotal ==
  ASSUME Types, ReadTotal PROVE Types'
<1>1. total' \in Nat
  BY MatchingIs DEF Types, TypeOK, ReadTotal
<1>2. TypeOK'
  BY <1>1 DEF Types, TypeOK, ReadTotal, tables, observed
<1>3. Served'
  BY DEF Types, Served, Succeeded, ReadTotal, tables, observed
<1>4. QED
  BY <1>2, <1>3 DEF Types

\* What a handler in progress may rely on.
LEMMA ReadingFacts ==
  ASSUME Types, Reading
  PROVE  /\ req \in QueryType /\ Refusal(req) = 200 /\ req.app \in App
         /\ bundles \in [Key -> Row \cup {NoRow}] /\ patches \in [Key -> SUBSET PatchRow]
         /\ total \in Nat /\ start \in Nat
         /\ req.verb = "list" => Offset(req, total) \in Nat
         /\ pc \in {"total", "page", "start"} => req.verb = "list"
<1>1. req \in QueryType
  BY DEF Types, TypeOK, Reading
<1>2. Refusal(req) = 200
  BY DEF Types, TypeOK, Reading
<1>3. total \in Nat /\ start \in Nat /\ (pc \in {"total", "page", "start"} => req.verb = "list")
      /\ bundles \in [Key -> Row \cup {NoRow}] /\ patches \in [Key -> SUBSET PatchRow]
  BY DEF Types, TypeOK
<1>4. QED
  BY <1>1, <1>2, <1>3, ServedFacts, OffsetIsNatural

\* The page a handler reads, or its answer when there is none.
FirstRow == IF ~HasCursor(req) THEN Offset(req, total)
            ELSE IF PageIds = {} /\ Truthy(req.after) THEN total ELSE 0

LEMMA ReadPageIs ==
  ASSUME ReadPage
  PROVE  /\ pc = "page" /\ page' = Rows(PageIds) /\ start' = FirstRow
         /\ UNCHANGED <<bundles, patches, req, total, walk, stayed, late, touched>>
         /\ PageIds = {} => Reply(ListAnswer(total, FirstRow, NoRows))
         /\ PageIds # {} => /\ pc' = IF HasCursor(req) THEN "start" ELSE "patches"
                            /\ UNCHANGED <<answer, seen>>
BY DEF ReadPage, PageIds, Ahead, FirstRow, tables, observed

LEMMA TypesReadPage ==
  ASSUME Types, ReadPage PROVE Types'
<1>1. /\ pc = "page" /\ page' = Rows(PageIds) /\ start' = FirstRow
      /\ UNCHANGED <<bundles, patches, req, total, walk, stayed, late, touched>>
      /\ PageIds = {} => Reply(ListAnswer(total, FirstRow, NoRows))
      /\ PageIds # {} => /\ pc' = IF HasCursor(req) THEN "start" ELSE "patches"
                         /\ UNCHANGED <<answer, seen>>
  BY ReadPageIs
<1>2. /\ req \in QueryType /\ Refusal(req) = 200 /\ req.app \in App
      /\ bundles \in [Key -> Row \cup {NoRow}]
      /\ total \in Nat /\ req.verb = "list" /\ Offset(req, total) \in Nat
  BY <1>1, ReadingFacts DEF Reading
<1>3. PageIds \subseteq Id /\ \A id \in PageIds : bundles[<<req.app, id>>] \in Row
  BY <1>2, AheadIs
<1>4. DOMAIN page' = PageIds /\ \A id \in DOMAIN page' : page'[id] \in Row
  BY <1>1, <1>3, RowsAre
<1>5. start' \in Nat
  BY <1>1, <1>2 DEF FirstRow
<1>6. CASE PageIds = {}
  <2>1. Reply(ListAnswer(total, FirstRow, NoRows)) /\ DOMAIN NoRows = {}
    BY <1>1, <1>6 DEF NoRows
  <2>2. answer' = ListAnswer(total, FirstRow, NoRows) /\ pc' = "answered"
    BY <2>1, ReplyIs
  <2>3. /\ answer'.status = 200 /\ answer'.data = NoRows
        /\ answer'.cursors = Cursors(req, total, FirstRow, {})
    BY <2>1, <2>2, ListAnswerIs
  <2>4. seen' = seen
    BY <2>1, <2>3, <2>2, ReplyIs
  <2>5. answer'.cursors.next \in Cursor /\ answer'.cursors.previous \in Cursor
    BY <1>1, <1>2, <1>5, <2>3, CursorsAre
  <2>6. TypeOK'
    BY <1>1, <1>2, <1>3, <1>4, <1>5, <2>2, <2>4 DEF Types, TypeOK
  <2>7. Served'
    BY <1>1, <1>2, <2>1, <2>2, <2>3, <2>4, <2>5 DEF Types, Served, Succeeded
  <2>8. QED
    BY <2>6, <2>7 DEF Types
<1>7. CASE PageIds # {}
  <2>1. TypeOK'
    BY <1>1, <1>2, <1>3, <1>4, <1>5, <1>7 DEF Types, TypeOK
  <2>2. Served'
    BY <1>1, <1>2, <1>7 DEF Types, Served, Succeeded
  <2>3. QED
    BY <2>1, <2>2 DEF Types
<1>8. QED
  BY <1>6, <1>7

LEMMA TypesReadStart ==
  ASSUME Types, ReadStart PROVE Types'
<1>1. pc = "start" /\ pc' = "patches"
      /\ UNCHANGED <<bundles, patches, req, total, page, answer, walk, seen, stayed, late, touched>>
      /\ start' = Cardinality({ id \in Matching(req, bundles) : id > Highest(DOMAIN page) })
  BY DEF ReadStart, tables, observed
<1>2. start' \in Nat
  <2>1. { id \in Matching(req, bundles) : id > Highest(DOMAIN page) } \in SUBSET Matching(req, bundles)
    OBVIOUS
  <2>2. IsFiniteSet(Matching(req, bundles))
    BY MatchingIs DEF Types, TypeOK
  <2>3. QED
    BY <1>1, <2>1, <2>2, FS_Subset, FS_CardinalityType
<1>3. TypeOK'
  BY <1>1, <1>2 DEF Types, TypeOK
<1>4. Served'
  BY <1>1 DEF Types, TypeOK, Served, Succeeded
<1>5. QED
  BY <1>3, <1>4 DEF Types

LEMMA ErrorIs ==
  ASSUME NEW status \in Nat, status # 200, Reply(Error(status))
  PROVE  pc' = "answered" /\ answer'.status # 200 /\ answer' = Error(status) /\ seen' = seen
<1>1. Error(status).status = status
  BY DEF Error
<1>2. QED
  BY <1>1, ReplyIs

LEMMA TypesReadRow ==
  ASSUME Types, ReadRow PROVE Types'
<1>1. pc = "row" /\ UNCHANGED <<bundles, patches, req, total, start, walk, stayed, late, touched>>
  BY DEF ReadRow, tables, observed
<1>2. /\ req \in QueryType /\ Refusal(req) = 200 /\ req.app \in App /\ req.verb = "get"
      /\ bundles \in [Key -> Row \cup {NoRow}]
  BY <1>1, ReadingFacts DEF Reading, Types, Served
<1>3. CASE bundles[<<req.app, req.id>>] = NoRow
  <2>1. Reply(Error(404)) /\ UNCHANGED page
    BY <1>3 DEF ReadRow
  <2>2. pc' = "answered" /\ answer'.status # 200 /\ seen' = seen
    BY <2>1, ErrorIs
  <2>3. TypeOK'
    BY <1>1, <1>2, <2>1, <2>2 DEF Types, TypeOK
  <2>4. Served'
    BY <1>1, <2>2 DEF Types, Served, Succeeded
  <2>5. QED
    BY <2>3, <2>4 DEF Types
<1>4. CASE bundles[<<req.app, req.id>>] # NoRow
  <2>1. page' = Rows({req.id}) /\ pc' = "patches" /\ UNCHANGED <<answer, seen>>
    BY <1>4 DEF ReadRow
  <2>2. req.id \in Id /\ <<req.app, req.id>> \in Key
    BY <1>2, QueryFacts DEF Key
  <2>3. bundles[<<req.app, req.id>>] \in Row
    BY <1>2, <1>4, <2>2
  <2>4. DOMAIN page' = {req.id} /\ \A id \in DOMAIN page' : page'[id] \in Row
    BY <2>1, <2>3, RowsAre
  <2>5. TypeOK'
    BY <1>1, <1>2, <2>1, <2>2, <2>4 DEF Types, TypeOK
  <2>6. Served'
    BY <1>1, <1>2, <2>1 DEF Types, Served, Succeeded
  <2>7. QED
    BY <2>5, <2>6 DEF Types
<1>5. QED
  BY <1>3, <1>4

\* The patches of a page.
Data == [id \in DOMAIN page |-> [row |-> page[id], list |-> PatchesOfPage(id)]]

LEMMA DataIs ==
  /\ DOMAIN Data = DOMAIN page
  /\ \A id \in DOMAIN page : Data[id] = [row |-> page[id], list |-> patches[<<req.app, id>>]]
BY DEF Data, PatchesOfPage

\* The answer of get_bundle and of list_bundles when it holds a page.
LEMMA ReadPatchesIs ==
  ASSUME ReadPatches
  PROVE  /\ pc = "patches" /\ pc' = "answered"
         /\ UNCHANGED <<bundles, patches, req, total, page, start, walk, stayed, late, touched>>
         /\ answer'.status = 200 /\ answer'.data = Data
         /\ req.verb = "list" => answer' = ListAnswer(total, start, Data)
         /\ seen' = IF walk = "none" THEN seen ELSE seen \cup DOMAIN page
<1>1. /\ pc = "patches"
      /\ UNCHANGED <<bundles, patches, req, total, page, start, walk, stayed, late, touched>>
      /\ Reply(IF req.verb = "list" THEN ListAnswer(total, start, Data)
               ELSE [status |-> 200, data |-> Data])
  BY DEF ReadPatches, Data, tables, observed
<1>2. CASE req.verb = "list"
  <2>1. Reply(ListAnswer(total, start, Data))
    BY <1>1, <1>2
  <2>2. /\ ListAnswer(total, start, Data).status = 200
        /\ ListAnswer(total, start, Data).data = Data
    BY ListAnswerIs
  <2>3. QED
    BY <1>1, <1>2, <2>1, <2>2, ReplyIs, DataIs
<1>3. CASE req.verb # "list"
  <2>1. Reply([status |-> 200, data |-> Data])
    BY <1>1, <1>3
  <2>2. QED
    BY <1>1, <1>3, <2>1, ReplyIs, DataIs
<1>4. QED
  BY <1>2, <1>3

LEMMA TypesReadPatches ==
  ASSUME Types, ReadPatches PROVE Types'
<1>1. /\ pc = "patches" /\ pc' = "answered"
      /\ UNCHANGED <<bundles, patches, req, total, page, start, walk, stayed, late, touched>>
      /\ answer'.status = 200 /\ answer'.data = Data
      /\ req.verb = "list" => answer' = ListAnswer(total, start, Data)
      /\ seen' = IF walk = "none" THEN seen ELSE seen \cup DOMAIN page
  BY ReadPatchesIs
<1>2. /\ req \in QueryType /\ Refusal(req) = 200
      /\ total \in Nat /\ start \in Nat /\ DOMAIN page \subseteq Id
  BY <1>1, ReadingFacts DEF Reading, Types, TypeOK
<1>3. DOMAIN Data = DOMAIN page
  BY DataIs
<1>4. ASSUME req.verb = "list"
      PROVE  answer'.cursors.next \in Cursor /\ answer'.cursors.previous \in Cursor
  <2>1. answer'.cursors = Cursors(req, total, start, DOMAIN page)
    BY <1>1, <1>3, <1>4, ListAnswerIs
  <2>2. QED
    BY <1>2, <2>1, CursorsAre
<1>5. TypeOK'
  BY <1>1, <1>2 DEF Types, TypeOK
<1>6. Served'
  BY <1>1, <1>2, <1>3, <1>4 DEF Types, Served, Succeeded
<1>7. QED
  BY <1>5, <1>6 DEF Types

LEMMA ReadChannelsIs ==
  ASSUME Types, ReadChannels
  PROVE  /\ pc = "channels" /\ pc' = "answered" /\ req.verb = "channels" /\ walk = "none"
         /\ UNCHANGED <<bundles, patches, req, total, page, start, walk, seen, stayed, late, touched>>
         /\ req \in QueryType /\ Refusal(req) = 200
<1>1. /\ pc = "channels"
      /\ UNCHANGED <<bundles, patches, req, total, page, start, walk, stayed, late, touched>>
  BY DEF ReadChannels, tables, observed
<1>2. req.verb = "channels" /\ req \in QueryType /\ Refusal(req) = 200
  BY <1>1, ReadingFacts DEF Reading, Types, Served
<1>3. walk = "none"
  BY <1>2 DEF Types, Served
<1>4. pc' = "answered" /\ seen' = seen
  BY <1>3 DEF ReadChannels, Reply
<1>5. QED
  BY <1>1, <1>2, <1>3, <1>4

LEMMA TypesReadChannels ==
  ASSUME Types, ReadChannels PROVE Types'
<1>1. /\ pc = "channels" /\ pc' = "answered" /\ req.verb = "channels" /\ walk = "none"
      /\ UNCHANGED <<bundles, patches, req, total, page, start, walk, seen, stayed, late, touched>>
      /\ req \in QueryType /\ Refusal(req) = 200
  BY ReadChannelsIs
<1>2. TypeOK'
  BY <1>1 DEF Types, TypeOK
<1>3. Served'
  BY <1>1 DEF Types, Served, Succeeded
<1>4. QED
  BY <1>2, <1>3 DEF Types

LEMMA FailIs ==
  ASSUME Fail
  PROVE  /\ Reading /\ pc' = "answered" /\ answer'.status # 200
         /\ UNCHANGED <<bundles, patches, req, total, page, start, walk, seen, stayed, late, touched>>
<1>1. /\ pc \in {"total", "page", "start", "row", "patches", "channels"}
      /\ Reply(Error(500))
      /\ UNCHANGED <<bundles, patches, req, total, page, start, walk, stayed, late, touched>>
  BY DEF Fail, tables, observed
<1>2. pc' = "answered" /\ answer'.status # 200 /\ seen' = seen
  BY <1>1, ErrorIs
<1>3. QED
  BY <1>1, <1>2 DEF Reading

LEMMA TypesFail ==
  ASSUME Types, Fail PROVE Types'
<1>1. /\ Reading /\ pc' = "answered" /\ answer'.status # 200
      /\ UNCHANGED <<bundles, patches, req, total, page, start, walk, seen, stayed, late, touched>>
  BY FailIs
<1>2. TypeOK'
  BY <1>1 DEF Types, TypeOK, Reading
<1>3. Served'
  BY <1>1 DEF Types, Served, Succeeded
<1>4. QED
  BY <1>2, <1>3 DEF Types

\* A commit leaves the rows and the patches of the ids it does not touch, and
\* of the ids that matched those that still do.
LEMMA CommitIs ==
  ASSUME Types, NEW e \in Edit, Commit(e)
  PROVE  /\ UNCHANGED <<pc, req, total, page, start, answer, walk, seen>>
         /\ bundles' \in [Key -> Row \cup {NoRow}] /\ patches' \in [Key -> SUBSET PatchRow]
         /\ touched' \subseteq Id /\ stayed' \subseteq stayed /\ late' \in BOOLEAN
         /\ touched \subseteq touched'
         /\ req # NoQuery =>
              /\ stayed' = stayed \cap Matching(req, bundles')
              /\ \A id \in Id \ touched' : req.app \in App =>
                    /\ bundles'[<<req.app, id>>] = bundles[<<req.app, id>>]
                    /\ patches'[<<req.app, id>>] = patches[<<req.app, id>>]
              /\ late' = (late \/ /\ pc \in {"page", "start"}
                                  /\ ~(Matching(req, bundles') \subseteq Matching(req, bundles)))
         /\ req = NoQuery => UNCHANGED <<stayed, late, touched>>
<1>1. e.key \in Key /\ e.row \in Row \cup {NoRow} /\ e.list \in SUBSET PatchRow
  BY ReadAssumption
<1>2. /\ UNCHANGED <<pc, req, total, page, start, answer, walk, seen>> /\ Observe
      /\ bundles' = [bundles EXCEPT ![e.key] = e.row]
      /\ patches' = IF e.row = NoRow THEN Cascade(patches, e.key)
                    ELSE [patches EXCEPT ![e.key] = e.list]
  BY DEF Commit
<1>3. /\ bundles \in [Key -> Row \cup {NoRow}] /\ patches \in [Key -> SUBSET PatchRow]
      /\ touched \subseteq Id /\ late \in BOOLEAN
  BY DEF Types, TypeOK
<1>4. bundles' \in [Key -> Row \cup {NoRow}]
  BY <1>1, <1>2, <1>3
<1>5. patches' \in [Key -> SUBSET PatchRow]
  <2>1. Cascade(patches, e.key) \in [Key -> SUBSET PatchRow]
    BY <1>3 DEF Cascade
  <2>2. [patches EXCEPT ![e.key] = e.list] \in [Key -> SUBSET PatchRow]
    BY <1>1, <1>3
  <2>3. QED
    BY <1>2, <2>1, <2>2
<1>6. CASE req = NoQuery
  BY <1>2, <1>3, <1>4, <1>5, <1>6 DEF Observe, observed
<1>7. CASE req # NoQuery
  <2> DEFINE changed == { k \in Key : /\ k[1] = req.app
                                      /\ \/ bundles'[k] # bundles[k]
                                         \/ patches'[k] # patches[k] }
  <2>1. /\ touched' = touched \cup { k[2] : k \in changed }
        /\ stayed' = stayed \cap Matching(req, bundles')
        /\ late' = (late \/ /\ pc \in {"page", "start"}
                            /\ ~(Matching(req, bundles') \subseteq Matching(req, bundles)))
    BY <1>2, <1>7 DEF Observe
  <2>2. \A k \in changed : k[2] \in Id
    BY DEF Key
  <2>3. ASSUME NEW id \in Id \ touched', req.app \in App
        PROVE  /\ bundles'[<<req.app, id>>] = bundles[<<req.app, id>>]
               /\ patches'[<<req.app, id>>] = patches[<<req.app, id>>]
    <3>1. <<req.app, id>> \in Key /\ <<req.app, id>>[1] = req.app /\ <<req.app, id>>[2] = id
      BY <2>3 DEF Key
    <3>2. <<req.app, id>> \notin changed
      BY <2>1, <2>3, <3>1
    <3>3. QED
      BY <3>1, <3>2
  <2> HIDE DEF changed
  <2>4. late' \in BOOLEAN
    BY <1>3, <2>1
  <2>5. touched' \subseteq Id /\ touched \subseteq touched' /\ stayed' \subseteq stayed
    BY <1>3, <2>1, <2>2
  <2>6. QED
    BY <1>2, <1>4, <1>5, <1>7, <2>1, <2>3, <2>4, <2>5
<1>8. QED
  BY <1>6, <1>7

LEMMA TypesCommit ==
  ASSUME Types, NEW e \in Edit, Commit(e) PROVE Types'
<1>1. /\ UNCHANGED <<pc, req, total, page, start, answer, walk, seen>>
      /\ bundles' \in [Key -> Row \cup {NoRow}] /\ patches' \in [Key -> SUBSET PatchRow]
      /\ touched' \subseteq Id /\ stayed' \subseteq stayed /\ late' \in BOOLEAN
  BY CommitIs
<1>2. TypeOK'
  BY <1>1 DEF Types, TypeOK
<1>3. Served'
  BY <1>1 DEF Types, Served, Succeeded
<1>4. QED
  BY <1>2, <1>3 DEF Types

LEMMA TypesNext == Types /\ [Next]_vars => Types'
<1> SUFFICES ASSUME Types, [Next]_vars PROVE Types'
  OBVIOUS
<1>1. ASSUME NEW q \in Query, Receive(q) PROVE Types'
  BY <1>1, TypesReceive
<1>2. CASE Follow
  BY <1>2, TypesFollow
<1>3. CASE Read
  BY <1>3, TypesReadTotal, TypesReadPage, TypesReadStart, TypesReadRow, TypesReadPatches,
     TypesReadChannels DEF Read
<1>4. CASE Fail
  BY <1>4, TypesFail
<1>5. ASSUME NEW e \in Edit, Commit(e) PROVE Types'
  BY <1>5, TypesCommit
<1>6. CASE UNCHANGED vars
  BY <1>6 DEF vars, Types, TypeOK, Served, Succeeded
<1>7. QED
  BY <1>1, <1>2, <1>3, <1>4, <1>5, <1>6 DEF Next

\* The reading handlers keep their state well-typed: whatever is asked, with
\* whatever limit and page number, the counts, offsets and indices they
\* compute are naturals, what they serve they have checked, a page holds rows,
\* and the cursors a client goes on with are ids.
THEOREM TypeCorrect == Spec => []TypeOK
<1>1. Init => Types
  BY TypesInit
<1>2. Types /\ [Next]_vars => Types'
  BY TypesNext
<1>3. Types => TypeOK
  BY DEF Types
<1>4. QED
  BY <1>1, <1>2, <1>3, PTL DEF Spec

-----------------------------------------------------------------------------
(* A row and its patches are read in two statements.                       *)

\* Until the patches are read, a row that nobody touched is as it was read.
PageIsCurrent ==
  pc \in {"start", "patches"} =>
    \A id \in DOMAIN page \ touched : page[id] = bundles[<<req.app, id>>]

Together == PageIsCurrent /\ ShownTogether

LEMMA TogetherAnswered ==
  ASSUME pc' = "answered", answer'.status # 200 PROVE Together'
BY DEF Together, PageIsCurrent, ShownTogether

LEMMA TogetherReads ==
  ASSUME Types, Together, Read PROVE Together'
<1>1. CASE ReadTotal
  BY <1>1 DEF ReadTotal, Together, PageIsCurrent, ShownTogether
<1>2. CASE ReadPage
  <2>1. /\ pc = "page" /\ page' = Rows(PageIds) /\ UNCHANGED <<bundles, req>>
        /\ PageIds = {} => Reply(ListAnswer(total, FirstRow, NoRows))
        /\ PageIds # {} => pc' = IF HasCursor(req) THEN "start" ELSE "patches"
    BY <1>2, ReadPageIs
  <2>2. CASE PageIds = {}
    <3>1. Reply(ListAnswer(total, FirstRow, NoRows)) /\ DOMAIN NoRows = {}
      BY <2>1, <2>2 DEF NoRows
    <3>2. pc' = "answered" /\ answer'.data = NoRows
      BY <3>1, ReplyIs, ListAnswerIs
    <3>3. QED
      BY <3>1, <3>2 DEF Together, PageIsCurrent, ShownTogether
  <2>3. CASE PageIds # {}
    <3>1. \A id \in DOMAIN page' : page'[id] = bundles[<<req.app, id>>]
      BY <2>1, RowsAre
    <3>2. pc' # "answered"
      BY <2>1, <2>3
    <3>3. QED
      BY <2>1, <3>1, <3>2 DEF Together, PageIsCurrent, ShownTogether
  <2>4. QED
    BY <2>2, <2>3
<1>3. CASE ReadStart
  BY <1>3 DEF ReadStart, tables, observed, Together, PageIsCurrent, ShownTogether
<1>4. CASE ReadRow
  <2>1. CASE bundles[<<req.app, req.id>>] = NoRow
    BY <1>4, <2>1, ErrorIs, TogetherAnswered DEF ReadRow
  <2>2. CASE bundles[<<req.app, req.id>>] # NoRow
    <3>1. page' = Rows({req.id}) /\ pc' = "patches" /\ UNCHANGED <<bundles, req>>
      BY <1>4, <2>2 DEF ReadRow, tables
    <3>2. \A id \in DOMAIN page' : page'[id] = bundles[<<req.app, id>>]
      BY <3>1, RowsAre
    <3>3. QED
      BY <3>1, <3>2 DEF Together, PageIsCurrent, ShownTogether
  <2>3. QED
    BY <2>1, <2>2
<1>5. CASE ReadPatches
  <2>1. /\ pc = "patches" /\ pc' = "answered" /\ answer'.data = Data
        /\ UNCHANGED <<bundles, patches, req, touched>>
    BY <1>5, ReadPatchesIs
  <2>2. /\ DOMAIN Data = DOMAIN page
        /\ \A id \in DOMAIN page : Data[id] = [row |-> page[id], list |-> patches[<<req.app, id>>]]
    BY DataIs
  <2>3. \A id \in DOMAIN page \ touched : page[id] = bundles[<<req.app, id>>]
    BY <2>1 DEF Together, PageIsCurrent
  <2>4. \A id \in DOMAIN Data \ touched :
           Data[id] = [row |-> bundles[<<req.app, id>>], list |-> patches[<<req.app, id>>]]
    BY <2>2, <2>3
  <2>5. QED
    BY <2>1, <2>4 DEF Together, PageIsCurrent, ShownTogether
<1>6. CASE ReadChannels
  <2>1. pc' = "answered" /\ req'.verb = "channels"
    BY <1>6, ReadChannelsIs
  <2>2. QED
    BY <2>1 DEF Together, PageIsCurrent, ShownTogether
<1>7. QED
  BY <1>1, <1>2, <1>3, <1>4, <1>5, <1>6 DEF Read

LEMMA TogetherCommit ==
  ASSUME Types, Together, NEW e \in Edit, Commit(e) PROVE Together'
<1>1. /\ UNCHANGED <<pc, req, page, answer>> /\ touched \subseteq touched'
      /\ req # NoQuery =>
           \A id \in Id \ touched' : req.app \in App =>
              /\ bundles'[<<req.app, id>>] = bundles[<<req.app, id>>]
              /\ patches'[<<req.app, id>>] = patches[<<req.app, id>>]
  BY CommitIs
<1>2. ASSUME pc \in {"start", "patches"}
      PROVE  \A id \in DOMAIN page \ touched' : page[id] = bundles'[<<req.app, id>>]
  <2>1. req.app \in App /\ req # NoQuery /\ DOMAIN page \subseteq Id
    BY <1>2, ReadingFacts DEF Reading, Types, TypeOK
  <2>2. \A id \in DOMAIN page \ touched : page[id] = bundles[<<req.app, id>>]
    BY <1>2 DEF Together, PageIsCurrent
  <2>3. QED
    BY <1>1, <2>1, <2>2
<1>3. ASSUME pc = "answered", answer.status = 200, req.verb # "channels"
      PROVE  \A id \in DOMAIN answer.data \ touched' :
                answer.data[id] = [row |-> bundles'[<<req.app, id>>], list |-> patches'[<<req.app, id>>]]
  <2>1. req # NoQuery /\ req \in QueryType
    BY <1>3 DEF Types, TypeOK
  <2>2. Refusal(req) = 200 /\ DOMAIN answer.data \subseteq Id
    BY <1>3 DEF Types, Served, Succeeded
  <2>3. req.app \in App
    BY <2>1, <2>2, ServedFacts
  <2>4. \A id \in DOMAIN answer.data \ touched :
           answer.data[id] = [row |-> bundles[<<req.app, id>>], list |-> patches[<<req.app, id>>]]
    BY <1>3 DEF Together, ShownTogether
  <2>5. QED
    BY <1>1, <2>1, <2>2, <2>3, <2>4
<1>4. QED
  BY <1>1, <1>2, <1>3 DEF Together, PageIsCurrent, ShownTogether

LEMMA TogetherNext == Types /\ Together /\ [Next]_vars => Together'
<1> SUFFICES ASSUME Types, Together, [Next]_vars PROVE Together'
  OBVIOUS
<1>1. ASSUME NEW q \in QueryType, Serve(q) PROVE Together'
  <2>1. \/ pc' = "answered" /\ answer'.status # 200
        \/ pc' \in {"total", "row", "channels"}
    BY <1>1, ServeStarts
  <2>2. QED
    BY <2>1 DEF Together, PageIsCurrent, ShownTogether
<1>2. ASSUME NEW q \in Query, Receive(q) PROVE Together'
  BY <1>1, <1>2, ReadAssumption DEF Receive
<1>3. CASE Follow
  <2>1. Serve(Followed) /\ Followed \in QueryType
    BY <1>3, FollowIs DEF Follow, Followed
  <2> HIDE DEF Followed
  <2>2. QED
    BY <1>1, <2>1
<1>4. CASE Read
  BY <1>4, TogetherReads
<1>5. CASE Fail
  BY <1>5, FailIs, TogetherAnswered
<1>6. ASSUME NEW e \in Edit, Commit(e) PROVE Together'
  BY <1>6, TogetherCommit
<1>7. CASE UNCHANGED vars
  BY <1>7 DEF vars, Together, PageIsCurrent, ShownTogether
<1>8. QED
  BY <1>2, <1>3, <1>4, <1>5, <1>6, <1>7 DEF Next

\* get_bundle and list_bundles select a row and its patches in two statements,
\* outside any transaction.  Of a bundle nobody republished meanwhile the
\* answer still shows the row and the patches of its own application.
THEOREM RowsAndPatchesAgree == Spec => []ShownTogether
<1>1. Init => Together
  BY DEF Init, Together, PageIsCurrent, ShownTogether
<1>2. Init => Types
  BY TypesInit
<1>3. Types /\ [Next]_vars => Types'
  BY TypesNext
<1>4. Types /\ Together /\ [Next]_vars => Together'
  BY TogetherNext
<1>5. Together => ShownTogether
  BY DEF Together
<1>6. QED
  BY <1>1, <1>2, <1>3, <1>4, <1>5, PTL DEF Spec

-----------------------------------------------------------------------------
(* A walk goes one way.                                                    *)

\* What the walk has been shown lies behind the cursor of the request in
\* progress, the page it has read ahead of it, and the cursor it goes on from
\* beyond both.  Only the first request of a walk has two cursors.
Onward ==
  /\ Reading /\ walk # "none" =>
       /\ \A id \in seen : ~PastCursor(req, id)
       /\ Truthy(req.after) /\ Truthy(req.before) => seen = {}
  /\ pc \in {"start", "patches"} /\ req.verb = "list" => \A id \in DOMAIN page : PastCursor(req, id)
  /\ Truthy(NextCursor) =>
       \A id \in seen : IF walk = "forward" THEN NextCursor <= id ELSE id <= NextCursor

\* What a walk has on either side of its cursor.
LEMMA CursorParts ==
  ASSUME Types, Reading, walk # "none"
  PROVE  /\ walk \in {"forward", "backward"} /\ seen \subseteq Nat
         /\ HasCursor(req) <=> Truthy(req.after) \/ Truthy(req.before)
         /\ Truthy(req.after) => req.after \in Nat
         /\ Truthy(req.before) => req.before \in Nat
         /\ walk = "backward" => HasCursor(req) /\ ~Truthy(req.after) /\ Truthy(req.before)
         /\ walk = "forward" /\ HasCursor(req) => Truthy(req.after)
         /\ \A id : PastCursor(req, id) <=>
                      IF ~HasCursor(req) THEN TRUE
                      ELSE IF walk = "forward" THEN id < req.after ELSE id > req.before
<1>1. /\ req \in QueryType /\ req.page = Absent /\ (walk = "backward" <=> Reversed(req))
      /\ walk \in {"forward", "backward"} /\ seen \subseteq Nat
  BY ReadAssumption DEF Types, TypeOK, Served
<1>2. req.after \in Cursor /\ req.before \in Cursor
  BY <1>1, QueryFacts
<1>3. (Truthy(req.after) => req.after \in Nat) /\ (Truthy(req.before) => req.before \in Nat)
  BY <1>2, ReadAssumption DEF Cursor, Truthy
<1>4. HasCursor(req) <=> Truthy(req.after) \/ Truthy(req.before)
  BY <1>1 DEF HasCursor
<1>5. /\ walk = "backward" => HasCursor(req) /\ ~Truthy(req.after) /\ Truthy(req.before)
      /\ walk = "forward" /\ HasCursor(req) => Truthy(req.after)
  BY <1>1, <1>4 DEF Reversed
<1>6. \A id : PastCursor(req, id) <=>
                IF ~HasCursor(req) THEN TRUE
                ELSE IF walk = "forward" THEN id < req.after ELSE id > req.before
  BY <1>1, <1>5 DEF PastCursor
<1>7. QED
  BY <1>1, <1>3, <1>4, <1>5, <1>6

LEMMA OnwardServe ==
  ASSUME Types, NEW q \in QueryType, Serve(q),
         \A id \in seen' : ~PastCursor(q, id),
         Truthy(q.after) /\ Truthy(q.before) => seen' = {}
  PROVE  Onward'
<1>1. /\ req' = q
      /\ \/ pc' = "answered" /\ answer'.status # 200
         \/ pc' \in {"total", "row", "channels"}
  BY ServeStarts
<1>2. ~Truthy(NextCursor)'
  BY <1>1 DEF NextCursor, Truthy
<1>3. QED
  BY <1>1, <1>2 DEF Onward

LEMMA OnwardFollow ==
  ASSUME Types, Onward, Follow PROVE Onward'
<1>1. Truthy(NextCursor) /\ Serve(Followed) /\ UNCHANGED seen
  BY DEF Follow, Followed
<1>2. /\ Followed \in QueryType /\ NextCursor \in Id
      /\ Followed.after = IF walk = "forward" THEN NextCursor ELSE Absent
      /\ Followed.before = IF walk = "forward" THEN Absent ELSE NextCursor
      /\ \A id : PastCursor(Followed, id) <=> IF walk = "forward" THEN id < NextCursor
                                               ELSE id > NextCursor
  BY <1>1, FollowIs
<1>3. ASSUME NEW id \in seen PROVE ~PastCursor(Followed, id)
  <2>1. IF walk = "forward" THEN NextCursor <= id ELSE id <= NextCursor
    BY <1>1 DEF Onward
  <2>2. id \in Nat /\ NextCursor \in Nat
    BY <1>2, ReadAssumption DEF Types, TypeOK
  <2>3. QED
    BY <1>2, <2>1, <2>2
<1>4. ~(Truthy(Followed.after) /\ Truthy(Followed.before))
  BY <1>2 DEF Truthy
<1> HIDE DEF Followed
<1>5. QED
  BY <1>1, <1>2, <1>3, <1>4, OnwardServe

\* The cursor of an answer that holds rows is the last of them or none.
LEMMA OnwardReadPatches ==
  ASSUME Types, Onward, ReadPatches PROVE Onward'
<1>1. /\ pc = "patches" /\ pc' = "answered"
      /\ UNCHANGED <<req, total, page, start, walk>>
      /\ answer'.status = 200
      /\ req.verb = "list" => answer' = ListAnswer(total, start, Data)
      /\ seen' = IF walk = "none" THEN seen ELSE seen \cup DOMAIN page
  BY ReadPatchesIs
<1>2. CASE walk = "none"
  <2>1. ~Truthy(NextCursor)'
    BY <1>1, <1>2 DEF NextCursor, Truthy
  <2>2. QED
    BY <1>1, <2>1 DEF Onward, Reading
<1>3. CASE walk # "none"
  <2>1. /\ req.verb = "list" /\ DOMAIN page # {} /\ DOMAIN page \subseteq Id
        /\ DOMAIN page \subseteq Nat /\ IsFiniteSet(DOMAIN page)
        /\ DOMAIN Data = DOMAIN page
    <3>1. req.verb = "list" /\ DOMAIN page # {} /\ DOMAIN page \subseteq Id
      BY <1>1, <1>3 DEF Types, TypeOK, Served
    <3>2. DOMAIN page \subseteq Nat /\ IsFiniteSet(DOMAIN page)
      BY <3>1, ReadAssumption, FS_Subset
    <3>3. QED
      BY <3>1, <3>2, DataIs
  <2>2. answer'.cursors = Cursors(req, total, start, DOMAIN page)
    BY <1>1, <2>1, ListAnswerIs
  <2>3. /\ answer'.cursors.next \in {Lowest(DOMAIN page), Absent}
        /\ answer'.cursors.previous \in {Highest(DOMAIN page), Absent}
    BY <2>1, <2>2 DEF Cursors
  <2>4. NextCursor' = IF walk = "forward" THEN answer'.cursors.next ELSE answer'.cursors.previous
    BY <1>1, <1>3 DEF NextCursor
  <2>5. /\ Lowest(DOMAIN page) \in DOMAIN page /\ \A y \in DOMAIN page : Lowest(DOMAIN page) <= y
        /\ Highest(DOMAIN page) \in DOMAIN page /\ \A y \in DOMAIN page : y <= Highest(DOMAIN page)
    BY <2>1, LowestIs, HighestIs
  <2>6. /\ \A id \in seen : ~PastCursor(req, id)
        /\ \A id \in DOMAIN page : PastCursor(req, id)
    BY <1>1, <1>3, <2>1 DEF Onward, Reading
  <2>7. /\ seen \subseteq Nat /\ walk \in {"forward", "backward"}
        /\ Truthy(req.after) => req.after \in Nat
        /\ Truthy(req.before) => req.before \in Nat
        /\ walk = "backward" => HasCursor(req) /\ ~Truthy(req.after) /\ Truthy(req.before)
        /\ walk = "forward" /\ HasCursor(req) => Truthy(req.after)
        /\ \A id : PastCursor(req, id) <=>
                     IF ~HasCursor(req) THEN TRUE
                     ELSE IF walk = "forward" THEN id < req.after ELSE id > req.before
    BY <1>1, <1>3, CursorParts DEF Reading
  <2>8. ASSUME NEW x \in seen, NEW y \in DOMAIN page
        PROVE  IF walk = "forward" THEN y <= x ELSE x <= y
    <3>1. x \in Nat /\ y \in Nat
      BY <2>1, <2>7
    <3>2. ~PastCursor(req, x) /\ PastCursor(req, y)
      BY <2>6
    <3>3. QED
      BY <2>7, <3>1, <3>2
  <2>9. ASSUME Truthy(NextCursor)', NEW id \in seen'
        PROVE  IF walk = "forward" THEN NextCursor' <= id ELSE id <= NextCursor'
    <3>1. NextCursor' # Absent
      BY <2>9 DEF Truthy
    <3>2. /\ walk = "forward" => NextCursor' = Lowest(DOMAIN page)
          /\ walk = "backward" => NextCursor' = Highest(DOMAIN page)
      BY <2>3, <2>4, <2>7, <3>1
    <3>3. id \in seen \/ id \in DOMAIN page
      BY <1>1, <1>3
    <3>4. QED
      BY <2>5, <2>7, <2>8, <3>2, <3>3
  <2>10. QED
    BY <1>1, <2>9 DEF Onward, Reading
<1>4. QED
  BY <1>2, <1>3

\* An empty answer leads back only where nothing has been shown.
LEMMA OnwardReadPage ==
  ASSUME Types, Onward, ReadPage PROVE Onward'
<1>1. /\ pc = "page" /\ page' = Rows(PageIds) /\ UNCHANGED <<bundles, req, walk>>
      /\ PageIds = {} => Reply(ListAnswer(total, FirstRow, NoRows))
      /\ PageIds # {} => /\ pc' = IF HasCursor(req) THEN "start" ELSE "patches"
                         /\ UNCHANGED <<answer, seen>>
  BY ReadPageIs
<1>2. CASE PageIds = {}
  <2>1. Reply(ListAnswer(total, FirstRow, NoRows)) /\ DOMAIN NoRows = {}
    BY <1>1, <1>2 DEF NoRows
  <2>2. /\ pc' = "answered" /\ answer' = ListAnswer(total, FirstRow, NoRows)
    BY <2>1, ReplyIs
  <2>3. /\ answer'.status = 200 /\ answer'.data = NoRows
        /\ answer'.cursors = Cursors(req, total, FirstRow, {})
    BY <2>1, <2>2, ListAnswerIs
  <2>4. seen' = seen
    BY <2>1, <2>2, <2>3, ReplyIs
  <2>5. ASSUME Truthy(NextCursor)' PROVE seen = {}
    <3>1. walk # "none"
      BY <1>1, <2>5 DEF NextCursor, Truthy
    <3>2. NextCursor' = IF walk = "forward" THEN answer'.cursors.next ELSE answer'.cursors.previous
      BY <1>1, <2>2, <2>3, <3>1 DEF NextCursor
    <3>3. /\ walk \in {"forward", "backward"}
          /\ walk = "backward" => HasCursor(req) /\ ~Truthy(req.after) /\ Truthy(req.before)
          /\ walk = "forward" /\ HasCursor(req) => Truthy(req.after)
      BY <1>1, <3>1, CursorParts DEF Reading
    <3>4. /\ NextCursor' # Absent
          /\ walk = "forward" => HasCursor(req) /\ Truthy(req.before)
          /\ walk = "backward" => Truthy(req.after)
      BY <2>3, <2>5, <3>2, <3>3 DEF Cursors, Truthy
    <3>5. QED
      BY <1>1, <3>1, <3>3, <3>4 DEF Onward, Reading
  <2>6. QED
    BY <2>2, <2>4, <2>5 DEF Onward, Reading
<1>3. CASE PageIds # {}
  <2>1. pc' \in {"start", "patches"} /\ UNCHANGED <<req, walk, seen>>
    BY <1>1, <1>3
  <2>2. \A id \in PageIds : PastCursor(req, id)
    BY AheadIs DEF Types, TypeOK
  <2>3. \A id \in DOMAIN page' : PastCursor(req, id)
    BY <1>1, <2>2, RowsAre
  <2>4. ~Truthy(NextCursor)'
    BY <2>1 DEF NextCursor, Truthy
  <2>5. QED
    BY <1>1, <2>1, <2>3, <2>4 DEF Onward, Reading
<1>4. QED
  BY <1>2, <1>3

LEMMA OnwardNext == Types /\ Onward /\ [Next]_vars => Onward'
<1> SUFFICES ASSUME Types, Onward, [Next]_vars PROVE Onward'
  OBVIOUS
<1>1. ASSUME NEW q \in Query, Receive(q) PROVE Onward'
  BY <1>1, ReadAssumption, OnwardServe DEF Receive
<1>2. CASE Follow
  BY <1>2, OnwardFollow
<1>3. CASE ReadTotal
  <2>1. pc = "total" /\ pc' = "page" /\ UNCHANGED <<req, page, answer, walk, seen>>
    BY <1>3 DEF ReadTotal
  <2>2. ~Truthy(NextCursor)'
    BY <2>1 DEF NextCursor, Truthy
  <2>3. QED
    BY <2>1, <2>2 DEF Onward, Reading
<1>4. CASE ReadPage
  BY <1>4, OnwardReadPage
<1>5. CASE ReadStart
  <2>1. pc = "start" /\ pc' = "patches" /\ UNCHANGED <<req, page, answer, walk, seen>>
    BY <1>5 DEF ReadStart
  <2>2. ~Truthy(NextCursor)'
    BY <2>1 DEF NextCursor, Truthy
  <2>3. QED
    BY <2>1, <2>2 DEF Onward, Reading
<1>6. CASE ReadRow
  <2>1. pc = "row" /\ UNCHANGED <<req, walk>>
    BY <1>6 DEF ReadRow
  <2>2. req.verb = "get"
    BY <2>1 DEF Types, Served
  <2>3. walk = "none" /\ seen = {}
    BY <2>2 DEF Types, Served
  <2>4. ~Truthy(NextCursor)'
    BY <2>1, <2>3 DEF NextCursor, Truthy
  <2>5. QED
    BY <2>1, <2>2, <2>3, <2>4 DEF Onward
<1>7. CASE ReadPatches
  BY <1>7, OnwardReadPatches
<1>8. CASE ReadChannels
  <2>1. pc' = "answered" /\ UNCHANGED walk /\ walk = "none"
    BY <1>8, ReadChannelsIs
  <2>2. ~Truthy(NextCursor)'
    BY <2>1 DEF NextCursor, Truthy
  <2>3. QED
    BY <2>1, <2>2 DEF Onward, Reading
<1>9. CASE Fail
  <2>1. pc' = "answered" /\ answer'.status # 200
    BY <1>9, FailIs
  <2>2. ~Truthy(NextCursor)'
    BY <2>1 DEF NextCursor, Truthy
  <2>3. QED
    BY <2>1, <2>2 DEF Onward, Reading
<1>10. CASE \E e \in Edit : Commit(e)
  <2>1. UNCHANGED <<pc, req, page, answer, walk, seen>>
    BY <1>10 DEF Commit
  <2>2. QED
    BY <2>1 DEF Onward, Reading, NextCursor
<1>11. CASE UNCHANGED vars
  BY <1>11 DEF vars, Onward, Reading, NextCursor
<1>12. QED
  BY <1>1, <1>2, <1>3, <1>4, <1>5, <1>6, <1>7, <1>8, <1>9, <1>10, <1>11 DEF Next, Read

LEMMA ListedOnceStep ==
  Types /\ Onward /\ [Next]_vars => (~Listed /\ Listed' => DOMAIN answer'.data \cap seen = {})
<1> SUFFICES ASSUME Types, Onward, [Next]_vars, ~Listed, Listed'
             PROVE  DOMAIN answer'.data \cap seen = {}
  OBVIOUS
<1>1. pc' = "answered" /\ req'.verb = "list" /\ answer'.status = 200
  BY DEF Listed
<1>2. ASSUME NEW q \in QueryType, Serve(q) PROVE FALSE
  BY <1>1, <1>2, ServeStarts
<1>3. CASE \E q \in Query : Receive(q)
  BY <1>2, <1>3, ReadAssumption DEF Receive
<1>4. CASE Follow
  <2>1. Serve(Followed) /\ Followed \in QueryType
    BY <1>4, FollowIs DEF Follow, Followed
  <2> HIDE DEF Followed
  <2>2. QED
    BY <1>2, <2>1
<1>5. CASE ReadPage
  <2>1. PageIds = {}
    BY <1>1, <1>5, ReadPageIs
  <2>2. Reply(ListAnswer(total, FirstRow, NoRows))
    BY <1>5, <2>1, ReadPageIs
  <2>3. answer'.data = NoRows
    BY <2>2, ReplyIs, ListAnswerIs
  <2>4. QED
    BY <2>3 DEF NoRows
<1>6. CASE ReadPatches
  <2>1. pc = "patches" /\ answer'.data = Data /\ req.verb = "list"
    BY <1>1, <1>6, ReadPatchesIs
  <2>2. DOMAIN answer'.data = DOMAIN page
    BY <2>1, DataIs
  <2>3. CASE walk = "none"
    BY <2>3 DEF Types, Served
  <2>4. CASE walk # "none"
    <3>1. /\ \A id \in seen : ~PastCursor(req, id)
          /\ \A id \in DOMAIN page : PastCursor(req, id)
      BY <2>1, <2>4 DEF Onward, Reading
    <3>2. QED
      BY <2>2, <3>1
  <2>5. QED
    BY <2>3, <2>4
<1>7. CASE ReadTotal \/ ReadStart
  BY <1>1, <1>7 DEF ReadTotal, ReadStart
<1>8. CASE ReadRow
  <2>1. pc = "row" /\ req' = req
    BY <1>8 DEF ReadRow
  <2>2. QED
    BY <1>1, <2>1 DEF Types, Served
<1>9. CASE ReadChannels
  BY <1>1, <1>9, ReadChannelsIs
<1>10. CASE Fail
  BY <1>1, <1>10, FailIs
<1>11. CASE (\E e \in Edit : Commit(e)) \/ UNCHANGED vars
  <2>1. UNCHANGED <<pc, req, answer>>
    BY <1>11 DEF Commit, vars
  <2>2. QED
    BY <2>1 DEF Listed
<1>12. QED
  BY <1>3, <1>4, <1>5, <1>6, <1>7, <1>8, <1>9, <1>10, <1>11 DEF Next, Read

\* Paging by cursor repeats no bundle: whatever is published, hidden and
\* deleted between and during the requests of a walk, in either direction, no
\* answer lists an id an earlier answer of the walk has listed.
THEOREM NoRowTwice == Spec => RowsAreListedOnce
<1>1. Init => Types /\ Onward
  <2>1. Init => Onward
    BY DEF Init, Onward, Reading, NextCursor, Truthy
  <2>2. QED
    BY <2>1, TypesInit
<1>2. Types /\ Onward /\ [Next]_vars => (Types /\ Onward)'
  BY TypesNext, OnwardNext
<1>3. Types /\ Onward /\ [Next]_vars
        => [~Listed /\ Listed' => DOMAIN answer'.data \cap seen = {}]_vars
  BY ListedOnceStep
<1>4. QED
  BY <1>1, <1>2, <1>3, PTL DEF Spec, RowsAreListedOnce

-----------------------------------------------------------------------------
(* A walk that is followed to the end has met what stayed.                 *)

\* Where the walk has yet to come.
Beyond(x, y) == IF walk = "forward" THEN x < y ELSE x > y

\* Before its page is read, a row that stayed is listed already or ahead of
\* the cursor; then it may be on the page; then it is beyond the next cursor.
\* What is beyond the page is counted: unless a row came to match meanwhile,
\* all that the later statements see was in the first count.
Covered ==
  /\ req # NoQuery => stayed \subseteq Matching(req, bundles)
  /\ pc \in {"total", "page"} /\ walk # "none" =>
       \A x \in stayed \ seen : PastCursor(req, x)
  /\ pc \in {"start", "patches"} /\ walk # "none" =>
       \A x \in stayed \ (seen \cup DOMAIN page) : \A y \in DOMAIN page : Beyond(x, y)
  /\ Truthy(NextCursor) => \A x \in stayed \ seen : Beyond(x, NextCursor)
  /\ pc \in {"page", "start"} /\ ~late =>
       \E counted \in SUBSET Id : /\ total = Cardinality(counted)
                                  /\ Matching(req, bundles) \subseteq counted
                                  /\ pc = "start" => DOMAIN page \subseteq counted
  /\ pc = "patches" /\ walk # "none" /\ ~(stayed \subseteq seen \cup DOMAIN page) =>
       IF walk = "forward" THEN late \/ start + Cardinality(DOMAIN page) < total
       ELSE start > 0
  /\ WalkMeetsStayingRows

\* Outside a page by number, the rows off the page are all on one side of it.
LEMMA WalkPage ==
  ASSUME Types, pc = "page", walk # "none"
  PROVE  /\ Offset(req, total) = 0
         /\ PageIds = {} => Ahead = {}
         /\ \A x \in Ahead \ PageIds : \A y \in PageIds : Beyond(x, y)
<1>1. /\ req \in QueryType /\ Refusal(req) = 200 /\ req.verb = "list" /\ req.page = Absent
      /\ bundles \in [Key -> Row \cup {NoRow}]
      /\ walk \in {"forward", "backward"} /\ (walk = "backward" <=> Reversed(req))
  BY DEF Types, TypeOK, Served
<1>2. Offset(req, total) = 0
  BY <1>1 DEF Offset
<1>3. Limit(req) \in Nat \ {0}
  BY <1>1, ServedFacts
<1>4. Ahead \in SUBSET Nat /\ IsFiniteSet(Ahead) /\ PageIds \in SUBSET Ahead
  BY <1>1, AheadIs
<1> DEFINE descending == ~Reversed(req)
<1>5. descending \in BOOLEAN /\ (descending <=> walk = "forward")
  BY <1>1
<1>6. PageIds = PageOf(Ahead, descending, Limit(req), 0)
  BY <1>2 DEF PageIds
<1>7. ASSUME NEW x \in Ahead
      PROVE  Rank(Ahead, descending, x) \in Nat
  <2> HIDE DEF descending
  <2>1. QED
    BY <1>4, <1>5, <1>7, RankGrows
<1>8. ASSUME PageIds = {}, NEW x \in Ahead PROVE FALSE
  <2>1. 0 <= Rank(Ahead, descending, x)
    BY <1>7
  <2> HIDE DEF descending
  <2>2. \E z \in PageOf(Ahead, descending, Limit(req), 0) : TRUE
    BY <1>3, <1>4, <1>5, <2>1, PageStarts
  <2>3. QED
    BY <1>6, <1>8, <2>2
<1>9. ASSUME NEW x \in Ahead \ PageIds, NEW y \in PageIds PROVE Beyond(x, y)
  <2> HIDE DEF descending
  <2>1. ~(0 <= Rank(Ahead, descending, x) /\ Rank(Ahead, descending, x) < 0 + Limit(req))
    BY <1>4, <1>5, <1>6, PageIs
  <2>2. 0 + Limit(req) <= Rank(Ahead, descending, x)
    BY <1>3, <1>7, <2>1
  <2>3. Leads(descending, y, x)
    BY <1>3, <1>4, <1>5, <1>6, <2>2, PageIsFull
  <2>4. x \in Nat /\ y \in Nat
    BY <1>4
  <2>5. QED
    BY <1>5, <2>3, <2>4 DEF Leads, Beyond
<1>10. QED
  BY <1>2, <1>8, <1>9

\* Disjoint parts of a counted set.
LEMMA CountedParts ==
  ASSUME NEW counted, IsFiniteSet(counted), NEW A \in SUBSET counted, NEW P \in SUBSET counted,
         A \cap P = {}, NEW x \in counted, x \notin A, x \notin P
  PROVE  Cardinality(A) + Cardinality(P) < Cardinality(counted)
<1> DEFINE U == A \cup P
<1>1. IsFiniteSet(A) /\ IsFiniteSet(P) /\ IsFiniteSet(U) /\ U \in SUBSET counted
  <2>1. IsFiniteSet(A) /\ IsFiniteSet(P) /\ U \in SUBSET counted
    BY FS_Subset
  <2> HIDE DEF U
  <2>2. QED
    BY <2>1, FS_Subset
<1>2. /\ Cardinality(A) \in Nat /\ Cardinality(P) \in Nat /\ Cardinality(counted) \in Nat
      /\ Cardinality(A \cap P) = 0
  BY <1>1, FS_CardinalityType, FS_EmptySet
<1>3. Cardinality(U) = Cardinality(A) + Cardinality(P) - Cardinality(A \cap P)
  BY <1>1, FS_Union
<1>4. U # counted
  OBVIOUS
<1>5. Cardinality(U) < Cardinality(counted)
  <2> HIDE DEF U
  <2>1. Cardinality(U) \in Nat /\ Cardinality(U) <= Cardinality(counted)
        /\ (Cardinality(counted) = Cardinality(U) => counted = U)
    BY <1>1, FS_Subset, FS_CardinalityType
  <2>2. QED
    BY <1>2, <1>4, <2>1
<1> HIDE DEF U
<1>6. QED
  BY <1>2, <1>3, <1>5

LEMMA CoveredServe ==
  ASSUME Types, NEW q \in QueryType, Serve(q), UNCHANGED bundles,
         stayed' \subseteq Matching(q, bundles),
         walk' # "none" => \A x \in stayed' \ seen' : PastCursor(q, x)
  PROVE  Covered'
<1>1. /\ req' = q
      /\ \/ pc' = "answered" /\ answer'.status # 200
         \/ pc' \in {"total", "row", "channels"}
  BY ServeStarts
<1>2. ~Truthy(NextCursor)'
  BY <1>1 DEF NextCursor, Truthy
<1>3. WalkMeetsStayingRows'
  BY <1>1 DEF WalkMeetsStayingRows, Listed
<1>4. QED
  BY <1>1, <1>2, <1>3 DEF Covered

LEMMA CoveredReceive ==
  ASSUME Types, NEW q \in Query, Receive(q) PROVE Covered'
<1>1. /\ Serve(q) /\ UNCHANGED bundles /\ q \in QueryType
      /\ stayed' = { id \in Matching(q, bundles) : PastCursor(q, id) }
  BY ReadAssumption DEF Receive
<1>2. QED
  BY <1>1, CoveredServe

LEMMA CoveredFollow ==
  ASSUME Types, Covered, Follow PROVE Covered'
<1>1. Truthy(NextCursor) /\ Serve(Followed) /\ UNCHANGED <<bundles, walk, seen, stayed>>
  BY DEF Follow, Followed
<1>2. /\ Followed \in QueryType /\ req \in QueryType /\ Followed.app = req.app
      /\ \A id, row : Passes(Followed, id, row) <=> Passes(req, id, row)
      /\ \A id : PastCursor(Followed, id) <=> IF walk = "forward" THEN id < NextCursor
                                               ELSE id > NextCursor
  BY <1>1, FollowIs
<1> HIDE DEF Followed
<1>3. Matching(Followed, bundles) = Matching(req, bundles)
  BY <1>2 DEF Matching
<1>4. stayed \subseteq Matching(req, bundles)
  BY <1>2, ReadAssumption DEF Covered
<1>5. \A x \in stayed \ seen : Beyond(x, NextCursor)
  BY <1>1 DEF Covered
<1>6. \A x \in stayed \ seen : PastCursor(Followed, x)
  BY <1>2, <1>5 DEF Beyond
<1>7. QED
  BY <1>1, <1>2, <1>3, <1>4, <1>6, CoveredServe

LEMMA CoveredReadTotal ==
  ASSUME Types, Covered, ReadTotal PROVE Covered'
<1>1. /\ pc = "total" /\ pc' = "page" /\ total' = Cardinality(Matching(req, bundles))
      /\ UNCHANGED <<bundles, req, page, start, answer, walk, seen, stayed, late>>
  BY DEF ReadTotal, tables, observed
<1>2. Matching(req, bundles) \in SUBSET Id
  BY DEF Matching
<1>3. ~Truthy(NextCursor)'
  BY <1>1 DEF NextCursor, Truthy
<1>4. WalkMeetsStayingRows'
  BY <1>1 DEF WalkMeetsStayingRows, Listed
<1>5. QED
  BY <1>1, <1>2, <1>3, <1>4 DEF Covered

LEMMA CoveredReadPage ==
  ASSUME Types, Covered, ReadPage PROVE Covered'
<1>1. /\ pc = "page" /\ page' = Rows(PageIds) /\ start' = FirstRow
      /\ UNCHANGED <<bundles, req, total, walk, stayed, late>>
      /\ PageIds = {} => Reply(ListAnswer(total, FirstRow, NoRows))
      /\ PageIds # {} => /\ pc' = IF HasCursor(req) THEN "start" ELSE "patches"
                         /\ UNCHANGED <<answer, seen>>
  BY ReadPageIs
<1>2. /\ bundles \in [Key -> Row \cup {NoRow}] /\ req # NoQuery /\ total \in Nat
      /\ walk \in {"forward", "backward", "none"}
  BY <1>1, ReadAssumption DEF Types, TypeOK
<1>3. /\ stayed \subseteq Matching(req, bundles)
      /\ walk # "none" => \A x \in stayed \ seen : PastCursor(req, x)
      /\ ~late => \E counted \in SUBSET Id : /\ total = Cardinality(counted)
                                             /\ Matching(req, bundles) \subseteq counted
  BY <1>1, <1>2 DEF Covered
<1>4. walk # "none" => stayed \ seen \subseteq Ahead
  BY <1>3 DEF Ahead
<1>5. PageIds \subseteq Matching(req, bundles) /\ DOMAIN page' = PageIds
  BY <1>1, <1>2, AheadIs, RowsAre
<1>6. CASE PageIds = {}
  <2>1. Reply(ListAnswer(total, FirstRow, NoRows)) /\ DOMAIN NoRows = {}
    BY <1>1, <1>6 DEF NoRows
  <2>2. pc' = "answered" /\ answer'.status = 200 /\ answer'.data = NoRows
    BY <2>1, ReplyIs, ListAnswerIs
  <2>3. seen' = seen
    <3>1. /\ ListAnswer(total, FirstRow, NoRows).status = 200
          /\ ListAnswer(total, FirstRow, NoRows).data = NoRows
      BY ListAnswerIs
    <3>2. QED
      BY <2>1, <3>1, ReplyIs
  <2>4. walk # "none" => stayed \subseteq seen
    BY <1>1, <1>4, <1>6, WalkPage
  <2>5. Truthy(NextCursor)' => walk # "none"
    BY <1>1 DEF NextCursor, Truthy
  <2>6. WalkMeetsStayingRows'
    BY <1>1, <2>3, <2>4 DEF WalkMeetsStayingRows
  <2>7. QED
    BY <1>1, <1>3, <2>2, <2>3, <2>4, <2>5, <2>6 DEF Covered
<1>7. CASE PageIds # {}
  <2>1. /\ pc' = IF HasCursor(req) THEN "start" ELSE "patches"
        /\ UNCHANGED <<answer, seen>>
    BY <1>1, <1>7
  <2>2. ~Truthy(NextCursor)'
    BY <2>1 DEF NextCursor, Truthy
  <2>3. WalkMeetsStayingRows'
    BY <2>1 DEF WalkMeetsStayingRows, Listed
  <2>4. ASSUME walk # "none", NEW x \in stayed \ (seen \cup PageIds), NEW y \in PageIds
        PROVE  Beyond(x, y)
    BY <1>1, <1>4, <2>4, WalkPage
  <2>5. (\A x \in stayed \ (seen \cup DOMAIN page) : \A y \in DOMAIN page : Beyond(x, y))'
        \/ walk = "none"
    BY <1>1, <1>5, <2>1, <2>4 DEF Beyond
  <2>6. ASSUME walk # "none", ~HasCursor(req), ~(stayed \subseteq seen \cup PageIds), ~late
        PROVE  walk = "forward" /\ start' + Cardinality(PageIds) < total
    <3>1. walk = "forward"
      BY <1>1, <1>2, <2>6, CursorParts DEF Reading
    <3>2. start' = 0
      BY <1>1, <2>6, WalkPage DEF FirstRow
    <3>3. PICK counted \in SUBSET Id : /\ total = Cardinality(counted)
                                       /\ Matching(req, bundles) \subseteq counted
      BY <1>3, <2>6
    <3>4. PICK x \in stayed : x \notin seen \cup PageIds
      BY <2>6
    <3>5. IsFiniteSet(counted) /\ PageIds \in SUBSET counted /\ x \in counted /\ x \notin PageIds
      BY <1>3, <1>5, <3>3, <3>4, ReadAssumption, FS_Subset
    <3>6. Cardinality({}) + Cardinality(PageIds) < Cardinality(counted)
      BY <3>5, CountedParts
    <3>7. QED
      BY <3>1, <3>2, <3>3, <3>6, FS_EmptySet
  <2>7. walk = "backward" => HasCursor(req)
    BY <1>1, CursorParts DEF Reading
  <2>8. (pc = "patches" /\ walk # "none" /\ ~(stayed \subseteq seen \cup DOMAIN page) =>
           IF walk = "forward" THEN late \/ start + Cardinality(DOMAIN page) < total
           ELSE start > 0)'
    BY <1>1, <1>2, <1>5, <2>1, <2>6, <2>7
  <2>9. (pc \in {"page", "start"} /\ ~late =>
           \E counted \in SUBSET Id : /\ total = Cardinality(counted)
                                      /\ Matching(req, bundles) \subseteq counted
                                      /\ pc = "start" => DOMAIN page \subseteq counted)'
    <3> SUFFICES ASSUME ~late
                 PROVE  \E counted \in SUBSET Id : /\ total = Cardinality(counted)
                                                   /\ Matching(req, bundles) \subseteq counted
                                                   /\ PageIds \subseteq counted
      BY <1>1, <1>5
    <3>1. QED
      BY <1>3, <1>5
  <2>10. QED
    BY <1>1, <1>3, <2>1, <2>2, <2>3, <2>5, <2>8, <2>9 DEF Covered
<1>8. QED
  BY <1>6, <1>7

\* The rows of the filters on the far side of the page are those counted.
LEMMA CoveredReadStart ==
  ASSUME Types, Covered, ReadStart PROVE Covered'
<1> DEFINE P == DOMAIN page
           over == { id \in Matching(req, bundles) : id > Highest(P) }
<1>1. /\ pc = "start" /\ pc' = "patches" /\ start' = Cardinality(over)
      /\ UNCHANGED <<bundles, req, total, page, answer, walk, seen, stayed, late>>
  BY DEF ReadStart, tables, observed
<1>2. /\ req # NoQuery /\ P # {} /\ P \subseteq Id /\ P \in SUBSET Nat /\ IsFiniteSet(P)
      /\ walk \in {"forward", "backward", "none"}
  <2>1. req # NoQuery /\ P # {} /\ P \in SUBSET Id /\ walk \in {"forward", "backward", "none"}
    BY <1>1 DEF Types, TypeOK
  <2>2. QED
    BY <2>1, ReadAssumption, FS_Subset
<1>3. Highest(P) \in P /\ \A y \in P : y <= Highest(P)
  BY <1>2, HighestIs
<1>4. /\ stayed \subseteq Matching(req, bundles) /\ Matching(req, bundles) \subseteq Nat
      /\ walk # "none" => \A x \in stayed \ (seen \cup P) : \A y \in P : Beyond(x, y)
      /\ ~late => \E counted \in SUBSET Id : /\ total = Cardinality(counted)
                                             /\ Matching(req, bundles) \subseteq counted
                                             /\ P \subseteq counted
  BY <1>1, <1>2, ReadAssumption DEF Covered, Matching
<1> HIDE DEF P
<1>5. ASSUME walk = "forward", ~late, NEW x \in stayed, x \notin seen \cup P
      PROVE  Cardinality(over) + Cardinality(P) < total
  <2>1. PICK counted \in SUBSET Id : /\ total = Cardinality(counted)
                                     /\ Matching(req, bundles) \subseteq counted
                                     /\ P \subseteq counted
    BY <1>4, <1>5
  <2>2. IsFiniteSet(counted)
    BY <2>1, ReadAssumption, FS_Subset
  <2>3. over \in SUBSET counted /\ P \in SUBSET counted
    BY <2>1
  <2>4. ASSUME NEW y \in P PROVE y \notin over
    <3>1. y \in Nat /\ Highest(P) \in Nat /\ y <= Highest(P)
      BY <1>2, <1>3
    <3>2. QED
      BY <3>1
  <2>5. x \in counted /\ x \notin P
    BY <1>4, <1>5, <2>1
  <2>6. x \notin over
    <3>1. Beyond(x, Highest(P)) /\ x \in Nat /\ Highest(P) \in Nat
      BY <1>2, <1>3, <1>4, <1>5
    <3>2. QED
      BY <1>5, <3>1 DEF Beyond
  <2> HIDE DEF over
  <2>7. QED
    BY <2>1, <2>2, <2>3, <2>4, <2>5, <2>6, CountedParts
<1>6. ASSUME walk = "backward", NEW x \in stayed, x \notin seen \cup P
      PROVE  Cardinality(over) > 0
  <2>1. x \in over
    <3>1. Beyond(x, Highest(P)) /\ x \in Matching(req, bundles)
      BY <1>3, <1>4, <1>6
    <3>2. QED
      BY <1>6, <3>1 DEF Beyond
  <2>2. IsFiniteSet(over)
    <3>1. over \in SUBSET Matching(req, bundles) /\ IsFiniteSet(Matching(req, bundles))
      BY MatchingIs DEF Types, TypeOK
    <3> HIDE DEF over
    <3>2. QED
      BY <3>1, FS_Subset
  <2> HIDE DEF over
  <2>3. Cardinality(over) \in Nat /\ Cardinality(over) # 0
    BY <2>1, <2>2, FS_CardinalityType, FS_EmptySet
  <2>4. QED
    BY <2>3
<1> HIDE DEF over
<1>7. ~Truthy(NextCursor)'
  BY <1>1 DEF NextCursor, Truthy
<1>8. WalkMeetsStayingRows'
  BY <1>1 DEF WalkMeetsStayingRows, Listed
<1>9. (pc = "patches" /\ walk # "none" /\ ~(stayed \subseteq seen \cup DOMAIN page) =>
         IF walk = "forward" THEN late \/ start + Cardinality(DOMAIN page) < total
         ELSE start > 0)'
  <2> SUFFICES ASSUME walk # "none", ~(stayed \subseteq seen \cup P)
               PROVE  IF walk = "forward" THEN late \/ Cardinality(over) + Cardinality(P) < total
                      ELSE Cardinality(over) > 0
    BY <1>1 DEF P
  <2>1. PICK x \in stayed : x \notin seen \cup P
    OBVIOUS
  <2>2. QED
    BY <1>2, <1>5, <1>6, <2>1
<1>10. (\A x \in stayed \ (seen \cup DOMAIN page) : \A y \in DOMAIN page : Beyond(x, y))'
       \/ walk = "none"
  BY <1>1, <1>4 DEF Beyond, P
<1>11. QED
  BY <1>1, <1>4, <1>7, <1>8, <1>9, <1>10 DEF Covered

LEMMA CoveredReadPatches ==
  ASSUME Types, Covered, ReadPatches PROVE Covered'
<1> DEFINE P == DOMAIN page
<1>1. /\ pc = "patches" /\ pc' = "answered"
      /\ UNCHANGED <<bundles, req, total, page, start, walk, stayed, late>>
      /\ answer'.status = 200
      /\ req.verb = "list" => answer' = ListAnswer(total, start, Data)
      /\ seen' = IF walk = "none" THEN seen ELSE seen \cup P
  BY ReadPatchesIs
<1>2. stayed \subseteq Matching(req, bundles)
  BY <1>1 DEF Covered, Types, TypeOK
<1>3. CASE walk = "none"
  <2>1. ~Truthy(NextCursor)' /\ WalkMeetsStayingRows'
    BY <1>1, <1>3 DEF NextCursor, Truthy, WalkMeetsStayingRows
  <2>2. QED
    BY <1>1, <1>2, <2>1 DEF Covered
<1>4. CASE walk # "none"
  <2>1. /\ req.verb = "list" /\ P # {} /\ P \in SUBSET Id /\ walk \in {"forward", "backward"}
        /\ start \in Nat /\ total \in Nat
    BY <1>1, <1>4 DEF Types, TypeOK, Served
  <2>2. /\ P \in SUBSET Nat /\ P \in SUBSET Id /\ P # {} /\ IsFiniteSet(P) /\ Cardinality(P) \in Nat
    BY <2>1, ReadAssumption, FS_Subset, FS_CardinalityType
  <2>3. DOMAIN Data = P
    BY DataIs
  <2>4. answer'.cursors = Cursors(req, total, start, P)
    BY <1>1, <2>1, <2>3, ListAnswerIs
  <2> HIDE DEF P
  <2>5. /\ answer'.cursors.next = IF Saturated(start + Cardinality(P)) < total
                                  THEN Lowest(P) ELSE Absent
        /\ answer'.cursors.previous = IF start > 0 THEN Highest(P) ELSE Absent
    BY <2>1, <2>4 DEF Cursors
  <2>6. NextCursor' = IF walk = "forward" THEN answer'.cursors.next ELSE answer'.cursors.previous
    BY <1>1, <1>4 DEF NextCursor
  <2>7. Lowest(P) \in P /\ Highest(P) \in P
    BY <2>2, LowestIs, HighestIs
  <2>8. Truthy(Lowest(P)) /\ Truthy(Highest(P))
    BY <2>2, <2>7, ReadAssumption DEF Truthy
  <2>9. /\ \A x \in stayed \ (seen \cup P) : \A y \in P : Beyond(x, y)
        /\ ~(stayed \subseteq seen \cup P) =>
             IF walk = "forward" THEN late \/ start + Cardinality(P) < total ELSE start > 0
    BY <1>1, <1>4 DEF Covered, P
  <2>10. ASSUME Truthy(NextCursor)', NEW x \in stayed \ (seen \cup P)
         PROVE  Beyond(x, NextCursor')
    <3>1. NextCursor' \in {Lowest(P), Highest(P)}
      BY <2>5, <2>6, <2>10 DEF Truthy
    <3>2. QED
      BY <2>7, <2>9, <3>1
  <2>11. ASSUME ~Truthy(NextCursor)', walk = "forward" => ~late
         PROVE  stayed \subseteq seen \cup P
    <3>1. CASE walk = "forward"
      <4>1. ~(Saturated(start + Cardinality(P)) < total)
        BY <2>5, <2>6, <2>8, <2>11, <3>1
      <4>2. /\ start + Cardinality(P) \in Nat
            /\ Saturated(start + Cardinality(P)) \in Nat
            /\ Saturated(start + Cardinality(P)) <= start + Cardinality(P)
        BY <2>1, <2>2, SaturatedIs
      <4>3. ~(start + Cardinality(P) < total)
        BY <2>1, <4>1, <4>2
      <4>4. QED
        BY <2>9, <2>11, <3>1, <4>3
    <3>2. CASE walk = "backward"
      BY <2>5, <2>6, <2>8, <2>9, <2>11, <3>2
    <3>3. QED
      BY <2>1, <3>1, <3>2
  <2>12. seen' = seen \cup P
    BY <1>1, <1>4
  <2>13. WalkMeetsStayingRows'
    BY <1>1, <2>11, <2>12 DEF WalkMeetsStayingRows
  <2>14. (\A x \in stayed \ seen : Beyond(x, NextCursor))' \/ ~Truthy(NextCursor)'
    BY <1>1, <2>10, <2>12 DEF Beyond
  <2>15. QED
    BY <1>1, <1>2, <2>13, <2>14 DEF Covered
<1>5. QED
  BY <1>3, <1>4

LEMMA CoveredCommit ==
  ASSUME Types, Covered, NEW e \in Edit, Commit(e) PROVE Covered'
<1>1. /\ UNCHANGED <<pc, req, total, page, start, answer, walk, seen>>
      /\ stayed' \subseteq stayed /\ late' \in BOOLEAN
      /\ req # NoQuery =>
           /\ stayed' = stayed \cap Matching(req, bundles')
           /\ late' = (late \/ /\ pc \in {"page", "start"}
                               /\ ~(Matching(req, bundles') \subseteq Matching(req, bundles)))
      /\ req = NoQuery => UNCHANGED <<stayed, late, touched>>
  BY CommitIs
<1>2. NextCursor' = NextCursor /\ (Truthy(NextCursor)' <=> Truthy(NextCursor))
  BY <1>1 DEF NextCursor, Truthy
<1>3. late => late'
  BY <1>1
<1>4. stayed' \subseteq Matching(req, bundles') \/ req = NoQuery
  BY <1>1
<1>5. ASSUME pc \in {"page", "start"}, ~late'
      PROVE  \E counted \in SUBSET Id : /\ total = Cardinality(counted)
                                        /\ Matching(req, bundles') \subseteq counted
                                        /\ pc = "start" => DOMAIN page \subseteq counted
  <2>1. req # NoQuery
    BY <1>5 DEF Types, TypeOK
  <2>2. ~late /\ Matching(req, bundles') \subseteq Matching(req, bundles)
    BY <1>1, <1>5, <2>1
  <2>3. PICK counted \in SUBSET Id : /\ total = Cardinality(counted)
                                     /\ Matching(req, bundles) \subseteq counted
                                     /\ pc = "start" => DOMAIN page \subseteq counted
    BY <1>5, <2>2 DEF Covered
  <2>4. QED
    BY <2>2, <2>3
<1>6. WalkMeetsStayingRows'
  BY <1>1, <1>2, <1>3 DEF Covered, WalkMeetsStayingRows, Listed
<1>7. (\A x \in stayed' \ seen : PastCursor(req, x)) \/ ~(pc \in {"total", "page"} /\ walk # "none")
  BY <1>1 DEF Covered
<1>8. \/ \A x \in stayed' \ (seen \cup DOMAIN page) : \A y \in DOMAIN page : Beyond(x, y)
      \/ ~(pc \in {"start", "patches"} /\ walk # "none")
  BY <1>1 DEF Covered
<1>9. (\A x \in stayed' \ seen : Beyond(x, NextCursor)) \/ ~Truthy(NextCursor)
  BY <1>1 DEF Covered
<1>10. pc = "patches" /\ walk # "none" /\ ~(stayed' \subseteq seen \cup DOMAIN page) =>
         IF walk = "forward" THEN late' \/ start + Cardinality(DOMAIN page) < total
         ELSE start > 0
  BY <1>1, <1>3 DEF Covered
<1>11. QED
  BY <1>1, <1>2, <1>4, <1>5, <1>6, <1>7, <1>8, <1>9, <1>10 DEF Covered, Beyond

LEMMA CoveredNext == Types /\ Covered /\ [Next]_vars => Covered'
<1> SUFFICES ASSUME Types, Covered, [Next]_vars PROVE Covered'
  OBVIOUS
<1>1. ASSUME pc' = "answered", ~Truthy(NextCursor)', ~Listed' \/ walk' = "none",
             UNCHANGED <<bundles, req, stayed>>
      PROVE  Covered'
  BY <1>1 DEF Covered, WalkMeetsStayingRows
<1>2. ASSUME NEW q \in Query, Receive(q) PROVE Covered'
  BY <1>2, CoveredReceive
<1>3. CASE Follow
  BY <1>3, CoveredFollow
<1>4. CASE ReadTotal
  BY <1>4, CoveredReadTotal
<1>5. CASE ReadPage
  BY <1>5, CoveredReadPage
<1>6. CASE ReadStart
  BY <1>6, CoveredReadStart
<1>7. CASE ReadRow
  <2>1. pc = "row" /\ UNCHANGED <<bundles, req, walk, stayed, late>>
    BY <1>7 DEF ReadRow, tables, observed
  <2>2. req.verb = "get" /\ walk = "none"
    BY <2>1 DEF Types, Served
  <2>3. ~Truthy(NextCursor)'
    BY <2>1, <2>2 DEF NextCursor, Truthy
  <2>4. pc' \in {"patches", "answered"}
    BY <1>7 DEF ReadRow, Reply
  <2>5. WalkMeetsStayingRows'
    BY <2>1, <2>2 DEF WalkMeetsStayingRows
  <2>6. QED
    BY <2>1, <2>2, <2>3, <2>4, <2>5 DEF Covered
<1>8. CASE ReadPatches
  BY <1>8, CoveredReadPatches
<1>9. CASE ReadChannels
  <2>1. pc' = "answered" /\ walk = "none" /\ UNCHANGED <<bundles, req, walk, stayed>>
    BY <1>9, ReadChannelsIs
  <2>2. ~Truthy(NextCursor)'
    BY <2>1 DEF NextCursor, Truthy
  <2>3. QED
    BY <1>1, <2>1, <2>2
<1>10. CASE Fail
  <2>1. pc' = "answered" /\ answer'.status # 200 /\ UNCHANGED <<bundles, req, walk, stayed>>
    BY <1>10, FailIs
  <2>2. ~Truthy(NextCursor)' /\ ~Listed'
    BY <2>1 DEF NextCursor, Truthy, Listed
  <2>3. QED
    BY <1>1, <2>1, <2>2
<1>11. ASSUME NEW e \in Edit, Commit(e) PROVE Covered'
  BY <1>11, CoveredCommit
<1>12. CASE UNCHANGED vars
  <2>1. NextCursor' = NextCursor /\ (WalkMeetsStayingRows' <=> WalkMeetsStayingRows)
    BY <1>12 DEF vars, NextCursor, WalkMeetsStayingRows, Listed, Truthy
  <2>2. QED
    BY <1>12, <2>1 DEF vars, Covered, Beyond, Truthy
<1>13. QED
  BY <1>2, <1>3, <1>4, <1>5, <1>6, <1>7, <1>8, <1>9, <1>10, <1>11, <1>12 DEF Next, Read

\* A walk that is followed to the end has been shown every row that passed its
\* filters all the way, whatever the writers did meanwhile: backwards always,
\* forwards unless a row came to match between the counts of one request.
THEOREM NoStayingRowMissed == Spec => []WalkMeetsStayingRows
<1>1. Init => Types /\ Covered
  <2>1. Init => Covered
    BY DEF Init, Covered, NextCursor, Truthy, WalkMeetsStayingRows, Listed
  <2>2. QED
    BY <2>1, TypesInit
<1>2. Types /\ Covered /\ [Next]_vars => (Types /\ Covered)'
  BY TypesNext, CoveredNext
<1>3. Covered => WalkMeetsStayingRows
  BY DEF Covered
<1>4. QED
  BY <1>1, <1>2, <1>3, PTL DEF Spec

-----------------------------------------------------------------------------
(* Counts, page numbers and offsets.                                       *)

LEMMA ProductGrows ==
  ASSUME NEW m \in Nat, NEW n \in Nat, NEW limit \in Nat, m < n
  PROVE  m * limit + limit <= n * limit
<1> DEFINE d == n - m - 1
<1>1. d \in Nat
  OBVIOUS
<1>2. d * limit \in Nat
  BY <1>1, ProductIsNatural
<1>3. n * limit = m * limit + limit + d * limit
  OBVIOUS
<1>4. m * limit \in Nat /\ n * limit \in Nat
  BY ProductIsNatural
<1> HIDE DEF d
<1>5. QED
  BY <1>2, <1>3, <1>4

\* The last page holds the last row.
LEMMA PagesAre ==
  ASSUME NEW count \in Nat, NEW limit \in Nat \ {0}
  PROVE  /\ Pages(count, limit) \in Nat /\ limit * Pages(count, limit) \in Nat
         /\ limit * Pages(count, limit) \in count..(count + limit - 1)
         /\ count = 0 <=> Pages(count, limit) = 0
<1> DEFINE whole == count \div limit
           rest == count % limit
<1>1. whole \in Nat /\ rest \in 0..(limit - 1)
  OBVIOUS
<1>2. count = limit * whole + rest
  OBVIOUS
<1>3. Pages(count, limit) = whole + (IF rest = 0 THEN 0 ELSE 1)
  BY DEF Pages
<1>4. limit * whole \in Nat /\ limit * (whole + 1) = limit * whole + limit
  BY <1>1, ProductIsNatural
<1>5. count = 0 => whole = 0 /\ rest = 0
  OBVIOUS
<1>6. whole = 0 => limit * whole = 0
  OBVIOUS
<1> HIDE DEF whole, rest
<1>7. CASE rest = 0
  <2>1. Pages(count, limit) = whole
    BY <1>1, <1>3, <1>7
  <2>2. count = limit * whole
    BY <1>1, <1>2, <1>4, <1>7
  <2>3. QED
    BY <1>1, <1>4, <1>5, <1>6, <2>1, <2>2
<1>8. CASE rest # 0
  <2>1. Pages(count, limit) = whole + 1
    BY <1>1, <1>3, <1>8
  <2>2. /\ limit * Pages(count, limit) = limit * whole + limit
        /\ count + limit - 1 = limit * whole + rest + limit - 1
    BY <1>2, <1>4, <2>1
  <2>3. QED
    BY <1>1, <1>2, <1>4, <1>5, <1>8, <2>1, <2>2
<1>9. QED
  BY <1>7, <1>8

LEMMA SaturatedBelow ==
  ASSUME NEW n \in Nat
  PROVE  (n <= I64Max => Saturated(n) = n) /\ (Saturated(n) < I64Max => Saturated(n) = n)
BY ReadAssumption DEF Saturated

LEMMA PagesOfQuery ==
  ASSUME NEW q \in QueryType, Refusal(q) = 200, q.verb = "list", NEW count \in Nat
  PROVE  /\ Pages(count, Limit(q)) \in Nat /\ Limit(q) * Pages(count, Limit(q)) \in Nat
         /\ Limit(q) * Pages(count, Limit(q)) \in count..(count + Limit(q) - 1)
         /\ count = 0 <=> Pages(count, Limit(q)) = 0
<1>1. PICK size \in Nat \ {0} : size = Limit(q)
  BY ServedFacts
<1>2. /\ Pages(count, size) \in Nat /\ size * Pages(count, size) \in Nat
      /\ size * Pages(count, size) \in count..(count + size - 1)
      /\ count = 0 <=> Pages(count, size) = 0
  BY PagesAre
<1>3. QED
  BY <1>1, <1>2

\* A page number names a page, the last one if there are not as many, also
\* where its product with the limit leaves i64.
LEMMA OffsetIs ==
  ASSUME NEW q \in QueryType, Refusal(q) = 200, q.verb = "list", q.page # Absent,
         NEW count \in Nat, count <= I64Max
  PROVE  \E number \in Nat \ {0} :
           /\ Offset(q, count) = (number - 1) * Limit(q)
           /\ Offset(q, count) \div Limit(q) + 1 = number
           /\ number = q.page \/ (number < q.page
                                  /\ number = (IF count = 0 THEN 1 ELSE Pages(count, Limit(q))))
           /\ count = 0 => number = 1
<1> DEFINE size == Limit(q)
           p == q.page
           pages == Pages(count, size)
           asked == Saturated((Saturated(p) - 1) * size)
<1>1. size \in Nat \ {0} /\ p \in Nat /\ p # 0
  BY ServedFacts
<1>2. /\ Saturated(p) \in Nat /\ Saturated(p) <= p /\ Saturated(p) # 0
      /\ Saturated(p) - 1 \in Nat
  <2>1. Saturated(p) \in Nat /\ Saturated(p) <= p /\ Saturated(p) # 0
    BY <1>1, SaturatedIs
  <2>2. QED
    BY <2>1
<1>3. /\ (Saturated(p) - 1) * size \in Nat
      /\ asked \in Nat /\ asked <= (Saturated(p) - 1) * size
      /\ asked < I64Max => asked = (Saturated(p) - 1) * size
  <2>1. (Saturated(p) - 1) * size \in Nat
    BY <1>1, <1>2, ProductIsNatural
  <2>2. QED
    BY <2>1, SaturatedIs, SaturatedBelow
<1>4. /\ pages \in Nat /\ size * pages \in Nat /\ size * pages \in count..(count + size - 1)
      /\ count = 0 <=> pages = 0
  BY PagesOfQuery
<1>5. Offset(q, count) =
        LET last == IF pages = 0 THEN 0 ELSE Saturated((pages - 1) * size)
        IN  IF asked < last THEN asked ELSE last
  BY DEF Offset
<1>6. \A n \in Nat \ {0} : ((n - 1) * size) \div size + 1 = n
  <2>1. \A m \in Nat : (m * size) \div size = m
    BY <1>1
  <2>2. QED
    BY <2>1
<1>7. I64Max \in Nat \ {0}
  BY ReadAssumption
<1> HIDE DEF size, p, pages, asked
<1>8. CASE pages = 0
  <2>1. Offset(q, count) = 0 /\ count = 0
    BY <1>3, <1>4, <1>5, <1>8
  <2>2. Offset(q, count) = (1 - 1) * size
    BY <1>1, <2>1
  <2>3. Offset(q, count) \div size + 1 = 1
    BY <1>6, <2>2
  <2>4. 1 = p \/ (1 < p /\ 1 = (IF count = 0 THEN 1 ELSE pages))
    BY <1>1, <2>1
  <2>5. QED
    BY <2>2, <2>3, <2>4 DEF size, p, pages
<1>9. CASE pages # 0
  <2> DEFINE last == (pages - 1) * size
  <2>1. last \in Nat /\ last < count /\ pages - 1 \in Nat
    <3>1. pages - 1 \in Nat
      BY <1>4, <1>9
    <3>2. last \in Nat
      BY <1>1, <3>1, ProductIsNatural
    <3>3. last = size * pages - size
      BY <1>1, <1>4
    <3>4. QED
      BY <1>1, <1>4, <3>1, <3>2, <3>3
  <2>2. Saturated(last) = last
    BY <1>7, <2>1, SaturatedBelow
  <2>3. Offset(q, count) = IF asked < last THEN asked ELSE last
    BY <1>5, <1>9, <2>2
  <2>4. CASE asked < last
    <3>1. asked = (Saturated(p) - 1) * size /\ asked < I64Max - 1
      BY <1>3, <1>7, <2>1, <2>4
    <3>2. Saturated(p) = p
      <4>1. Saturated(p) - 1 <= (Saturated(p) - 1) * size
        <5>1. size - 1 \in Nat
          BY <1>1
        <5>2. (Saturated(p) - 1) * (size - 1) \in Nat
          BY <1>2, <5>1, ProductIsNatural
        <5>3. (Saturated(p) - 1) * size = (Saturated(p) - 1) * (size - 1) + (Saturated(p) - 1)
          BY <1>1, <1>2
        <5>4. QED
          BY <1>2, <1>3, <5>2, <5>3
      <4>2. Saturated(p) < I64Max
        BY <1>2, <1>3, <1>7, <3>1, <4>1
      <4>3. QED
        BY <1>1, <4>2, SaturatedBelow
    <3>3. p \in Nat \ {0} /\ Offset(q, count) = (p - 1) * size
      BY <1>1, <2>3, <2>4, <3>1, <3>2
    <3>4. Offset(q, count) \div size + 1 = p
      BY <1>6, <3>3
    <3>5. count # 0
      BY <1>4, <1>9
    <3>6. QED
      BY <3>3, <3>4, <3>5 DEF size, p
  <2>5. CASE ~(asked < last)
    <3>1. pages \in Nat \ {0} /\ Offset(q, count) = (pages - 1) * size
      BY <1>4, <1>9, <2>3, <2>5
    <3>2. Offset(q, count) \div size + 1 = pages
      BY <1>6, <3>1
    <3>3. ~(Saturated(p) - 1 < pages - 1)
      <4>1. last <= (Saturated(p) - 1) * size
        BY <1>3, <2>1, <2>5
      <4>2. QED
        BY <1>1, <1>2, <1>3, <2>1, <4>1, ProductGrows
    <3>4. pages = p \/ pages < p
      BY <1>1, <1>2, <1>4, <3>3
    <3>5. count # 0
      BY <1>4, <1>9
    <3>6. QED
      BY <3>1, <3>2, <3>4, <3>5 DEF size, p, pages
  <2>6. QED
    BY <2>4, <2>5
<1>10. QED
  BY <1>8, <1>9

-----------------------------------------------------------------------------
(* What an answer shows of a catalog that does not change.                 *)

\* The rows above one, the greatest id first.
Above(all, id) == Cardinality({ x \in all : x > id })

LEMMA PlaceIs ==
  ASSUME NEW all \in SUBSET Nat, IsFiniteSet(all), NEW id \in all
  PROVE  /\ Above(all, id) \in Nat
         /\ Cardinality({ x \in all : x >= id }) = Above(all, id) + 1
<1> DEFINE front == { x \in all : x > id }
<1>1. IsFiniteSet(front)
  BY FS_Subset
<1>2. id \in Nat /\ all \subseteq Nat
  OBVIOUS
<1>3. ASSUME NEW x \in all
      PROVE  /\ x >= id <=> x \in front \/ x = id
             /\ x \in front => x # id
  <2>1. x \in Nat
    OBVIOUS
  <2>2. QED
    BY <1>2, <2>1
<1>4. front \subseteq all
  OBVIOUS
<1> HIDE DEF front
<1>5. { x \in all : x >= id } = front \cup {id} /\ id \notin front
  BY <1>3, <1>4
<1>6. QED
  BY <1>1, <1>5, FS_AddElement, FS_CardinalityType DEF Above, front

\* Without a cursor the rows above a page are as many as its offset.
LEMMA OverIs ==
  ASSUME NEW all \in SUBSET Nat, IsFiniteSet(all), NEW limit \in Nat \ {0}, NEW offset \in Nat,
         PageOf(all, TRUE, limit, offset) # {}
  PROVE  Cardinality({ x \in all : x > Highest(PageOf(all, TRUE, limit, offset)) }) = offset
<1> DEFINE P == PageOf(all, TRUE, limit, offset)
<1>0. P = { x \in all : offset <= Rank(all, TRUE, x) /\ Rank(all, TRUE, x) < offset + limit }
  BY DEF PageOf, Rank, Front, Leads
<1>1. PICK y \in P : TRUE
  OBVIOUS
<1>2. y \in all /\ offset <= Rank(all, TRUE, y)
  <2> HIDE DEF P
  <2>1. QED
    BY <1>1, <1>0
<1>3. PICK z \in P : /\ Rank(all, TRUE, z) = offset
                     /\ \A v \in P : v = z \/ Leads(TRUE, z, v)
  BY <1>2, PageStarts
<1>4. P \in SUBSET all /\ P \in SUBSET Nat /\ IsFiniteSet(P)
  <2> HIDE DEF P
  <2>1. P \in SUBSET all
    BY <1>0
  <2>2. QED
    BY <2>1, FS_Subset
<1> HIDE DEF P
<1>5. Highest(P) \in P /\ \A v \in P : v <= Highest(P)
  BY <1>1, <1>4, HighestIs
<1>6. Highest(P) = z
  <2>1. Highest(P) = z \/ z > Highest(P)
    BY <1>3, <1>5 DEF Leads
  <2>2. z <= Highest(P) /\ z \in Nat /\ Highest(P) \in Nat
    BY <1>4, <1>5
  <2>3. ~(z > Highest(P))
    BY <2>2
  <2>4. QED
    BY <2>1, <2>3
<1>7. { x \in all : x > z } = Front(all, TRUE, z)
  BY DEF Front, Leads
<1>8. QED
  BY <1>3, <1>6, <1>7 DEF Rank, P

\* No row of the filters is skipped between two of a page: those between them
\* are past the cursor as they are.
LEMMA PageHasNoGaps ==
  ASSUME Types, Reading, req.verb = "list", PageIds # {}
  PROVE  \A x \in Matching(req, bundles) :
            x \in PageIds \/ x > Highest(PageIds) \/ x < Lowest(PageIds)
<1>1. /\ req \in QueryType /\ Refusal(req) = 200 /\ bundles \in [Key -> Row \cup {NoRow}]
      /\ Offset(req, total) \in Nat
  BY ReadingFacts
<1>2. Limit(req) \in Nat \ {0}
  BY <1>1, ServedFacts
<1>3. Ahead \in SUBSET Nat /\ IsFiniteSet(Ahead) /\ PageIds \in SUBSET Ahead
  BY <1>1, AheadIs
<1>4. Matching(req, bundles) \in SUBSET Nat
  BY <1>1, MatchingIs
<1>5. PageIds \in SUBSET Nat /\ IsFiniteSet(PageIds)
  BY <1>3, FS_Subset
<1>6. Highest(PageIds) \in PageIds /\ Lowest(PageIds) \in PageIds
  BY <1>5, HighestIs, LowestIs
<1> DEFINE top == Highest(PageIds)
           bottom == Lowest(PageIds)
<1>7. top \in Nat /\ bottom \in Nat /\ top \in Ahead /\ bottom \in Ahead
  BY <1>3, <1>5, <1>6
<1>8. ASSUME NEW x \in Matching(req, bundles), ~(x > top), ~(x < bottom), x # top, x # bottom
      PROVE  x \in PageIds
  <2>1. x \in Nat /\ bottom < x /\ x < top
    BY <1>4, <1>7, <1>8
  <2>2. PastCursor(req, top) /\ PastCursor(req, bottom)
    BY <1>7 DEF Ahead
  <2>3. PastCursor(req, x)
    <3>1. CASE ~HasCursor(req)
      BY <3>1 DEF PastCursor
    <3>2. CASE HasCursor(req) /\ Truthy(req.after)
      <4>1. req.after \in Nat /\ top < req.after
        BY <1>1, <2>2, <3>2, QueryFacts, ReadAssumption DEF PastCursor, Truthy, Cursor
      <4>2. x < req.after
        BY <1>7, <2>1, <4>1
      <4>3. QED
        BY <3>2, <4>2 DEF PastCursor
    <3>3. CASE HasCursor(req) /\ ~Truthy(req.after)
      <4>1. Truthy(req.before)
        BY <3>3 DEF HasCursor
      <4>2. req.before \in Nat /\ bottom > req.before
        BY <1>1, <2>2, <3>3, <4>1, QueryFacts, ReadAssumption DEF PastCursor, Truthy, Cursor
      <4>3. x > req.before
        BY <1>7, <2>1, <4>2
      <4>4. QED
        BY <3>3, <4>3 DEF PastCursor
    <3>4. QED
      BY <3>1, <3>2, <3>3
  <2>4. x \in Ahead
    BY <2>3 DEF Ahead
  <2>5. \/ Leads(~Reversed(req), top, x) /\ Leads(~Reversed(req), x, bottom)
        \/ Leads(~Reversed(req), bottom, x) /\ Leads(~Reversed(req), x, top)
    BY <1>7, <2>1 DEF Leads
  <2>6. (~Reversed(req)) \in BOOLEAN
    OBVIOUS
  <2>7. PageIds = PageOf(Ahead, ~Reversed(req), Limit(req), Offset(req, total))
    BY DEF PageIds
  <2>8. QED
    BY <1>1, <1>2, <1>3, <1>6, <2>4, <2>5, <2>6, <2>7, PageIsConvex
<1>9. QED
  BY <1>6, <1>8

\* The index of the first row of the page that is read.
PageStart == IF HasCursor(req)
             THEN Cardinality({ id \in Matching(req, bundles) : id > Highest(PageIds) })
             ELSE Offset(req, total)

\* Nothing has changed since the request, and the first count was right.
Still == total = Cardinality(Matching(req, bundles))

LEMMA PageStartIs ==
  ASSUME Types, Reading, req.verb = "list", PageIds # {}
  PROVE  PageStart = Cardinality({ id \in Matching(req, bundles) : id > Highest(PageIds) })
<1>1. CASE HasCursor(req)
  BY <1>1 DEF PageStart
<1>2. CASE ~HasCursor(req)
  <2>1. /\ req \in QueryType /\ Refusal(req) = 200 /\ bundles \in [Key -> Row \cup {NoRow}]
        /\ Offset(req, total) \in Nat
    BY ReadingFacts
  <2>2. Limit(req) \in Nat \ {0}
    BY <2>1, ServedFacts
  <2>3. Matching(req, bundles) \in SUBSET Nat /\ IsFiniteSet(Matching(req, bundles))
    BY <2>1, MatchingIs
  <2>4. Ahead = Matching(req, bundles)
    BY <1>2 DEF Ahead, PastCursor
  <2>5. PageIds = PageOf(Matching(req, bundles), TRUE, Limit(req), Offset(req, total))
    BY <1>2, <2>4 DEF PageIds, Reversed
  <2>6. PageOf(Matching(req, bundles), TRUE, Limit(req), Offset(req, total)) # {}
    BY <2>5
  <2>7. Cardinality({ id \in Matching(req, bundles) :
                        id > Highest(PageOf(Matching(req, bundles), TRUE, Limit(req), Offset(req, total))) })
          = Offset(req, total)
    BY <2>1, <2>2, <2>3, <2>6, OverIs
  <2>8. QED
    BY <1>2, <2>5, <2>7 DEF PageStart
<1>3. QED
  BY <1>1, <1>2

\* A cursor on exactly the sides where rows remain.
LEMMA ExactCursors ==
  ASSUME Types, Reading, req.verb = "list", PageIds # {}, Still
  PROVE  LET c == Cursors(req, total, PageStart, PageIds)
             all == Matching(req, bundles)
         IN  /\ PageStart \in Nat
             /\ c.next = IF \E x \in all : \A y \in PageIds : x < y THEN Lowest(PageIds) ELSE Absent
             /\ c.previous = IF \E x \in all : \A y \in PageIds : x > y THEN Highest(PageIds) ELSE Absent
             /\ PageStart > 0 <=> c.previous # Absent
<1> DEFINE all == Matching(req, bundles)
           over == { id \in all : id > Highest(PageIds) }
<1>1. bundles \in [Key -> Row \cup {NoRow}]
  BY ReadingFacts
<1>2. all \in SUBSET Nat /\ IsFiniteSet(all) /\ PageIds \in SUBSET all /\ all \in SUBSET Id
  BY <1>1, MatchingIs, AheadIs
<1>3. \A x \in all : x \in PageIds \/ x > Highest(PageIds) \/ x < Lowest(PageIds)
  BY PageHasNoGaps
<1>4. /\ Cardinality(over) \in Nat /\ Cardinality(PageIds) \in Nat /\ Cardinality(all) \in Nat
      /\ Cardinality(over) + Cardinality(PageIds) <= Cardinality(all)
      /\ Cardinality(over) + Cardinality(PageIds) < Cardinality(all)
           <=> \E x \in all : \A y \in PageIds : x < y
      /\ Cardinality(over) > 0 <=> \E x \in all : \A y \in PageIds : x > y
  <2> HIDE DEF all
  <2>1. QED
    BY <1>2, <1>3, Straddle
<1>5. PageStart = Cardinality(over)
  BY PageStartIs
<1>6. Cardinality(all) <= I64Max
  <2>1. Cardinality(all) <= Cardinality(Id) /\ Cardinality(Id) \in Nat
    BY <1>2, ReadAssumption, FS_Subset, FS_CardinalityType
  <2>2. QED
    BY <1>4, <2>1, CountAssumption, ReadAssumption
<1>7. Saturated(PageStart + Cardinality(PageIds)) = PageStart + Cardinality(PageIds)
  <2>1. PageStart + Cardinality(PageIds) \in Nat /\ PageStart + Cardinality(PageIds) <= I64Max
    BY <1>4, <1>5, <1>6, ReadAssumption
  <2>2. QED
    BY <2>1, SaturatedBelow
<1>8. total = Cardinality(all)
  BY DEF Still
<1>9. Highest(PageIds) # Absent
  <2>1. PageIds \in SUBSET Nat /\ IsFiniteSet(PageIds)
    BY <1>2, FS_Subset
  <2>2. Highest(PageIds) \in Id
    BY <1>2, <2>1, HighestIs
  <2>3. QED
    BY <2>2, ReadAssumption
<1> DEFINE c == Cursors(req, total, PageStart, PageIds)
<1>10. /\ c.next = IF PageStart + Cardinality(PageIds) < total THEN Lowest(PageIds) ELSE Absent
       /\ c.previous = IF PageStart > 0 THEN Highest(PageIds) ELSE Absent
  BY <1>7 DEF Cursors
<1> HIDE DEF c, all, over
<1>11. QED
  BY <1>4, <1>5, <1>8, <1>9, <1>10 DEF c, all

\* IsExact over the rows that match.
ExactOf(q, a, all) ==
  LET ahead == { id \in all : PastCursor(q, id) }
      ids == DOMAIN a.data
      Place(id) == Cardinality({ x \in all : x >= id })
      number == a.meta.currentPage
  IN
  /\ a.total = Cardinality(all)
  /\ a.meta.totalPages \in Nat
  /\ Limit(q) * a.meta.totalPages \in Cardinality(all)..(Cardinality(all) + Limit(q) - 1)
  /\ IF q.page # Absent
     THEN /\ number = q.page \/ (number < q.page /\ number = (IF all = {} THEN 1 ELSE a.meta.totalPages))
          /\ ids = { id \in all : Place(id) \in ((number - 1) * Limit(q) + 1)..(number * Limit(q)) }
     ELSE /\ ids \subseteq ahead
          /\ \A x \in ahead \ ids :
                /\ Cardinality(ids) = Limit(q)
                /\ \A y \in ids : IF Reversed(q) THEN y < x ELSE y > x
  /\ ids # {} => /\ a.cursors.next = IF \E x \in all : \A y \in ids : x < y
                                     THEN Lowest(ids) ELSE Absent
                 /\ a.cursors.previous = IF \E x \in all : \A y \in ids : x > y
                                         THEN Highest(ids) ELSE Absent
                 /\ a.meta.hasPreviousPage = (a.cursors.previous # Absent)

\* The index an answer gives its first row.
Index == IF PageIds = {} THEN FirstRow ELSE PageStart

LEMMA StillFacts ==
  ASSUME Types, Reading, req.verb = "list", Still
  PROVE  LET all == Matching(req, bundles)
         IN  /\ req \in QueryType /\ Refusal(req) = 200
             /\ bundles \in [Key -> Row \cup {NoRow}]
             /\ Limit(req) \in Nat \ {0} /\ Offset(req, total) \in Nat
             /\ all \in SUBSET Nat /\ IsFiniteSet(all)
             /\ total = Cardinality(all) /\ total \in Nat /\ total <= I64Max
             /\ total = 0 <=> all = {}
<1> DEFINE all == Matching(req, bundles)
<1>1. /\ req \in QueryType /\ Refusal(req) = 200 /\ bundles \in [Key -> Row \cup {NoRow}]
      /\ Offset(req, total) \in Nat /\ total \in Nat
  BY ReadingFacts
<1>2. Limit(req) \in Nat \ {0}
  BY <1>1, ServedFacts
<1>3. all \in SUBSET Nat /\ IsFiniteSet(all) /\ all \in SUBSET Id
  BY <1>1, MatchingIs
<1>4. total = Cardinality(all)
  BY DEF Still
<1> HIDE DEF all
<1>5. total <= I64Max
  <2>1. Cardinality(all) <= Cardinality(Id) /\ Cardinality(Id) \in Nat
    BY <1>3, ReadAssumption, FS_Subset, FS_CardinalityType
  <2>2. QED
    BY <1>1, <1>4, <2>1, CountAssumption, ReadAssumption
<1>6. total = 0 <=> all = {}
  BY <1>3, <1>4, FS_EmptySet
<1>7. QED
  BY <1>1, <1>2, <1>3, <1>4, <1>5, <1>6 DEF all

LEMMA PlacesAre ==
  ASSUME NEW all \in SUBSET Nat, IsFiniteSet(all), NEW size \in Nat, NEW offset \in Nat
  PROVE  { x \in all : offset <= Above(all, x) /\ Above(all, x) < offset + size }
           = { id \in all : Cardinality({ x \in all : x >= id }) \in (offset + 1)..(offset + size) }
<1>1. ASSUME NEW id \in all
      PROVE  offset <= Above(all, id) /\ Above(all, id) < offset + size
             <=> Cardinality({ x \in all : x >= id }) \in (offset + 1)..(offset + size)
  <2>1. Above(all, id) \in Nat /\ Cardinality({ x \in all : x >= id }) = Above(all, id) + 1
    BY PlaceIs
  <2> DEFINE place == Cardinality({ x \in all : x >= id })
  <2>2. place = Above(all, id) + 1
    BY <2>1
  <2> HIDE DEF place
  <2>3. offset <= Above(all, id) /\ Above(all, id) < offset + size
        <=> place \in (offset + 1)..(offset + size)
    BY <2>1, <2>2
  <2>4. QED
    BY <2>3 DEF place
<1>2. QED
  BY <1>1

\* A page by number is the page of that number.
LEMMA ExactNumber ==
  ASSUME Types, Reading, req.verb = "list", Still, req.page # Absent
  PROVE  LET all == Matching(req, bundles)
             meta == Pagination(req, total, Index)
             number == meta.currentPage
             Place(id) == Cardinality({ x \in all : x >= id })
         IN  /\ \/ number = req.page
                \/ number < req.page /\ number = (IF all = {} THEN 1 ELSE meta.totalPages)
             /\ PageIds = { id \in all :
                              Place(id) \in ((number - 1) * Limit(req) + 1)..(number * Limit(req)) }
<1> DEFINE all == Matching(req, bundles)
           meta == Pagination(req, total, Index)
           offset == Offset(req, total)
           size == Limit(req)
<1>1. /\ req \in QueryType /\ Refusal(req) = 200 /\ size \in Nat \ {0} /\ offset \in Nat
      /\ all \in SUBSET Nat /\ IsFiniteSet(all)
      /\ total = Cardinality(all) /\ total \in Nat /\ total <= I64Max
      /\ total = 0 <=> all = {}
  BY StillFacts
<1>2. ~HasCursor(req) /\ ~Reversed(req) /\ Ahead = all
  BY DEF HasCursor, Reversed, Ahead, PastCursor
<1>3. PageIds = { x \in all : offset <= Above(all, x) /\ Above(all, x) < offset + size }
  BY <1>2 DEF PageIds, PageOf, Above
<1>4. Index = offset
  BY <1>2 DEF Index, FirstRow, PageStart
<1>5. PICK number \in Nat \ {0} :
           /\ offset = (number - 1) * size /\ offset \div size + 1 = number
           /\ number = req.page \/ (number < req.page
                                    /\ number = (IF total = 0 THEN 1 ELSE Pages(total, size)))
           /\ total = 0 => number = 1
  BY <1>1, OffsetIs
<1>6. /\ meta.currentPage = number
      /\ total # 0 => meta.totalPages = Pages(total, size)
  <2>1. CASE total = 0
    BY <1>5, <2>1 DEF Pagination
  <2>2. CASE total # 0
    BY <1>4, <1>5, <2>2 DEF Pagination
  <2>3. QED
    BY <2>1, <2>2
<1>7. \/ number = req.page
      \/ number < req.page /\ number = (IF all = {} THEN 1 ELSE meta.totalPages)
  <2> HIDE DEF meta, all, size
  <2>1. QED
    BY <1>1, <1>5, <1>6
<1>8. PageIds = { id \in all : Cardinality({ x \in all : x >= id })
                                 \in ((number - 1) * size + 1)..(number * size) }
  <2>1. number * size = offset + size
    BY <1>1, <1>5
  <2>2. { x \in all : offset <= Above(all, x) /\ Above(all, x) < offset + size }
          = { id \in all : Cardinality({ x \in all : x >= id }) \in (offset + 1)..(offset + size) }
    BY <1>1, PlacesAre
  <2> HIDE DEF all, offset, size
  <2>3. QED
    BY <1>3, <1>5, <2>1, <2>2
<1>9. QED
  BY <1>6, <1>7, <1>8

\* A page by cursor holds the rows nearest to the cursor.
LEMMA ExactNearest ==
  ASSUME Types, Reading, req.verb = "list", Still, req.page = Absent
  PROVE  /\ PageIds \subseteq Ahead
         /\ \A x \in Ahead \ PageIds :
               /\ Cardinality(PageIds) = Limit(req)
               /\ \A y \in PageIds : IF Reversed(req) THEN y < x ELSE y > x
<1>1. Limit(req) \in Nat \ {0} /\ bundles \in [Key -> Row \cup {NoRow}]
  BY StillFacts
<1>2. Ahead \in SUBSET Nat /\ IsFiniteSet(Ahead) /\ PageIds \in SUBSET Ahead
  BY <1>1, AheadIs
<1>3. Offset(req, total) = 0
  BY DEF Offset
<1> DEFINE descending == ~Reversed(req)
<1>4. PageIds = PageOf(Ahead, descending, Limit(req), 0)
  BY <1>3 DEF PageIds
<1>5. descending \in BOOLEAN /\ (descending <=> ~Reversed(req))
  OBVIOUS
<1> HIDE DEF descending
<1>6. ASSUME NEW x \in Ahead \ PageIds
      PROVE  /\ Cardinality(PageIds) = Limit(req)
             /\ \A y \in PageIds : Leads(descending, y, x)
  <2>1. Rank(Ahead, descending, x) \in Nat
    BY <1>2, <1>5, RankGrows
  <2>2. ~(0 <= Rank(Ahead, descending, x) /\ Rank(Ahead, descending, x) < 0 + Limit(req))
    BY <1>2, <1>4, <1>5, PageIs
  <2>3. 0 + Limit(req) <= Rank(Ahead, descending, x)
    BY <1>1, <2>1, <2>2
  <2>4. QED
    BY <1>1, <1>2, <1>4, <1>5, <2>3, PageIsFull
<1>7. QED
  BY <1>2, <1>5, <1>6 DEF Leads

LEMMA ExactAnswer ==
  ASSUME Types, Reading, req.verb = "list", Still, NEW a,
         a.total = total, DOMAIN a.data = PageIds,
         a.cursors = Cursors(req, total, Index, PageIds),
         a.meta = Pagination(req, total, Index)
  PROVE  ExactOf(req, a, Matching(req, bundles))
<1> DEFINE all == Matching(req, bundles)
           size == Limit(req)
<1>1. /\ size \in Nat \ {0} /\ total = Cardinality(all) /\ total \in Nat
      /\ total = 0 <=> all = {}
      /\ req \in QueryType /\ Refusal(req) = 200
      /\ bundles \in [Key -> Row \cup {NoRow}]
  BY StillFacts
<1>2. /\ a.meta.totalPages \in Nat
      /\ size * a.meta.totalPages \in Cardinality(all)..(Cardinality(all) + size - 1)
  <2>1. /\ Pages(total, size) \in Nat
        /\ size * Pages(total, size) \in total..(total + size - 1)
        /\ total = 0 <=> Pages(total, size) = 0
    BY <1>1, PagesOfQuery
  <2>2. a.meta.totalPages = Pages(total, size)
    BY <2>1 DEF Pagination
  <2> HIDE DEF size, all
  <2>3. QED
    BY <1>1, <2>1, <2>2
<1>3. ASSUME req.page # Absent
      PROVE  LET number == a.meta.currentPage
                 Place(id) == Cardinality({ x \in all : x >= id })
             IN  /\ \/ number = req.page
                    \/ number < req.page /\ number = (IF all = {} THEN 1 ELSE a.meta.totalPages)
                 /\ PageIds = { id \in all : Place(id) \in ((number - 1) * size + 1)..(number * size) }
  BY <1>3, ExactNumber
<1>4. ASSUME req.page = Absent
      PROVE  /\ PageIds \subseteq { id \in all : PastCursor(req, id) }
             /\ \A x \in { id \in all : PastCursor(req, id) } \ PageIds :
                   /\ Cardinality(PageIds) = size
                   /\ \A y \in PageIds : IF Reversed(req) THEN y < x ELSE y > x
  BY <1>4, ExactNearest DEF Ahead
<1>5. ASSUME PageIds # {}
      PROVE  /\ a.cursors.next = IF \E x \in all : \A y \in PageIds : x < y
                                 THEN Lowest(PageIds) ELSE Absent
             /\ a.cursors.previous = IF \E x \in all : \A y \in PageIds : x > y
                                     THEN Highest(PageIds) ELSE Absent
             /\ a.meta.hasPreviousPage = (a.cursors.previous # Absent)
  <2>1. Index = PageStart
    BY <1>5 DEF Index
  <2>2. /\ a.cursors.next = IF \E x \in all : \A y \in PageIds : x < y
                            THEN Lowest(PageIds) ELSE Absent
        /\ a.cursors.previous = IF \E x \in all : \A y \in PageIds : x > y
                                THEN Highest(PageIds) ELSE Absent
        /\ PageStart > 0 <=> a.cursors.previous # Absent
    BY <1>5, <2>1, ExactCursors
  <2>3. PageIds \subseteq all
    BY <1>1, AheadIs
  <2>4. total # 0
    <3> HIDE DEF all
    <3>1. QED
      BY <1>1, <1>5, <2>3
  <2>5. a.meta.hasPreviousPage = (PageStart > 0)
    BY <2>1, <2>4 DEF Pagination
  <2>6. QED
    BY <2>2, <2>5
<1>6. a.total = Cardinality(all)
  BY <1>1
<1> HIDE DEF all, size
<1>7. ExactOf(req, a, all)
  BY <1>2, <1>3, <1>4, <1>5, <1>6 DEF ExactOf, size
<1>8. QED
  BY <1>7 DEF all

LEMMA ExactIs ==
  IsExact(req, answer) <=> ExactOf(req, answer, Matching(req, bundles))
BY DEF IsExact, ExactOf

Counted == pc \in {"page", "start"} \/ (pc = "patches" /\ req.verb = "list")
Paged == pc = "start" \/ (pc = "patches" /\ req.verb = "list")

\* While nobody touches the application, each statement of list_bundles sees
\* what the one before it saw.
Quiet ==
  touched = {} =>
    /\ Counted => Still
    /\ Paged => DOMAIN page = PageIds
    /\ pc = "patches" /\ req.verb = "list" => start = PageStart
    /\ Listed => ExactOf(req, answer, Matching(req, bundles))

\* What the statements see depends on the rows that match only.
LEMMA Steady ==
  ASSUME UNCHANGED <<req, total>>, Matching(req, bundles') = Matching(req, bundles)
  PROVE  PageIds' = PageIds /\ PageStart' = PageStart /\ (Still' <=> Still)
<1>1. Matching(req', bundles') = Matching(req, bundles)
  OBVIOUS
<1>2. Ahead' = Ahead
  BY <1>1 DEF Ahead
<1>3. PageIds' = PageIds
  BY <1>2 DEF PageIds
<1>4. PageStart' = PageStart
  BY <1>1, <1>3 DEF PageStart
<1>5. Still' <=> Still
  BY <1>1 DEF Still
<1>6. QED
  BY <1>3, <1>4, <1>5

LEMMA QuietReadPage ==
  ASSUME Types, Quiet, ReadPage PROVE Quiet'
<1>1. /\ pc = "page" /\ page' = Rows(PageIds) /\ start' = FirstRow
      /\ UNCHANGED <<bundles, req, total, touched>>
      /\ PageIds = {} => Reply(ListAnswer(total, FirstRow, NoRows))
      /\ PageIds # {} => /\ pc' = IF HasCursor(req) THEN "start" ELSE "patches"
                         /\ UNCHANGED <<answer, seen>>
  BY ReadPageIs
<1>2. CASE touched # {}
  BY <1>1, <1>2 DEF Quiet
<1>3. CASE touched = {}
  <2>1. Still /\ Reading /\ req.verb = "list"
    BY <1>1, <1>3, ReadingFacts DEF Quiet, Counted, Reading
  <2>2. Matching(req, bundles') = Matching(req, bundles)
    BY <1>1
  <2>3. PageIds' = PageIds /\ PageStart' = PageStart /\ Still'
    BY <1>1, <2>1, <2>2, Steady
  <2>4. DOMAIN page' = PageIds
    BY <1>1, RowsAre
  <2>5. CASE PageIds = {}
    <3>1. Reply(ListAnswer(total, FirstRow, NoRows)) /\ DOMAIN NoRows = {}
      BY <1>1, <2>5 DEF NoRows
    <3>2. answer' = ListAnswer(total, FirstRow, NoRows) /\ pc' = "answered"
      BY <3>1, ReplyIs
    <3>3. /\ answer'.total = total /\ DOMAIN answer'.data = PageIds
          /\ answer'.cursors = Cursors(req, total, Index, PageIds)
          /\ answer'.meta = Pagination(req, total, Index)
      BY <2>5, <3>1, <3>2, ListAnswerIs DEF Index
    <3>4. ExactOf(req, answer', Matching(req, bundles))
      BY <2>1, <3>3, ExactAnswer
    <3>5. ExactOf(req', answer', Matching(req', bundles'))
      BY <1>1, <3>4
    <3>6. QED
      BY <3>2, <3>5 DEF Quiet, Counted, Paged
  <2>6. CASE PageIds # {}
    <3>1. /\ pc' = IF HasCursor(req) THEN "start" ELSE "patches"
          /\ UNCHANGED answer
      BY <1>1, <2>6
    <3>2. ~HasCursor(req) => start' = PageStart
      BY <1>1 DEF FirstRow, PageStart
    <3>3. ~Listed'
      BY <3>1 DEF Listed
    <3>4. QED
      BY <1>1, <2>3, <2>4, <3>1, <3>2, <3>3 DEF Quiet
  <2>7. QED
    BY <2>5, <2>6
<1>4. QED
  BY <1>2, <1>3

LEMMA QuietReadStart ==
  ASSUME Types, Quiet, ReadStart PROVE Quiet'
<1>1. /\ pc = "start" /\ pc' = "patches"
      /\ start' = Cardinality({ id \in Matching(req, bundles) : id > Highest(DOMAIN page) })
      /\ UNCHANGED <<bundles, req, total, page, touched>>
  BY DEF ReadStart, tables, observed
<1>2. CASE touched # {}
  BY <1>1, <1>2 DEF Quiet
<1>3. CASE touched = {}
  <2>1. Still /\ Reading /\ req.verb = "list" /\ DOMAIN page = PageIds /\ PageIds # {}
    BY <1>1, <1>3, ReadingFacts DEF Quiet, Counted, Paged, Reading, Types, TypeOK
  <2>2. start' = PageStart
    BY <1>1, <2>1, PageStartIs
  <2>3. Matching(req, bundles') = Matching(req, bundles)
    BY <1>1
  <2>4. PageIds' = PageIds /\ PageStart' = PageStart /\ Still'
    BY <1>1, <2>1, <2>3, Steady
  <2>5. ~Listed'
    BY <1>1 DEF Listed
  <2>6. QED
    BY <1>1, <2>1, <2>2, <2>4, <2>5 DEF Quiet
<1>4. QED
  BY <1>2, <1>3

LEMMA QuietReadPatches ==
  ASSUME Types, Quiet, ReadPatches PROVE Quiet'
<1>1. /\ pc = "patches" /\ pc' = "answered"
      /\ UNCHANGED <<bundles, req, total, page, start, touched>>
      /\ req.verb = "list" => answer' = ListAnswer(total, start, Data)
  BY ReadPatchesIs
<1>2. CASE touched # {}
  BY <1>1, <1>2 DEF Quiet
<1>3. CASE req.verb # "list"
  BY <1>1, <1>3 DEF Quiet, Counted, Paged, Listed
<1>4. CASE touched = {} /\ req.verb = "list"
  <2>1. /\ Still /\ Reading /\ DOMAIN page = PageIds /\ start = PageStart
    BY <1>1, <1>4 DEF Quiet, Counted, Paged, Reading
  <2>2. PageIds # {}
    BY <1>1, <2>1 DEF Types, TypeOK
  <2>3. Index = start
    BY <2>1, <2>2 DEF Index
  <2>4. DOMAIN Data = PageIds
    BY <2>1, DataIs
  <2>5. /\ answer'.total = total /\ DOMAIN answer'.data = PageIds
        /\ answer'.cursors = Cursors(req, total, Index, PageIds)
        /\ answer'.meta = Pagination(req, total, Index)
    BY <1>1, <1>4, <2>3, <2>4, ListAnswerIs
  <2>6. ExactOf(req, answer', Matching(req, bundles))
    BY <1>4, <2>1, <2>5, ExactAnswer
  <2>7. ExactOf(req', answer', Matching(req', bundles'))
    BY <1>1, <2>6
  <2>8. QED
    BY <1>1, <2>7 DEF Quiet, Counted, Paged
<1>5. QED
  BY <1>2, <1>3, <1>4

\* A commit that touches no id of the application leaves what matches.
LEMMA QuietCommit ==
  ASSUME Types, Quiet, NEW e \in Edit, Commit(e) PROVE Quiet'
<1>1. /\ UNCHANGED <<pc, req, total, page, start, answer>>
      /\ touched \subseteq touched'
      /\ req # NoQuery =>
           \A id \in Id \ touched' : req.app \in App =>
              /\ bundles'[<<req.app, id>>] = bundles[<<req.app, id>>]
              /\ patches'[<<req.app, id>>] = patches[<<req.app, id>>]
  BY CommitIs
<1>2. CASE touched' # {} \/ pc = "idle"
  BY <1>1, <1>2 DEF Quiet, Counted, Paged, Listed
<1>3. CASE touched' = {} /\ pc # "idle"
  <2>1. req # NoQuery
    BY <1>3 DEF Types, TypeOK
  <2>2. \A id \in Id : req.app \in App => bundles'[<<req.app, id>>] = bundles[<<req.app, id>>]
    BY <1>1, <1>3, <2>1
  <2>3. Matching(req, bundles') = Matching(req, bundles)
    BY <2>2 DEF Matching
  <2>4. PageIds' = PageIds /\ PageStart' = PageStart /\ (Still' <=> Still)
    BY <1>1, <2>3, Steady
  <2>5. touched = {}
    BY <1>1, <1>3
  <2>6. /\ Counted' <=> Counted
        /\ Paged' <=> Paged
        /\ Listed' <=> Listed
    BY <1>1 DEF Counted, Paged, Listed
  <2>7. Listed => ExactOf(req', answer', Matching(req', bundles'))
    BY <1>1, <2>3, <2>5 DEF Quiet
  <2>8. QED
    BY <1>1, <2>4, <2>5, <2>6, <2>7 DEF Quiet
<1>4. QED
  BY <1>2, <1>3

LEMMA QuietNext == Types /\ Quiet /\ [Next]_vars => Quiet'
<1> SUFFICES ASSUME Types, Quiet, [Next]_vars PROVE Quiet'
  OBVIOUS
<1>1. ASSUME NEW q \in QueryType, Serve(q) PROVE Quiet'
  <2>1. \/ pc' = "answered" /\ answer'.status # 200
        \/ pc' \in {"total", "row", "channels"}
    BY <1>1, ServeStarts
  <2>2. QED
    BY <2>1 DEF Quiet, Counted, Paged, Listed
<1>2. CASE \E q \in Query : Receive(q)
  BY <1>1, <1>2, ReadAssumption DEF Receive
<1>3. CASE Follow
  <2>1. Serve(Followed) /\ Followed \in QueryType
    BY <1>3, FollowIs DEF Follow, Followed
  <2> HIDE DEF Followed
  <2>2. QED
    BY <1>1, <2>1
<1>4. CASE ReadTotal
  <2>1. /\ pc' = "page" /\ UNCHANGED <<bundles, req>>
        /\ total' = Cardinality(Matching(req, bundles))
    BY <1>4 DEF ReadTotal, tables
  <2>2. Still'
    BY <2>1 DEF Still
  <2>3. QED
    BY <2>1, <2>2 DEF Quiet, Counted, Paged, Listed
<1>5. CASE ReadPage
  BY <1>5, QuietReadPage
<1>6. CASE ReadStart
  BY <1>6, QuietReadStart
<1>7. CASE ReadRow
  <2>1. pc = "row" /\ req' = req /\ pc' \in {"answered", "patches"}
    BY <1>7 DEF ReadRow, Reply
  <2>2. req.verb = "get"
    BY <2>1 DEF Types, Served
  <2>3. QED
    BY <2>1, <2>2 DEF Quiet, Counted, Paged, Listed
<1>8. CASE ReadPatches
  BY <1>8, QuietReadPatches
<1>9. CASE ReadChannels
  <2>1. pc' = "answered" /\ req' = req /\ req.verb = "channels"
    BY <1>9, ReadChannelsIs
  <2>2. QED
    BY <2>1 DEF Quiet, Counted, Paged, Listed
<1>10. CASE Fail
  <2>1. pc' = "answered" /\ answer'.status # 200
    BY <1>10, FailIs
  <2>2. QED
    BY <2>1 DEF Quiet, Counted, Paged, Listed
<1>11. ASSUME NEW e \in Edit, Commit(e) PROVE Quiet'
  BY <1>11, QuietCommit
<1>12. CASE UNCHANGED vars
  <2>1. UNCHANGED <<pc, req, total, page, start, answer, bundles, touched>>
    BY <1>12 DEF vars
  <2>2. Matching(req, bundles') = Matching(req, bundles)
    BY <2>1
  <2>3. PageIds' = PageIds /\ PageStart' = PageStart /\ (Still' <=> Still)
    BY <2>1, <2>2, Steady
  <2>4. QED
    BY <2>1, <2>3 DEF Quiet, Counted, Paged, Listed
<1>13. QED
  BY <1>2, <1>3, <1>4, <1>5, <1>6, <1>7, <1>8, <1>9, <1>10, <1>11, <1>12 DEF Next, Read

\* An answer of list_bundles over a catalog that does not change is exact, for
\* every limit, page number and cursor: the total, the page, the number of
\* pages and the current one, also where the number times the limit leaves
\* i64, and a cursor on exactly the sides where rows remain.
THEOREM AnswersAreExact == Spec => []QuietAnswerIsExact
<1>1. Init => Types /\ Quiet
  <2>1. Init => Quiet
    BY DEF Init, Quiet, Counted, Paged, Listed
  <2>2. QED
    BY <2>1, TypesInit
<1>2. Types /\ Quiet /\ [Next]_vars => (Types /\ Quiet)'
  BY TypesNext, QuietNext
<1>3. Quiet => QuietAnswerIsExact
  BY ExactIs DEF Quiet, QuietAnswerIsExact
<1>4. QED
  BY <1>1, <1>2, <1>3, PTL DEF Spec
================================================================================
