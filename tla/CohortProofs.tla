----------------------------- MODULE CohortProofs -----------------------------
(***************************************************************************)
(* Proofs about the staged rollout of Cohort, for every pair of hashes     *)
(* that a bundle's id may have, every count and every list of targets.     *)
(***************************************************************************)
EXTENDS Cohort, TLAPS, FiniteSetTheorems, FunctionTheorems, WellFoundedInduction

-----------------------------------------------------------------------------
(* Loops.  Each recursive function of Cohort is a loop of the code: in a    *)
(* state that does not stop it, it goes on from `next` of that state.  Its *)
(* variant is a natural number that every round decreases.                 *)

Loop(State, next, variant, stop) ==
  /\ next \in [State -> State] /\ variant \in [State -> Nat] /\ stop \subseteq State
  /\ \A s \in State \ stop : variant[next[s]] < variant[s]

\* A set of natural numbers that is not empty has a least element.
LEMMA LeastOf ==
  ASSUME NEW S \in SUBSET Nat, S # {}
  PROVE  \E least \in S : \A n \in S : least <= n
<1>1. PICK least \in S : \A n \in S : <<n, least>> \notin OpToRel(<, Nat)
  BY NatLessThanWellFounded, WFMin
<1>2. \A n \in S : n \in Nat /\ least \in Nat /\ ~(n < least)
  BY <1>1 DEF OpToRel
<1>3. QED
  BY <1>2

\* What holds where a loop stops, and before a round if after it, holds of
\* every state.
LEMMA LoopInduction ==
  ASSUME NEW State, NEW next, NEW variant, NEW stop, Loop(State, next, variant, stop),
         NEW good, stop \subseteq good, good \subseteq State,
         \A s \in State \ stop : next[s] \in good => s \in good
  PROVE  good = State
<1> DEFINE bad == { variant[s] : s \in State \ good }
<1> SUFFICES ASSUME bad # {} PROVE FALSE
  OBVIOUS
<1>1. bad \in SUBSET Nat
  BY DEF Loop
<1>2. PICK n \in bad : \A m \in bad : n <= m
  <2> HIDE DEF bad
  <2>1. QED
    BY <1>1, LeastOf
<1>3. PICK s \in State \ good : variant[s] = n
  BY <1>2
<1>4. s \notin stop /\ next[s] \notin good /\ next[s] \in State
  BY <1>3 DEF Loop
<1>5. variant[next[s]] \in bad /\ variant[next[s]] < n
  BY <1>3, <1>4 DEF Loop
<1>6. variant[next[s]] \in Nat /\ n \in Nat
  BY <1>1, <1>2, <1>5
<1>7. n <= variant[next[s]]
  BY <1>2, <1>5
<1>8. QED
  BY <1>5, <1>6, <1>7

\* A loop with a variant computes a function: the recursive definition has a
\* solution.
LEMMA LoopFunction ==
  ASSUME NEW State, NEW next, NEW variant, NEW stop, Loop(State, next, variant, stop),
         NEW Value, NEW result \in [State -> Value]
  PROVE  \E f : f = [s \in State |-> IF s \in stop THEN result[s] ELSE f[next[s]]]
<1> DEFINE Closed(R) == /\ \A s \in stop : <<s, result[s]>> \in R
                        /\ \A s \in State \ stop : \A v \in Value :
                             <<next[s], v>> \in R => <<s, v>> \in R
           Graph == { z \in State \X Value : \A R \in SUBSET (State \X Value) :
                                               Closed(R) => z \in R }
           good == { s \in State : \E v \in Value : \A w \in Value : <<s, w>> \in Graph <=> w = v }
<1>0. next \in [State -> State] /\ stop \subseteq State
  BY DEF Loop
<1>1. Closed(Graph)
  BY <1>0
<1>2. ASSUME NEW s \in stop, NEW w \in Value PROVE <<s, w>> \in Graph <=> w = result[s]
  <2> DEFINE R == Graph \ {<<s, w>>}
  <2>1. <<s, result[s]>> \in Graph
    BY <1>1
  <2>2. ASSUME w # result[s], <<s, w>> \in Graph PROVE FALSE
    <3>1. Closed(R) /\ R \in SUBSET (State \X Value)
      BY <1>0, <1>1, <2>2
    <3>2. <<s, w>> \in R
      BY <2>2, <3>1
    <3>3. QED
      BY <3>2
  <2>3. QED
    BY <2>1, <2>2
<1>3. ASSUME NEW s \in State \ stop, NEW w \in Value
      PROVE  <<s, w>> \in Graph <=> <<next[s], w>> \in Graph
  <2> DEFINE R == Graph \ {<<s, w>>}
  <2>1. <<next[s], w>> \in Graph => <<s, w>> \in Graph
    BY <1>1
  <2>2. ASSUME <<s, w>> \in Graph, <<next[s], w>> \notin Graph PROVE FALSE
    <3>1. Closed(R) /\ R \in SUBSET (State \X Value)
      BY <1>0, <1>1, <2>2
    <3>2. <<s, w>> \in R
      BY <2>2, <3>1
    <3>3. QED
      BY <3>2
  <2>3. QED
    BY <2>1, <2>2
<1> HIDE DEF Graph
<1>4. good = State
  <2>1. stop \subseteq good
    BY <1>0, <1>2
  <2>2. \A s \in State \ stop : next[s] \in good => s \in good
    BY <1>3
  <2>3. good \subseteq State
    OBVIOUS
  <2> HIDE DEF good
  <2>4. QED
    BY <2>1, <2>2, <2>3, LoopInduction
<1> DEFINE f == [s \in State |-> CHOOSE v \in Value : <<s, v>> \in Graph]
<1>5. \A s \in State : f[s] \in Value /\ \A w \in Value : <<s, w>> \in Graph <=> w = f[s]
  BY <1>4
<1>6. ASSUME NEW s \in State
      PROVE  f[s] = IF s \in stop THEN result[s] ELSE f[next[s]]
  <2>1. CASE s \in stop
    BY <1>2, <1>5, <2>1
  <2>2. CASE s \notin stop
    <3>1. next[s] \in State
      BY <1>0
    <3>2. <<next[s], f[next[s]]>> \in Graph /\ f[next[s]] \in Value
      BY <1>5, <3>1
    <3>3. <<s, f[next[s]]>> \in Graph
      BY <1>3, <2>2, <3>2
    <3>4. QED
      BY <1>5, <2>2, <3>2, <3>3
  <2>3. QED
    BY <2>1, <2>2
<1>7. f = [s \in State |-> IF s \in stop THEN result[s] ELSE f[next[s]]]
  <2>1. f \in [State -> Value]
    BY <1>5
  <2> HIDE DEF f
  <2>2. QED
    BY <1>6, <2>1
<1>8. QED
  BY <1>7

-----------------------------------------------------------------------------
(* Remainders.                                                             *)

\* The quotient and the remainder of a whole number.
LEMMA Division ==
  ASSUME NEW x \in Int, NEW y \in Nat \ {0}
  PROVE  /\ x \div y \in Int /\ x % y \in Nat /\ x % y < y
         /\ x = (x \div y) * y + (x % y)
         /\ x \in Nat => x \div y \in Nat /\ x % y = x - (x \div y) * y
<1>1. x \div y \in Int /\ x % y \in Nat /\ x % y < y
  OBVIOUS
<1>2. x = (x \div y) * y + (x % y)
  OBVIOUS
<1>3. x \in Nat => x \div y \in Nat
  OBVIOUS
<1>4. x \in Nat => x % y = x - (x \div y) * y
  <2>1. (x \div y) * y \in Int
    BY <1>1
  <2>2. QED
    BY <1>1, <1>2, <2>1
<1>5. QED
  BY <1>1, <1>2, <1>3, <1>4

\* The remainder by a thousand is the one number below it that is as far from
\* x as a multiple of a thousand.
LEMMA RemainderIs ==
  ASSUME NEW x \in Int, NEW p \in 0..999, NEW z \in Int, x = p + 1000 * z
  PROVE  x % 1000 = p
OBVIOUS

LEMMA RemainderOf ==
  ASSUME NEW x \in Int
  PROVE  x % 1000 \in 0..999 /\ \E z \in Int : x = (x % 1000) + 1000 * z
<1>1. x \div 1000 \in Int /\ x % 1000 \in Nat /\ x % 1000 < 1000
      /\ x = (x \div 1000) * 1000 + (x % 1000)
  BY Division
<1>2. QED
  BY <1>1

\* positive_mod is the remainder of mathematics, for negative numbers too.
LEMMA PositiveMod ==
  ASSUME NEW x \in Int
  PROVE  positive_mod(x, 1000) = x % 1000
<1>1. CASE x >= 0
  <2>1. Rem(x, 1000) = x % 1000 /\ x % 1000 \in 0..999
    BY <1>1, RemainderOf DEF Rem
  <2>2. QED
    BY <2>1 DEF positive_mod, Rem
<1>2. CASE x < 0
  <2>1. PICK z \in Int : -x = ((-x) % 1000) + 1000 * z
    BY RemainderOf
  <2>2. (-x) % 1000 \in 0..999 /\ Rem(x, 1000) = -((-x) % 1000)
    BY <1>2, RemainderOf DEF Rem
  <2> DEFINE m == (-x) % 1000
             up == 1000 - m
  <2>3. up \in 1..1000 /\ positive_mod(x, 1000) = up % 1000 /\ x = up + 1000 * (-1 - z)
    BY <2>1, <2>2 DEF positive_mod, Rem
  <2> HIDE DEF m, up
  <2>4. CASE up = 1000
    BY <2>3, <2>4
  <2>5. CASE up # 1000
    <3>1. up \in 0..999
      BY <2>3, <2>5
    <3>2. x % 1000 = up
      <4>1. PICK k \in Int : x = up + 1000 * k
        BY <2>3
      <4>2. QED
        BY <3>1, <4>1
    <3>3. up % 1000 = up
      BY <3>1
    <3>4. QED
      BY <2>3, <3>2, <3>3
  <2>6. QED
    BY <2>4, <2>5
<1>3. QED
  BY <1>1, <1>2

\* The residue of the multiplier's hash.
LEMMA PositiveModType ==
  ASSUME NEW x \in Int
  PROVE  positive_mod(x, 997) \in 0..996
<1>1. \A y \in Int : y % 997 \in 0..996
  BY Division
<1>2. Rem(x, 997) \in Int
  BY <1>1 DEF Rem
<1>3. Rem(x, 997) + 997 \in Int /\ Rem(x, 997) > -997
  BY <1>1, <1>2 DEF Rem
<1> DEFINE y == Rem(x, 997) + 997
<1>4. y \in Int /\ y >= 0
  BY <1>2, <1>3
<1> HIDE DEF y
<1>5. Rem(y, 997) \in 0..996
  BY <1>1, <1>4 DEF Rem
<1>6. QED
  BY <1>5 DEF positive_mod, y

-----------------------------------------------------------------------------
(* The greatest common divisor, and the search for a multiplier.           *)

\* What the loop of gcd computes, one round at a time.
LEMMA GcdIs ==
  /\ \A x \in Nat : gcd[<<x, 0>>] = x
  /\ \A x \in Nat, y \in Nat \ {0} : gcd[<<x, y>>] = gcd[<<y, x % y>>]
<1> DEFINE Pair == Nat \X Nat
           stop == { p \in Pair : p[2] = 0 }
           next == [p \in Pair |-> IF p[2] = 0 THEN p ELSE <<p[2], p[1] % p[2]>>]
           variant == [p \in Pair |-> p[2]]
           first == [p \in Pair |-> p[1]]
<1>1. \A p \in Pair : p[2] # 0 => p[1] % p[2] \in Nat /\ p[1] % p[2] < p[2]
  <2>1. \A x \in Nat, y \in Nat \ {0} : x % y \in Nat /\ x % y < y
    OBVIOUS
  <2>2. QED
    BY <2>1
<1>2. Loop(Pair, next, variant, stop)
  <2>1. next \in [Pair -> Pair] /\ variant \in [Pair -> Nat] /\ stop \subseteq Pair
    BY <1>1
  <2>2. \A p \in Pair \ stop : variant[next[p]] < variant[p]
    BY <1>1, <2>1
  <2> HIDE DEF Pair, next, variant, stop
  <2>3. QED
    BY <2>1, <2>2 DEF Loop
<1>3. first \in [Pair -> Nat]
  OBVIOUS
<1>4. PICK f : f = [p \in Pair |-> IF p \in stop THEN first[p] ELSE f[next[p]]]
  <2> HIDE DEF Pair, next, variant, stop, first
  <2>1. QED
    BY <1>2, <1>3, LoopFunction
<1>5. f = [p \in Nat \X Nat |-> IF p[2] = 0 THEN p[1] ELSE f[<<p[2], p[1] % p[2]>>]]
  BY <1>4
<1>6. gcd = [p \in Nat \X Nat |-> IF p[2] = 0 THEN p[1] ELSE gcd[<<p[2], p[1] % p[2]>>]]
  BY <1>5 DEF gcd
<1> HIDE DEF Pair, next, variant, stop, first
<1>7. QED
  BY <1>6

\* 999, where the search ends at the latest, is coprime to 1000.
LEMMA GcdOf999 == gcd[<<999, 1000>>] = 1
<1>1. 999 % 1000 = 999 /\ 1000 % 999 = 1 /\ 999 % 1 = 0
  OBVIOUS
<1>2. gcd[<<999, 1000>>] = gcd[<<1000, 999>>] /\ gcd[<<1000, 999>>] = gcd[<<999, 1>>]
      /\ gcd[<<999, 1>>] = gcd[<<1, 0>>]
  BY <1>1, GcdIs
<1>3. QED
  BY <1>2, GcdIs

\* The multiplier that is settled on is coprime to a thousand.
LEMMA CoprimeIs ==
  ASSUME NEW m \in Nat
  PROVE  /\ Coprime[m] \in Nat
         /\ gcd[<<Coprime[m], 1000>>] = 1
<1> DEFINE Candidate == Nat
           stop == { n \in Candidate : gcd[<<n, 1000>>] = 1 }
           next == [n \in Candidate |->
                      IF n \in stop THEN n ELSE OneForZero(positive_mod(n + 1, 1000))]
           variant == [n \in Candidate |-> IF n <= 999 THEN 999 - n ELSE 1000]
           same == [n \in Candidate |-> n]
<1>1. ASSUME NEW n \in Nat
      PROVE  /\ OneForZero(positive_mod(n + 1, 1000)) \in 1..999
             /\ n < 999 => OneForZero(positive_mod(n + 1, 1000)) = n + 1
  <2>1. positive_mod(n + 1, 1000) = (n + 1) % 1000 /\ (n + 1) % 1000 \in 0..999
    BY PositiveMod, RemainderOf
  <2>2. n < 999 => (n + 1) % 1000 = n + 1
    OBVIOUS
  <2>3. QED
    BY <2>1, <2>2 DEF OneForZero
<1>2. \A n \in Candidate \ stop : n # 999
  BY GcdOf999
<1>3. Loop(Candidate, next, variant, stop)
  <2>1. next \in [Candidate -> Candidate] /\ variant \in [Candidate -> Nat] /\ stop \subseteq Candidate
    BY <1>1
  <2>2. ASSUME NEW n \in Candidate \ stop PROVE variant[next[n]] < variant[n]
    <3>1. next[n] = OneForZero(positive_mod(n + 1, 1000)) /\ next[n] \in 1..999
      BY <1>1
    <3> HIDE DEF next, stop
    <3>2. variant[next[n]] = 999 - next[n]
      BY <3>1
    <3>3. variant[n] = IF n <= 999 THEN 999 - n ELSE 1000
      OBVIOUS
    <3>4. n # 999
      BY <1>2
    <3> HIDE DEF variant
    <3>5. n < 999 => next[n] = n + 1
      BY <1>1, <3>1
    <3>6. QED
      BY <3>1, <3>2, <3>3, <3>4, <3>5
  <2> HIDE DEF Candidate, next, variant, stop
  <2>3. QED
    BY <2>1, <2>2 DEF Loop
<1>4. same \in [Candidate -> Candidate]
  OBVIOUS
<1>5. PICK f : f = [n \in Candidate |-> IF n \in stop THEN same[n] ELSE f[next[n]]]
  <2> HIDE DEF Candidate, next, variant, stop, same
  <2>1. QED
    BY <1>3, <1>4, LoopFunction
<1>6. f = [m_1 \in Nat |-> IF gcd[<<m_1, NUMERIC_COHORT_SIZE>>] = 1 THEN m_1
                     ELSE f[OneForZero(positive_mod(m_1 + 1, NUMERIC_COHORT_SIZE))]]
  <2>1. \A n \in Nat : n \in stop <=> gcd[<<n, NUMERIC_COHORT_SIZE>>] = 1
    BY DEF NUMERIC_COHORT_SIZE
  <2>2. \A n \in Nat : n \notin stop =>
          next[n] = OneForZero(positive_mod(n + 1, NUMERIC_COHORT_SIZE))
    BY DEF NUMERIC_COHORT_SIZE
  <2>3. \A n \in Nat : same[n] = n
    OBVIOUS
  <2> HIDE DEF next, stop, same
  <2>4. QED
    BY <1>5, <2>1, <2>2, <2>3
<1>7. Coprime = [m_1 \in Nat |-> IF gcd[<<m_1, NUMERIC_COHORT_SIZE>>] = 1 THEN m_1
                     ELSE Coprime[OneForZero(positive_mod(m_1 + 1, NUMERIC_COHORT_SIZE))]]
  BY <1>6 DEF Coprime
<1> DEFINE good == { n \in Candidate : Coprime[n] \in Nat /\ gcd[<<Coprime[n], 1000>>] = 1 }
<1>8. stop \subseteq good
  BY <1>7 DEF NUMERIC_COHORT_SIZE
<1>9. ASSUME NEW n \in Candidate \ stop, next[n] \in good PROVE n \in good
  <2>1. Coprime[n] = Coprime[next[n]]
    BY <1>7, <1>9 DEF NUMERIC_COHORT_SIZE
  <2> HIDE DEF next
  <2>2. QED
    BY <1>9, <2>1
<1>10. good = Candidate
  <2>1. good \subseteq Candidate
    OBVIOUS
  <2> HIDE DEF Candidate, next, variant, stop, good
  <2>2. QED
    BY <1>3, <1>8, <1>9, <2>1, LoopInduction
<1>11. QED
  BY <1>10

-----------------------------------------------------------------------------
(* The inverse of the multiplier.                                          *)

\* a and b leave the same remainder by a thousand.
Congruent(a, b) == \E z \in Int : a = b + 1000 * z

LEMMA CongruentBack ==
  ASSUME NEW a \in Int, NEW b \in Int, Congruent(a, b)
  PROVE  Congruent(b, a)
<1>1. PICK z \in Int : a = b + 1000 * z
  BY DEF Congruent
<1>2. b = a + 1000 * (-z) /\ -z \in Int
  BY <1>1
<1>3. QED
  BY <1>2 DEF Congruent

LEMMA CongruentChain ==
  ASSUME NEW a \in Int, NEW b \in Int, NEW c \in Int, Congruent(a, b), Congruent(b, c)
  PROVE  Congruent(a, c)
<1>1. PICK y \in Int : a = b + 1000 * y
  BY DEF Congruent
<1>2. PICK z \in Int : b = c + 1000 * z
  BY DEF Congruent
<1>3. PICK k \in Int : k = y + z
  OBVIOUS
<1>4. a = c + 1000 * k
  BY <1>1, <1>2, <1>3
<1>5. \E w \in Int : a = c + 1000 * w
  <2> WITNESS k \in Int
  <2>1. QED
    BY <1>4
<1>6. QED
  BY <1>5 DEF Congruent

LEMMA CongruentTimes ==
  ASSUME NEW a \in Int, NEW b \in Int, NEW c \in Int, Congruent(a, b)
  PROVE  Congruent(c * a, c * b)
<1>1. PICK z \in Int : a = b + 1000 * z
  BY DEF Congruent
<1>2. PICK k \in Int : k = c * z
  OBVIOUS
<1>3. PICK ca \in Int, cb \in Int : ca = c * a /\ cb = c * b
  OBVIOUS
<1>4. ca = cb + 1000 * k
  BY <1>1, <1>2, <1>3
<1>5. Congruent(ca, cb)
  BY <1>4 DEF Congruent
<1>6. QED
  BY <1>3, <1>5

LEMMA CongruentMinus ==
  ASSUME NEW a \in Int, NEW b \in Int, NEW c \in Int, NEW d \in Int,
         Congruent(a, b), Congruent(c, d)
  PROVE  Congruent(a - c, b - d)
<1>1. PICK y \in Int : a = b + 1000 * y
  BY DEF Congruent
<1>2. PICK z \in Int : c = d + 1000 * z
  BY DEF Congruent
<1>3. PICK k \in Int : k = y - z
  OBVIOUS
<1>4. a - c = (b - d) + 1000 * k
  BY <1>1, <1>2, <1>3
<1>5. QED
  BY <1>4 DEF Congruent

LEMMA CongruentRest ==
  ASSUME NEW a \in Int
  PROVE  a % 1000 \in 0..999 /\ Congruent(a % 1000, a) /\ Congruent(a, a % 1000)
<1>1. PICK z \in Int : a = (a % 1000) + 1000 * z
  BY RemainderOf
<1>2. a % 1000 \in 0..999
  BY RemainderOf
<1>3. Congruent(a, a % 1000)
  BY <1>1 DEF Congruent
<1>4. QED
  BY <1>2, <1>3, CongruentBack

LEMMA CongruentSame ==
  ASSUME NEW a \in Int, NEW b \in Int, b \in 0..999, Congruent(a, b)
  PROVE  a % 1000 = b
<1>1. PICK z \in Int : a = b + 1000 * z
  BY DEF Congruent
<1>2. QED
  BY <1>1

\* What a round of the loop of modular_inverse makes of its variables.
Round(s) ==
  [t |-> s.new_t, new_t |-> s.t - (s.r \div s.new_r) * s.new_t,
   r |-> s.new_r, new_r |-> s.r - (s.r \div s.new_r) * s.new_r]

LEMMA RoundIs ==
  ASSUME NEW s \in EuclidState, s.new_r # 0
  PROVE  /\ Round(s) \in EuclidState
         /\ Round(s).new_r = s.r % s.new_r /\ Round(s).new_r < s.new_r
<1>1. s.t \in Int /\ s.new_t \in Int /\ s.r \in Nat /\ s.new_r \in Nat \ {0}
  BY DEF EuclidState
<1> DEFINE quotient == s.r \div s.new_r
<1>2. /\ quotient \in Int /\ s.r % s.new_r \in Nat /\ s.r % s.new_r < s.new_r
      /\ s.r - quotient * s.new_r = s.r % s.new_r
  <2>1. s.r \in Int
    BY <1>1
  <2>2. QED
    BY <1>1, <2>1, Division
<1>3. s.t - quotient * s.new_t \in Int
  <2> HIDE DEF quotient
  <2>1. quotient * s.new_t \in Int
    BY <1>1, <1>2
  <2>2. QED
    BY <1>1, <2>1
<1>4. QED
  BY <1>1, <1>2, <1>3 DEF Round, EuclidState

\* What the loop of modular_inverse computes, one round at a time, and that it
\* ends.
EuclidStop == { s \in EuclidState : s.new_r = 0 }
EuclidNext == [s \in EuclidState |-> IF s.new_r = 0 THEN s ELSE Round(s)]
EuclidVariant == [s \in EuclidState |-> s.new_r]

LEMMA EuclidLoop == Loop(EuclidState, EuclidNext, EuclidVariant, EuclidStop)
<1>1. \A s \in EuclidState : s.new_r \in Nat
  BY DEF EuclidState
<1>2. EuclidNext \in [EuclidState -> EuclidState] /\ EuclidVariant \in [EuclidState -> Nat]
  BY <1>1, RoundIs DEF EuclidNext, EuclidVariant
<1>3. ASSUME NEW s \in EuclidState \ EuclidStop
      PROVE  EuclidVariant[EuclidNext[s]] < EuclidVariant[s]
  <2>1. s.new_r # 0 /\ EuclidNext[s] = Round(s) /\ EuclidNext[s] \in EuclidState
    BY <1>2 DEF EuclidStop, EuclidNext
  <2>2. QED
    BY <2>1, RoundIs DEF EuclidVariant
<1>4. QED
  BY <1>2, <1>3 DEF Loop, EuclidStop

LEMMA EuclidIs ==
  ASSUME NEW s \in EuclidState
  PROVE  Euclid[s] = IF s.new_r # 0 THEN Euclid[Round(s)]
                     ELSE IF s.r > 1 THEN 1 ELSE positive_mod(s.t, 1000)
<1> DEFINE Value == { IF q.r > 1 THEN 1 ELSE positive_mod(q.t, 1000) : q \in EuclidState }
           result == [q \in EuclidState |-> IF q.r > 1 THEN 1 ELSE positive_mod(q.t, 1000)]
<1>1. result \in [EuclidState -> Value]
  OBVIOUS
<1>2. PICK f : f = [q \in EuclidState |-> IF q \in EuclidStop THEN result[q] ELSE f[EuclidNext[q]]]
  <2> HIDE DEF Value, result
  <2>1. QED
    BY <1>1, EuclidLoop, LoopFunction
<1>3. f = [s_1 \in EuclidState |->
             IF s_1.new_r # 0
             THEN LET quotient == s_1.r \div s_1.new_r
                  IN  f[[t |-> s_1.new_t, new_t |-> s_1.t - quotient * s_1.new_t,
                         r |-> s_1.new_r, new_r |-> s_1.r - quotient * s_1.new_r]]
             ELSE IF s_1.r > 1 THEN 1 ELSE positive_mod(s_1.t, NUMERIC_COHORT_SIZE)]
  <2>1. \A q \in EuclidState : q \in EuclidStop <=> q.new_r = 0
    BY DEF EuclidStop
  <2>2. \A q \in EuclidState : q.new_r # 0 => EuclidNext[q] = Round(q)
    BY DEF EuclidNext
  <2>3. f = [q \in EuclidState |-> IF q.new_r # 0 THEN f[Round(q)]
                                   ELSE IF q.r > 1 THEN 1 ELSE positive_mod(q.t, 1000)]
    BY <1>2, <2>1, <2>2
  <2>4. QED
    BY <2>3 DEF Round, NUMERIC_COHORT_SIZE
<1>4. Euclid = [s_1 \in EuclidState |->
             IF s_1.new_r # 0
             THEN LET quotient == s_1.r \div s_1.new_r
                  IN  Euclid[[t |-> s_1.new_t, new_t |-> s_1.t - quotient * s_1.new_t,
                         r |-> s_1.new_r, new_r |-> s_1.r - quotient * s_1.new_r]]
             ELSE IF s_1.r > 1 THEN 1 ELSE positive_mod(s_1.t, NUMERIC_COHORT_SIZE)]
  BY <1>3 DEF Euclid
<1>5. CASE s.new_r = 0
  BY <1>4, <1>5 DEF NUMERIC_COHORT_SIZE
<1>6. CASE s.new_r # 0
  BY <1>4, <1>6 DEF Round
<1>7. QED
  BY <1>5, <1>6

\* The loop keeps m * t congruent to r, and m * new_t to new_r; when it ends
\* because the greatest common divisor is 1, t is an inverse of m.
LEMMA EuclidInverts ==
  ASSUME NEW m \in Int
  PROVE  \A s \in EuclidState :
            /\ Congruent(m * s.t, s.r) /\ Congruent(m * s.new_t, s.new_r)
            /\ gcd[<<s.r, s.new_r>>] = 1
            => Euclid[s] \in Int /\ Congruent(m * Euclid[s], 1)
<1> DEFINE Related(s) == /\ Congruent(m * s.t, s.r) /\ Congruent(m * s.new_t, s.new_r)
                         /\ gcd[<<s.r, s.new_r>>] = 1
           good == { s \in EuclidState :
                       Related(s) => Euclid[s] \in Int /\ Congruent(m * Euclid[s], 1) }
<1>1. \A s \in EuclidState : s.t \in Int /\ s.new_t \in Int /\ s.r \in Nat /\ s.new_r \in Nat
  BY DEF EuclidState
<1>2. ASSUME NEW s \in EuclidState, s.new_r = 0, Related(s)
      PROVE  Euclid[s] \in Int /\ Congruent(m * Euclid[s], 1)
  <2>1. s.r = 1
    BY <1>1, <1>2, GcdIs
  <2>2. Euclid[s] = s.t % 1000 /\ s.t % 1000 \in Int
    <3>1. s.t \in Int
      BY <1>1
    <3>2. positive_mod(s.t, 1000) = s.t % 1000 /\ s.t % 1000 \in Int
      BY <3>1, PositiveMod, RemainderOf
    <3>3. QED
      BY <1>2, <2>1, <3>2, EuclidIs
  <2>3. PICK t \in Int : t = s.t
    BY <1>1
  <2>4. t % 1000 \in 0..999 /\ Congruent(t % 1000, t)
    BY CongruentRest
  <2>5. PICK x \in Int : x = t % 1000
    BY <2>4
  <2>6. Congruent(m * x, m * t)
    BY <2>4, <2>5, CongruentTimes
  <2>7. Congruent(m * x, 1)
    <3>1. m * x \in Int /\ m * t \in Int /\ 1 \in Int
      OBVIOUS
    <3>2. Congruent(m * t, 1)
      BY <1>2, <2>1, <2>3
    <3>3. QED
      BY <2>6, <3>1, <3>2, CongruentChain
  <2>8. QED
    BY <2>2, <2>3, <2>5, <2>7
<1>3. ASSUME NEW s \in EuclidState, s.new_r # 0, Related(s)
      PROVE  Related(Round(s))
  <2>1. s.t \in Int /\ s.new_t \in Int /\ s.r \in Nat /\ s.new_r \in Nat \ {0}
    BY <1>1, <1>3
  <2>2. PICK q \in Int : q = s.r \div s.new_r
    <3>1. s.r \div s.new_r \in Int
      BY <2>1
    <3>2. QED
      BY <3>1
  <2>3. PICK t \in Int, u \in Int, r \in Int, v \in Int :
          t = s.t /\ u = s.new_t /\ r = s.r /\ v = s.new_r
    BY <2>1
  <2>4. Congruent(m * t, r) /\ Congruent(m * u, v)
    BY <1>3, <2>3
  <2>5. Congruent(q * (m * u), q * v)
    <3>1. m * u \in Int
      OBVIOUS
    <3>2. QED
      BY <2>3, <2>4, <3>1, CongruentTimes
  <2>6. Congruent(m * t - q * (m * u), r - q * v)
    <3>1. m * t \in Int /\ q * (m * u) \in Int /\ q * v \in Int
      <4>1. PICK k \in Int : k = m * u
        OBVIOUS
      <4>2. q * k \in Int
        OBVIOUS
      <4>3. QED
        BY <4>1, <4>2
    <3>2. QED
      BY <2>3, <2>4, <2>5, <3>1, CongruentMinus
  <2>7. m * (t - q * u) = m * t - q * (m * u)
    OBVIOUS
  <2>8. Congruent(m * (t - q * u), r - q * v)
    BY <2>6, <2>7
  <2>9. /\ Round(s).t = u /\ Round(s).new_t = t - q * u
        /\ Round(s).r = v /\ Round(s).new_r = r - q * v
    BY <2>2, <2>3 DEF Round
  <2>10. gcd[<<Round(s).r, Round(s).new_r>>] = 1
    <3>1. Round(s).new_r = s.r % s.new_r /\ Round(s).r = s.new_r
      BY <1>3, RoundIs DEF Round
    <3>2. gcd[<<s.r, s.new_r>>] = gcd[<<s.new_r, s.r % s.new_r>>]
      BY <2>1, GcdIs
    <3>3. QED
      BY <1>3, <3>1, <3>2
  <2>11. QED
    BY <2>4, <2>8, <2>9, <2>10
<1> HIDE DEF Related
<1>4. EuclidStop \subseteq good
  BY <1>2 DEF EuclidStop
<1>5. ASSUME NEW s \in EuclidState \ EuclidStop, EuclidNext[s] \in good PROVE s \in good
  <2>1. s.new_r # 0 /\ EuclidNext[s] = Round(s)
    BY DEF EuclidStop, EuclidNext
  <2>2. Euclid[s] = Euclid[Round(s)]
    BY <2>1, EuclidIs
  <2>3. QED
    BY <1>3, <1>5, <2>1, <2>2
<1>6. good = EuclidState
  <2>1. good \subseteq EuclidState
    OBVIOUS
  <2> HIDE DEF good
  <2>2. QED
    BY <1>4, <1>5, <2>1, EuclidLoop, LoopInduction
<1>7. QED
  BY <1>6 DEF Related

\* The shuffle of a bundle: a multiplier and its inverse, an offset.
Inverses(m, i) == Congruent(m * i, 1)

IsShuffle(shuffle) ==
  /\ shuffle.multiplier \in Int /\ shuffle.inverse_multiplier \in Int /\ shuffle.offset \in Int
  /\ Inverses(shuffle.multiplier, shuffle.inverse_multiplier)

\* Whatever the hashes of its id, the bundle's multiplier has its inverse.
LEMMA ShuffleIs ==
  ASSUME NEW mhash \in Int, NEW ohash \in Int
  PROVE  IsShuffle(get_rollout_shuffle_parameters(mhash, ohash))
<1> DEFINE raw == OneForZero(positive_mod(mhash, 997))
           m == Coprime[raw]
           start == [t |-> 0, new_t |-> 1, r |-> 1000, new_r |-> positive_mod(m, 1000)]
<1>1. raw \in Nat
  <2>1. positive_mod(mhash, 997) \in 0..996
    BY PositiveModType
  <2>2. QED
    BY <2>1 DEF OneForZero
<1> HIDE DEF raw
<1>2. m \in Nat /\ gcd[<<m, 1000>>] = 1
  BY <1>1, CoprimeIs
<1> HIDE DEF m
<1>3. positive_mod(m, 1000) = m % 1000 /\ m % 1000 \in 0..999
  BY <1>2, PositiveMod, RemainderOf
<1>4. start \in EuclidState
  BY <1>3 DEF EuclidState
<1>5. gcd[<<1000, m % 1000>>] = 1
  <2>1. 1000 \in Nat \ {0}
    OBVIOUS
  <2> DEFINE size == 1000
  <2> HIDE DEF size
  <2>2. size \in Nat \ {0} /\ size = 1000
    BY <2>1 DEF size
  <2>3. gcd[<<m, size>>] = gcd[<<size, m % size>>]
    BY <1>2, <2>2, GcdIs
  <2>4. QED
    BY <1>2, <2>2, <2>3
<1>6. Congruent(m * 0, 1000) /\ Congruent(m * 1, m % 1000)
  <2>1. m * 0 = 1000 + 1000 * (-1) /\ -1 \in Int
    BY <1>2
  <2>2. m * 1 = m /\ m \in Int
    BY <1>2
  <2>3. Congruent(m, m % 1000)
    BY <2>2, CongruentRest
  <2>4. Congruent(m * 0, 1000)
    BY <2>1 DEF Congruent
  <2>5. QED
    BY <2>2, <2>3, <2>4
<1>7. Euclid[start] \in Int /\ Congruent(m * Euclid[start], 1)
  <2>1. start.t = 0 /\ start.new_t = 1 /\ start.r = 1000 /\ start.new_r = m % 1000
    BY <1>3
  <2> HIDE DEF start
  <2>2. QED
    BY <1>2, <1>4, <1>5, <1>6, <2>1, EuclidInverts
<1>8. modular_inverse(m) = Euclid[start]
  BY DEF modular_inverse, NUMERIC_COHORT_SIZE
<1>9. positive_mod(ohash, 1000) \in Int
  <2>1. positive_mod(ohash, 1000) = ohash % 1000 /\ ohash % 1000 \in 0..999
    BY PositiveMod, RemainderOf
  <2>2. QED
    BY <2>1
<1> HIDE DEF start
<1>10. QED
  <2>1. PICK i \in Int : i = modular_inverse(m) /\ Inverses(m, i)
    BY <1>7, <1>8 DEF Inverses
  <2>2. get_rollout_shuffle_parameters(mhash, ohash) =
          [multiplier |-> m, offset |-> positive_mod(ohash, 1000), inverse_multiplier |-> i]
    <3>1. get_rollout_shuffle_parameters(mhash, ohash) =
            [multiplier |-> m, offset |-> positive_mod(ohash, 1000),
             inverse_multiplier |-> modular_inverse(m)]
      BY DEF get_rollout_shuffle_parameters, m, raw, NUMERIC_COHORT_SIZE
    <3> HIDE DEF m
    <3>2. QED
      BY <2>1, <3>1
  <2> HIDE DEF m
  <2>3. QED
    BY <1>2, <1>9, <2>1, <2>2 DEF IsShuffle

-----------------------------------------------------------------------------
(* Positions.                                                              *)

\* The cohort that the shuffle has at a position.
At(shuffle, position) == 1 + ((shuffle.multiplier * position + shuffle.offset) % 1000)

LEMMA AtIs ==
  ASSUME NEW shuffle, IsShuffle(shuffle), NEW position \in Int
  PROVE  At(shuffle, position) \in 1..1000
<1>1. PICK m \in Int, offset \in Int : m = shuffle.multiplier /\ offset = shuffle.offset
  BY DEF IsShuffle
<1>2. PICK x \in Int : x = m * position + offset
  OBVIOUS
<1>3. x % 1000 \in 0..999
  BY RemainderOf
<1>4. At(shuffle, position) = 1 + (x % 1000)
  BY <1>1, <1>2 DEF At
<1>5. QED
  BY <1>3, <1>4

\* What the position of a cohort is the remainder of.
Product(shuffle, cohort) == shuffle.inverse_multiplier * (cohort - 1 - shuffle.offset)

LEMMA PositionIs ==
  ASSUME NEW shuffle, IsShuffle(shuffle), NEW cohort \in Int
  PROVE  /\ Product(shuffle, cohort) \in Int
         /\ Position(shuffle, cohort) = Product(shuffle, cohort) % 1000
         /\ Position(shuffle, cohort) \in Int
         /\ 0 <= Position(shuffle, cohort) /\ Position(shuffle, cohort) <= 999
         /\ Congruent(Position(shuffle, cohort), Product(shuffle, cohort))
<1>1. Product(shuffle, cohort) \in Int
  <2>1. PICK i \in Int, offset \in Int : i = shuffle.inverse_multiplier /\ offset = shuffle.offset
    BY DEF IsShuffle
  <2>2. PICK d \in Int : d = cohort - 1 - offset
    OBVIOUS
  <2>3. PICK x \in Int : x = i * d
    OBVIOUS
  <2>4. QED
    BY <2>1, <2>2, <2>3 DEF Product
<1>2. PICK x \in Int : x = Product(shuffle, cohort)
  BY <1>1
<1>3. Position(shuffle, cohort) = positive_mod(x, 1000)
  BY <1>2, Zenon DEF Position, Product, NUMERIC_COHORT_SIZE
<1>4. positive_mod(x, 1000) = x % 1000
  BY PositiveMod
<1>5. x % 1000 \in 0..999 /\ Congruent(x % 1000, x)
  BY CongruentRest
<1>6. QED
  BY <1>2, <1>3, <1>4, <1>5

\* Multiplying by one of the two and then by the other leaves a number where
\* it was.
LEMMA TwiceIsOnce ==
  ASSUME NEW m \in Int, NEW i \in Int, Inverses(m, i), NEW x \in Int
  PROVE  Congruent(i * (m * x), x) /\ Congruent(m * (i * x), x)
<1>1. PICK one \in Int : one = m * i
  OBVIOUS
<1>2. Congruent(x * one, x * 1)
  <2>1. 1 \in Int /\ Congruent(one, 1)
    BY <1>1 DEF Inverses
  <2>2. QED
    BY <2>1, CongruentTimes, Zenon
<1>3. x * 1 = x /\ x * one = i * (m * x) /\ x * one = m * (i * x)
  <2>1. x * (m * i) = i * (m * x) /\ x * (m * i) = m * (i * x)
    OBVIOUS
  <2>2. QED
    BY <1>1, <2>1
<1>4. QED
  BY <1>2, <1>3

\* Each position has its cohort, and each cohort its position.
LEMMA PositionOfCohort ==
  ASSUME NEW shuffle, IsShuffle(shuffle), NEW position \in Int, position \in 0..999
  PROVE  Position(shuffle, At(shuffle, position)) = position
<1>1. PICK m \in Int, i \in Int, offset \in Int :
        /\ m = shuffle.multiplier /\ i = shuffle.inverse_multiplier /\ offset = shuffle.offset
        /\ Inverses(m, i)
  BY DEF IsShuffle
<1>2. PICK p \in Int : p = position
  OBVIOUS
<1>3. PICK mp \in Int, x \in Int : mp = m * p /\ x = mp + offset
  OBVIOUS
<1>4. x % 1000 \in 0..999 /\ Congruent(x % 1000, x)
  BY CongruentRest
<1>5. PICK rest \in 0..999 : rest = x % 1000
  BY <1>4
<1>6. At(shuffle, position) = 1 + rest
  BY <1>1, <1>2, <1>3, <1>5 DEF At
<1>7. Congruent(rest - offset, mp)
  <2>1. PICK z \in Int : rest = x + 1000 * z
    BY <1>4, <1>5 DEF Congruent
  <2>2. rest - offset = mp + 1000 * z
    BY <1>3, <2>1
  <2>3. QED
    BY <2>2 DEF Congruent
<1>8. PICK d \in Int, id \in Int, imp \in Int : d = rest - offset /\ id = i * d /\ imp = i * mp
  OBVIOUS
<1>9. Congruent(id, imp)
  BY <1>7, <1>8, CongruentTimes
<1>10. Congruent(imp, p)
  BY <1>1, <1>3, <1>8, TwiceIsOnce
<1>11. Congruent(id, p)
  BY <1>9, <1>10, CongruentChain
<1>12. id % 1000 = position
  <2>1. Congruent(id, position)
    BY <1>2, <1>11
  <2>2. QED
    BY <2>1, CongruentSame
<1>13. Position(shuffle, 1 + rest) = id % 1000
  <2>1. PICK cohort \in Int : cohort = 1 + rest
    OBVIOUS
  <2>2. cohort - 1 - offset = d
    BY <1>8, <2>1
  <2>3. Product(shuffle, cohort) = id
    BY <1>1, <1>8, <2>2 DEF Product
  <2>4. Position(shuffle, cohort) = Product(shuffle, cohort) % 1000
    BY PositionIs
  <2>5. QED
    BY <2>1, <2>3, <2>4
<1>14. QED
  BY <1>5, <1>6, <1>12, <1>13

LEMMA CohortAtPosition ==
  ASSUME NEW shuffle, IsShuffle(shuffle), NEW cohort \in Int, cohort \in 1..1000
  PROVE  At(shuffle, Position(shuffle, cohort)) = cohort
<1>1. PICK m \in Int, i \in Int, offset \in Int :
        /\ m = shuffle.multiplier /\ i = shuffle.inverse_multiplier /\ offset = shuffle.offset
        /\ Inverses(m, i)
  BY DEF IsShuffle
<1>2. PICK d \in Int, id \in Int : d = cohort - 1 - offset /\ id = i * d
  OBVIOUS
<1>3. PICK p \in Int : p = Position(shuffle, cohort) /\ Congruent(p, id)
  <2>1. Product(shuffle, cohort) = id
    BY <1>1, <1>2 DEF Product
  <2>2. Position(shuffle, cohort) \in Int /\ Congruent(Position(shuffle, cohort), Product(shuffle, cohort))
    BY PositionIs
  <2>3. QED
    BY <2>1, <2>2
<1>4. PICK mp \in Int, mid \in Int : mp = m * p /\ mid = m * id
  OBVIOUS
<1>5. Congruent(mp, mid)
  BY <1>3, <1>4, CongruentTimes
<1>6. Congruent(mid, d)
  BY <1>1, <1>2, <1>4, TwiceIsOnce
<1>7. Congruent(mp, d)
  BY <1>5, <1>6, CongruentChain
<1>8. Congruent(mp + offset, cohort - 1)
  <2>1. PICK z \in Int : mp = d + 1000 * z
    BY <1>7 DEF Congruent
  <2>2. mp + offset = (cohort - 1) + 1000 * z
    BY <1>2, <2>1
  <2>3. QED
    BY <2>2 DEF Congruent
<1>9. (mp + offset) % 1000 = cohort - 1
  <2>1. PICK x \in Int, c \in 0..999 : x = mp + offset /\ c = cohort - 1
    <3>1. mp + offset \in Int /\ cohort - 1 \in 0..999
      OBVIOUS
    <3>2. QED
      BY <3>1
  <2>2. Congruent(x, c) /\ c \in Int
    BY <1>8, <2>1
  <2>3. QED
    BY <2>1, <2>2, CongruentSame
<1>10. QED
  BY <1>1, <1>3, <1>4, <1>9 DEF At

-----------------------------------------------------------------------------
(* The theorems.                                                           *)

\* The hashes and the count of a bundle are numbers.
TypeOK == hashes \in Int \X Int /\ count \in Int

LEMMA TypeInvariance == Spec => []TypeOK
<1>1. Init => TypeOK
  BY CohortAssumption DEF Init, TypeOK
<1>2. TypeOK /\ [Patch]_vars => TypeOK'
  BY CohortAssumption DEF TypeOK, Patch, vars
<1>3. QED
  BY <1>1, <1>2, PTL DEF Spec

LEMMA BundleShuffle ==
  ASSUME TypeOK
  PROVE  IsShuffle(Shuffle)
<1>1. hashes[1] \in Int /\ hashes[2] \in Int
  BY DEF TypeOK
<1>2. QED
  BY <1>1, ShuffleIs DEF Shuffle

\* Whatever the hashes of a bundle's id, the position of the cohort that its
\* multiplier and offset put at a place is that place.
THEOREM PositionsUndoShuffle ==
  Spec => []PositionsInvertShuffle
<1>1. TypeOK => PositionsInvertShuffle
  <2> SUFFICES ASSUME TypeOK, NEW position \in 0..999
               PROVE  Position(Shuffle, CohortAt(position)) = position
    BY DEF PositionsInvertShuffle, NUMERIC_COHORT_SIZE
  <2>1. CohortAt(position) = At(Shuffle, position)
    BY Zenon DEF CohortAt, At, NUMERIC_COHORT_SIZE
  <2>2. IsShuffle(Shuffle)
    BY BundleShuffle
  <2>3. Position(Shuffle, At(Shuffle, position)) = position
    <3> DEFINE shuffle == Shuffle
    <3>1. IsShuffle(shuffle)
      BY <2>2
    <3> HIDE DEF shuffle
    <3>2. position \in Int
      OBVIOUS
    <3>3. Position(shuffle, At(shuffle, position)) = position
      BY <3>1, <3>2, PositionOfCohort
    <3>4. QED
      BY <3>3 DEF shuffle
  <2>4. QED
    BY <2>1, <2>3
<1>2. QED
  BY <1>1, TypeInvariance, PTL

\* Which numeric cohorts the rollout reaches.
Reached(shuffle, size) == { n \in 1..1000 : Position(shuffle, n) < size }

\* As many as its count: the shuffle is a bijection from the first positions.
LEMMA ReachedCount ==
  ASSUME NEW shuffle, IsShuffle(shuffle), NEW size \in 1..1000
  PROVE  Cardinality(Reached(shuffle, size)) = size
<1> DEFINE places == 0..(size - 1)
           shuffled == [p \in places |-> At(shuffle, p)]
<1>1. places \subseteq 0..999
  OBVIOUS
<1>2. ASSUME NEW p \in places
      PROVE  /\ At(shuffle, p) \in Reached(shuffle, size)
             /\ Position(shuffle, At(shuffle, p)) = p
  <2>1. PICK k \in Int : k = p /\ k \in 0..999 /\ k < size
    BY <1>1
  <2>2. At(shuffle, k) \in 1..1000 /\ Position(shuffle, At(shuffle, k)) = k
    <3> HIDE DEF places, shuffled
    <3>1. k \in 0..999
      BY <2>1
    <3>2. Position(shuffle, At(shuffle, k)) = k
      BY <3>1, PositionOfCohort
    <3>3. At(shuffle, k) \in 1..1000
      BY AtIs
    <3>4. QED
      BY <3>2, <3>3
  <2>3. QED
    BY <2>1, <2>2 DEF Reached
<1>3. /\ shuffled \in [places -> Reached(shuffle, size)]
      /\ \A p \in places, q \in places : shuffled[p] = shuffled[q] => p = q
  <2> HIDE DEF places
  <2>1. QED
    BY <1>2
<1>4. ASSUME NEW n \in Reached(shuffle, size)
      PROVE  \E p \in places : shuffled[p] = n
  <2>1. n \in 1..1000 /\ Position(shuffle, n) \in places
    <3>1. n \in 1..1000 /\ Position(shuffle, n) < size
      BY DEF Reached
    <3>2. PICK k \in Int : k = n
      BY <3>1
    <3>3. Position(shuffle, k) \in Int /\ 0 <= Position(shuffle, k)
      BY PositionIs
    <3>4. PICK p \in Int : p = Position(shuffle, n) /\ 0 <= p
      BY <3>2, <3>3
    <3>5. p \in places
      BY <3>1, <3>4
    <3>6. QED
      BY <3>1, <3>4, <3>5
  <2>2. At(shuffle, Position(shuffle, n)) = n
    <3>1. PICK k \in Int : k = n /\ k \in 1..1000
      BY <2>1
    <3>2. At(shuffle, Position(shuffle, k)) = k
      BY <3>1, CohortAtPosition
    <3>3. QED
      BY <3>1, <3>2
  <2> HIDE DEF places
  <2>3. QED
    BY <2>1, <2>2
<1>5. shuffled \in Bijection(places, Reached(shuffle, size))
  <2> HIDE DEF places, shuffled
  <2>1. QED
    BY <1>3, <1>4, Fun_IsBij
<1>6. IsFiniteSet(places) /\ Cardinality(places) = size
  <2>1. 0 \in Int /\ size - 1 \in Int
    OBVIOUS
  <2>2. IsFiniteSet(places) /\ Cardinality(places) = IF 0 > size - 1 THEN 0 ELSE (size - 1) - 0 + 1
    BY <2>1, FS_Interval
  <2>3. QED
    BY <2>2
<1>7. QED
  <2> HIDE DEF places, shuffled
  <2>1. ExistsBijection(places, Reached(shuffle, size))
    BY <1>5, Fun_ExistsBij
  <2>2. QED
    BY <1>6, <2>1, FS_Bijection

\* A numeric cohort as the server writes it.
Number(n) == Numeric(n, TRUE)

LEMMA NumberIs ==
  ASSUME NEW n
  PROVE  Number(n).kind = "numeric" /\ Number(n).value = n
BY Zenon DEF Number, Numeric

\* The rollout of a bundle without target cohorts.
LEMMA RolloutOf ==
  ASSUME NEW n \in Int, n \in 1..1000, NEW rollout, NEW shuffle
  PROVE  is_cohort_eligible_for_update(Number(n), rollout, {}, shuffle)
           <=> /\ Clamp(rollout) > 0
               /\ Clamp(rollout) >= 1000 \/ Position(shuffle, n) < Clamp(rollout)
<1>1. PICK cohort : /\ cohort = Number(n)
                    /\ cohort.kind = "numeric" /\ cohort.value = n
  BY NumberIs
<1>2. ~Targeted(cohort, {})
  BY DEF Targeted
<1>3. cohort.kind # "none"
  BY <1>1
<1>4. InRollout(cohort, rollout, shuffle)
        <=> /\ Clamp(rollout) > 0
            /\ Clamp(rollout) >= 1000 \/ Position(shuffle, cohort.value) < Clamp(rollout)
  BY <1>1, <1>3 DEF InRollout, NUMERIC_COHORT_SIZE
<1>5. QED
  <2>1. is_cohort_eligible_for_update(cohort, rollout, {}, shuffle)
          <=> /\ Clamp(rollout) > 0
              /\ Clamp(rollout) >= 1000 \/ Position(shuffle, cohort.value) < Clamp(rollout)
    BY <1>2, <1>4 DEF is_cohort_eligible_for_update
  <2>2. QED
    BY <1>1, <2>1

LEMMA ClampIs ==
  ASSUME NEW rollout \in Int
  PROVE  Clamp(rollout) \in Int /\ 0 <= Clamp(rollout) /\ Clamp(rollout) <= 1000
BY DEF Clamp

Numbers == 1..1000

LEMMA ThousandCohorts == Cardinality(Numbers) = 1000
<1>1. PICK one \in Int, all \in Int : one = 1 /\ all = 1000
  OBVIOUS
<1>2. IsFiniteSet(one..all) /\ Cardinality(one..all) = IF one > all THEN 0 ELSE all - one + 1
  BY FS_Interval
<1>3. Numbers = one..all
  BY <1>1 DEF Numbers
<1>4. QED
  BY <1>1, <1>2, <1>3

\* So many of the numeric cohorts are let in.
LetIn(open, shuffle, size) ==
  /\ open \subseteq Numbers
  /\ \A n \in Numbers : n \in open
        <=> size > 0 /\ (size >= 1000 \/ Position(shuffle, n) < size)

LEMMA ShareOf ==
  ASSUME NEW shuffle, IsShuffle(shuffle), NEW size \in Int, 0 <= size, size <= 1000,
         NEW open, LetIn(open, shuffle, size)
  PROVE  Cardinality(open) = size
<1>1. CASE size = 0
  <2>1. ~(size > 0)
    BY <1>1
  <2>2. open = {}
    BY <2>1, Zenon DEF LetIn
  <2>3. QED
    BY <1>1, <2>2, FS_EmptySet
<1>2. CASE size = 1000
  <2>1. size > 0 /\ size >= 1000
    BY <1>2
  <2>2. open = Numbers
    BY <2>1, Zenon DEF LetIn
  <2>3. QED
    BY <1>2, <2>2, ThousandCohorts
<1>3. CASE size \in 1..999
  <2>1. size > 0 /\ ~(size >= 1000)
    BY <1>3
  <2>2. open = { n \in Numbers : Position(shuffle, n) < size }
    <3>1. open \subseteq Numbers
      BY Zenon DEF LetIn
    <3>2. \A n \in Numbers : n \in open <=> Position(shuffle, n) < size
      BY <2>1, Zenon DEF LetIn
    <3>3. QED
      BY <3>1, <3>2
  <2>3. open = Reached(shuffle, size)
    BY <2>2, Zenon DEF Reached, Numbers
  <2>4. Cardinality(Reached(shuffle, size)) = size
    <3>1. PICK s \in 1..1000 : s = size
      BY <1>3
    <3>2. QED
      BY <3>1, ReachedCount
  <2>5. QED
    BY <2>3, <2>4
<1>4. QED
  BY <1>1, <1>2, <1>3

\* A rollout of n out of 1000 opens the bundle to exactly n of the numeric
\* cohorts, whatever the hashes of its id.
THEOREM ShareIsExact ==
  Spec => []ExactShare
<1>1. TypeOK => ExactShare
  <2> DEFINE open == { n \in Numbers : Eligible(Number(n)) }
  <2> SUFFICES ASSUME TypeOK, targets = {}
               PROVE  Cardinality(open) = Clamp(count)
    BY Zenon DEF ExactShare, NUMERIC_COHORT_SIZE, Number, Numbers
  <2>1. PICK shuffle : shuffle = Shuffle /\ IsShuffle(shuffle)
    BY BundleShuffle, Zenon
  <2>2. PICK size \in Int : size = Clamp(count) /\ 0 <= size /\ size <= 1000
    <3>1. count \in Int
      BY DEF TypeOK
    <3>2. QED
      BY <3>1, ClampIs
  <2>3. ASSUME NEW n \in Numbers
        PROVE  n \in open <=> size > 0 /\ (size >= 1000 \/ Position(shuffle, n) < size)
    <3>1. PICK k \in Int : k = n /\ k \in 1..1000
      BY DEF Numbers
    <3>2. Eligible(Number(k))
            <=> size > 0 /\ (size >= 1000 \/ Position(shuffle, k) < size)
      BY <2>1, <2>2, <3>1, RolloutOf DEF Eligible
    <3>3. QED
      BY <3>1, <3>2
  <2>4. open \subseteq Numbers
    OBVIOUS
  <2> HIDE DEF open
  <2>5. LetIn(open, shuffle, size)
    BY <2>3, <2>4, Zenon DEF LetIn
  <2>6. Cardinality(open) = size
    BY <2>1, <2>2, <2>5, ShareOf
  <2>7. QED
    BY <2>2, <2>6
<1>2. QED
  BY <1>1, TypeInvariance, PTL

\* Whom a rollout reaches, a larger one with more targets does.
LEMMA LargerReachesMore ==
  ASSUME NEW cohort \in Cohorts, NEW shuffle, IsShuffle(shuffle),
         NEW before \in Int, NEW after \in Int, before <= after,
         NEW list, NEW longer, list \subseteq longer,
         is_cohort_eligible_for_update(cohort, before, list, shuffle)
  PROVE  is_cohort_eligible_for_update(cohort, after, longer, shuffle)
<1>1. Targeted(cohort, list) => Targeted(cohort, longer)
  BY DEF Targeted
<1>2. PICK low \in Int, high \in Int :
        low = Clamp(before) /\ high = Clamp(after) /\ low <= high
  BY DEF Clamp
<1>3. CASE cohort.kind = "numeric" /\ cohort.value \in 1..NUMERIC_COHORT_SIZE
  <2>1. PICK n \in Int : n = cohort.value
    BY <1>3 DEF NUMERIC_COHORT_SIZE
  <2>2. Position(shuffle, n) \in Int
    BY PositionIs
  <2>3. PICK place \in Int : place = Position(shuffle, cohort.value)
    BY <2>1, <2>2
  <2>4. InRollout(cohort, before, shuffle) => InRollout(cohort, after, shuffle)
    BY <1>2, <1>3, <2>3 DEF InRollout, NUMERIC_COHORT_SIZE
  <2>5. QED
    BY <1>1, <2>4 DEF is_cohort_eligible_for_update
<1>4. CASE ~(cohort.kind = "numeric" /\ cohort.value \in 1..NUMERIC_COHORT_SIZE)
  <2>1. InRollout(cohort, before, shuffle) => InRollout(cohort, after, shuffle)
    BY <1>2, <1>4 DEF InRollout, NUMERIC_COHORT_SIZE
  <2>2. QED
    BY <1>1, <2>1 DEF is_cohort_eligible_for_update
<1>5. QED
  BY <1>3, <1>4

\* Raising the count, or adding targets, takes the bundle from no device: the
\* shuffle is the id's, and a PATCH leaves the id alone.
THEOREM NobodyIsShutOut ==
  Spec => RolloutOnlyGrows
<1>1. ASSUME TypeOK, TypeOK', Patch, count' >= count, targets \subseteq targets',
             NEW cohort \in Cohorts, Eligible(cohort)
      PROVE  Eligible(cohort)'
  <2> DEFINE shuffle == Shuffle
  <2>1. Shuffle' = Shuffle
    BY <1>1 DEF Patch, Shuffle
  <2>2. IsShuffle(shuffle)
    BY <1>1, BundleShuffle
  <2>3. is_cohort_eligible_for_update(cohort, count, targets, shuffle)
    BY <1>1 DEF Eligible
  <2>4. count \in Int /\ count' \in Int /\ count <= count'
    BY <1>1 DEF TypeOK
  <2> HIDE DEF shuffle
  <2>5. is_cohort_eligible_for_update(cohort, count', targets', shuffle)
    BY <1>1, <2>2, <2>3, <2>4, LargerReachesMore
  <2>6. QED
    BY <2>1, <2>5 DEF Eligible, shuffle
<1>2. TypeOK /\ TypeOK' /\ [Patch]_vars =>
        [count' >= count /\ targets \subseteq targets' =>
           \A cohort \in Cohorts : Eligible(cohort) => Eligible(cohort)']_vars
  BY <1>1
<1>3. QED
  BY <1>2, TypeInvariance, PTL DEF Spec, RolloutOnlyGrows
===============================================================================
