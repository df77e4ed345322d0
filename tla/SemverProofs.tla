----------------------------- MODULE SemverProofs -----------------------------
(***************************************************************************)
(* satisfies agrees with npm's definition, for every version and for every *)
(* range in which versions are written the way both of them read.          *)
(***************************************************************************)
EXTENDS Semver, TLAPS

Triple(v) == v = <<v[1], v[2], v[3]>> /\ \A i \in 1..3 : v[i] \in Number

Partial(p) ==
  /\ p.parts \in Seq(Nat) /\ Len(p.parts) \in 1..3
  /\ \A i \in 1..Len(p.parts) : p.parts[i] < U64Max
  /\ p.prerelease \in BOOLEAN

-----------------------------------------------------------------------------
(* Partial versions.                                                       *)

LEMMA Successors ==
  ASSUME NEW n \in Nat, n < U64Max
  PROVE  Successor(n) = n + 1
BY SemverAssumption DEF Successor

\* A segment is one of three kinds, and what npm reads has no junk in it.
LEMMA SegmentKinds ==
  ASSUME NEW raw \in RawVersion, PlainVersion(raw), NEW i \in DOMAIN raw.segments
  PROVE  /\ raw.segments[i] \in {Wild, Junk} \/ (/\ raw.segments[i] \in 0..SafeMax
                                                 /\ raw.segments[i] \in Nat
                                                 /\ raw.segments[i] < U64Max
                                                 /\ raw.segments[i] \notin {Wild, Junk})
         /\ Wild # Junk /\ Junk \notin 0..SafeMax
<1>1. Wild # Junk /\ \A n \in 0..SafeMax : n \notin {Wild, Junk}
  BY SemverAssumption DEF Number
<1>2. CASE raw.segments[i] \in {Wild, Junk}
  BY <1>1, <1>2
<1>3. CASE raw.segments[i] \in 0..(SafeMax - 1)
  BY <1>1, <1>3, SemverAssumption
<1>4. QED
  BY <1>2, <1>3 DEF PlainVersion

\* What the parser and npm read in a version is the same.
LEMMA SameVersion ==
  ASSUME NEW raw \in RawVersion, PlainVersion(raw), raw.segments[1] # Wild, NpmReads(raw)
  PROVE  /\ parse_partial_version(raw) = NpmVersion(raw)
         /\ Partial(NpmVersion(raw)) /\ NpmVersion(raw) \in PartialVersion
<1> DEFINE seg == raw.segments
           Q == NpmVersion(raw)
<1>1. /\ seg \in Seq(Number \cup {Wild, Junk}) /\ DOMAIN seg = 1..Len(seg) /\ Len(seg) \in 1..3
      /\ raw.tag # "none" <=> raw.tag = "prerelease"
  BY DEF RawVersion, NpmReads
<1>2. \A i \in DOMAIN seg : seg[i] # Junk
  BY SegmentKinds DEF NpmReads
<1>3. Named(raw) = Specified(raw)
  BY DEF Named, Specified
<1>4. /\ 1 \in Specified(raw)
      /\ 2 \in Specified(raw) <=> Len(seg) >= 2 /\ seg[2] # Wild
      /\ 3 \in Specified(raw) <=> Len(seg) = 3 /\ seg[2] # Wild /\ seg[3] # Wild
      /\ Specified(raw) \subseteq 1..3
  <2>1. 1..1 = {1} /\ 1..2 = {1, 2} /\ 1..3 = {1, 2, 3}
    OBVIOUS
  <2>2. QED
    BY <1>1, <2>1 DEF Specified
<1>5. \A i \in Specified(raw) : seg[i] \in Nat /\ seg[i] < U64Max /\ seg[i] \in Number
  <2> SUFFICES ASSUME NEW i \in Specified(raw) PROVE seg[i] \in Nat /\ seg[i] < U64Max /\ seg[i] \in Number
    OBVIOUS
  <2>1. i \in DOMAIN seg /\ seg[i] # Wild
    BY <1>1 DEF Specified
  <2>2. QED
    BY <1>2, <2>1, SegmentKinds, SemverAssumption DEF Number
<1>6. /\ parse_partial_version(raw) =
           [parts |-> IF 2 \notin Specified(raw) THEN <<seg[1]>>
                      ELSE IF 3 \notin Specified(raw) THEN <<seg[1], seg[2]>>
                      ELSE <<seg[1], seg[2], seg[3]>>,
            prerelease |-> raw.tag # "none"]
      /\ Q = [parts |-> [i \in Specified(raw) |-> seg[i]], prerelease |-> raw.tag = "prerelease"]
  <2>1. \A i \in Specified(raw) : seg[i] # Junk
    BY <1>2 DEF Specified
  <2>2. QED
    BY <1>1, <1>3, <2>1 DEF parse_partial_version, NpmVersion
<1> HIDE DEF seg, Q
<1>7. CASE 2 \notin Specified(raw)
  <2>1. Specified(raw) = {1}
    BY <1>4, <1>7
  <2>2. [i \in Specified(raw) |-> seg[i]] = <<seg[1]>>
    BY <2>1
  <2>3. Q = [parts |-> <<seg[1]>>, prerelease |-> raw.tag = "prerelease"]
    BY <1>6, <2>2
  <2>4. Partial(Q) /\ Q \in PartialVersion
    BY <1>4, <1>5, <2>3 DEF Partial, PartialVersion
  <2>5. QED
    BY <1>1, <1>6, <1>7, <2>3, <2>4 DEF Q
<1>8. CASE 2 \in Specified(raw) /\ 3 \notin Specified(raw)
  <2>1. Specified(raw) = {1, 2}
    BY <1>4, <1>8
  <2>2. [i \in Specified(raw) |-> seg[i]] = <<seg[1], seg[2]>>
    BY <2>1
  <2>3. Q = [parts |-> <<seg[1], seg[2]>>, prerelease |-> raw.tag = "prerelease"]
    BY <1>6, <2>2
  <2>4. Partial(Q) /\ Q \in PartialVersion
    BY <1>4, <1>5, <1>8, <2>3 DEF Partial, PartialVersion
  <2>5. QED
    BY <1>1, <1>6, <1>8, <2>3, <2>4 DEF Q
<1>9. CASE 3 \in Specified(raw)
  <2>1. Specified(raw) = {1, 2, 3}
    BY <1>4, <1>9, <1>1
  <2>2. [i \in Specified(raw) |-> seg[i]] = <<seg[1], seg[2], seg[3]>>
    BY <2>1
  <2>3. Q = [parts |-> <<seg[1], seg[2], seg[3]>>, prerelease |-> raw.tag = "prerelease"]
    BY <1>6, <2>2
  <2>4. Partial(Q) /\ Q \in PartialVersion
    BY <2>1, <1>5, <2>3 DEF Partial, PartialVersion
  <2>5. QED
    BY <1>1, <1>6, <2>1, <2>3, <2>4 DEF Q
<1>10. QED
  BY <1>7, <1>8, <1>9

\* The parser and npm's grammar read the same versions, bare wildcards apart.
LEMMA SameGrammar ==
  ASSUME NEW raw \in RawVersion, PlainVersion(raw), raw.segments[1] # Wild
  PROVE  parse_partial_version(raw) # Invalid <=> NpmReads(raw)
<1> DEFINE seg == raw.segments
<1>1. seg \in Seq(Number \cup {Wild, Junk}) /\ DOMAIN seg = 1..Len(seg) /\ Len(seg) \in Nat
  BY DEF RawVersion
<1>2. (\E i \in Specified(raw) : seg[i] = Junk) <=> \E i \in DOMAIN seg : seg[i] = Junk
  <2>1. ASSUME NEW i \in DOMAIN seg, seg[i] = Junk
        PROVE  i \in Specified(raw)
    <3>1. \A j \in 1..i : seg[j] # Wild
      BY <1>1, <2>1, SemverAssumption DEF PlainVersion
    <3>2. QED
      BY <2>1, <3>1 DEF Specified
  <2>2. QED
    BY <2>1 DEF Specified
<1>3. (\A i \in DOMAIN seg : seg[i] \in {Wild} \cup 0..SafeMax) <=> ~\E i \in DOMAIN seg : seg[i] = Junk
  BY SegmentKinds
<1>4. NpmReads(raw) <=> Len(seg) \in 1..3 /\ ~\E i \in DOMAIN seg : seg[i] = Junk
  BY <1>3 DEF NpmReads, PlainVersion
<1>5. CASE NpmReads(raw)
  BY <1>5, SameVersion, SemverAssumption
<1>6. CASE ~NpmReads(raw)
  <2>1. parse_partial_version(raw) = Invalid
    BY <1>2, <1>4, <1>6 DEF parse_partial_version
  <2>2. QED
    BY <1>6, <2>1
<1>7. QED
  BY <1>5, <1>6

\* A bare wildcard names no part.
LEMMA WildNamesNothing ==
  ASSUME NEW raw \in RawVersion, raw.segments = <<Wild>>
  PROVE  NpmVersion(raw).parts = << >> /\ Len(NpmVersion(raw).parts) = 0
<1>1. DOMAIN raw.segments = {1} /\ 1..1 = {1} /\ raw.segments[1] = Wild
  OBVIOUS
<1>2. Named(raw) = {}
  BY <1>1 DEF Named
<1>3. NpmVersion(raw).parts = [i \in {} |-> raw.segments[i]]
  BY <1>2 DEF NpmVersion
<1>4. QED
  BY <1>3

-----------------------------------------------------------------------------
(* Comparators.                                                            *)

LEMMA AgreesUpTo ==
  ASSUME NEW v, NEW p
  PROVE  /\ Agrees(v, p, 0)
         /\ Agrees(v, p, 1) <=> v[1] = p.parts[1]
         /\ Agrees(v, p, 2) <=> v[1] = p.parts[1] /\ v[2] = p.parts[2]
         /\ Agrees(v, p, 3) <=> v[1] = p.parts[1] /\ v[2] = p.parts[2] /\ v[3] = p.parts[3]
<1>1. 1..0 = {} /\ 1..1 = {1} /\ 1..2 = {1, 2} /\ 1..3 = {1, 2, 3}
  OBVIOUS
<1>2. QED
  BY <1>1 DEF Agrees

LEMMA PartsAre ==
  ASSUME NEW p, Partial(p)
  PROVE  /\ DOMAIN p.parts = 1..Len(p.parts)
         /\ Len(p.parts) = 1 => 1..Len(p.parts) = {1}
         /\ Len(p.parts) = 2 => 1..Len(p.parts) = {1, 2}
         /\ Len(p.parts) = 3 => 1..Len(p.parts) = {1, 2, 3}
         /\ \A i \in 1..Len(p.parts) : p.parts[i] \in Nat /\ p.parts[i] < U64Max
<1>1. DOMAIN p.parts = 1..Len(p.parts) /\ \A i \in 1..Len(p.parts) : p.parts[i] \in Nat
  BY DEF Partial
<1>2. 1..1 = {1} /\ 1..2 = {1, 2} /\ 1..3 = {1, 2, 3}
  OBVIOUS
<1>3. QED
  BY <1>1, <1>2 DEF Partial

LEMMA LengthIs ==
  ASSUME NEW p, Partial(p)
  PROVE  Len(p.parts) \in {1, 2, 3} /\ Len(p.parts) \in 1..Len(p.parts)
<1>1. Len(p.parts) \in {1, 2, 3}
  BY DEF Partial
<1>2. QED
  BY <1>1

\* Before and after, part by part.
LEMMA BeforeMeans ==
  ASSUME NEW v, NEW p, Partial(p)
  PROVE  Before(v, p) <=>
           \/ v[1] < p.parts[1]
           \/ Len(p.parts) > 1 /\ v[1] = p.parts[1] /\ v[2] < p.parts[2]
           \/ Len(p.parts) > 2 /\ v[1] = p.parts[1] /\ v[2] = p.parts[2] /\ v[3] < p.parts[3]
<1>1. Before(v, p) <=>
        \/ Agrees(v, p, 0) /\ v[1] < p.parts[1]
        \/ Len(p.parts) > 1 /\ Agrees(v, p, 1) /\ v[2] < p.parts[2]
        \/ Len(p.parts) > 2 /\ Agrees(v, p, 2) /\ v[3] < p.parts[3]
  <2>1. CASE Len(p.parts) = 1
    BY <2>1, PartsAre DEF Before
  <2>2. CASE Len(p.parts) = 2
    BY <2>2, PartsAre DEF Before
  <2>3. CASE Len(p.parts) = 3
    <3>1. DOMAIN p.parts = {1, 2, 3}
      BY <2>3, PartsAre
    <3>2. Before(v, p) <=> \E i \in {1, 2, 3} : Agrees(v, p, i - 1) /\ v[i] < p.parts[i]
      BY <3>1 DEF Before
    <3>3. QED
      BY <2>3, <3>2
  <2>4. QED
    BY <2>1, <2>2, <2>3 DEF Partial
<1>2. QED
  BY <1>1, AgreesUpTo

LEMMA AfterMeans ==
  ASSUME NEW v, NEW p, Partial(p)
  PROVE  After(v, p) <=>
           \/ v[1] > p.parts[1]
           \/ Len(p.parts) > 1 /\ v[1] = p.parts[1] /\ v[2] > p.parts[2]
           \/ Len(p.parts) > 2 /\ v[1] = p.parts[1] /\ v[2] = p.parts[2] /\ v[3] > p.parts[3]
<1>1. After(v, p) <=>
        \/ Agrees(v, p, 0) /\ v[1] > p.parts[1]
        \/ Len(p.parts) > 1 /\ Agrees(v, p, 1) /\ v[2] > p.parts[2]
        \/ Len(p.parts) > 2 /\ Agrees(v, p, 2) /\ v[3] > p.parts[3]
  <2>1. CASE Len(p.parts) = 1
    BY <2>1, PartsAre DEF After
  <2>2. CASE Len(p.parts) = 2
    BY <2>2, PartsAre DEF After
  <2>3. CASE Len(p.parts) = 3
    <3>1. DOMAIN p.parts = {1, 2, 3}
      BY <2>3, PartsAre
    <3>2. After(v, p) <=> \E i \in {1, 2, 3} : Agrees(v, p, i - 1) /\ v[i] > p.parts[i]
      BY <3>1 DEF After
    <3>3. QED
      BY <2>3, <3>2
  <2>4. QED
    BY <2>1, <2>2, <2>3 DEF Partial
<1>2. QED
  BY <1>1, AgreesUpTo

\* A version at the lower end of what agrees with p is not before it.
LEMMA FromIsAtLeast ==
  ASSUME NEW v, Triple(v), NEW p, Partial(p)
  PROVE  eval_bound(v, From(p)) <=> AtLeast(v, p)
<1>1. eval_bound(v, From(p)) <=> ~Less(v, fill_zero(p))
  BY DEF eval_bound, From, Bound
<1>2. v[1] \in Nat /\ v[2] \in Nat /\ v[3] \in Nat
  BY DEF Triple, Number
<1>3. Less(v, fill_zero(p)) <=> Before(v, p)
  BY <1>2, PartsAre, BeforeMeans DEF Partial, Less, fill_zero, PartOr0
<1>4. QED
  BY <1>1, <1>3 DEF AtLeast

\* What the code compares a version with is what agrees with n parts of p.
LEMMA AboveIsPast ==
  ASSUME NEW v, Triple(v), NEW p, Partial(p), NEW n \in 1..Len(p.parts)
  PROVE  /\ ~Before(v, p) => (Less(v, Above(p, n)) <=> Agrees(v, p, n))
         /\ n = Len(p.parts) => (Less(v, Above(p, n)) <=> ~After(v, p))
<1>1. v[1] \in Nat /\ v[2] \in Nat /\ v[3] \in Nat
  BY DEF Triple, Number
<1>2. n \in {1, 2, 3} /\ Len(p.parts) \in {1, 2, 3} /\ n <= Len(p.parts)
  BY DEF Partial
<1>3. \A i \in 1..Len(p.parts) :
         p.parts[i] \in Nat /\ PartOr0(p, i) = p.parts[i] /\ Successor(p.parts[i]) = p.parts[i] + 1
  BY PartsAre, Successors DEF PartOr0
<1>4. CASE n = 1
  <2>1. p.parts[1] \in Nat /\ PartOr0(p, 1) = p.parts[1] /\ Successor(p.parts[1]) = p.parts[1] + 1
    BY <1>2, <1>3
  <2>2. Above(p, n) = <<p.parts[1] + 1, 0, 0>>
    BY <1>4, <2>1 DEF Above
  <2>3. Less(v, Above(p, n)) <=> v[1] <= p.parts[1]
    BY <1>1, <2>1, <2>2 DEF Less
  <2>4. QED
    BY <1>1, <1>4, <2>1, <2>3, AgreesUpTo, BeforeMeans, AfterMeans
<1>5. CASE n = 2
  <2>1. /\ \A i \in 1..2 : p.parts[i] \in Nat /\ PartOr0(p, i) = p.parts[i]
        /\ Successor(p.parts[2]) = p.parts[2] + 1
    BY <1>2, <1>3, <1>5
  <2>2. Above(p, n) = <<p.parts[1], p.parts[2] + 1, 0>>
    BY <1>5, <2>1 DEF Above
  <2>3. Less(v, Above(p, n)) <=> v[1] < p.parts[1] \/ (v[1] = p.parts[1] /\ v[2] <= p.parts[2])
    BY <1>1, <2>1, <2>2 DEF Less
  <2>4. QED
    BY <1>1, <1>2, <1>5, <2>1, <2>3, AgreesUpTo, BeforeMeans, AfterMeans
<1>6. CASE n = 3
  <2>1. /\ \A i \in 1..3 : p.parts[i] \in Nat /\ PartOr0(p, i) = p.parts[i]
        /\ Successor(p.parts[3]) = p.parts[3] + 1
    BY <1>2, <1>3, <1>6
  <2>2. Above(p, n) = <<p.parts[1], p.parts[2], p.parts[3] + 1>>
    BY <1>6, <2>1 DEF Above
  <2>3. Less(v, Above(p, n)) <=>
          \/ v[1] < p.parts[1]
          \/ v[1] = p.parts[1] /\ v[2] < p.parts[2]
          \/ v[1] = p.parts[1] /\ v[2] = p.parts[2] /\ v[3] <= p.parts[3]
    BY <1>1, <2>1, <2>2 DEF Less
  <2>4. QED
    BY <1>1, <1>2, <1>6, <2>1, <2>3, AgreesUpTo, BeforeMeans, AfterMeans
<1>7. QED
  BY <1>2, <1>4, <1>5, <1>6

LEMMA FullMeans ==
  ASSUME NEW v, Triple(v), NEW p, Partial(p), Full(p)
  PROVE  /\ v = fill_zero(p) <=> Agrees(v, p, 3)
         /\ Less(fill_zero(p), v) <=> After(v, p)
         /\ ~(After(v, p) /\ Agrees(v, p, 3)) /\ (Agrees(v, p, 3) => ~Before(v, p))
<1>1. v[1] \in Nat /\ v[2] \in Nat /\ v[3] \in Nat /\ v = <<v[1], v[2], v[3]>>
  BY DEF Triple, Number
<1>2. Len(p.parts) = 3 /\ \A i \in 1..3 : p.parts[i] \in Nat
  BY PartsAre DEF Full
<1>3. fill_zero(p) = <<p.parts[1], p.parts[2], p.parts[3]>>
  BY <1>2 DEF fill_zero, PartOr0
<1>4. v = fill_zero(p) <=> Agrees(v, p, 3)
  BY <1>1, <1>3, AgreesUpTo
<1>5. Less(fill_zero(p), v) <=> After(v, p)
  BY <1>1, <1>2, <1>3, AfterMeans DEF Less
<1>6. QED
  BY <1>1, <1>2, <1>4, <1>5, AgreesUpTo, AfterMeans, BeforeMeans

\* The part a caret keeps is the last that npm's leading parts name.
LEMMA CaretIsLeading ==
  ASSUME NEW v, Triple(v), NEW p, Partial(p)
  PROVE  /\ CaretPart(p) \in 1..Len(p.parts)
         /\ Agrees(v, p, CaretPart(p)) <=> \A n \in Leading(p) : Agrees(v, p, n)
<1> DEFINE leads(n) == \A i \in 1..(n - 1) : p.parts[i] = 0
<1>1. 1..0 = {} /\ 1..1 = {1} /\ 1..2 = {1, 2}
  OBVIOUS
<1>2. leads(1) /\ (leads(2) <=> p.parts[1] = 0) /\ (leads(3) <=> p.parts[1] = 0 /\ p.parts[2] = 0)
  BY <1>1
<1>3. \A n \in {1, 2, 3} : leads(n) <=> \A i \in 1..(n - 1) : p.parts[i] = 0
  OBVIOUS
<1> HIDE DEF leads
<1>4. Agrees(v, p, 3) => Agrees(v, p, 2)
  BY AgreesUpTo
<1>5. Agrees(v, p, 2) => Agrees(v, p, 1)
  BY AgreesUpTo
<1>6. CASE Len(p.parts) = 1
  <2>1. p.parts[1] \in Nat /\ DOMAIN p.parts = {1}
    BY <1>6, PartsAre
  <2>2. Leading(p) = {1}
    BY <1>2, <1>3, <2>1 DEF Leading
  <2>3. CaretPart(p) = 1
    BY <1>6 DEF CaretPart
  <2>4. QED
    BY <1>6, <2>2, <2>3
<1>7. CASE Len(p.parts) = 2
  <2>1. p.parts[1] \in Nat /\ DOMAIN p.parts = {1, 2}
    BY <1>7, PartsAre
  <2>2. \A n \in {1, 2} : n \in Leading(p) <=> leads(n)
    BY <1>3, <2>1 DEF Leading
  <2>3. Leading(p) \subseteq {1, 2}
    BY <2>1 DEF Leading
  <2>4. CASE p.parts[1] = 0
    <3>1. CaretPart(p) = 2
      BY <1>7, <2>4 DEF CaretPart
    <3>2. QED
      BY <1>2, <1>5, <1>7, <2>2, <2>3, <2>4, <3>1
  <2>5. CASE p.parts[1] > 0
    <3>1. CaretPart(p) = 1
      BY <2>5 DEF CaretPart
    <3>2. QED
      BY <1>2, <1>7, <2>1, <2>2, <2>3, <2>5, <3>1
  <2>6. QED
    BY <2>1, <2>4, <2>5
<1>8. CASE Len(p.parts) = 3
  <2>1. p.parts[1] \in Nat /\ p.parts[2] \in Nat /\ DOMAIN p.parts = {1, 2, 3}
    BY <1>8, PartsAre
  <2>2. \A n \in {1, 2, 3} : n \in Leading(p) <=> leads(n)
    BY <1>3, <2>1 DEF Leading
  <2>3. Leading(p) \subseteq {1, 2, 3}
    BY <2>1 DEF Leading
  <2>4. CASE p.parts[1] = 0 /\ p.parts[2] = 0
    <3>1. CaretPart(p) = 3
      BY <1>8, <2>4 DEF CaretPart
    <3>2. QED
      BY <1>2, <1>4, <1>5, <1>8, <2>2, <2>3, <2>4, <3>1
  <2>5. CASE p.parts[1] = 0 /\ p.parts[2] # 0
    <3>1. CaretPart(p) = 2
      BY <1>8, <2>5 DEF CaretPart
    <3>2. QED
      BY <1>2, <1>5, <1>8, <2>2, <2>3, <2>5, <3>1
  <2>6. CASE p.parts[1] > 0
    <3>1. CaretPart(p) = 1
      BY <2>6 DEF CaretPart
    <3>2. QED
      BY <1>2, <1>8, <2>1, <2>2, <2>3, <2>6, <3>1
  <2>7. QED
    BY <2>1, <2>4, <2>5, <2>6
<1>9. QED
  BY <1>6, <1>7, <1>8 DEF Partial

-----------------------------------------------------------------------------
(* Comparators.                                                            *)

LEMMA AtMostIsNotBeyond ==
  ASSUME NEW v, Triple(v), NEW p, Partial(p)
  PROVE  eval_bound(v, AtMost(p)) <=> ~Beyond(v, p)
<1>1. CASE Full(p)
  <2>1. eval_bound(v, AtMost(p)) <=> ~Less(fill_zero(p), v) /\ ~(p.prerelease /\ v = fill_zero(p))
    BY <1>1 DEF AtMost, Bound, eval_bound
  <2>2. QED
    BY <1>1, <2>1, FullMeans DEF Beyond, Partial
<1>2. CASE ~Full(p)
  <2>1. eval_bound(v, AtMost(p)) <=> Less(v, Above(p, Len(p.parts)))
    BY <1>2 DEF AtMost, Bound, eval_bound, increment_last_specified
  <2>2. Len(p.parts) \in 1..Len(p.parts)
    BY LengthIs
  <2>3. QED
    BY <1>2, <2>1, <2>2, AboveIsPast DEF Beyond
<1>3. QED
  BY <1>1, <1>2

Bounded(v, op, p) == \A b \in BoundsOf(op, p) : eval_bound(v, b)

\* A lower end and what is above the n-th part, together.
LEMMA WithinPart ==
  ASSUME NEW v, Triple(v), NEW p, Partial(p), NEW n \in 1..Len(p.parts)
  PROVE  (\A b \in {From(p), Below(Above(p, n))} : eval_bound(v, b))
           <=> AtLeast(v, p) /\ Agrees(v, p, n)
<1>1. eval_bound(v, Below(Above(p, n))) <=> Less(v, Above(p, n))
  BY DEF Below, Bound, eval_bound
<1>2. QED
  BY <1>1, FromIsAtLeast, AboveIsPast DEF AtLeast

LEMMA ComparatorsAgree ==
  ASSUME NEW v, Triple(v), NEW p, Partial(p), NEW op \in Operator \ {"~>"}
  PROVE  Bounded(v, op, p) <=> NpmMatches(v, op, p)
<1>1. Len(p.parts) \in 1..Len(p.parts) /\ Len(p.parts) \in {1, 2, 3}
  BY LengthIs
<1>2. CASE op \in {"", "="} /\ Full(p)
  <2>1. BoundsOf(op, p) = {Bound("=", fill_zero(p), p.prerelease)}
    BY <1>2 DEF BoundsOf
  <2>2. Bounded(v, op, p) <=> v = fill_zero(p) /\ ~p.prerelease
    BY <2>1 DEF Bounded, Bound, eval_bound
  <2>3. NpmMatches(v, op, p) <=> Agrees(v, p, 3) /\ ~Beyond(v, p)
    BY <1>2 DEF NpmMatches, Full
  <2>4. QED
    BY <1>2, <2>2, <2>3, FullMeans DEF Beyond, Partial
<1>3. CASE op \in {"", "="} /\ ~Full(p)
  <2>1. BoundsOf(op, p) = {From(p), Below(Above(p, Len(p.parts)))}
    BY <1>3 DEF BoundsOf, increment_last_specified
  <2>2. Bounded(v, op, p) <=> AtLeast(v, p) /\ Agrees(v, p, Len(p.parts))
    BY <1>1, <2>1, WithinPart DEF Bounded
  <2>3. NpmMatches(v, op, p) <=> Agrees(v, p, Len(p.parts)) /\ ~After(v, p)
    BY <1>3 DEF NpmMatches, Beyond
  <2>4. Agrees(v, p, Len(p.parts)) => ~After(v, p) /\ ~Before(v, p)
    <3>1. v[1] \in Nat /\ v[2] \in Nat /\ v[3] \in Nat
      BY DEF Triple, Number
    <3>2. \A i \in 1..Len(p.parts) : p.parts[i] \in Nat
      BY PartsAre
    <3>3. QED
      BY <1>1, <3>1, <3>2, AgreesUpTo, BeforeMeans, AfterMeans
  <2>5. QED
    BY <2>2, <2>3, <2>4 DEF AtLeast
<1>4. CASE op = ">="
  <2>1. BoundsOf(op, p) = {From(p)} /\ (NpmMatches(v, op, p) <=> AtLeast(v, p))
    BY <1>4 DEF BoundsOf, NpmMatches
  <2>2. QED
    BY <2>1, FromIsAtLeast DEF Bounded
<1>5. CASE op = "<"
  <2>1. BoundsOf(op, p) = {Below(fill_zero(p))} /\ (NpmMatches(v, op, p) <=> Before(v, p))
    BY <1>5 DEF BoundsOf, NpmMatches
  <2>2. eval_bound(v, Below(fill_zero(p))) <=> ~eval_bound(v, From(p))
    BY DEF Below, From, Bound, eval_bound
  <2>3. QED
    BY <2>1, <2>2, FromIsAtLeast DEF Bounded, AtLeast
<1>6. CASE op = ">" /\ Full(p)
  <2>1. /\ BoundsOf(op, p) = {Bound(">", fill_zero(p), p.prerelease)}
        /\ NpmMatches(v, op, p) <=> Beyond(v, p)
    BY <1>6 DEF BoundsOf, NpmMatches
  <2>2. Bounded(v, op, p) <=> Less(fill_zero(p), v) \/ (p.prerelease /\ v = fill_zero(p))
    BY <2>1 DEF Bounded, Bound, eval_bound
  <2>3. QED
    BY <1>6, <2>1, <2>2, FullMeans DEF Beyond, Partial
<1>7. CASE op = ">" /\ ~Full(p)
  <2>1. /\ BoundsOf(op, p) = {Bound(">=", Above(p, Len(p.parts)), FALSE)}
        /\ NpmMatches(v, op, p) <=> Beyond(v, p)
    BY <1>7 DEF BoundsOf, NpmMatches, increment_last_specified
  <2>2. Bounded(v, op, p) <=> ~Less(v, Above(p, Len(p.parts)))
    BY <2>1 DEF Bounded, Bound, eval_bound
  <2>3. QED
    BY <1>1, <1>7, <2>1, <2>2, AboveIsPast DEF Beyond
<1>8. CASE op = "<="
  <2>1. BoundsOf(op, p) = {AtMost(p)} /\ (NpmMatches(v, op, p) <=> ~Beyond(v, p))
    BY <1>8 DEF BoundsOf, NpmMatches
  <2>2. QED
    BY <2>1, AtMostIsNotBeyond DEF Bounded
<1>9. CASE op = "^"
  <2>1. /\ BoundsOf(op, p) = {From(p), Below(Above(p, CaretPart(p)))}
        /\ NpmMatches(v, op, p) <=> AtLeast(v, p) /\ \A n \in Leading(p) : Agrees(v, p, n)
    BY <1>9 DEF BoundsOf, NpmMatches
  <2>2. CaretPart(p) \in 1..Len(p.parts)
    BY CaretIsLeading
  <2>3. QED
    BY <2>1, <2>2, CaretIsLeading, WithinPart DEF Bounded
<1>10. CASE op = "~"
  <2>1. /\ BoundsOf(op, p) = {From(p), Below(Above(p, TildePart(p)))}
        /\ NpmMatches(v, op, p) <=>
             AtLeast(v, p) /\ \A n \in DOMAIN p.parts \ {3} : Agrees(v, p, n)
    BY <1>10 DEF BoundsOf, NpmMatches
  <2>2. TildePart(p) \in 1..Len(p.parts)
    <3>1. CASE Len(p.parts) = 1
      BY <3>1 DEF TildePart
    <3>2. CASE Len(p.parts) = 2
      BY <3>2 DEF TildePart
    <3>3. CASE Len(p.parts) = 3
      BY <3>3 DEF TildePart
    <3>4. QED
      BY <1>1, <3>1, <3>2, <3>3
  <2>3. Agrees(v, p, TildePart(p)) <=> \A n \in DOMAIN p.parts \ {3} : Agrees(v, p, n)
    <3>1. DOMAIN p.parts \ {3} = IF Len(p.parts) = 1 THEN {1} ELSE {1, 2}
      BY <1>1, PartsAre
    <3>2. Agrees(v, p, 2) => Agrees(v, p, 1)
      BY AgreesUpTo
    <3>3. QED
      BY <3>1, <3>2 DEF TildePart
  <2>4. QED
    BY <2>1, <2>2, <2>3, WithinPart DEF Bounded
<1>11. QED
  BY <1>2, <1>3, <1>4, <1>5, <1>6, <1>7, <1>8, <1>9, <1>10 DEF Operator

-----------------------------------------------------------------------------
(* Ranges.                                                                 *)

\* What a comparator of a plain range is made of.
LEMMA TermsAreTyped ==
  ASSUME NEW t \in Range, PlainRange(t), NEW i \in DOMAIN t
  PROVE  /\ t[i].terms \in Seq(Comparator) /\ t[i].hyphen \in BOOLEAN
         /\ \A j \in DOMAIN t[i].terms :
              /\ t[i].terms[j] \in Comparator /\ t[i].terms[j].raw \in RawVersion
              /\ PlainComparator(t[i].terms[j]) /\ PlainVersion(t[i].terms[j].raw)
              /\ t[i].hyphen => t[i].terms[j].raw.segments[1] # Wild
<1>1. t[i] \in Clause /\ PlainClause(t[i])
  BY DEF Range, PlainRange
<1>2. t[i].terms \in Seq(Comparator) /\ t[i].hyphen \in BOOLEAN
  BY <1>1 DEF Clause
<1>3. \A j \in DOMAIN t[i].terms : t[i].terms[j] \in Comparator
  BY <1>2
<1>4. QED
  BY <1>1, <1>2, <1>3 DEF PlainClause, PlainComparator, Comparator

\* A bare wildcard is boundless, any other plain version is not.
LEMMA BareIsBoundless ==
  ASSUME NEW c \in Comparator, PlainComparator(c)
  PROVE  /\ c.raw.segments[1] = Wild => Boundless(c.raw) /\ NpmReads(c.raw)
         /\ c.raw.segments[1] # Wild => ~Boundless(c.raw)
<1>1. c.raw \in RawVersion /\ PlainVersion(c.raw)
  BY DEF Comparator, PlainComparator
<1>2. CASE c.raw.segments[1] = Wild
  <2>1. c.raw.segments = <<Wild>>
    BY <1>2 DEF PlainComparator
  <2>2. Len(c.raw.segments) = 1 /\ DOMAIN c.raw.segments = {1}
    BY <2>1
  <2>3. c.raw.tag = "none"
    BY <1>1, <2>2 DEF PlainVersion
  <2>4. QED
    BY <1>2, <2>1, <2>2, <2>3 DEF Boundless, NpmReads
<1>3. CASE c.raw.segments[1] # Wild
  BY <1>1, <1>3 DEF Boundless, PlainVersion
<1>4. QED
  BY <1>2, <1>3

LEMMA TermsParse ==
  ASSUME NEW c \in Comparator, PlainComparator(c)
  PROVE  Parses(c) <=> NpmReads(c.raw)
<1>1. c.raw \in RawVersion /\ PlainVersion(c.raw) /\ c.op # "~>"
  BY DEF Comparator, PlainComparator
<1>2. QED
  BY <1>1, BareIsBoundless, SameGrammar DEF Parses

LEMMA TermsAgree ==
  ASSUME NEW v, Triple(v), NEW c \in Comparator, PlainComparator(c), NpmReads(c.raw)
  PROVE  (\A b \in parse_comparator_bounds(c) : eval_bound(v, b))
           <=> NpmMatches(v, c.op, NpmVersion(c.raw))
<1>1. c.op \in Operator \ {"~>"} /\ c.raw \in RawVersion /\ PlainVersion(c.raw)
  BY DEF Comparator, PlainComparator
<1>2. CASE c.raw.segments[1] = Wild
  <2> DEFINE p == NpmVersion(c.raw)
  <2>1. parse_comparator_bounds(c) = {}
    BY <1>2, BareIsBoundless DEF parse_comparator_bounds
  <2>2. c.raw.segments = <<Wild>> /\ c.op \notin {">", "<"}
    BY <1>2 DEF PlainComparator
  <2>3. p.parts = << >> /\ Len(p.parts) = 0
    BY <1>1, <2>2, WildNamesNothing
  <2> HIDE DEF p
  <2>4. DOMAIN p.parts = {} /\ 1..Len(p.parts) = {}
    BY <2>3
  <2>5. Agrees(v, p, Len(p.parts)) /\ AtLeast(v, p) /\ ~Beyond(v, p) /\ Leading(p) = {}
    BY <2>3, <2>4 DEF Agrees, AtLeast, Before, Beyond, After, Full, Leading
  <2>6. c.op \in {"", "=", ">=", "<=", "^", "~"}
    BY <1>1, <2>2 DEF Operator
  <2>7. NpmMatches(v, c.op, p)
    BY <2>4, <2>5, <2>6 DEF NpmMatches
  <2>8. QED
    BY <2>1, <2>7 DEF p
<1>3. CASE c.raw.segments[1] # Wild
  <2>1. /\ parse_partial_version(c.raw) = NpmVersion(c.raw)
        /\ Partial(NpmVersion(c.raw))
    BY <1>1, <1>3, SameVersion
  <2>2. Token(c).op = c.op
    BY DEF Token, PlainComparator
  <2>3. parse_comparator_bounds(c) = BoundsOf(c.op, NpmVersion(c.raw))
    BY <1>3, <2>1, <2>2, BareIsBoundless DEF parse_comparator_bounds
  <2>4. QED
    BY <1>1, <2>1, <2>3, ComparatorsAgree DEF Bounded
<1>4. QED
  BY <1>2, <1>3

LEMMA ClausesParse ==
  ASSUME NEW t \in Range, PlainRange(t), NEW i \in DOMAIN t
  PROVE  ClauseParses(t[i]) <=> \A j \in DOMAIN t[i].terms : NpmReads(t[i].terms[j].raw)
<1>1. ASSUME NEW j \in DOMAIN t[i].terms
      PROVE  (IF t[i].hyphen THEN parse_partial_version(t[i].terms[j].raw) # Invalid
              ELSE Parses(t[i].terms[j])) <=> NpmReads(t[i].terms[j].raw)
  BY TermsAreTyped, TermsParse, SameGrammar
<1>2. QED
  BY <1>1 DEF ClauseParses

LEMMA ClausesAgree ==
  ASSUME NEW v, Triple(v), NEW t \in Range, PlainRange(t), NEW i \in DOMAIN t,
         \A j \in DOMAIN t[i].terms : NpmReads(t[i].terms[j].raw),
         t[i].hyphen => Len(t[i].terms) = 2
  PROVE  (\A b \in parse_range_clause(t[i]) : eval_bound(v, b)) <=> NpmClause(v, t[i])
<1> DEFINE terms == t[i].terms
<1>1. CASE t[i].hyphen
  <2> DEFINE lower == NpmVersion(terms[1].raw)
             upper == NpmVersion(terms[2].raw)
  <2>1. 1 \in DOMAIN terms /\ 2 \in DOMAIN terms
    BY <1>1, TermsAreTyped
  <2>2. /\ parse_partial_version(terms[1].raw) = lower /\ Partial(lower)
        /\ parse_partial_version(terms[2].raw) = upper /\ Partial(upper)
    BY <1>1, <2>1, TermsAreTyped, SameVersion
  <2>3. parse_range_clause(t[i]) = {From(lower), AtMost(upper)}
    BY <1>1, <2>2 DEF parse_range_clause
  <2>4. NpmClause(v, t[i]) <=> NpmMatches(v, ">=", lower) /\ NpmMatches(v, "<=", upper)
    BY <1>1 DEF NpmClause
  <2> HIDE DEF lower, upper, terms
  <2>5. NpmMatches(v, ">=", lower) <=> AtLeast(v, lower)
    BY DEF NpmMatches
  <2>6. NpmMatches(v, "<=", upper) <=> ~Beyond(v, upper)
    BY DEF NpmMatches
  <2>7. QED
    BY <2>2, <2>3, <2>4, <2>5, <2>6, FromIsAtLeast, AtMostIsNotBeyond
<1>2. CASE ~t[i].hyphen
  <2>1. parse_range_clause(t[i]) = UNION { parse_comparator_bounds(terms[j]) : j \in DOMAIN terms }
    BY <1>2 DEF parse_range_clause
  <2>2. NpmClause(v, t[i]) <=>
          \A j \in DOMAIN terms : NpmMatches(v, terms[j].op, NpmVersion(terms[j].raw))
    BY <1>2 DEF NpmClause
  <2>3. \A j \in DOMAIN terms :
           (\A b \in parse_comparator_bounds(terms[j]) : eval_bound(v, b))
             <=> NpmMatches(v, terms[j].op, NpmVersion(terms[j].raw))
    BY TermsAreTyped, TermsAgree
  <2> HIDE DEF terms
  <2>4. QED
    BY <2>1, <2>2, <2>3
<1>3. QED
  BY <1>1, <1>2

LEMMA RangesAgree ==
  ASSUME NEW v, Triple(v), NEW t \in Target \ {NoTarget}, PlainRange(t)
  PROVE  satisfies(v, t) <=> NpmSatisfies(v, t)
<1>1. t \in Range /\ \A i \in DOMAIN t : t[i].hyphen => Len(t[i].terms) = 2
  BY TargetAssumption
<1>2. \A i \in DOMAIN t :
         ClauseParses(t[i]) <=> \A j \in DOMAIN t[i].terms : NpmReads(t[i].terms[j].raw)
  BY <1>1, ClausesParse
<1>3. CASE \A i \in DOMAIN t : ClauseParses(t[i])
  <2>1. \A i \in DOMAIN t :
           (\A b \in parse_range_clause(t[i]) : eval_bound(v, b)) <=> NpmClause(v, t[i])
    BY <1>1, <1>2, <1>3, ClausesAgree
  <2>2. QED
    BY <1>2, <1>3, <2>1 DEF satisfies, NpmSatisfies
<1>4. CASE ~\A i \in DOMAIN t : ClauseParses(t[i])
  BY <1>2, <1>4 DEF satisfies, NpmSatisfies
<1>5. QED
  BY <1>3, <1>4

-----------------------------------------------------------------------------
(* The theorem.                                                            *)

\* What coerce_version returns is three numbers.
LEMMA CoercedIsTriple ==
  ASSUME NEW text \in AppVersion, coerce_version(text) # Invalid
  PROVE  Triple(coerce_version(text))
<1> DEFINE first == CHOOSE i \in DOMAIN text : /\ text[i] \notin {Dot, Other}
                                               /\ \A j \in 1..(i - 1) : text[j] \in {Dot, Other}
           Segment(k) == IF IsSegment(text, first, k) THEN text[first + 2*k] ELSE 0
           triple == <<Segment(0), Segment(1), Segment(2)>>
<1>1. coerce_version(text) = triple /\ ~\E k \in 1..3 : triple[k] = Junk
  BY DEF coerce_version
<1>2. ASSUME NEW k \in 0..2, Segment(k) # Junk
      PROVE  Segment(k) \in Number
  <2>1. CASE IsSegment(text, first, k)
    <3> DEFINE at == first + 2*k
    <3>1. at \in DOMAIN text /\ text[at] \notin {Dot, Other}
      <4>1. k \in 0..k
        OBVIOUS
      <4>2. QED
        BY <2>1, <4>1 DEF IsSegment
    <3>2. text[at] \in Number \cup {Junk, Dot, Other}
      BY <3>1, AppVersionAssumption
    <3>3. QED
      BY <1>2, <2>1, <3>1, <3>2
  <2>2. CASE ~IsSegment(text, first, k)
    BY <2>2, SemverAssumption DEF Number
  <2>3. QED
    BY <2>1, <2>2
<1> HIDE DEF Segment
<1>3. \A k \in 0..2 : Segment(k) # Junk
  BY <1>1
<1>4. \A k \in 0..2 : Segment(k) \in Number
  BY <1>2, <1>3
<1>5. QED
  BY <1>1, <1>4 DEF Triple

Coerced == version # Invalid => Triple(version)
Targeted == target \in Target \cup {NoTarget}
PlainTarget == target # NoTarget => PlainRange(target)

\* A bundle is for a device exactly when npm's definition of its range says
\* so ("Parity with npm `semver.satisfies`"), whenever the range is written the
\* way both read (PlainRange): a leading wildcard stands alone and not
\* after > or <, only wildcards follow a wildcard, a prerelease follows three
\* segments, no blank and no lone or `~>` operator, parts below npm's limit.
THEOREM Parity ==
  Spec => [](PlainTarget => AgreesWithNpm)
<1> DEFINE Inv == Coerced /\ Targeted
<1>1. Init => Inv
  BY DEF Init, Coerced, Targeted
<1>2. Inv /\ [Next]_vars => Inv'
  <2>1. Inv /\ Install => Inv'
    BY CoercedIsTriple DEF Install, Coerced, Targeted
  <2>2. Inv /\ Retarget => Inv'
    BY DEF Retarget, Coerced, Targeted
  <2>3. Inv /\ UNCHANGED vars => Inv'
    BY DEF vars, Coerced, Targeted
  <2>4. QED
    BY <2>1, <2>2, <2>3 DEF Next
<1>3. Inv => (PlainTarget => AgreesWithNpm)
  BY RangesAgree DEF Coerced, Targeted, PlainTarget, AgreesWithNpm, Matches
<1>4. QED
  BY <1>1, <1>2, <1>3, PTL DEF Spec
=============================================================================
