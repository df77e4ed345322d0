-------------------------------- MODULE Semver --------------------------------
(***************************************************************************)
(* Version ranges: coerce_version and satisfies of src/src/semver.rs, and  *)
(* matches_target_app_version of src/src/routes/check.rs, which decides    *)
(* with them whether a bundle is for a device's native app.                *)
(*                                                                         *)
(* Text is kept as what the parsers tell apart.  A version in a range is   *)
(* the sequence of its dot-separated segments, each a number, a wildcard   *)
(* or something that is neither (empty, a leading zero, a word, more than  *)
(* 64 bits), and no segment at all after an operator that stands alone; a  *)
(* comparator is an operator, whether a blank follows it, and such a       *)
(* version; a clause is a sequence of comparators or a hyphen range; a     *)
(* range is the clauses between its `||`.                                  *)
(* The text of an app version is its runs of digits and what is between.   *)
(***************************************************************************)
EXTENDS Naturals, Sequences

CONSTANTS
  AppVersion,   \* the texts devices send
  Target,       \* the ranges in target_app_version
  NoTarget,     \* a target that is NULL or empty
  Wild,         \* x, X or *
  Junk,         \* digits or a word that is no numeric identifier
  Dot, Other,   \* the characters between the digits of an app version
  Invalid,      \* None: it does not parse
  SafeMax,      \* Number.MAX_SAFE_INTEGER, npm's limit ("Known limitation")
  U64Max        \* u64::MAX

Operator == {"", "=", ">=", ">", "<=", "<", "^", "~", "~>"}
Number == 0..U64Max

\* `tag` is what follows the segments: nothing or, after three of them, build
\* metadata; a prerelease; or a hyphen and no prerelease (`1.2.3-`, `1.2.3-01`).
RawVersion == [segments : Seq(Number \cup {Wild, Junk}),
               tag      : {"none", "prerelease", "broken"}]
Comparator == [op : Operator, blank : BOOLEAN, raw : RawVersion]
PartialVersion == [parts : Seq(Number), prerelease : BOOLEAN]
Clause == [hyphen : BOOLEAN, terms : Seq(Comparator)]
Range == Seq(Clause)

ASSUME SemverAssumption ==
  /\ SafeMax \in Nat /\ U64Max \in Nat /\ SafeMax < U64Max
  /\ {Wild, Junk, Dot, Other, Invalid, NoTarget} \cap Number = {}
  /\ Wild # Junk /\ Invalid \notin PartialVersion

ASSUME TargetAssumption ==
  /\ NoTarget \notin Range /\ Target \subseteq Range \cup {NoTarget}
  /\ \A t \in Target \ {NoTarget} : \A i \in DOMAIN t :
        t[i].hyphen => /\ Len(t[i].terms) = 2
                       /\ \A j \in 1..2 : t[i].terms[j].op = "" /\ ~t[i].terms[j].blank

\* Runs of digits, and what is between them.
ASSUME AppVersionAssumption ==
  \A text \in AppVersion : \A i \in DOMAIN text : text[i] \in Number \cup {Junk, Dot, Other}

VARIABLES
  version,   \* the version the server has for the device, or Invalid (400)
  target     \* target_app_version of the bundle

vars == <<version, target>>

-----------------------------------------------------------------------------
(* coerce_version                                                          *)

\* The first run of digits and the runs that follow it by a dot, three at most.
IsSegment(text, first, k) ==
  /\ \A j \in 0..k : first + 2*j \in DOMAIN text /\ text[first + 2*j] \notin {Dot, Other}
  /\ \A j \in 1..k : text[first + 2*j - 1] = Dot

coerce_version(text) ==
  IF \A i \in DOMAIN text : text[i] \in {Dot, Other} THEN Invalid
  ELSE LET first == CHOOSE i \in DOMAIN text :
                      /\ text[i] \notin {Dot, Other}
                      /\ \A j \in 1..(i - 1) : text[j] \in {Dot, Other}
           Segment(k) == IF IsSegment(text, first, k) THEN text[first + 2*k] ELSE 0
           triple == <<Segment(0), Segment(1), Segment(2)>>
       IN  IF \E k \in 1..3 : triple[k] = Junk THEN Invalid ELSE triple

-----------------------------------------------------------------------------
(* Triples and partial versions.  A partial version is the sequence of its *)
(* specified parts, one to three of them, and its prerelease flag.         *)

Less(a, b) ==
  \/ a[1] < b[1]
  \/ a[1] = b[1] /\ a[2] < b[2]
  \/ a[1] = b[1] /\ a[2] = b[2] /\ a[3] < b[3]

Specified(raw) == { i \in DOMAIN raw.segments : \A j \in 1..i : raw.segments[j] # Wild }

\* parse_partial_version: what follows a wildcard is not looked at, nor is
\* what follows a hyphen.
parse_partial_version(raw) ==
  IF \/ Len(raw.segments) \notin 1..3 \/ raw.segments[1] = Wild
     \/ \E i \in Specified(raw) : raw.segments[i] = Junk
  THEN Invalid
  ELSE [parts |-> IF 2 \notin Specified(raw) THEN <<raw.segments[1]>>
                  ELSE IF 3 \notin Specified(raw) THEN <<raw.segments[1], raw.segments[2]>>
                  ELSE <<raw.segments[1], raw.segments[2], raw.segments[3]>>,
        prerelease |-> raw.tag # "none"]

Full(p) == Len(p.parts) = 3

PartOr0(p, i) == IF i <= Len(p.parts) THEN p.parts[i] ELSE 0
fill_zero(p) == <<PartOr0(p, 1), PartOr0(p, 2), PartOr0(p, 3)>>

\* u64 addition without overflow checks.
Successor(n) == (n + 1) % (U64Max + 1)

\* Part i grows by one and the parts after it are zero.
Above(p, i) ==
  <<IF i = 1 THEN Successor(PartOr0(p, 1)) ELSE PartOr0(p, 1),
    IF i = 2 THEN Successor(PartOr0(p, 2)) ELSE IF i > 2 THEN PartOr0(p, 2) ELSE 0,
    IF i = 3 THEN Successor(PartOr0(p, 3)) ELSE 0>>

increment_last_specified(p) == Above(p, Len(p.parts))

\* The major alone decides how far a caret range goes.
CaretOfMajor(p) == IF p.parts[1] > 0 THEN 1 ELSE Len(p.parts)

\* The part a caret range keeps below its successor.
CaretPart(p) ==
  IF p.parts[1] > 0 THEN 1
  ELSE CASE Len(p.parts) = 1 -> 1
         [] Len(p.parts) = 2 -> 2
         [] OTHER -> IF p.parts[2] = 0 THEN 3 ELSE 2

TildePart(p) == IF Len(p.parts) = 1 THEN 1 ELSE 2

-----------------------------------------------------------------------------
(* satisfies                                                               *)

Bound(rel, at, pre) == [rel |-> rel, at |-> at, pre |-> pre]

\* eval_bound: the subject has no prerelease tag, so a tagged bound on the
\* same numbers is below it.
eval_bound(v, b) ==
  CASE b.rel = ">=" -> ~Less(v, b.at)
    [] b.rel = "<"  -> Less(v, b.at)
    [] b.rel = ">"  -> Less(b.at, v) \/ (b.pre /\ v = b.at)
    [] b.rel = "<=" -> ~Less(b.at, v) /\ ~(b.pre /\ v = b.at)
    [] b.rel = "="  -> v = b.at /\ ~b.pre

AtMost(p) == IF Full(p) THEN Bound("<=", fill_zero(p), p.prerelease)
             ELSE Bound("<", increment_last_specified(p), FALSE)

From(p) == Bound(">=", fill_zero(p), FALSE)
Below(triple) == Bound("<", triple, FALSE)

BoundsOf(op, p) ==
  CASE op \in {"", "="} -> IF Full(p) THEN {Bound("=", fill_zero(p), p.prerelease)}
                           ELSE {From(p), Below(increment_last_specified(p))}
    [] op = ">=" -> {From(p)}
    [] op = "<"  -> {Below(fill_zero(p))}
    [] op = ">"  -> IF Full(p) THEN {Bound(">", fill_zero(p), p.prerelease)}
                    ELSE {Bound(">=", increment_last_specified(p), FALSE)}
    [] op = "<=" -> {AtMost(p)}
    [] op = "^"  -> {From(p), Below(Above(p, CaretPart(p)))}
    [] op = "~"  -> {From(p), Below(Above(p, TildePart(p)))}

\* parse_comparator_bounds: a bare wildcard bounds nothing, whatever the
\* operator, and neither does an operator that ends its token, as one that
\* a blank follows does; what comes after the blank is a token of its own.
\* `~>` is read as `~` and a version that begins with `>`.
Token(c) == [op |-> IF c.blank THEN "" ELSE c.op, raw |-> c.raw]

Boundless(raw) == raw.segments \in {<< >>, <<Wild>>} /\ raw.tag = "none"

Parses(c) == c.op # "~>" /\ (Boundless(c.raw) \/ parse_partial_version(c.raw) # Invalid)

parse_comparator_bounds(c) ==
  IF Boundless(c.raw) THEN {}
  ELSE BoundsOf(Token(c).op, parse_partial_version(c.raw))

\* parse_range_clause: both ends of a hyphen range must be versions.
ClauseParses(clause) ==
  \A i \in DOMAIN clause.terms :
     IF clause.hyphen THEN parse_partial_version(clause.terms[i].raw) # Invalid
     ELSE Parses(clause.terms[i])

parse_range_clause(clause) ==
  IF clause.hyphen
  THEN {From(parse_partial_version(clause.terms[1].raw)),
        AtMost(parse_partial_version(clause.terms[2].raw))}
  ELSE UNION { parse_comparator_bounds(clause.terms[i]) : i \in DOMAIN clause.terms }

\* One clause that does not parse makes the whole range match nothing.
satisfies(v, range) ==
  /\ \A i \in DOMAIN range : ClauseParses(range[i])
  /\ \E i \in DOMAIN range : \A b \in parse_range_clause(range[i]) : eval_bound(v, b)

\* matches_target_app_version: an empty target is no range at all.
Matches(t, v) == t # NoTarget /\ satisfies(v, t)

-----------------------------------------------------------------------------
(* A device's native app is upgraded or downgraded; a bundle is retargeted. *)

Init == version = Invalid /\ target = NoTarget

Install == \E text \in AppVersion : version' = coerce_version(text) /\ UNCHANGED target
Retarget == \E t \in Target : target' = t /\ UNCHANGED version

Next == Install \/ Retarget

Spec == Init /\ [][Next]_vars

-----------------------------------------------------------------------------
(* npm's definition (node-semver's grammar and its ranges), apart from the *)
(* code's own parser and in terms of the parts a version agrees on: no     *)
(* part is ever incremented.                                               *)

\* A version npm reads: one to three segments, all of them numbers or
\* wildcards, and a prerelease, if any, after the third.
NpmReads(raw) ==
  /\ Len(raw.segments) \in 1..3
  /\ \A i \in DOMAIN raw.segments : raw.segments[i] \in {Wild} \cup 0..SafeMax
  /\ raw.tag = "none" \/ (raw.tag = "prerelease" /\ Len(raw.segments) = 3)

\* The parts it names are those before the first wildcard: `*` names none.
Named(raw) == { i \in DOMAIN raw.segments : Wild \notin { raw.segments[j] : j \in 1..i } }
NpmVersion(raw) == [parts      |-> [i \in Named(raw) |-> raw.segments[i]],
                    prerelease |-> raw.tag = "prerelease"]

\* v agrees with the first n parts of p.
Agrees(v, p, n) == \A i \in 1..n : v[i] = p.parts[i]

\* v is before, or after, every version that agrees with p.
Before(v, p) == \E i \in DOMAIN p.parts : Agrees(v, p, i - 1) /\ v[i] < p.parts[i]
After(v, p) == \E i \in DOMAIN p.parts : Agrees(v, p, i - 1) /\ v[i] > p.parts[i]

\* A prerelease of p comes before p itself, and v is never a prerelease.
AtLeast(v, p) == ~Before(v, p)
Beyond(v, p) == After(v, p) \/ (Full(p) /\ p.prerelease /\ Agrees(v, p, 3))

\* The parts up to the leftmost one that is not zero, or all of them.
Leading(p) == { n \in DOMAIN p.parts : \A i \in 1..(n - 1) : p.parts[i] = 0 }

NpmMatches(v, op, p) ==
  CASE op \in {"", "="}   -> Agrees(v, p, Len(p.parts)) /\ ~Beyond(v, p)
    [] op = ">="          -> AtLeast(v, p)
    [] op = "<"           -> Before(v, p)
    [] op = ">"           -> Beyond(v, p)
    [] op = "<="          -> ~Beyond(v, p)
    [] op = "^"           -> AtLeast(v, p) /\ \A n \in Leading(p) : Agrees(v, p, n)
    [] op \in {"~", "~>"} -> AtLeast(v, p) /\ \A n \in DOMAIN p.parts \ {3} : Agrees(v, p, n)

\* Blanks after an operator mean nothing to npm.
NpmClause(v, clause) ==
  IF clause.hyphen
  THEN /\ NpmMatches(v, ">=", NpmVersion(clause.terms[1].raw))
       /\ NpmMatches(v, "<=", NpmVersion(clause.terms[2].raw))
  ELSE \A i \in DOMAIN clause.terms :
          NpmMatches(v, clause.terms[i].op, NpmVersion(clause.terms[i].raw))

\* One version that npm does not read makes the whole range invalid.
NpmSatisfies(v, range) ==
  /\ \A i \in DOMAIN range : \A j \in DOMAIN range[i].terms : NpmReads(range[i].terms[j].raw)
  /\ \E i \in DOMAIN range : NpmClause(v, range[i])

-----------------------------------------------------------------------------
(* The ranges in which the two agree.                                      *)

\* Numbers npm can count one up from, wildcards after them and nowhere else,
\* and a prerelease, if any, after three segments.
PlainVersion(raw) ==
  /\ raw.segments # << >>
  /\ \A i \in DOMAIN raw.segments : raw.segments[i] \in {Wild, Junk} \cup 0..(SafeMax - 1)
  /\ \A i, j \in DOMAIN raw.segments : i < j /\ raw.segments[i] = Wild => raw.segments[j] = Wild
  /\ raw.tag = "none" \/ (raw.tag = "prerelease" /\ Len(raw.segments) = 3)

PlainComparator(c) ==
  /\ PlainVersion(c.raw)
  /\ c.op # "~>" /\ (c.blank => c.op = "")
  /\ c.raw.segments[1] = Wild => c.raw.segments = <<Wild>> /\ c.op \notin {">", "<"}

PlainClause(clause) ==
  \A j \in DOMAIN clause.terms :
     /\ PlainComparator(clause.terms[j])
     /\ clause.hyphen => clause.terms[j].raw.segments[1] # Wild

PlainRange(t) == \A i \in DOMAIN t : PlainClause(t[i])

-----------------------------------------------------------------------------
(* Properties.                                                             *)

\* satisfies ("Parity with npm `semver.satisfies`"): a bundle is for a device
\* exactly when npm's definition of its range says so, partial versions,
\* wildcards, zero majors and prerelease tags included.
AgreesWithNpm ==
  version # Invalid /\ (\A k \in 1..3 : version[k] <= SafeMax) =>
    (Matches(target, version) <=> target # NoTarget /\ NpmSatisfies(version, target))

===============================================================================
