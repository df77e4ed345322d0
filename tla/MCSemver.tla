------------------------------- MODULE MCSemver -------------------------------
(***************************************************************************)
(* App versions and ranges for model checking Semver: every partial        *)
(* version over the parts 0, 1 and 2 under every operator, the ways two    *)
(* comparators, two clauses and a hyphen range combine, and text that does *)
(* not parse; then the ranges that the code is known to read differently.  *)
(***************************************************************************)
EXTENDS Semver

Parts == 0..2
Triples == Parts \X Parts \X Parts

\* Whole versions, parts left out, a fourth part and a tag, words before the
\* digits, and what coerce_version refuses.
AppVersions ==
  { <<t[1], Dot, t[2], Dot, t[3]>> : t \in Triples }
  \cup { <<Other, 2, Dot, 1>>, <<1, Dot, Dot, 2>>, <<1, Dot, 0, Dot, 2, Dot, Junk>>,
         <<SafeMax, Dot, 0, Dot, SafeMax>>, <<U64Max, Dot, 1>>, <<Other>>, <<1, Dot, Junk>>, << >> }

Plain(segments) == [segments |-> segments, tag |-> "none"]
Tagged(segments) == [segments |-> segments, tag |-> "prerelease"]

Whole == { Plain(t) : t \in Triples } \cup { Tagged(t) : t \in Triples }
Partials == { Plain(<<a>>) : a \in Parts } \cup { Plain(<<a, b>>) : a \in Parts, b \in Parts }
            \cup { Plain(<<a, Wild, Wild>>) : a \in Parts }
            \cup { Plain(<<a, b, Wild>>) : a \in Parts, b \in Parts }
            \cup { Tagged(<<a, b, Wild>>) : a \in Parts, b \in Parts }
Unparsed == { Plain(<<Junk>>), Plain(<<1, Junk, Wild>>), Plain(<<1, 2, 0, 1>>), Tagged(<<1, 2, Junk>>) }

Term(op, raw) == [op |-> op, blank |-> FALSE, raw |-> raw]
All(terms) == [hyphen |-> FALSE, terms |-> terms]
Between(lower, upper) == [hyphen |-> TRUE, terms |-> <<Term("", lower), Term("", upper)>>]

Comparators ==
  { Term(op, raw) : op \in Operator \ {"~>"}, raw \in Whole \cup Partials \cup Unparsed }
  \cup { Term(op, Plain(<<Wild>>)) : op \in Operator \ {">", "<", "~>"} }

Few == { Term(">=", Plain(<<1, 0, 1>>)), Term("<", Plain(<<2>>)), Term("^", Plain(<<0, 1, 1>>)),
         Term("<=", Plain(<<1, 1>>)), Term(">", Tagged(<<0, 2, 0>>)), Term("~", Plain(<<Junk>>)) }

Ends == { Plain(<<0, 1, 2>>), Plain(<<1>>), Plain(<<1, 1>>), Tagged(<<2, 0, 1>>), Plain(<<Junk>>) }

Targets ==
  { NoTarget } \cup { <<All(<<c>>)>> : c \in Comparators }
  \cup { <<All(<<c, d>>)>> : c \in Few, d \in Few } \cup { <<All(<<c>>), All(<<d>>)>> : c \in Few, d \in Few }
  \cup { <<Between(a, b)>> : a \in Ends, b \in Ends } \cup { <<All(<< >>)>>, <<All(<<Term("^", Plain(<<1>>))>>), All(<< >>)>> }

\* None of these is one of the ranges that SemverProofs leaves out.
ASSUME TargetsArePlain == \A t \in Targets \ {NoTarget} : PlainRange(t)

\* `>= 1.0.0`, `< 2` and their like.
Blanks == { <<All(<<[Term(op, raw) EXCEPT !.blank = TRUE]>>)>> :
              op \in Operator \ {"", "~>"}, raw \in {Plain(<<1, 0, 0>>), Plain(<<2>>)} }

\* `x.x`, `*.*.*`, `1.0.0 - *` and their like: a version that begins with a
\* wildcard and is not a bare one.
Wildcards == { <<All(<<Term(op, raw)>>)>> :
                 op \in {"", ">="}, raw \in {Plain(<<Wild, Wild>>), Plain(<<Wild, Wild, Wild>>)} }
             \cup { <<Between(Plain(<<1, 0, 0>>), Plain(<<Wild>>))>>,
                    <<Between(Plain(<<Wild>>), Plain(<<1>>))>> }
===============================================================================
