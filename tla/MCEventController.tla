-------------------------- MODULE MCEventController --------------------------
(***************************************************************************)
(* Rules for TLC: conditions are trees, printed with the brackets their    *)
(* author needs and read with the usual meaning.                           *)
(***************************************************************************)
EXTENDS EventController, TLC

RECURSIVE Printed(_), Sense(_, _)

Strength(t) == CASE t[1] = "|" -> 1 [] t[1] = "&" -> 2 [] OTHER -> 3
Bracket(t, weak) == IF weak THEN <<"(">> \o Printed(t) \o <<")">> ELSE Printed(t)

\* A tree: <<"d">>, <<"e">>, <<"?">>, <<"w">>, <<"!", t>>, <<"&", s, t>>, <<"|", s, t>>.
Printed(t) ==
    CASE Len(t) = 1 -> t
      [] Len(t) = 2 -> <<"!">> \o Bracket(t[2], Len(t[2]) > 1)
      [] OTHER -> Bracket(t[2], Strength(t[2]) < Strength(t)) \o <<t[1]>>
                  \o Bracket(t[3], Strength(t[3]) < Strength(t))

Sense(t, v) ==
    CASE t[1] = "d" -> v[1]
      [] t[1] = "e" -> v[2]
      [] t[1] = "!" -> ~Sense(t[2], v)
      [] t[1] = "&" -> Sense(t[2], v) /\ Sense(t[3], v)
      [] t[1] = "|" -> Sense(t[2], v) \/ Sense(t[3], v)
      [] OTHER -> FALSE

Rule(t) == [match |-> TRUE, disabled |-> FALSE, nesting |-> Printed(t),
            means |-> {v \in Valuations : Sense(t, v)}]

D == <<"d">>
E == <<"e">>

Trees == {
    D, <<"!", D>>, <<"&", D, E>>,
    <<"|", D, <<"&", <<"!", D>>, E>>>>,
    <<"&", <<"|", D, E>>, <<"!", E>>>>,
    <<"|", <<"&", <<"!", D>>, E>>, <<"&", D, <<"!", E>>>>>>,
    <<"!", <<"!", E>>>>, <<"!", <<"|", D, <<"!", E>>>>>> }

\* A rule that is disabled, one for another event, one with a stray word,
\* and one with a criterion it does not have.
MCRules == {Rule(t) : t \in Trees} \union
    { [Rule(E) EXCEPT !.disabled = TRUE], [Rule(D) EXCEPT !.match = FALSE],
      Rule(<<"w">>), Rule(<<"?">>) }

\* What the theorems about this controller take for granted.
ASSUME RulesRead == Faithful
=============================================================================
