-------------------------------- MODULE Nesting --------------------------------
(***************************************************************************)
(* evaluateNesting of the event controller (core/event/bool.cpp): a parser *)
(* for conditions, here over tokens.  "T" and "F" are criteria that were   *)
(* replaced by their values, "w" is a word that is no truth value, "?" a   *)
(* criterion that was not replaced (its brackets match no rule).           *)
(***************************************************************************)
EXTENDS Naturals, Sequences

Fail == [st |-> "fail", val |-> "F", next |-> 0]    \* the rule does not match
Throw == [st |-> "throw", val |-> "F", next |-> 0]  \* expectation_failure
Match(v, j) == [st |-> "ok", val |-> v, next |-> j]

\* eval: lexical_cast throws for a word ("w") when it is reached; && and ||
\* do not look at their second operand if the first one decides.
Not(v) == CASE v = "T" -> "F" [] v = "F" -> "T" [] OTHER -> "w"
And(u, v) == IF u = "T" THEN v ELSE u
Or(u, v) == IF u = "F" THEN v ELSE u

\* The grammar: what rule r matches at position i of text t.
Rules(t) ==
    LET At(i) == IF i \in DOMAIN t THEN t[i] ELSE ";"
        P[r \in {"or", "and", "not", "simple"}, i \in 1 .. Len(t) + 1] ==
            LET Chain(sub, sign, op(_, _)) ==
                    LET x == P[sub, i]
                        y == P[r, x.next + 1]
                    IN  CASE x.st # "ok" \/ At(x.next) # sign -> x
                          [] y.st = "ok" -> Match(op(x.val, y.val), y.next)
                          [] y.st = "throw" -> Throw
                          [] OTHER -> x
            IN  CASE r = "or" -> Chain("and", "|", Or)
                  [] r = "and" -> Chain("not", "&", And)
                  [] r = "not" /\ At(i) = "!" ->
                        LET x == P["simple", i + 1]
                        IN  IF x.st = "ok" THEN Match(Not(x.val), x.next) ELSE Throw
                  [] r = "not" /\ At(i) # "!" -> P["simple", i]
                  [] r = "simple" /\ At(i) = "(" ->
                        LET x == P["or", i + 1]
                        IN  IF x.st = "ok" /\ At(x.next) = ")"
                            THEN Match(x.val, x.next + 1) ELSE Throw
                  [] OTHER ->
                        IF At(i) \in {"T", "F", "w"} THEN Match(At(i), i + 1) ELSE Fail
    IN  P

\* "T", "F", or "w" if an exception leaves evaluateNesting.
Evaluate(t) ==
    LET x == Rules(t)["or", 1]
    IN  IF x.st = "ok" /\ x.next = Len(t) + 1 THEN x.val ELSE "F"
=============================================================================
