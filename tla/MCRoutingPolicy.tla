--------------------------- MODULE MCRoutingPolicy ---------------------------
(* Every score of every axis, unknown included, and the ways an answer can be *)
(* malformed, on one axis and on the lease.                                  *)
EXTENDS RoutingPolicy

Plain(choice) == [choice |-> choice, probabilities |-> None, confidence |-> None]

\* A distribution over the choices of q: p for one of them, r for another, the
\* others nothing.
Spread(q, c, p, d, r) ==
    [o \in ChoicesOf(q) |-> IF o = c THEN p ELSE IF o = d THEN r ELSE 0]

Weighed(q, choice, confidence) ==
    { [choice |-> choice, probabilities |-> dist, confidence |-> confidence] :
        dist \in { Spread(q, choice, 60, "one_call", 41),    \* within tolerance
                   Spread(q, choice, 60, "one_call", 42),    \* 1.02, rejected
                   Spread(q, choice, 81, "one_call", 17),    \* 0.9800000000000001
                   Spread(q, choice, 40, "one_call", 60),    \* prefers another
                   Spread(q, choice, 120, "one_call", -20),  \* no probabilities
                   [o \in {choice} |-> 100] } }              \* incomplete

MCRoundedIn == {Spread("lease", "tool_chain", 81, "one_call", 17)}

MCAnswers ==
    [q \in QUESTIONS |->
        CASE q = "effort" -> {None, Plain("low"), Plain("extreme"),
                              [Plain("max") EXCEPT !.confidence = 250],
                              [Plain("high") EXCEPT !.confidence = 70]}
          [] q = "lease" -> {Plain("user_turn")} \cup Weighed(q, "tool_chain", 90)
          [] OTHER -> {Plain(c) : c \in ChoicesOf(q)}]
=============================================================================
