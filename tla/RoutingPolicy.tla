---------------------------- MODULE RoutingPolicy ----------------------------
(***************************************************************************)
(* server/routing_policy.py: Jev scores four task axes and chooses a depth *)
(* and a lease; fixed rules select the model.  One behaviour is a series of *)
(* assessments, each of which differs from the one before in one answer.   *)
(*                                                                         *)
(* Probabilities and confidences are hundredths, so the float tolerance of *)
(* 1e-6 disappears.  abs(1.02 - 1) and abs(0.98 - 1) are floats above 0.02;*)
(* a sum that should be one of the two is rejected unless rounding has     *)
(* moved it inwards, as it does for 0.81 + 0.17.  A value that is no       *)
(* number, no finite one or a bool is one outside 0..100.                  *)
(***************************************************************************)
EXTENDS Integers, FiniteSets, Functions

CONSTANTS
    Answers,   \* Answers[q]: the answers Jev may give to question q
    RoundedIn, \* the distributions whose sum is moved inwards by rounding
    None       \* no answer, no score, no distribution, no confidence

AXES == {"visual", "architecture", "coding", "risk"}
LEASES == {"one_call", "tool_chain", "user_turn"}
EFFORTS == {"low", "medium", "high", "xhigh", "max"}
QUESTIONS == AXES \cup {"effort", "lease"}
TIERS == {"luna", "terra", "sol", "astra"}
Level == 0 .. 4

\* QUESTIONS[q]["criteria"]: the choices of question q.  The levels of an axis
\* are offered as text.
Text(level) == <<"0", "1", "2", "3", "4">>[level + 1]
ChoicesOf(q) == CASE q = "effort" -> EFFORTS
                  [] q = "lease" -> LEASES
                  [] OTHER -> {Text(l) : l \in Level} \cup {"unknown"}

Rank == [luna |-> 1, terra |-> 2, sol |-> 3, astra |-> 4]

Decision == [model : TIERS, dimensions : [AXES -> Level \cup {None}],
             effort : EFFORTS, lease : LEASES,
             confidence : (0 .. 100) \cup {None},
             chosen_probability : (0 .. 100) \cup {None}]

ASSUME PolicyAssumption ==
    /\ None \notin Int
    /\ None \notin Decision

VARIABLES
    answers,   \* the answers of the latest assessment
    decision   \* what decision_from_answers made of them, None: it raised

policy == <<answers, decision>>

-----------------------------------------------------------------------------
(* select_model. *)

\* The scores with every unknown axis taken as no demand at all.
Known(scores) == [a \in AXES |-> IF scores[a] = None THEN 0 ELSE scores[a]]

Uncertain(scores) == \E a \in AXES : scores[a] = None

\* Mutant: visual work alone needs exactly 3.
AstraVisualExactly(k) ==
    \/ k["risk"] >= 3
    \/ k["visual"] >= 2 /\ k["architecture"] >= 2
    \/ k["visual"] = 3

\* high_risk, visual_architecture, high_visual.
NeedsAstra(k) ==
    \/ k["risk"] >= 3
    \/ k["visual"] >= 2 /\ k["architecture"] >= 2
    \/ k["visual"] >= 3

\* complex_reasoning.
Complex(k) ==
    \/ k["architecture"] >= 3 \/ k["coding"] >= 3
    \/ k["visual"] >= 2 \/ k["risk"] >= 2

\* Mutant: an unknown axis is looked at before the astra rules.
SelectUncertainFirst(scores) ==
    IF Uncertain(scores) THEN "sol"
    ELSE IF NeedsAstra(scores) THEN "astra"
    ELSE IF Complex(scores) THEN "sol"
    ELSE IF \E a \in AXES : scores[a] # 0 THEN "terra"
    ELSE "luna"

\* The rules, first match first.
select_model(scores) ==
    IF NeedsAstra(Known(scores)) THEN "astra"
    ELSE IF Uncertain(scores) THEN "sol"
    ELSE IF Complex(scores) THEN "sol"
    ELSE IF \E a \in AXES : scores[a] # 0 THEN "terra"
    ELSE "luna"

-----------------------------------------------------------------------------
(* _validated_choice and decision_from_answers. *)

\* The distribution of answer a covers exactly the choices, adds up to one
\* within the tolerance and gives no choice more than the chosen one.
Consistent(a, choices) ==
    LET p == a.probabilities
    IN  /\ DOMAIN p = choices
        /\ \A c \in choices : p[c] \in 0 .. 100
        /\ LET sum == FoldFunction(+, 0, p)
           IN  sum \in 99 .. 101 \/ (sum \in {98, 102} /\ p \in RoundedIn)
        /\ \A c \in choices : p[c] <= p[a.choice]

\* _validated_choice returns instead of raising.
Valid(q, a) ==
    /\ a # None
    /\ a.choice \in ChoicesOf(q)
    /\ a.probabilities # None => Consistent(a, ChoicesOf(q))

\* The confidence of an answer, None when it is none.
Confidence(a) == IF a.confidence \in 0 .. 100 THEN a.confidence ELSE None

Score(a) == IF a.choice = "unknown" THEN None
            ELSE CHOOSE l \in Level : Text(l) = a.choice

\* The least of the numbers S, None when there is none.
Least(S) == IF S = {} THEN None ELSE CHOOSE m \in S : \A n \in S : m <= n

\* Every question is validated before anything is decided.
decision_from_answers(as) ==
    IF \E q \in QUESTIONS : ~Valid(q, as[q]) THEN None
    ELSE LET scores == [q \in AXES |-> Score(as[q])]
             given == {q \in QUESTIONS : as[q].probabilities # None}
         IN  [model |-> select_model(scores),
              dimensions |-> scores,
              effort |-> as["effort"].choice,
              lease |-> as["lease"].choice,
              confidence |-> Least({Confidence(as[q]) : q \in QUESTIONS} \ {None}),
              chosen_probability |->
                  Least({as[q].probabilities[as[q].choice] : q \in given})]

-----------------------------------------------------------------------------

\* Before the first assessment: nothing is answered, nothing is decided.
PolicyInit ==
    /\ answers = [q \in QUESTIONS |-> None]
    /\ decision = decision_from_answers(answers)

Assess(q, a) ==
    /\ answers' = [answers EXCEPT ![q] = a]
    /\ decision' = decision_from_answers(answers')

PolicyNext == \E q \in QUESTIONS : \E a \in Answers[q] : Assess(q, a)

PolicySpec == PolicyInit /\ [][PolicyNext]_policy

-----------------------------------------------------------------------------
(* Properties. *)

\* What Jev answers is well typed or rejected, and so is what is decided.
PolicyTypeOK ==
    /\ \A q \in QUESTIONS : answers[q] \in Answers[q] \cup {None}
    /\ decision \in Decision \cup {None}

\* s is the same demand as t or a smaller one.
NotAbove(s, t) == s = t \/ (s # None /\ t # None /\ s <= t)

\* When Jev scores a task higher on some axes, the same or unknown on the
\* others, the rules never answer with a weaker model.
RaisingDemandNeverLowersModel ==
    [][/\ decision # None /\ decision' # None
       /\ \A a \in AXES : NotAbove(decision.dimensions[a], decision'.dimensions[a])
       => Rank[decision.model] <= Rank[decision'.model]]_policy

\* Not knowing an axis never makes a task cheaper: the model is the one for the
\* known demands alone, lifted to sol where that is weaker.
UncertaintyNeverCheapens ==
    decision # None =>
        LET d == decision.dimensions
            floor == IF Uncertain(d) THEN Rank["sol"] ELSE 1
            alone == Rank[select_model(Known(d))]
        IN  Rank[decision.model] = IF alone < floor THEN floor ELSE alone
=============================================================================
