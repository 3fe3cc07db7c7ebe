---------------------------- MODULE ServerProofs ----------------------------
(***************************************************************************)
(* The service in front of the agent, for every instance of its parts: the *)
(* connections it admits, the model it picks for an assessment, and the    *)
(* event stream it rewrites.                                               *)
(***************************************************************************)
EXTENDS LocalServer, RoutingPolicy, SummaryMarker, FiniteSetTheorems, WellFoundedInduction, TLAPS

---------------------------------------------------------------------------
(* LocalServer: slot conservation, for any number of connections and slots. *)

\* The set of connections that hold a slot is finite, so it has a size.
LEMMA HoldersFinite ==
    /\ IsFiniteSet(Holders)
    /\ Cardinality(Holders) \in Nat
<1>1. IsFiniteSet(Holders)
  <2>1. Holders \subseteq Conns
    BY DEF Holders
  <2> QED BY <2>1, FS_Subset, SlotAssumption
<1> QED BY <1>1, FS_CardinalityType

\* A connection that is admitted joins the holders and adds one to their number.
LEMMA HoldersGain ==
    ASSUME NEW c \in Conns, TypeOK,
           conn[c] \notin {"admitted", "serving", "draining", "closing"},
           conn' = [conn EXCEPT ![c] = "admitted"]
    PROVE  Cardinality(Holders') = Cardinality(Holders) + 1
<1>1. Holders' = Holders \cup {c}
  BY DEF Holders, TypeOK
<1>2. c \notin Holders
  BY DEF Holders
<1> QED BY <1>1, <1>2, HoldersFinite, FS_AddElement

\* A holder that leaves (slot released) takes one from their number.
LEMMA HoldersLose ==
    ASSUME NEW c \in Conns, TypeOK, NEW s \in {"shedding", "absent"},
           conn[c] \in {"admitted", "serving", "draining", "closing"},
           conn' = [conn EXCEPT ![c] = s]
    PROVE  /\ Cardinality(Holders') = Cardinality(Holders) - 1
           /\ Cardinality(Holders) >= 1
<1>1. Holders' = Holders \ {c}
  BY DEF Holders, TypeOK, Stage
<1>2. c \in Holders
  BY DEF Holders
<1>3. /\ IsFiniteSet(Holders \ {c})
      /\ Cardinality(Holders \ {c}) = Cardinality(Holders) - 1
  BY <1>2, HoldersFinite, FS_RemoveElement
<1>4. Cardinality(Holders \ {c}) \in Nat
  BY <1>3, FS_CardinalityType
<1> QED BY <1>1, <1>3, <1>4, HoldersFinite

\* Every other move of a connection leaves the set of holders alone.
LEMMA HoldersKeep ==
    ASSUME NEW c \in Conns, TypeOK, NEW s \in Stage,
           conn' = [conn EXCEPT ![c] = s],
           (conn[c] \in {"admitted", "serving", "draining", "closing"})
             <=> (s \in {"admitted", "serving", "draining", "closing"})
    PROVE  Holders' = Holders
BY DEF Holders, TypeOK

SlotInv == TypeOK /\ SlotsConserved

\* The slot invariant holds when the server starts.
LEMMA SlotInit == Init => SlotInv
<1> SUFFICES ASSUME Init PROVE SlotInv
  OBVIOUS
<1>1. TypeOK
  BY SlotAssumption DEF Init, TypeOK, Stage
<1>2. Holders = {}
  BY DEF Init, Holders
<1>3. Cardinality(Holders) = 0
  BY <1>2, FS_EmptySet
<1> QED BY <1>1, <1>3, SlotAssumption DEF SlotInv, SlotsConserved, Init

\* Every action, the failed thread start included, moves the semaphore and the
\* set of holders by the same amount in opposite directions.
LEMMA SlotStep == SlotInv /\ [Next]_vars => SlotInv'
<1> SUFFICES ASSUME SlotInv, [Next]_vars PROVE SlotInv'
  OBVIOUS
<1> USE SlotAssumption
<1>0. /\ TypeOK /\ SlotsConserved
      /\ Cardinality(Holders) \in Nat
      /\ slots \in 0 .. MaxConnections
  BY HoldersFinite DEF SlotInv, TypeOK
<1>1. ASSUME NEW c \in Conns, Connect(c) PROVE SlotInv'
  <2>1. Holders' = Holders
    BY <1>0, <1>1, HoldersKeep DEF Connect, Stage
  <2>2. TypeOK'
    BY <1>0, <1>1 DEF Connect, TypeOK, Stage
  <2> QED BY <1>0, <1>1, <2>1, <2>2 DEF SlotInv, SlotsConserved, Connect
<1>2. ASSUME NEW c \in Conns, PeerSend(c) \/ PeerClose(c) \/ DrainRecv(c) PROVE SlotInv'
  <2>1. Holders' = Holders /\ slots' = slots
    BY <1>2 DEF PeerSend, PeerClose, DrainRecv, Holders
  <2>2. TypeOK'
    <3>1. CASE PeerSend(c)
      <4>1. budget[c] \in 0 .. SendBudget /\ budget[c] - 1 \in 0 .. SendBudget
        BY <1>0, <3>1 DEF TypeOK, PeerSend
      <4> QED BY <1>0, <3>1, <4>1 DEF TypeOK, PeerSend
    <3>2. CASE PeerClose(c)
      BY <1>0, <3>2 DEF TypeOK, PeerClose
    <3>3. CASE DrainRecv(c)
      BY <1>0, <3>3 DEF TypeOK, DrainRecv
    <3> QED BY <1>2, <3>1, <3>2, <3>3
  <2> QED BY <1>0, <2>1, <2>2 DEF SlotInv, SlotsConserved
<1>3. ASSUME NEW c \in Conns, Refuse(c) PROVE SlotInv'
  <2>1. Holders' = Holders
    BY <1>0, <1>3, HoldersKeep DEF Refuse, Stage
  <2>2. TypeOK'
    BY <1>0, <1>3 DEF Refuse, TypeOK, Stage
  <2> QED BY <1>0, <1>3, <2>1, <2>2 DEF SlotInv, SlotsConserved, Refuse
<1>4. ASSUME NEW c \in Conns, Admit(c) PROVE SlotInv'
  <2>1. Cardinality(Holders') = Cardinality(Holders) + 1
    BY <1>0, <1>4, HoldersGain DEF Admit
  <2>2. TypeOK'
    BY <1>0, <1>4 DEF Admit, TypeOK, Stage
  <2> QED BY <1>0, <1>4, <2>1, <2>2 DEF SlotInv, SlotsConserved, Admit
<1>5. ASSUME NEW c \in Conns, ThreadStarts(c) \/ HandlerReturns(c) PROVE SlotInv'
  <2>1. Holders' = Holders
    <3>1. CASE ThreadStarts(c)
      BY <1>0, <3>1, HoldersKeep DEF ThreadStarts, Stage
    <3>2. CASE HandlerReturns(c)
      BY <1>0, <3>2, HoldersKeep DEF HandlerReturns, Stage
    <3> QED BY <1>5, <3>1, <3>2
  <2>2. TypeOK' /\ slots' = slots
    BY <1>0, <1>5 DEF ThreadStarts, HandlerReturns, TypeOK, Stage
  <2> QED BY <1>0, <2>1, <2>2 DEF SlotInv, SlotsConserved
<1>6. ASSUME NEW c \in Conns, ThreadStartFails(c) PROVE SlotInv'
  <2>1. /\ Cardinality(Holders') = Cardinality(Holders) - 1
        /\ Cardinality(Holders) >= 1
    BY <1>0, <1>6, HoldersLose DEF ThreadStartFails
  <2>2. slots' = slots + 1 /\ slots' \in 0 .. MaxConnections
    BY <1>0, <1>6, <2>1 DEF ThreadStartFails, SlotsConserved
  <2>3. TypeOK'
    BY <1>0, <1>6, <2>2 DEF ThreadStartFails, TypeOK, Stage
  <2> QED BY <1>0, <2>1, <2>2, <2>3 DEF SlotInv, SlotsConserved
<1>7. ASSUME NEW c \in Conns, DrainEnds(c) PROVE SlotInv'
  <2>1. Holders' = Holders
    BY <1>0, <1>7 DEF DrainEnds, TypeOK, Holders
  <2>2. TypeOK' /\ slots' = slots
    BY <1>0, <1>7 DEF DrainEnds, TypeOK, Stage
  <2> QED BY <1>0, <2>1, <2>2 DEF SlotInv, SlotsConserved
<1>8. ASSUME NEW c \in Conns, ReleaseSlot(c) PROVE SlotInv'
  <2>1. /\ Cardinality(Holders') = Cardinality(Holders) - 1
        /\ Cardinality(Holders) >= 1
    BY <1>0, <1>8, HoldersLose DEF ReleaseSlot
  <2>2. slots' = slots + 1 /\ slots' \in 0 .. MaxConnections
    BY <1>0, <1>8, <2>1 DEF ReleaseSlot, SlotsConserved
  <2>3. TypeOK'
    BY <1>0, <1>8, <2>2 DEF ReleaseSlot, TypeOK, Stage
  <2> QED BY <1>0, <2>1, <2>2, <2>3 DEF SlotInv, SlotsConserved
<1>9. CASE UNCHANGED vars
  BY <1>0, <1>9 DEF vars, SlotInv, SlotsConserved, TypeOK, Holders
<1> QED
  BY <1>1, <1>2, <1>3, <1>4, <1>5, <1>6, <1>7, <1>8, <1>9 DEF Next

\* In every reachable state the slots left in _slots and the connections being
\* started, served, drained or closed add up to max_connections, and the state
\* is well typed.
THEOREM SlotsAreConserved == Spec => [](TypeOK /\ SlotsConserved)
<1>1. SlotInv => TypeOK /\ SlotsConserved
  BY DEF SlotInv
<1> QED BY <1>1, SlotInit, SlotStep, PTL DEF Spec

\* Every connection, slot and counter keeps its type.
THEOREM ServerTypes == Spec => []TypeOK
BY SlotsAreConserved, PTL

\* A connection is refused only when max_connections others hold a slot.
THEOREM RefusalNeedsFullHouse == Spec => RefusedOnlyWhenFull
<1>1. SlotInv /\ [Next]_vars =>
        [\A c \in Conns : conn[c] = "backlog" /\ conn'[c] = "absent"
             => Cardinality(Holders) = MaxConnections]_vars
  <2> SUFFICES ASSUME SlotInv, [Next]_vars, vars' # vars, NEW c \in Conns,
                      conn[c] = "backlog", conn'[c] = "absent"
               PROVE  Cardinality(Holders) = MaxConnections
    OBVIOUS
  <2>1. PICK d \in Conns :
          \/ Connect(d) \/ PeerSend(d) \/ PeerClose(d)
          \/ Refuse(d) \/ Admit(d) \/ ThreadStarts(d) \/ ThreadStartFails(d)
          \/ HandlerReturns(d) \/ DrainRecv(d) \/ DrainEnds(d) \/ ReleaseSlot(d)
    BY DEF Next
  <2>2. slots = 0
    BY <2>1 DEF SlotInv, TypeOK, Connect, PeerSend, PeerClose, Refuse, Admit,
      ThreadStarts, ThreadStartFails, HandlerReturns, DrainRecv, DrainEnds,
      ReleaseSlot
  <2> QED BY <2>2, HoldersFinite DEF SlotInv, SlotsConserved
<1> QED BY <1>1, SlotInit, SlotStep, PTL DEF Spec, RefusedOnlyWhenFull

---------------------------------------------------------------------------
(* RoutingPolicy: raising a demand never lowers the model, and an unknown  *)
(* axis never makes a task cheaper, whatever Jev answers.                  *)

Scores == [AXES -> Level \cup {None}]

\* What is decided is what the rules make of the scores it reports.
PolicyInv ==
    decision # None =>
        /\ decision.dimensions \in Scores
        /\ decision.model = select_model(decision.dimensions)

\* select_model's first rules only grow with the scores they look at.
LEMMA KnownGrows ==
    ASSUME NEW s \in Scores, NEW t \in Scores,
           \A a \in AXES : NotAbove(s[a], t[a])
    PROVE  /\ Known(s) \in [AXES -> Level] /\ Known(t) \in [AXES -> Level]
           /\ \A a \in AXES : Known(s)[a] <= Known(t)[a]
           /\ Uncertain(s) <=> Uncertain(t)
  BY PolicyAssumption DEF Scores, NotAbove, Known, Uncertain, Level

\* With every axis known, the scores are what the later rules compare.
LEMMA KnownIsItself ==
    ASSUME NEW s \in Scores, ~Uncertain(s)
    PROVE  Known(s) = s /\ s \in [AXES -> Level]
  BY PolicyAssumption DEF Scores, Known, Uncertain, Level

\* select_model in terms of the known scores alone.
LEMMA SelectByKnown ==
    ASSUME NEW s \in Scores
    PROVE  select_model(s) =
             IF NeedsAstra(Known(s)) THEN "astra"
             ELSE IF Uncertain(s) \/ Complex(Known(s)) THEN "sol"
             ELSE IF \E a \in AXES : Known(s)[a] # 0 THEN "terra"
             ELSE "luna"
<1>1. CASE Uncertain(s)
  BY <1>1 DEF select_model
<1>2. CASE ~Uncertain(s)
  BY <1>2, KnownIsItself DEF select_model
<1> QED BY <1>1, <1>2

\* Higher scores never select a weaker model.
LEMMA SelectIsMonotone ==
    ASSUME NEW s \in Scores, NEW t \in Scores,
           \A a \in AXES : NotAbove(s[a], t[a])
    PROVE  Rank[select_model(s)] <= Rank[select_model(t)]
<1> DEFINE k == Known(s)
           l == Known(t)
<1>1. /\ k \in [AXES -> Level] /\ l \in [AXES -> Level]
      /\ \A a \in AXES : k[a] <= l[a]
      /\ Uncertain(s) <=> Uncertain(t)
  BY KnownGrows
<1>2. /\ select_model(s) =
             IF NeedsAstra(k) THEN "astra"
             ELSE IF Uncertain(s) \/ Complex(k) THEN "sol"
             ELSE IF \E a \in AXES : k[a] # 0 THEN "terra" ELSE "luna"
      /\ select_model(t) =
             IF NeedsAstra(l) THEN "astra"
             ELSE IF Uncertain(t) \/ Complex(l) THEN "sol"
             ELSE IF \E a \in AXES : l[a] # 0 THEN "terra" ELSE "luna"
  BY SelectByKnown
<1> HIDE DEF k, l
<1>3. NeedsAstra(k) => NeedsAstra(l)
  BY <1>1 DEF NeedsAstra, AXES, Level
<1>4. Complex(k) => Complex(l)
  BY <1>1 DEF Complex, AXES, Level
<1>5. (\E a \in AXES : k[a] # 0) => \E a \in AXES : l[a] # 0
  BY <1>1 DEF Level
<1>6. /\ Rank["luna"] = 1 /\ Rank["terra"] = 2 /\ Rank["sol"] = 3 /\ Rank["astra"] = 4
  BY DEF Rank
<1> QED BY <1>1, <1>2, <1>3, <1>4, <1>5, <1>6

\* An accepted answer to an axis is a level or unknown.
LEMMA ScoreOfValid ==
    ASSUME NEW q \in AXES, NEW a, Valid(q, a)
    PROVE  Score(a) \in Level \cup {None}
<1>1. a.choice \in {Text(l) : l \in Level} \cup {"unknown"}
  BY DEF Valid, ChoicesOf, AXES
<1>2. CASE a.choice = "unknown"
  BY <1>2 DEF Score
<1>3. CASE \E l \in Level : Text(l) = a.choice
  BY <1>3 DEF Score
<1> QED BY <1>1, <1>2, <1>3

\* decision_from_answers rejects, or decides by its own scores.
LEMMA DecisionBySelect ==
    ASSUME NEW as
    PROVE  LET d == decision_from_answers(as)
           IN  d # None => d.dimensions \in Scores /\ d.model = select_model(d.dimensions)
<1>1. CASE \E q \in QUESTIONS : ~Valid(q, as[q])
  BY <1>1 DEF decision_from_answers
<1>2. CASE \A q \in QUESTIONS : Valid(q, as[q])
  <2> DEFINE scores == [q \in AXES |-> Score(as[q])]
  <2>1. scores \in Scores
    BY <1>2, ScoreOfValid DEF Scores, QUESTIONS
  <2>2. /\ decision_from_answers(as).dimensions = scores
        /\ decision_from_answers(as).model = select_model(scores)
    BY <1>2 DEF decision_from_answers
  <2> QED BY <2>1, <2>2
<1> QED BY <1>1, <1>2

\* PolicyInv holds initially and after every assessment.
LEMMA PolicyInvHolds == PolicySpec => []PolicyInv
<1>1. PolicyInit => PolicyInv
  BY DecisionBySelect DEF PolicyInit, PolicyInv
<1>2. PolicyInv /\ [PolicyNext]_policy => PolicyInv'
  BY DecisionBySelect DEF PolicyInv, PolicyNext, Assess, policy
<1> QED BY <1>1, <1>2, PTL DEF PolicySpec

\* Whatever Jev answers: a task scored higher is never given a weaker model by
\* select_model.
THEOREM RulesAreMonotone == PolicySpec => RaisingDemandNeverLowersModel
<1>1. PolicyInv /\ PolicyInv' /\ [PolicyNext]_policy =>
        [/\ decision # None /\ decision' # None
         /\ \A a \in AXES : NotAbove(decision.dimensions[a], decision'.dimensions[a])
         => Rank[decision.model] <= Rank[decision'.model]]_policy
  BY SelectIsMonotone DEF PolicyInv
<1> QED BY <1>1, PolicyInvHolds, PTL DEF PolicySpec, RaisingDemandNeverLowersModel

\* Whatever Jev answers: the model is the one for the known demands, lifted to
\* sol when an axis is unknown.
THEOREM UncertaintyHasAFloor == PolicySpec => []UncertaintyNeverCheapens
<1>1. PolicyInv => UncertaintyNeverCheapens
  <2> SUFFICES ASSUME PolicyInv, decision # None
               PROVE  UncertaintyNeverCheapens
    BY DEF UncertaintyNeverCheapens
  <2> DEFINE d == decision.dimensions
             k == Known(d)
  <2>1. d \in Scores /\ decision.model = select_model(d)
    BY DEF PolicyInv
  <2>2. k \in Scores /\ ~Uncertain(k) /\ Known(k) = k
    BY <2>1, PolicyAssumption DEF Scores, Known, Uncertain, Level
  <2>3. select_model(d) =
             IF NeedsAstra(k) THEN "astra"
             ELSE IF Uncertain(d) \/ Complex(k) THEN "sol"
             ELSE IF \E a \in AXES : k[a] # 0 THEN "terra" ELSE "luna"
    BY <2>1, SelectByKnown
  <2>4. select_model(k) =
             IF NeedsAstra(k) THEN "astra"
             ELSE IF Complex(k) THEN "sol"
             ELSE IF \E a \in AXES : k[a] # 0 THEN "terra" ELSE "luna"
    BY <2>2, SelectByKnown
  <2>5. /\ Rank["luna"] = 1 /\ Rank["terra"] = 2 /\ Rank["sol"] = 3
        /\ Rank["astra"] = 4
    BY DEF Rank
  <2> QED BY <2>1, <2>3, <2>4, <2>5 DEF UncertaintyNeverCheapens
<1> QED BY <1>1, PolicyInvHolds, PTL

---------------------------------------------------------------------------
(* SummaryMarker: every event is relayed once and in order, for any        *)
(* upstream: any items, parts and deltas, interleaved and cut in any way.  *)

UpTo(k) == [j \in 1..k |-> j]

(* What has been written is all that was taken, but for the held event.    *)
RelayInv ==
    /\ taken \in Nat /\ over \in {"relay", "ended", "broken"}
    /\ place \in {"clean", "half", "line"}
    /\ place # "clean" => cur.n = taken + 1
    /\ \/ held = <<>> /\ out = UpTo(taken)
       \/ taken > 0 /\ held = <<held[1]>> /\ held[1].n = taken /\ out = UpTo(taken - 1)

LEMMA UpToFacts ==
    ASSUME NEW k \in Nat
    PROVE  /\ UpTo(k) \in Seq(Nat) /\ Len(UpTo(k)) = k
           /\ UpTo(k) \o <<>> = UpTo(k) /\ UpTo(k) \o <<k + 1>> = UpTo(k + 1)
<1>1. UpTo(k) \in Seq(Nat) /\ Len(UpTo(k)) = k
  BY DEF UpTo
<1>2. UpTo(k) \o <<>> = UpTo(k)
  BY <1>1 DEF UpTo
<1>3. UpTo(k) \o <<k + 1>> = UpTo(k + 1)
  <2>1. UpTo(k) \o <<k + 1>> \in Seq(Nat) /\ Len(UpTo(k) \o <<k + 1>>) = k + 1
    BY <1>1
  <2>2. \A j \in 1..(k + 1) : (UpTo(k) \o <<k + 1>>)[j] = j
    BY <1>1 DEF UpTo
  <2> QED BY <2>1, <2>2 DEF UpTo
<1> QED BY <1>1, <1>2, <1>3

(* The held event, written first, closes the gap.                          *)
LEMMA HeldCloses == ASSUME RelayInv PROVE out \o HeldNo = UpTo(taken)
<1>1. CASE held = <<>> /\ out = UpTo(taken)
  <2>1. HeldNo = <<>>
    BY <1>1 DEF HeldNo
  <2> QED BY <1>1, <2>1, UpToFacts DEF RelayInv
<1>2. CASE taken > 0 /\ held = <<held[1]>> /\ held[1].n = taken /\ out = UpTo(taken - 1)
  <2>1. Len(held) = 1
    BY <1>2
  <2>2. HeldNo = <<taken>>
    BY <1>2, <2>1 DEF HeldNo
  <2>3. taken - 1 \in Nat /\ (taken - 1) + 1 = taken
    BY <1>2 DEF RelayInv
  <2> QED BY <1>2, <2>2, <2>3, UpToFacts
<1> QED BY <1>1, <1>2 DEF RelayInv

(* A block is written after the held one, or held in its place.            *)
LEMMA BlockGives ==
    ASSUME RelayInv, Block
    PROVE  /\ taken' = taken + 1 /\ place' = "clean" /\ over' = over
           /\ \/ held' = <<>> /\ out' = UpTo(taken + 1)
              \/ held' = <<cur>> /\ out' = UpTo(taken)
<1>1. taken \in Nat /\ cur.n = taken + 1
  BY DEF RelayInv, Block
<1>2. ASSUME NEW t, NEW m, NEW id, Emit(t, cur, m, id) PROVE held' = <<>> /\ out' = UpTo(taken + 1)
  BY <1>1, <1>2, HeldCloses, UpToFacts DEF Emit
<1>3. CASE \E t, m, id : Emit(t, cur, m, id)
  BY <1>1, <1>2, <1>3 DEF Block
<1>4. CASE out' = out \o HeldNo /\ held' = <<cur>>
  BY <1>1, <1>4, HeldCloses DEF Block
<1>5. CASE MessageBlock(cur)
  BY <1>3, <1>5 DEF MessageBlock
<1>6. CASE SummaryBlock(cur)
  BY <1>3, <1>4, <1>6 DEF SummaryBlock
<1>7. CASE TerminalBlock(cur)
  BY <1>3, <1>7 DEF TerminalBlock
<1>8. CASE CreatedBlock(cur) \/ OtherBlock(cur)
  BY <1>3, <1>8 DEF CreatedBlock, OtherBlock
<1> QED BY <1>5, <1>6, <1>7, <1>8 DEF Block

(* The end of the stream writes the held event and what was received of    *)
(* the current one.                                                        *)
LEMMA EofGives ==
    ASSUME RelayInv, Eof
    PROVE  /\ taken' \in {taken, taken + 1} /\ place' = "clean"
           /\ held' = <<>> /\ out' = UpTo(taken')
<1>1. taken \in Nat /\ out \o HeldNo = UpTo(taken)
  BY HeldCloses DEF RelayInv
<1>2. CASE place = "clean"
  BY <1>1, <1>2, UpToFacts DEF Eof
<1>3. CASE place # "clean"
  BY <1>1, <1>3, UpToFacts DEF Eof, RelayInv
<1> QED BY <1>2, <1>3

LEMMA ArriveKeeps ==
    ASSUME RelayInv, NEW e,
           e.n = taken + 1, Arrive(e)
    PROVE  RelayInv' /\ UNCHANGED <<taken, out, over>>
BY DEF RelayInv, Arrive

LEMMA UpstreamKeeps ==
    ASSUME RelayInv, Upstream PROVE RelayInv' /\ UNCHANGED <<taken, out, over>>
<1>1. \E e : e.n = taken + 1 /\ Arrive(e)
  BY DEF Upstream, Created, Terminal, Ping, Added, PartAdded, Delta, ItemDone, Done, Item, Event
<1> QED BY <1>1, ArriveKeeps

LEMMA RelayStarts == MarkerInit => RelayInv
BY DEF MarkerInit, RelayInv, UpTo

LEMMA RelayStep == RelayInv /\ [MarkerNext]_stream => RelayInv'
<1> SUFFICES ASSUME RelayInv, [MarkerNext]_stream PROVE RelayInv'
  OBVIOUS
<1>1. CASE UNCHANGED stream
  BY <1>1 DEF stream, RelayInv, marker, upstream
<1>2. CASE Upstream
  BY <1>2, UpstreamKeeps
<1>3. CASE Line
  BY <1>3 DEF Line, RelayInv
<1>4. CASE Block
  <2>1. /\ taken \in Nat /\ taken' = taken + 1 /\ place' = "clean" /\ over' = over
        /\ cur.n = taken + 1
        /\ \/ held' = <<>> /\ out' = UpTo(taken')
           \/ held' = <<cur>> /\ out' = UpTo(taken)
    BY <1>4, BlockGives DEF RelayInv, Block
  <2>2. CASE held' = <<>> /\ out' = UpTo(taken')
    BY <2>1, <2>2 DEF RelayInv
  <2>3. CASE held' = <<cur>> /\ out' = UpTo(taken)
    <3>1. held'[1] = cur /\ taken' > 0 /\ taken' - 1 = taken
      BY <2>1, <2>3
    <3> QED BY <2>1, <2>3, <3>1 DEF RelayInv
  <2> QED BY <2>1, <2>2, <2>3
<1>5. CASE Eof
  BY <1>5, EofGives DEF RelayInv, Eof
<1>6. CASE Break
  BY <1>6 DEF Break, RelayInv
<1> QED BY <1>1, <1>2, <1>3, <1>4, <1>5, <1>6 DEF MarkerNext

(* Every step of the marker is a step of the relay or leaves it unchanged. *)
LEMMA StepRefines ==
    RelayInv /\ RelayInv' /\ [MarkerNext]_stream => [Relay!Give \/ Relay!Break]_(Relay!relay)
<1> SUFFICES ASSUME RelayInv, RelayInv', [MarkerNext]_stream
             PROVE  [Relay!Give \/ Relay!Break]_(Relay!relay)
  OBVIOUS
<1>0. /\ taken \in Nat /\ Len(out) \in Nat /\ Len(out) <= taken
      /\ \A k : Relay!UpTo(k) = UpTo(k)
  BY UpToFacts DEF RelayInv, Relay!UpTo, UpTo
<1>1. CASE UNCHANGED <<taken, out, over>>
  BY <1>1 DEF Relay!relay
<1>2. CASE UNCHANGED stream \/ Upstream \/ Line
  BY <1>1, <1>2, UpstreamKeeps DEF stream, Line
<1>3. CASE Block
  BY <1>0, <1>3, BlockGives DEF Relay!Give, Block
<1>4. CASE Eof
  <2>1. /\ over = "relay" /\ over' = "ended" /\ taken' \in {taken, taken + 1}
        /\ out' = Relay!UpTo(taken')
    BY <1>0, <1>4, EofGives DEF Eof
  <2>2. ASSUME NEW t \in Nat, t \in {taken, taken + 1}, NEW l \in Nat, l <= taken
        PROVE  t \in l..t /\ t - t <= 1
    BY <1>0, <2>2
  <2>3. taken' \in Nat
    BY <1>0, <2>1
  <2>4. taken' \in Len(out)..taken' /\ taken' - taken' <= 1
    BY <1>0, <2>1, <2>2, <2>3
  <2> QED BY <2>1, <2>4 DEF Relay!Give
<1>5. CASE Break
  BY <1>5 DEF Break, Relay!Break
<1> QED BY <1>2, <1>3, <1>4, <1>5 DEF MarkerNext

(* Whatever the upstream sends and wherever it is cut, feed, _process_block *)
(* and flush write every event once and in order, and hold at most one back. *)
THEOREM MarkerRefines == MarkerSpec => InOrder
<1>1. MarkerInit => Relay!Init
  BY DEF MarkerInit, Relay!Init
<1> QED
  BY <1>1, RelayStarts, RelayStep, StepRefines, PTL DEF MarkerSpec, InOrder, Relay!Spec

---------------------------------------------------------------------------
(* SummaryMarker: the marks agree and the stream ends once, for any        *)
(* upstream.                                                               *)

(* An event of an item is under way.                                       *)
Coming(i, kinds) == place # "clean" /\ cur.item = i /\ cur.kind \in kinds
Pieces == Items \X (1..Parts)
Ups == [stage : {"new", "open", "part", "text", "whole", "done"}, part : 0..Parts,
        text : SUBSET (1..Parts), deltas : Nat, lead : {"live", "done", "mixed"}]
Views == [streamed : SUBSET Pieces, begun : SUBSET Pieces, marked : SUBSET Pieces,
          plain : SUBSET Pieces, ids : SUBSET {"announced", "encoded"},
          ends : Seq({"terminal", "error"})]
StreamTypes ==
    /\ up \in [Items -> Ups] /\ parted \subseteq Pieces /\ view \in Views
    /\ headed \subseteq Messages /\ headerPart \in [Messages -> 0..Parts]
    /\ terminal \in BOOLEAN /\ responseId \in {Nothing, "announced"}
    /\ over \in {"relay", "ended", "broken"} /\ place \in {"clean", "half", "line"}

(* The upstream streams the parts of an item in their order.               *)
UpOf(i, u) ==
    /\ u.stage = "new" => u.part = 0 /\ u.text = {}
    /\ u.stage = "open" /\ u.part = 0 => u.text = {}
    /\ u.stage \in {"part", "text"} => u.part > 0
    /\ u.stage = "whole" => u.part = 0 /\ i \in Messages
    /\ u.part > 0 \/ i \in Reasoning => u.text \subseteq 1..u.part
    /\ u.text = {} => u.lead = "live"
UpInv == \A i \in Items : UpOf(i, up[i])

(* What the event under way says of its item.                              *)
ItemEvent(e, u) ==
    /\ e.kind \in {"add", "padd", "delta", "tdone", "pdone", "idone"}
    /\ e.text \subseteq u.text
    /\ e.kind \in {"add", "idone"} => e.text = u.text
    /\ e.kind = "add" => u.part = 0
    /\ e.kind \in {"padd", "delta", "tdone", "pdone"} =>
          e.part = u.part /\ u.part > 0 /\ e.text \subseteq {e.part}
    /\ e.kind \in {"tdone", "pdone"} => e.text = u.text \cap {e.part}
    /\ e.kind \in {"delta", "padd"} => u.stage = "part"
    /\ e.kind = "tdone" => u.stage = "text"
    /\ e.kind = "pdone" => u.stage = "open"
    /\ e.kind = "idone" => u.stage = "done"
    /\ e.kind = "delta" /\ e.text # {} => u.lead # "done"
    /\ e.item \in Reasoning /\ e.kind = "delta" => e.text = {e.part}
    /\ e.item \in Reasoning /\ e.kind \in {"add", "padd"} => e.text = {}
EventInv == place # "clean" =>
    \/ cur.item \in Items /\ ItemEvent(cur, up[cur.item])
    \/ /\ cur.item = Nothing /\ cur.kind \in {"created", "terminal", "ping"}
       /\ cur.kind # "terminal" => cur.text = {}
       /\ cur.kind = "terminal" => cur.text \subseteq {i \in Items : up[i].stage = "done"}

(* The header stands on the first part that has text.  It was streamed     *)
(* there, or the part was never streamed and is over.                      *)
HeaderAt(i) ==
    /\ i \in headed => headerPart[i] # 0
    /\ headerPart[i] # 0 => i \in headed \/ up[i].lead # "live"
    /\ headerPart[i] # 0 => headerPart[i] \in up[i].text /\ \A q \in up[i].text : headerPart[i] <= q
    /\ headerPart[i] # 0 /\ up[i].part > 0 =>
          \/ <<i, headerPart[i]>> \in view.begun
          \/ /\ <<i, headerPart[i]>> \notin view.streamed
             /\ headerPart[i] < up[i].part \/ up[i].stage # "part"
HeaderInv == \A i \in Messages :
    /\ HeaderAt(i)
    /\ headerPart[i] = 0 /\ up[i].text # {} =>
          /\ Coming(i, {"add", "padd", "delta", "tdone", "pdone"}) /\ up[i].text = cur.text
          /\ cur.kind \in {"tdone", "pdone"} => up[i].lead = "done"
HeaderShown == \A i \in Messages, q \in 1..Parts :
    /\ up[i].lead # "mixed" =>
          /\ <<i, q>> \in view.begun \cup view.marked => q = headerPart[i]
          /\ <<i, q>> \in view.plain => headerPart[i] # 0 /\ q # headerPart[i]
    /\ <<i, q>> \in view.streamed => up[i].part > 0 /\ headerPart[i] # 0

(* The delta held back is of the part that its item is at.                 *)
HeldInv ==
    \/ held = <<>>
    \/ LET i == held[1].item
           p == held[1].part
       IN  /\ held = <<held[1]>> /\ i \in Reasoning /\ held[1].kind = "delta" /\ held[1].text = {p}
           /\ p = up[i].part /\ p > 0
           /\ up[i].stage = "part" \/ Coming(i, {"tdone"})
           /\ place # "clean" => Coming(i, {"delta", "tdone"}) \/ <<i, p>> \in parted
HeldPairs == IF held = <<>> THEN {} ELSE {<<held[1].item, held[1].part>>}
TagShown == \A i \in Reasoning, q \in 1..Parts :
    /\ <<i, q>> \notin view.plain
    /\ <<i, q>> \in view.streamed => <<i, q>> \in view.begun \cup parted \cup HeldPairs
    /\ <<i, q>> \in view.marked =>
          q <= up[i].part /\ (q = up[i].part => up[i].stage # "part" /\ ~Coming(i, {"tdone"}))

(* How the stream ended, and under which id.                               *)
VerdictInv ==
    /\ view.ends = IF terminal THEN <<"terminal">> ELSE <<>>
    /\ view.ids = IF responseId # Nothing THEN {"announced"}
                  ELSE IF terminal THEN {"encoded"} ELSE {}
    /\ terminal => "terminal" \in sent
    /\ sent = {} => responseId = Nothing
    /\ Coming(Nothing, {"terminal"}) => "terminal" \in sent /\ ~terminal
    /\ Coming(Nothing, {"created"}) => sent # {} /\ responseId = Nothing /\ ~terminal

(* While the stream is relayed; and when it is over, unless it was cut     *)
(* between the lines of a block and its blank line.                        *)
Relaying == UpInv /\ EventInv /\ HeaderInv /\ HeaderShown /\ HeldInv /\ TagShown /\ VerdictInv
MarkInv ==
    /\ StreamTypes
    /\ over = "relay" => Relaying
    /\ "line" \notin Cuts /\ over # "relay" => MarksAgree

---------------------------------------------------------------------------
(* A set of parts has a first one.                                         *)
LEMMA MinFacts ==
    ASSUME NEW S \in SUBSET (1..Parts), S # {}
    PROVE  /\ Min(S) \in S /\ \A q \in S : Min(S) <= q
           /\ \A q \in S : (\A r \in S : q <= r) => q = Min(S)
<1> DEFINE R == OpToRel(<, Nat)
<1>1. S \subseteq Nat
  BY MarkerAssumption
<1>2. IsWellFoundedOn(R, Nat)
  BY NatLessThanWellFounded
<1>3. \A x, y \in Nat : <<y, x>> \in R <=> y < x
  BY DEF OpToRel
<1> HIDE DEF R
<1>4. PICK x \in S : \A y \in S : ~(<<y, x>> \in R)
  BY <1>1, <1>2, WFMin
<1>5. \A y \in S : x <= y
  <2>1. TAKE y \in S
  <2>2. x \in Nat /\ y \in Nat /\ ~(<<y, x>> \in R)
    BY <1>1, <1>4
  <2>3. ~(y < x)
    BY <1>3, <2>2
  <2> QED BY <2>2, <2>3
<1>6. Min(S) \in S /\ \A q \in S : Min(S) <= q
  BY <1>4, <1>5 DEF Min
<1>7. ASSUME NEW q \in S, \A r \in S : q <= r PROVE q = Min(S)
  <2> DEFINE m == Min(S)
  <2>1. q \in Nat /\ m \in Nat /\ m <= q /\ q <= m
    BY <1>1, <1>6, <1>7
  <2> HIDE DEF m
  <2>2. q = m
    BY <2>1
  <2> QED BY <2>2 DEF m
<1> QED BY <1>6, <1>7

(* The state of an item, by its fields.                                    *)
LEMMA UpFields ==
    ASSUME StreamTypes, NEW i \in Items
    PROVE  /\ up[i] \in Ups /\ up[i].part \in 0..Parts /\ up[i].part \in Nat
           /\ up[i].text \in SUBSET (1..Parts) /\ up[i].text \subseteq Nat
BY MarkerAssumption DEF StreamTypes, Ups

(* The caller's view, by its fields.                                       *)
LEMMA ViewFields ==
    ASSUME StreamTypes
    PROVE  /\ view.streamed \subseteq Pieces /\ view.begun \subseteq Pieces
           /\ view.marked \subseteq Pieces /\ view.plain \subseteq Pieces
           /\ view.ids \subseteq {"announced", "encoded"}
           /\ view.ends \in Seq({"terminal", "error"})
BY DEF StreamTypes, Views

(* What the caller makes of an event.                                      *)
LEMMA ShownFacts ==
    ASSUME NEW v \in Views, NEW e, NEW m \in SUBSET Pieces, Pairs(e) \subseteq Pieces,
           NEW id \in {Nothing, "announced", "encoded"}
    PROVE  LET s == Shown(v, e, m, id) IN
           /\ s \in Views
           /\ e.kind \in {"delta", "padd"} =>
                 /\ s.streamed = v.streamed \cup Pairs(e) /\ s.begun = v.begun \cup m
                 /\ s.marked = v.marked /\ s.plain = v.plain /\ s.ids = v.ids /\ s.ends = v.ends
           /\ e.kind \notin {"delta", "padd"} =>
                 /\ s.streamed = v.streamed /\ s.begun = v.begun
                 /\ s.marked = v.marked \cup m /\ s.plain = v.plain \cup (Pairs(e) \ m)
                 /\ s.ids = v.ids \cup (IF id = Nothing THEN {} ELSE {id})
                 /\ s.ends = IF e.kind = "terminal" THEN Append(v.ends, "terminal") ELSE v.ends
<1> DEFINE P == Pairs(e)
           j == IF id = Nothing THEN {} ELSE {id}
<1>1. P \subseteq Pieces /\ j \subseteq {"announced", "encoded"}
  OBVIOUS
<1>2. CASE e.kind \in {"delta", "padd"}
  <2>1. Shown(v, e, m, id) = [v EXCEPT !.streamed = @ \cup P, !.begun = @ \cup m]
    BY <1>2 DEF Shown
  <2> DEFINE s == Shown(v, e, m, id)
  <2> HIDE DEF P, j, s
  <2>2. /\ s.streamed = v.streamed \cup P /\ s.begun = v.begun \cup m
        /\ s.marked = v.marked /\ s.plain = v.plain /\ s.ids = v.ids /\ s.ends = v.ends
    BY <2>1 DEF Views, s
  <2>3. s \in Views
    BY <1>1, <2>1 DEF Views, s
  <2> QED BY <1>2, <2>2, <2>3 DEF P, s
<1>3. CASE e.kind \notin {"delta", "padd"}
  <2> DEFINE w == IF e.kind = "terminal" THEN Append(v.ends, "terminal") ELSE v.ends
  <2>1. Shown(v, e, m, id) = [v EXCEPT !.marked = @ \cup m, !.plain = @ \cup (P \ m),
                                       !.ids = @ \cup j, !.ends = w]
    BY <1>3 DEF Shown
  <2>2. w \in Seq({"terminal", "error"})
    BY DEF Views
  <2> DEFINE s == Shown(v, e, m, id)
  <2> HIDE DEF P, j, w, s
  <2>3. /\ s.streamed = v.streamed /\ s.begun = v.begun
        /\ s.marked = v.marked \cup m /\ s.plain = v.plain \cup (P \ m)
        /\ s.ids = v.ids \cup j /\ s.ends = w
    BY <2>1 DEF Views, s
  <2>4. s \in Views
    BY <1>1, <2>1, <2>2 DEF Views, s
  <2> QED BY <1>3, <2>3, <2>4 DEF P, j, w, s
<1> QED BY <1>2, <1>3

(* The held delta, shown with its tag or without.                          *)
LEMMA HeldShown ==
    ASSUME StreamTypes, UpInv, HeldInv, NEW t \in BOOLEAN
    PROVE  /\ HeldPairs \subseteq Reasoning \X (1..Parts) /\ HeldPairs \subseteq Pieces
           /\ AfterHeld(t) \in Views
           /\ AfterHeld(t).streamed = view.streamed \cup HeldPairs
           /\ AfterHeld(t).begun = view.begun \cup (IF t THEN HeldPairs ELSE {})
           /\ AfterHeld(t).marked = view.marked /\ AfterHeld(t).plain = view.plain
           /\ AfterHeld(t).ids = view.ids /\ AfterHeld(t).ends = view.ends
<1>1. view \in Views
  BY DEF StreamTypes
<1>2. CASE held = <<>>
  BY <1>1, <1>2 DEF AfterHeld, HeldPairs
<1>3. CASE held # <<>>
  <2> DEFINE e == held[1]
  <2>1. /\ e.item \in Reasoning /\ e.item \in Items /\ e.kind = "delta" /\ e.text = {e.part}
        /\ e.part = up[e.item].part /\ e.part > 0
    BY <1>3 DEF HeldInv, Items
  <2>2. e.part \in 1..Parts
    BY <2>1, UpFields
  <2>3. Pairs(e) = {<<e.item, e.part>>}
    BY <2>1 DEF Pairs
  <2>4. HeldPairs = Pairs(e)
    BY <1>3, <2>3 DEF HeldPairs
  <2>5. Pairs(e) \subseteq Pieces /\ Pairs(e) \subseteq Reasoning \X (1..Parts)
    BY <2>1, <2>2, <2>3 DEF Pieces
  <2>6. AfterHeld(t) = Shown(view, e, IF t THEN Pairs(e) ELSE {}, Nothing)
    BY <1>3 DEF AfterHeld
  <2> HIDE DEF e
  <2>7. (IF t THEN Pairs(e) ELSE {}) \in SUBSET Pieces
    BY <2>5
  <2> QED BY <1>1, <2>1, <2>4, <2>5, <2>6, <2>7, ShownFacts
<1> QED BY <1>2, <1>3

(* The text of the held delta is not marked yet.                           *)
LEMMA HeldUnmarked ==
    ASSUME HeldInv, TagShown, NEW i \in Reasoning, NEW q \in 1..Parts, <<i, q>> \in view.marked
    PROVE  <<i, q>> \notin HeldPairs
<1> SUFFICES ASSUME <<i, q>> \in HeldPairs PROVE FALSE
  OBVIOUS
<1>1. held # <<>> /\ held[1].item = i /\ held[1].part = q
  BY DEF HeldPairs
<1>2. q = up[i].part /\ (up[i].stage = "part" \/ Coming(i, {"tdone"}))
  BY <1>1 DEF HeldInv
<1> QED BY <1>2 DEF TagShown

(* The texts of the event under way.                                       *)
LEMMA PairsFacts ==
    ASSUME StreamTypes, EventInv, place # "clean"
    PROVE  /\ Pairs(cur) \subseteq Pieces
           /\ cur.item \in Items => Pairs(cur) = {<<cur.item, p>> : p \in cur.text}
           /\ cur.item \in Items => cur.kind # "terminal" /\ cur.text \subseteq 1..Parts
           /\ cur.kind = "terminal" =>
                 /\ cur.text \subseteq Items
                 /\ \A i \in Items : \A q : <<i, q>> \in Pairs(cur) <=> i \in cur.text /\ q \in up[i].text
           /\ cur.kind \in {"created", "ping"} => Pairs(cur) = {}
<1>1. CASE cur.item \in Items /\ ItemEvent(cur, up[cur.item])
  <2>1. cur.kind \notin {"terminal", "created", "ping"} /\ cur.text \subseteq 1..Parts
    BY <1>1, UpFields DEF ItemEvent
  <2>2. Pairs(cur) = {<<cur.item, p>> : p \in cur.text}
    BY <2>1 DEF Pairs
  <2> QED BY <1>1, <2>1, <2>2 DEF Pieces
<1>2. CASE cur.item = Nothing /\ cur.kind \in {"created", "ping"} /\ cur.text = {}
  BY <1>2, MarkerAssumption DEF Pairs
<1>3. CASE cur.item = Nothing /\ cur.kind = "terminal" /\ cur.text \subseteq Items
  <2>1. Pairs(cur) = UNION {{<<i, p>> : p \in up[i].text} : i \in cur.text}
    BY <1>3 DEF Pairs
  <2>2. \A i \in cur.text : up[i].text \subseteq 1..Parts
    BY <1>3, UpFields
  <2>3. Pairs(cur) \subseteq Pieces
    BY <1>3, <2>1, <2>2 DEF Pieces
  <2>4. \A i \in Items : \A q : <<i, q>> \in Pairs(cur) <=> i \in cur.text /\ q \in up[i].text
    BY <1>3, <2>1
  <2> QED BY <1>3, <2>3, <2>4, MarkerAssumption
<1> QED BY <1>1, <1>2, <1>3 DEF EventInv

(* The held delta is written, then the event under way.                    *)
LEMMA EmitFacts ==
    ASSUME StreamTypes, UpInv, EventInv, HeldInv, place # "clean",
           NEW t \in BOOLEAN, NEW m \in SUBSET Pieces,
           NEW id \in {Nothing, "announced", "encoded"}, Emit(t, cur, m, id)
    PROVE  /\ view' \in Views /\ held' = <<>>
           /\ cur.kind \in {"delta", "padd"} =>
                 /\ view'.streamed = view.streamed \cup HeldPairs \cup Pairs(cur)
                 /\ view'.begun = view.begun \cup (IF t THEN HeldPairs ELSE {}) \cup m
                 /\ view'.marked = view.marked /\ view'.plain = view.plain
                 /\ view'.ids = view.ids /\ view'.ends = view.ends
           /\ cur.kind \notin {"delta", "padd"} =>
                 /\ view'.streamed = view.streamed \cup HeldPairs
                 /\ view'.begun = view.begun \cup (IF t THEN HeldPairs ELSE {})
                 /\ view'.marked = view.marked \cup m
                 /\ view'.plain = view.plain \cup (Pairs(cur) \ m)
                 /\ view'.ids = view.ids \cup (IF id = Nothing THEN {} ELSE {id})
                 /\ view'.ends = IF cur.kind = "terminal" THEN Append(view.ends, "terminal")
                                                          ELSE view.ends
<1> DEFINE v == AfterHeld(t)
<1>1. /\ v \in Views
      /\ v.streamed = view.streamed \cup HeldPairs
      /\ v.begun = view.begun \cup (IF t THEN HeldPairs ELSE {})
      /\ v.marked = view.marked /\ v.plain = view.plain
      /\ v.ids = view.ids /\ v.ends = view.ends
  BY HeldShown
<1>2. view' = Shown(v, cur, m, id) /\ held' = <<>> /\ Pairs(cur) \subseteq Pieces
  BY PairsFacts DEF Emit
<1> HIDE DEF v
<1>3. CASE cur.kind \in {"delta", "padd"}
  BY <1>1, <1>2, <1>3, ShownFacts
<1>4. CASE cur.kind \notin {"delta", "padd"}
  BY <1>1, <1>2, <1>4, ShownFacts
<1> QED BY <1>3, <1>4

(* The same when it is neither the tag's turn nor the end of the stream.   *)
LEMMA EmitPlain ==
    ASSUME StreamTypes, UpInv, EventInv, HeldInv, place # "clean", cur.kind # "terminal",
           NEW t \in BOOLEAN, NEW m \in SUBSET Pieces, Emit(t, cur, m, Nothing)
    PROVE  /\ view' \in Views /\ held' = <<>>
           /\ view'.ids = view.ids /\ view'.ends = view.ends
           /\ cur.kind \in {"delta", "padd"} =>
                 /\ view'.streamed = view.streamed \cup HeldPairs \cup Pairs(cur)
                 /\ view'.begun = view.begun \cup (IF t THEN HeldPairs ELSE {}) \cup m
                 /\ view'.marked = view.marked /\ view'.plain = view.plain
           /\ cur.kind \notin {"delta", "padd"} =>
                 /\ view'.streamed = view.streamed \cup HeldPairs
                 /\ view'.begun = view.begun \cup (IF t THEN HeldPairs ELSE {})
                 /\ view'.marked = view.marked \cup m
                 /\ view'.plain = view.plain \cup (Pairs(cur) \ m)
<1>1. Nothing \in {Nothing, "announced", "encoded"}
  OBVIOUS
<1>2. CASE cur.kind \in {"delta", "padd"}
  BY <1>1, <1>2, EmitFacts
<1>3. CASE cur.kind \notin {"delta", "padd"}
  <2>1. /\ view' \in Views /\ held' = <<>>
        /\ view'.streamed = view.streamed \cup HeldPairs
        /\ view'.begun = view.begun \cup (IF t THEN HeldPairs ELSE {})
        /\ view'.marked = view.marked \cup m
        /\ view'.plain = view.plain \cup (Pairs(cur) \ m)
        /\ view'.ids = view.ids \cup (IF Nothing = Nothing THEN {} ELSE {Nothing})
        /\ view'.ends = IF cur.kind = "terminal" THEN Append(view.ends, "terminal") ELSE view.ends
    BY <1>1, <1>3, EmitFacts
  <2>2. view'.ids = view.ids \cup {} /\ view'.ends = view.ends
    BY <2>1
  <2> QED BY <1>3, <2>1, <2>2
<1> QED BY <1>2, <1>3

(* What the marks say follows from where they stand.                       *)
LEMMA RelayingAgrees == ASSUME StreamTypes, Relaying PROVE MarksAgree
<1> USE DEF Relaying
<1>1. Same(Messages \ Mixed, {})
  <2> SUFFICES ASSUME NEW i \in Messages \ Mixed, NEW q \in 1..Parts
               PROVE  /\ <<i, q>> \in view.plain => <<i, q>> \notin view.marked /\ <<i, q>> \notin view.begun
                      /\ <<i, q>> \in view.marked /\ <<i, q>> \in view.streamed => <<i, q>> \in view.begun
    BY DEF Same
  <2>1. <<i, q>> \in view.plain => <<i, q>> \notin view.marked /\ <<i, q>> \notin view.begun
    BY DEF HeaderShown, Mixed
  <2>2. ASSUME <<i, q>> \in view.marked, <<i, q>> \in view.streamed PROVE <<i, q>> \in view.begun
    <3>1. q = headerPart[i] /\ up[i].part > 0 /\ q # 0
      BY <2>2, MarkerAssumption DEF HeaderShown, Mixed
    <3> QED BY <2>2, <3>1 DEF HeaderInv, HeaderAt
  <2> QED BY <2>1, <2>2
<1>2. Same(Reasoning, parted)
  <2> SUFFICES ASSUME NEW i \in Reasoning, NEW q \in 1..Parts
               PROVE  /\ <<i, q>> \notin view.plain
                      /\ <<i, q>> \in view.marked /\ <<i, q>> \in view.streamed =>
                            <<i, q>> \in view.begun \cup parted
    BY DEF Same
  <2>1. <<i, q>> \notin view.plain
    BY DEF TagShown
  <2>2. ASSUME <<i, q>> \in view.marked, <<i, q>> \in view.streamed
        PROVE  <<i, q>> \in view.begun \cup parted
    <3>1. <<i, q>> \notin HeldPairs
      BY <2>2, HeldUnmarked
    <3> QED BY <2>2, <3>1 DEF TagShown
  <2> QED BY <2>1, <2>2
<1>3. ASSUME NEW i \in Messages \ Mixed
      PROVE  Cardinality({x \in view.begun \cup view.marked : x[1] = i}) <= 1
  <2> DEFINE S == {x \in view.begun \cup view.marked : x[1] = i}
  <2>1. S \subseteq {<<i, headerPart[i]>>}
    <3> SUFFICES ASSUME NEW x \in S PROVE x = <<i, headerPart[i]>>
      OBVIOUS
    <3>1. x \in Pieces /\ x[1] = i
      BY ViewFields
    <3>2. PICK q \in 1..Parts : x = <<i, q>>
      BY <3>1 DEF Pieces
    <3> QED BY <3>2 DEF HeaderShown, Mixed
  <2> HIDE DEF S
  <2>2. Cardinality(S) <= 1
    <3>1. IsFiniteSet({<<i, headerPart[i]>>}) /\ Cardinality({<<i, headerPart[i]>>}) = 1
      BY FS_Singleton
    <3> QED BY <2>1, <3>1, FS_Subset
  <2> QED BY <2>2 DEF S
<1> QED BY <1>1, <1>2, <1>3 DEF MarksAgree

(* The block has been processed: the upstream may send the next one.       *)
BlockEnds ==
    /\ over = "relay" /\ place = "line" /\ place' = "clean" /\ cur' = Nothing
    /\ UNCHANGED <<upstream, over>>

(* The first part with text, once an event of the message is processed.    *)
LEMMA HeaderStep ==
    ASSUME StreamTypes, Relaying, place = "line", cur.item \in Messages
    PROVE  LET i == cur.item
               hp == Default(i, cur.text)
           IN  /\ hp \in 0..Parts
               /\ headerPart[i] # 0 => hp = headerPart[i]
               /\ hp # 0 => hp \in up[i].text /\ \A q \in up[i].text : hp <= q
               /\ hp = 0 => up[i].text = {}
               /\ hp # headerPart[i] =>
                     /\ headerPart[i] = 0 /\ cur.text # {} /\ hp = Min(cur.text) /\ hp \in cur.text
                     /\ cur.kind # "idone"
                     /\ cur.kind \in {"tdone", "pdone"} => up[i].lead = "done"
<1> DEFINE i == cur.item
           hp == Default(i, cur.text)
<1>1. /\ i \in Items /\ i # Nothing /\ ItemEvent(cur, up[i]) /\ cur.text \subseteq up[i].text
      /\ up[i].text \in SUBSET (1..Parts) /\ cur.text \in SUBSET (1..Parts)
      /\ headerPart[i] \in 0..Parts
  BY MarkerAssumption, UpFields DEF Relaying, EventInv, Items, ItemEvent, StreamTypes
<1>2. CASE headerPart[i] # 0
  BY <1>1, <1>2 DEF Default, Relaying, HeaderInv, HeaderAt
<1>3. CASE headerPart[i] = 0 /\ cur.text = {}
  <2>1. hp = 0 /\ up[i].text = {}
    BY <1>1, <1>3 DEF Default, Relaying, HeaderInv
  <2> QED BY <1>1, <1>3, <2>1
<1>4. CASE headerPart[i] = 0 /\ cur.text # {}
  <2>1. /\ up[i].text = cur.text /\ cur.kind \in {"add", "padd", "delta", "tdone", "pdone"}
        /\ cur.kind \in {"tdone", "pdone"} => up[i].lead = "done"
    BY <1>1, <1>4 DEF Relaying, HeaderInv, Coming
  <2>2. hp = Min(cur.text)
    BY <1>4 DEF Default
  <2>3. Min(cur.text) \in cur.text /\ \A q \in cur.text : Min(cur.text) <= q
    BY <1>1, <1>4, MinFacts
  <2> QED BY <1>1, <1>4, <2>1, <2>2, <2>3
<1> QED BY <1>2, <1>3, <1>4

(* The marks that an event of a message is given.                          *)
MessageMarks(e) ==
    CASE e.kind \in {"add", "idone"} -> Sign(e.item, e.text)
      [] e.kind = "delta" -> IF e.item \in headed THEN {} ELSE Sign(e.item, e.text)
      [] OTHER -> IF Default(e.item, e.text) = e.part THEN Sign(e.item, e.text) ELSE {}

LEMMA MessageMarked ==
    ASSUME StreamTypes, Relaying, place = "line", cur.item \in Messages
    PROVE  LET i == cur.item
               hp == Default(i, cur.text)
               m == MessageMarks(cur)
           IN  /\ m = {} \/ (cur.text # {} /\ m = {<<i, Min(cur.text)>>} /\ Min(cur.text) \in cur.text)
               /\ up[i].lead # "mixed" => m \subseteq {<<i, hp>>}
               /\ cur.kind \in {"delta", "padd"} /\ hp \in cur.text => <<i, hp>> \in view.begun \cup m
               /\ cur.kind \notin {"delta", "padd"} /\ hp \in cur.text => <<i, hp>> \in m
<1> DEFINE i == cur.item
           hp == Default(i, cur.text)
           m == MessageMarks(cur)
<1>1. /\ i \in Items /\ ItemEvent(cur, up[i]) /\ cur.text \subseteq up[i].text
      /\ up[i].text \in SUBSET (1..Parts) /\ cur.text \in SUBSET (1..Parts)
  BY MarkerAssumption, UpFields DEF Relaying, EventInv, Items, ItemEvent
<1>2. /\ hp \in 0..Parts
      /\ headerPart[i] # 0 => hp = headerPart[i]
      /\ hp # 0 => hp \in up[i].text /\ \A q \in up[i].text : hp <= q
      /\ hp = 0 => up[i].text = {}
      /\ hp # headerPart[i] =>
            /\ headerPart[i] = 0 /\ cur.text # {} /\ hp = Min(cur.text) /\ hp \in cur.text
            /\ cur.kind # "idone"
            /\ cur.kind \in {"tdone", "pdone"} => up[i].lead = "done"
  BY HeaderStep
<1>3. HeaderAt(i)
  BY DEF Relaying, HeaderInv
<1>4. hp \in cur.text => hp = Min(cur.text)
  <2>1. ASSUME hp \in cur.text PROVE hp = Min(cur.text)
    <3>1. cur.text # {} /\ hp # 0 /\ \A q \in cur.text : hp <= q
      BY <1>1, <1>2, <2>1, MarkerAssumption
    <3> HIDE DEF hp
    <3> QED BY <1>1, <2>1, <3>1, MinFacts
  <2> QED BY <2>1
<1>5. ASSUME cur.text # {} PROVE hp # 0 /\ (cur.kind \in {"add", "idone"} => hp \in cur.text)
  BY <1>1, <1>2, <1>5 DEF ItemEvent
<1>6. hp \in cur.text => Sign(i, cur.text) = {<<i, hp>>}
  BY <1>4 DEF Sign
<1>7. cur.text = {} => Sign(i, cur.text) = {}
  BY DEF Sign
<1>8. cur.text # {} => Sign(i, cur.text) = {<<i, Min(cur.text)>>} /\ Min(cur.text) \in cur.text
  BY <1>1, MinFacts DEF Sign
<1>9. m = {} \/ m = Sign(i, cur.text)
  BY <1>1 DEF MessageMarks, ItemEvent
<1> HIDE DEF hp, m
<1>10. m = {} \/ (cur.text # {} /\ m = {<<i, Min(cur.text)>>} /\ Min(cur.text) \in cur.text)
  BY <1>7, <1>8, <1>9
<1>11. CASE cur.kind \in {"add", "idone"}
  <2>1. m = Sign(i, cur.text)
    BY <1>11 DEF MessageMarks, m
  <2> QED BY <1>5, <1>6, <1>7, <1>10, <1>11, <2>1 DEF m, hp
<1>12. CASE cur.kind = "delta"
  <2>1. m = IF i \in headed THEN {} ELSE Sign(i, cur.text)
    BY <1>12 DEF MessageMarks, m
  <2>2. /\ up[i].part > 0 /\ up[i].stage = "part" /\ cur.text \subseteq {up[i].part}
        /\ cur.text # {} => up[i].lead # "done"
    BY <1>1, <1>12 DEF ItemEvent
  <2>3. ASSUME hp \in cur.text, hp = headerPart[i] PROVE <<i, hp>> \in view.begun
    <3>1. hp # 0 /\ hp = up[i].part
      BY <1>5, <2>2, <2>3
    <3>2. ~(headerPart[i] < up[i].part)
      BY <1>1, <2>3, <3>1, UpFields
    <3> QED BY <1>3, <2>2, <2>3, <3>1, <3>2 DEF HeaderAt
  <2>4. ASSUME i \notin headed, cur.text # {}, up[i].lead # "mixed" PROVE hp # headerPart[i] /\ hp \in cur.text
    <3>1. up[i].lead = "live" /\ headerPart[i] = 0 /\ hp # 0
      <4>1. up[i].lead \in {"live", "done", "mixed"}
        BY <1>1, UpFields DEF Ups
      <4> QED BY <1>3, <1>5, <2>2, <2>4, <4>1 DEF HeaderAt
    <3> QED BY <1>2, <3>1
  <2>5. up[i].lead # "mixed" => m \subseteq {<<i, hp>>}
    BY <1>6, <1>7, <2>1, <2>4
  <2>6. hp \in cur.text => <<i, hp>> \in view.begun \cup m
    <3>1. CASE hp = headerPart[i]
      BY <2>3, <3>1
    <3>2. CASE hp # headerPart[i]
      <4>1. i \notin headed
        BY <1>2, <1>3, <3>2 DEF HeaderAt
      <4> QED BY <1>6, <2>1, <4>1
    <3> QED BY <3>1, <3>2
  <2> QED BY <1>10, <1>12, <2>5, <2>6 DEF m, hp
<1>13. CASE cur.kind \in {"padd", "tdone", "pdone"}
  <2>1. m = IF hp = cur.part THEN Sign(i, cur.text) ELSE {}
    BY <1>13 DEF MessageMarks, m, hp
  <2>2. cur.text \subseteq {cur.part}
    BY <1>1, <1>13 DEF ItemEvent
  <2>3. hp \in cur.text => m = {<<i, hp>>}
    BY <1>6, <2>1, <2>2
  <2>4. m \subseteq {<<i, hp>>}
    BY <1>6, <1>7, <2>1, <2>2
  <2> QED BY <1>10, <1>13, <2>3, <2>4 DEF m, hp
<1> QED BY <1>1, <1>11, <1>12, <1>13 DEF ItemEvent, m, hp

(* A text that was held when another item's event came is in parted.       *)
LEMMA HeldParted ==
    ASSUME Relaying, place = "line", NEW x \in HeldPairs
    PROVE  x \in parted \/ (cur.item = held[1].item /\ cur.kind \in {"delta", "tdone"})
BY DEF Relaying, HeldInv, HeldPairs, Coming

(* Each kind of block keeps the invariant.                                 *)
LEMMA MessageKeeps ==
    ASSUME StreamTypes, Relaying, BlockEnds, cur.item \in Messages, MessageBlock(cur)
    PROVE  StreamTypes' /\ Relaying'
<1> DEFINE i == cur.item
           hp == Default(i, cur.text)
           m == MessageMarks(cur)
<1>1. /\ i \in Messages /\ i \in Items /\ i \notin Reasoning /\ ItemEvent(cur, up[i])
      /\ place = "line" /\ place # "clean"
      /\ cur.text \subseteq 1..Parts /\ Pairs(cur) = {<<i, p>> : p \in cur.text}
      /\ StreamTypes /\ UpInv /\ EventInv /\ HeldInv
  BY MarkerAssumption, PairsFacts DEF Relaying, EventInv, Items, BlockEnds
<1>2. /\ hp \in 0..Parts
      /\ headerPart[i] # 0 => hp = headerPart[i]
      /\ hp # 0 => hp \in up[i].text /\ \A q \in up[i].text : hp <= q
      /\ hp = 0 => up[i].text = {}
      /\ hp # headerPart[i] =>
            /\ headerPart[i] = 0 /\ cur.text # {} /\ hp = Min(cur.text) /\ hp \in cur.text
            /\ cur.kind # "idone"
            /\ cur.kind \in {"tdone", "pdone"} => up[i].lead = "done"
  BY <1>1, HeaderStep
<1>3. /\ m = {} \/ (cur.text # {} /\ m = {<<i, Min(cur.text)>>} /\ Min(cur.text) \in cur.text)
      /\ up[i].lead # "mixed" => m \subseteq {<<i, hp>>}
      /\ cur.kind \in {"delta", "padd"} /\ hp \in cur.text => <<i, hp>> \in view.begun \cup m
      /\ cur.kind \notin {"delta", "padd"} /\ hp \in cur.text => <<i, hp>> \in m
  BY <1>1, MessageMarked
<1>4. m \in SUBSET Pieces /\ \A j, q : j # i => <<j, q>> \notin m
  BY <1>1, <1>3 DEF Pieces
<1>5. /\ Emit(FALSE, cur, m, Nothing)
      /\ headerPart' = [headerPart EXCEPT ![i] = hp]
      /\ headed' = headed \cup (IF \/ cur.kind \in {"delta", "padd"} /\ cur.text # {}
                                   \/ cur.kind = "add" /\ hp # 0
                                THEN {i} ELSE {})
      /\ UNCHANGED <<responseId, terminal>>
  BY DEF MessageBlock, MessageMarks
<1>6. /\ place' = "clean" /\ UNCHANGED <<up, pings, sent, parted, over>>
  BY DEF BlockEnds, upstream
<1> HIDE DEF i, hp, m
<1>7. /\ view' \in Views /\ held' = <<>>
      /\ cur.kind \in {"delta", "padd"} =>
            /\ view'.streamed = view.streamed \cup HeldPairs \cup Pairs(cur)
            /\ view'.begun = view.begun \cup m
            /\ view'.marked = view.marked /\ view'.plain = view.plain
            /\ view'.ids = view.ids /\ view'.ends = view.ends
      /\ cur.kind \notin {"delta", "padd"} =>
            /\ view'.streamed = view.streamed \cup HeldPairs
            /\ view'.begun = view.begun /\ view'.marked = view.marked \cup m
            /\ view'.plain = view.plain \cup (Pairs(cur) \ m)
            /\ view'.ids = view.ids /\ view'.ends = view.ends
  <2>1. FALSE \in BOOLEAN /\ cur.kind # "terminal"
    BY <1>1 DEF ItemEvent
  <2> QED BY <1>1, <1>4, <1>5, <2>1, EmitPlain
<1>8. StreamTypes'
  <2>1. headerPart' \in [Messages -> 0..Parts] /\ headed' \subseteq Messages
    BY <1>1, <1>2, <1>5 DEF StreamTypes
  <2> QED BY <1>1, <1>5, <1>6, <1>7, <2>1 DEF StreamTypes
<1>9. UpInv' /\ EventInv'
  BY <1>1, <1>6 DEF UpInv, EventInv
<1>10. /\ headerPart'[i] = hp
       /\ \A j \in Messages : j # i => headerPart'[j] = headerPart[j] /\ (j \in headed' <=> j \in headed)
       /\ cur.text \subseteq up[i].text
  BY <1>1, <1>5 DEF StreamTypes, ItemEvent
<1>11. HeaderInv'
  <2> SUFFICES ASSUME NEW j \in Messages
               PROVE  HeaderAt(j)' /\ (headerPart'[j] = 0 => up[j].text = {})
    BY <1>6 DEF HeaderInv
  <2>1. CASE j = i
    <3>1. HeaderAt(i)
      BY <1>1 DEF Relaying, HeaderInv
    <3>2. i \in headed' => hp # 0
      BY <1>2, <1>5, <1>10, <3>1 DEF HeaderAt
    <3>3. hp # 0 => i \in headed' \/ up[i].lead # "live"
      <4>1. CASE hp = headerPart[i]
        BY <1>5, <3>1, <4>1 DEF HeaderAt
      <4>2. CASE hp # headerPart[i]
        BY <1>1, <1>2, <1>5, <4>2 DEF ItemEvent
      <4> QED BY <4>1, <4>2
    <3>4. ASSUME hp # 0, up[i].part > 0
          PROVE  \/ <<i, hp>> \in view'.begun
                 \/ <<i, hp>> \notin view'.streamed /\ (hp < up[i].part \/ up[i].stage # "part")
      <4>1. hp \in 1..Parts /\ i \notin Reasoning
        BY <1>1, <1>2, <3>4, MarkerAssumption
      <4>2. <<i, hp>> \notin HeldPairs
        BY <1>1, <4>1, HeldShown
      <4>3. <<i, hp>> \in Pairs(cur) <=> hp \in cur.text
        BY <1>1
      <4>4. CASE cur.kind \in {"delta", "padd"} /\ hp \in cur.text
        BY <1>3, <1>7, <4>4
      <4>5. CASE hp = headerPart[i] /\ ~(cur.kind \in {"delta", "padd"} /\ hp \in cur.text)
        BY <1>7, <3>1, <3>4, <4>2, <4>3, <4>5 DEF HeaderAt
      <4>6. CASE hp # headerPart[i] /\ cur.kind \notin {"delta", "padd"}
        <5>1. cur.kind \in {"tdone", "pdone"} /\ up[i].stage # "part"
          BY <1>1, <1>2, <3>4, <4>6 DEF ItemEvent
        <5>2. <<i, hp>> \notin view.streamed
          BY <1>1, <1>2, <4>1, <4>6 DEF Relaying, HeaderShown
        <5> QED BY <1>7, <4>2, <4>6, <5>1, <5>2
      <4> QED BY <1>2, <4>4, <4>5, <4>6
    <3> QED BY <1>2, <1>6, <1>10, <2>1, <3>2, <3>3, <3>4 DEF HeaderAt
  <2>2. CASE j # i
    <3>1. HeaderAt(j) /\ (headerPart[j] = 0 => up[j].text = {})
      BY <2>2 DEF Relaying, HeaderInv, Coming, i
    <3>2. /\ view.begun \subseteq view'.begun
          /\ <<j, headerPart[j]>> \in view'.streamed /\ headerPart[j] # 0 => <<j, headerPart[j]>> \in view.streamed
      <4>1. <<j, headerPart[j]>> \notin Pairs(cur)
        BY <1>1, <2>2
      <4>2. j \notin Reasoning
        BY MarkerAssumption
      <4>3. <<j, headerPart[j]>> \notin HeldPairs
        BY <1>1, <4>2, HeldShown
      <4> QED BY <1>7, <4>1, <4>3
    <3> QED BY <1>6, <1>10, <2>2, <3>1, <3>2 DEF HeaderAt
  <2> QED BY <2>1, <2>2
<1>12. HeaderShown'
  <2> SUFFICES ASSUME NEW j \in Messages, NEW q \in 1..Parts
               PROVE  /\ up[j].lead # "mixed" =>
                            /\ <<j, q>> \in view'.begun \cup view'.marked => q = headerPart'[j]
                            /\ <<j, q>> \in view'.plain => headerPart'[j] # 0 /\ q # headerPart'[j]
                      /\ <<j, q>> \in view'.streamed => up[j].part > 0 /\ headerPart'[j] # 0
    BY <1>6 DEF HeaderShown
  <2>1. /\ up[j].lead # "mixed" =>
              /\ <<j, q>> \in view.begun \cup view.marked => q = headerPart[j] /\ headerPart[j] # 0
              /\ <<j, q>> \in view.plain => headerPart[j] # 0 /\ q # headerPart[j]
        /\ <<j, q>> \in view.streamed => up[j].part > 0 /\ headerPart[j] # 0
        /\ <<j, q>> \notin HeldPairs
    <3>1. q # 0 /\ j \notin Reasoning /\ j \in Items
      BY MarkerAssumption DEF Items
    <3>2. <<j, q>> \notin HeldPairs
      BY <1>1, <3>1, HeldShown
    <3> QED BY <3>1, <3>2 DEF Relaying, HeaderShown
  <2>2. CASE j # i
    <3>1. <<j, q>> \notin Pairs(cur) /\ <<j, q>> \notin m
      BY <1>1, <1>4, <2>2
    <3> QED BY <1>7, <1>10, <2>1, <2>2, <3>1
  <2>3. CASE j = i
    <3>1. up[i].lead # "mixed" /\ <<j, q>> \in m => q = hp
      BY <1>3, <2>3
    <3>2. headerPart[i] # 0 => headerPart[i] = hp
      BY <1>2
    <3>3. up[i].lead # "mixed" /\ <<j, q>> \in view'.begun \cup view'.marked => q = headerPart'[j]
      BY <1>7, <1>10, <2>1, <2>3, <3>1, <3>2
    <3>4. ASSUME up[i].lead # "mixed", <<j, q>> \in view'.plain
          PROVE  headerPart'[j] # 0 /\ q # headerPart'[j]
      <4>1. CASE <<j, q>> \in view.plain
        BY <1>10, <2>1, <2>3, <3>2, <3>4, <4>1
      <4>2. CASE cur.kind \notin {"delta", "padd"} /\ <<j, q>> \in Pairs(cur) \ m
        <5>1. q \in cur.text /\ cur.text \subseteq up[i].text
          BY <1>1, <2>3, <4>2 DEF ItemEvent
        <5> QED BY <1>2, <1>3, <1>10, <2>3, <4>2, <5>1
      <4> QED BY <1>7, <3>4, <4>1, <4>2
    <3>5. <<j, q>> \in view'.streamed => up[j].part > 0 /\ headerPart'[j] # 0
      <4>1. cur.kind \in {"delta", "padd"} => up[i].part > 0
        BY <1>1 DEF ItemEvent
      <4>2. <<j, q>> \in Pairs(cur) => hp # 0
        BY <1>1, <1>2, <1>10, <2>3
      <4> QED BY <1>7, <1>10, <2>1, <2>3, <3>2, <4>1, <4>2
    <3> QED BY <2>3, <3>3, <3>4, <3>5
  <2> QED BY <2>2, <2>3
<1>13. HeldInv' /\ HeldPairs' = {}
  BY <1>7 DEF HeldInv, HeldPairs
<1>14. TagShown'
  <2> SUFFICES ASSUME NEW j \in Reasoning, NEW q \in 1..Parts
               PROVE  /\ <<j, q>> \notin view'.plain
                      /\ <<j, q>> \in view'.streamed => <<j, q>> \in view'.begun \cup parted
                      /\ <<j, q>> \in view'.marked =>
                            q <= up[j].part /\ (q = up[j].part => up[j].stage # "part")
    BY <1>6, <1>13 DEF TagShown, Coming
  <2>1. <<j, q>> \notin Pairs(cur) /\ <<j, q>> \notin m
    BY <1>1, <1>4
  <2>2. <<j, q>> \in HeldPairs => <<j, q>> \in parted
    BY <1>1, HeldParted DEF Relaying, HeldInv, HeldPairs, i
  <2> QED BY <1>7, <2>1, <2>2 DEF Relaying, TagShown
<1>15. VerdictInv'
  BY <1>5, <1>6, <1>7 DEF Relaying, VerdictInv, Coming
<1> QED BY <1>8, <1>9, <1>11, <1>12, <1>13, <1>14, <1>15 DEF Relaying

(* An event that is not a message's leaves the headers where they are.     *)
LEMMA HeadersStay ==
    ASSUME StreamTypes, Relaying, BlockEnds, cur.item \notin Messages, UNCHANGED <<headed, headerPart>>,
           \A j \in Messages, q \in 1..Parts :
              /\ <<j, q>> \in view'.begun <=> <<j, q>> \in view.begun
              /\ <<j, q>> \in view'.streamed => <<j, q>> \in view.streamed
              /\ <<j, q>> \in view'.marked => <<j, q>> \in view.marked \/ q = headerPart[j]
              /\ <<j, q>> \in view'.plain =>
                    <<j, q>> \in view.plain \/ (headerPart[j] # 0 /\ q # headerPart[j])
    PROVE  UpInv' /\ EventInv' /\ HeaderInv' /\ HeaderShown'
<1>1. place' = "clean" /\ up' = up
  BY DEF BlockEnds, upstream
<1>2. UpInv' /\ EventInv'
  BY <1>1 DEF Relaying, UpInv, EventInv
<1>3. HeaderInv'
  <2> SUFFICES ASSUME NEW j \in Messages
               PROVE  HeaderAt(j)' /\ (headerPart[j] = 0 => up[j].text = {})
    BY <1>1 DEF HeaderInv
  <2>1. headerPart[j] # 0 => headerPart[j] \in 1..Parts
    BY MarkerAssumption DEF StreamTypes
  <2>2. HeaderAt(j) /\ (headerPart[j] = 0 => up[j].text = {})
    BY DEF Relaying, HeaderInv, Coming
  <2> QED BY <1>1, <2>1, <2>2 DEF HeaderAt
<1>4. HeaderShown'
  BY <1>1 DEF Relaying, HeaderShown
<1> QED BY <1>2, <1>3, <1>4

LEMMA SummaryKeeps ==
    ASSUME StreamTypes, Relaying, BlockEnds, cur.item \in Reasoning, SummaryBlock(cur)
    PROVE  StreamTypes' /\ Relaying'
<1> DEFINE i == cur.item
<1>1. /\ i \in Items /\ i \notin Messages /\ ItemEvent(cur, up[i]) /\ place = "line"
      /\ place # "clean"
      /\ cur.text \subseteq 1..Parts /\ Pairs(cur) = {<<i, p>> : p \in cur.text} /\ Pairs(cur) \subseteq Pieces
      /\ StreamTypes /\ UpInv /\ EventInv /\ HeldInv /\ cur.kind # "terminal"
  BY MarkerAssumption, PairsFacts DEF Relaying, EventInv, Items, BlockEnds
<1>2. /\ place' = "clean" /\ UNCHANGED <<up, pings, sent, parted, over>>
      /\ UNCHANGED <<headed, headerPart, responseId, terminal>>
  BY DEF BlockEnds, upstream, SummaryBlock, marker
<1>3. /\ HeldPairs \subseteq Reasoning \X (1..Parts) /\ HeldPairs \subseteq Pieces
      /\ up[i].part \in Nat /\ up[i].text \subseteq 1..up[i].part
  BY <1>1, HeldShown, UpFields DEF UpInv, UpOf
<1>4. SUFFICES /\ view' \in Views /\ view'.ids = view.ids /\ view'.ends = view.ends
               /\ view'.streamed = view.streamed \cup HeldPairs
               /\ view'.begun \in {view.begun, view.begun \cup HeldPairs}
               /\ view'.plain = view.plain
               /\ HeldInv'
               /\ HeldPairs \subseteq view'.begun \cup parted \cup HeldPairs'
               /\ \/ view'.marked = view.marked
                  \/ /\ view'.marked = view.marked \cup Pairs(cur) /\ up[i].stage # "part"
  <2>1. StreamTypes'
    BY <1>1, <1>2, <1>4 DEF StreamTypes
  <2>2. \A j \in Messages : \A q : <<j, q>> \notin HeldPairs /\ <<j, q>> \notin Pairs(cur)
    BY <1>1, <1>3, MarkerAssumption
  <2>3. UpInv' /\ EventInv' /\ HeaderInv' /\ HeaderShown'
    BY <1>1, <1>2, <1>4, <2>2, HeadersStay
  <2>4. TagShown'
    <3> SUFFICES ASSUME NEW j \in Reasoning, NEW q \in 1..Parts
                 PROVE  /\ <<j, q>> \notin view'.plain
                        /\ <<j, q>> \in view'.streamed => <<j, q>> \in view'.begun \cup parted \cup HeldPairs'
                        /\ <<j, q>> \in view'.marked =>
                              q <= up[j].part /\ (q = up[j].part => up[j].stage # "part")
      BY <1>2 DEF TagShown, Coming
    <3>1. /\ <<j, q>> \notin view.plain
          /\ <<j, q>> \in view.streamed => <<j, q>> \in view.begun \cup parted \cup HeldPairs
          /\ <<j, q>> \in view.marked => q <= up[j].part /\ (q = up[j].part => up[j].stage # "part")
      BY DEF Relaying, TagShown
    <3>2. <<j, q>> \in Pairs(cur) => j = i /\ q <= up[i].part
      BY <1>1, <1>3 DEF ItemEvent
    <3> QED BY <1>4, <3>1, <3>2
  <2>5. VerdictInv'
    BY <1>2, <1>4 DEF Relaying, VerdictInv, Coming
  <2> QED BY <1>4, <2>1, <2>3, <2>4, <2>5 DEF Relaying
<1>5. CASE cur.kind = "delta"
  <2>0. view' = AfterHeld(FALSE) /\ held' = <<cur>>
    BY <1>5 DEF SummaryBlock
  <2>1. view' = AfterHeld(FALSE) /\ held' = <<cur>> /\ held' # <<>> /\ held'[1] = cur
    BY <2>0
  <2>2. /\ view' \in Views /\ view'.ids = view.ids /\ view'.ends = view.ends
        /\ view'.streamed = view.streamed \cup HeldPairs
        /\ view'.begun = view.begun /\ view'.plain = view.plain /\ view'.marked = view.marked
    <3>1. FALSE \in BOOLEAN
      OBVIOUS
    <3> QED BY <1>1, <2>1, <3>1, HeldShown
  <2>3. cur.text = {cur.part} /\ cur.part = up[i].part /\ cur.part > 0 /\ up[i].stage = "part"
    BY <1>1, <1>5 DEF ItemEvent
  <2>4. HeldInv'
    BY <1>2, <1>5, <2>1, <2>3 DEF HeldInv
  <2>5. HeldPairs' = {<<i, up[i].part>>}
    BY <2>1, <2>3 DEF HeldPairs
  <2>6. HeldPairs \subseteq parted \cup HeldPairs'
    <3> SUFFICES ASSUME NEW x \in HeldPairs, x \notin parted PROVE x \in HeldPairs'
      OBVIOUS
    <3>1. held # <<>> /\ x = <<held[1].item, held[1].part>> /\ held[1].item = i
      BY <1>1, HeldParted DEF HeldPairs
    <3>2. held[1].part = up[i].part
      BY <1>1, <3>1 DEF HeldInv
    <3> QED BY <2>5, <3>1, <3>2
  <2> QED BY <2>2, <2>4, <2>6
<1>6. CASE cur.kind \in {"tdone", "pdone", "idone"}
  <2>1. PICK t \in BOOLEAN : /\ Emit(t, cur, Pairs(cur), Nothing)
                             /\ cur.kind = "tdone" => t = HeldOf(i, {cur.part})
    <3>1. HeldOf(i, {cur.part}) \in BOOLEAN /\ HeldOf(i, 1..Parts) \in BOOLEAN
      BY DEF HeldOf
    <3> QED BY <1>6, <3>1 DEF SummaryBlock
  <2>2. /\ view' \in Views /\ held' = <<>>
        /\ view'.ids = view.ids /\ view'.ends = view.ends
        /\ view'.streamed = view.streamed \cup HeldPairs
        /\ view'.begun = view.begun \cup (IF t THEN HeldPairs ELSE {})
        /\ view'.marked = view.marked \cup Pairs(cur)
        /\ view'.plain = view.plain \cup (Pairs(cur) \ Pairs(cur))
    BY <1>1, <1>6, <2>1, EmitPlain
  <2>3. view'.plain = view.plain /\ view'.begun \in {view.begun, view.begun \cup HeldPairs}
    BY <2>2
  <2>4. HeldInv' /\ HeldPairs' = {}
    BY <2>2 DEF HeldInv, HeldPairs
  <2>5. HeldPairs \subseteq view'.begun \cup parted
    <3> SUFFICES ASSUME NEW x \in HeldPairs, x \notin parted PROVE t
      BY <2>2
    <3>1. held # <<>> /\ held[1].item = i /\ cur.kind = "tdone"
      BY <1>1, <1>6, HeldParted DEF HeldPairs
    <3>2. held[1].part = cur.part
      BY <1>1, <3>1 DEF HeldInv, ItemEvent
    <3> QED BY <2>1, <3>1, <3>2 DEF HeldOf
  <2>6. up[i].stage # "part"
    BY <1>1, <1>6 DEF ItemEvent
  <2> QED BY <2>2, <2>3, <2>4, <2>5, <2>6
<1>7. CASE cur.kind \in {"add", "padd"}
  <2>1. Pairs(cur) = {} /\ Emit(FALSE, cur, {}, Nothing)
    BY <1>1, <1>7 DEF ItemEvent, SummaryBlock
  <2>2. FALSE \in BOOLEAN /\ {} \in SUBSET Pieces
    OBVIOUS
  <2>3. /\ view' \in Views /\ held' = <<>> /\ view'.ids = view.ids /\ view'.ends = view.ends
        /\ view'.streamed = view.streamed \cup HeldPairs
        /\ view'.begun = view.begun /\ view'.marked = view.marked /\ view'.plain = view.plain
    <3>1. CASE cur.kind = "padd"
      BY <1>1, <2>1, <2>2, <3>1, EmitPlain
    <3>2. CASE cur.kind = "add"
      BY <1>1, <2>1, <2>2, <3>2, EmitPlain
    <3> QED BY <1>7, <3>1, <3>2
  <2>4. HeldInv' /\ HeldPairs' = {}
    BY <2>3 DEF HeldInv, HeldPairs
  <2>5. HeldPairs \subseteq parted
    BY <1>1, <1>7, HeldParted
  <2> QED BY <2>3, <2>4, <2>5
<1> QED BY <1>1, <1>5, <1>6, <1>7 DEF ItemEvent

(* The marks m of an event of the response are those of the texts it has.  *)
MarksFit(m) ==
    /\ \A j \in Messages, q \in 1..Parts :
          /\ <<j, q>> \in m => q = headerPart[j]
          /\ <<j, q>> \in Pairs(cur) \ m => headerPart[j] # 0 /\ q # headerPart[j]
    /\ \A j \in Reasoning, q \in 1..Parts :
          /\ <<j, q>> \in m => q <= up[j].part /\ up[j].stage # "part"
          /\ <<j, q>> \notin Pairs(cur) \ m

(* An event of the response, or none: nothing that is held belongs to it.  *)
LEMMA ResponseKeeps ==
    ASSUME StreamTypes, Relaying, BlockEnds, cur.item = Nothing,
           NEW m \in SUBSET Pieces, NEW id \in {Nothing, "announced", "encoded"},
           Emit(FALSE, cur, m, id), UNCHANGED <<headed, headerPart>>,
           terminal' \in BOOLEAN, responseId' \in {Nothing, "announced"}, MarksFit(m)
    PROVE  /\ StreamTypes' /\ UpInv' /\ EventInv' /\ HeaderInv' /\ HeaderShown' /\ HeldInv' /\ TagShown'
           /\ view'.ids = view.ids \cup (IF id = Nothing THEN {} ELSE {id})
           /\ view'.ends = IF cur.kind = "terminal" THEN Append(view.ends, "terminal") ELSE view.ends
<1>1. /\ cur.item \notin Items /\ cur.item \notin Messages
      /\ cur.kind \in {"created", "terminal", "ping"}
      /\ place = "line" /\ place # "clean"
      /\ UpInv /\ EventInv /\ HeldInv
  BY MarkerAssumption DEF Relaying, EventInv, Items, BlockEnds
<1>2. place' = "clean" /\ UNCHANGED <<up, parted, over>>
  BY DEF BlockEnds, upstream
<1>3. HeldPairs \subseteq Reasoning \X (1..Parts) /\ HeldPairs \subseteq Pieces
  BY <1>1, HeldShown
<1>4. /\ view' \in Views /\ held' = <<>>
      /\ view'.streamed = view.streamed \cup HeldPairs /\ view'.begun = view.begun
      /\ view'.marked = view.marked \cup m /\ view'.plain = view.plain \cup (Pairs(cur) \ m)
      /\ view'.ids = view.ids \cup (IF id = Nothing THEN {} ELSE {id})
      /\ view'.ends = IF cur.kind = "terminal" THEN Append(view.ends, "terminal") ELSE view.ends
  <2> DEFINE t == FALSE
  <2>1. t \in BOOLEAN /\ ~t /\ cur.kind \notin {"delta", "padd"} /\ Emit(t, cur, m, id)
    BY <1>1
  <2> HIDE DEF t
  <2>2. /\ view' \in Views /\ held' = <<>>
        /\ view'.streamed = view.streamed \cup HeldPairs
        /\ view'.begun = view.begun \cup (IF t THEN HeldPairs ELSE {})
        /\ view'.marked = view.marked \cup m /\ view'.plain = view.plain \cup (Pairs(cur) \ m)
        /\ view'.ids = view.ids \cup (IF id = Nothing THEN {} ELSE {id})
        /\ view'.ends = IF cur.kind = "terminal" THEN Append(view.ends, "terminal") ELSE view.ends
    BY <1>1, <2>1, EmitFacts
  <2> QED BY <2>1, <2>2
<1>5. StreamTypes'
  BY <1>2, <1>4 DEF StreamTypes
<1>6. UpInv' /\ EventInv' /\ HeaderInv' /\ HeaderShown'
  <2>1. \A j \in Messages : \A q : <<j, q>> \notin HeldPairs
    BY <1>3, MarkerAssumption
  <2> QED BY <1>1, <1>4, <2>1, HeadersStay DEF MarksFit
<1>7. HeldInv' /\ HeldPairs' = {}
  BY <1>4 DEF HeldInv, HeldPairs
<1>8. HeldPairs \subseteq parted
  BY <1>1, HeldParted
<1>9. TagShown'
  <2> SUFFICES ASSUME NEW j \in Reasoning, NEW q \in 1..Parts
               PROVE  /\ <<j, q>> \notin view'.plain
                      /\ <<j, q>> \in view'.streamed => <<j, q>> \in view'.begun \cup parted
                      /\ <<j, q>> \in view'.marked =>
                            q <= up[j].part /\ (q = up[j].part => up[j].stage # "part")
    BY <1>2, <1>7 DEF TagShown, Coming
  <2>1. /\ <<j, q>> \notin view.plain
        /\ <<j, q>> \in view.streamed => <<j, q>> \in view.begun \cup parted \cup HeldPairs
        /\ <<j, q>> \in view.marked => q <= up[j].part /\ (q = up[j].part => up[j].stage # "part")
    BY DEF Relaying, TagShown
  <2> QED BY <1>4, <1>8, <2>1 DEF MarksFit
<1> QED BY <1>4, <1>5, <1>6, <1>7, <1>9

LEMMA OtherKeeps ==
    ASSUME StreamTypes, Relaying, BlockEnds,
           (cur.kind = "created" /\ CreatedBlock(cur)) \/ (cur.kind = "ping" /\ OtherBlock(cur))
    PROVE  StreamTypes' /\ Relaying'
<1>1. /\ cur.item = Nothing /\ Pairs(cur) = {} /\ place # "clean" /\ EventInv
      /\ sent' = sent /\ place' = "clean"
      /\ {} \in SUBSET Pieces /\ MarksFit({})
  <2>1. place # "clean" /\ EventInv /\ sent' = sent /\ place' = "clean"
    BY DEF Relaying, BlockEnds, upstream
  <2>2. cur.item = Nothing /\ Pairs(cur) = {}
    BY <2>1, PairsFacts DEF EventInv, ItemEvent
  <2>3. MarksFit({})
    BY <2>2 DEF MarksFit
  <2> QED BY <2>1, <2>2, <2>3
<1>2. CASE cur.kind = "created" /\ CreatedBlock(cur)
  <2>1. /\ Emit(FALSE, cur, {}, "announced") /\ responseId' = "announced"
        /\ UNCHANGED <<headed, headerPart, terminal>>
    BY <1>2 DEF CreatedBlock
  <2>2. terminal' \in BOOLEAN /\ responseId' \in {Nothing, "announced"} /\ Nothing # "announced"
    BY <2>1, MarkerAssumption DEF StreamTypes
  <2>3. responseId = Nothing /\ ~terminal /\ view.ids = {} /\ view.ends = <<>>
    BY <1>1, <1>2 DEF Relaying, VerdictInv, Coming
  <2>4. /\ StreamTypes' /\ UpInv' /\ EventInv' /\ HeaderInv' /\ HeaderShown' /\ HeldInv'
        /\ TagShown'
        /\ view'.ids = view.ids \cup (IF "announced" = Nothing THEN {} ELSE {"announced"})
        /\ view'.ends = IF cur.kind = "terminal" THEN Append(view.ends, "terminal") ELSE view.ends
    BY <1>1, <2>1, <2>2, ResponseKeeps
  <2>5. view'.ids = {"announced"} /\ view'.ends = <<>> /\ ~terminal'
    BY <1>2, <2>1, <2>2, <2>3, <2>4
  <2>6. sent # {}
    BY <1>1, <1>2 DEF Relaying, VerdictInv, Coming
  <2>7. VerdictInv'
    BY <1>1, <2>1, <2>2, <2>5, <2>6 DEF VerdictInv, Coming
  <2> QED BY <2>4, <2>7 DEF Relaying
<1>3. CASE cur.kind = "ping" /\ OtherBlock(cur)
  <2>1. Emit(FALSE, cur, {}, Nothing) /\ UNCHANGED <<headed, headerPart, responseId, terminal>>
    BY <1>3 DEF OtherBlock, marker
  <2>2. /\ terminal' \in BOOLEAN /\ responseId' \in {Nothing, "announced"}
        /\ Nothing \in {Nothing, "announced", "encoded"}
    BY <2>1 DEF StreamTypes
  <2>3. /\ StreamTypes' /\ UpInv' /\ EventInv' /\ HeaderInv' /\ HeaderShown' /\ HeldInv'
        /\ TagShown'
        /\ view'.ids = view.ids \cup (IF Nothing = Nothing THEN {} ELSE {Nothing})
        /\ view'.ends = IF cur.kind = "terminal" THEN Append(view.ends, "terminal") ELSE view.ends
    BY <1>1, <2>1, <2>2, ResponseKeeps
  <2>4. view'.ids = view.ids /\ view'.ends = view.ends
    BY <1>3, <2>3
  <2>5. VerdictInv'
    BY <1>1, <2>1, <2>4 DEF Relaying, VerdictInv, Coming
  <2> QED BY <2>3, <2>5 DEF Relaying
<1> QED BY <1>2, <1>3

(* The marks that the terminal event is given.                             *)
TerminalMarks(e) == (UNION {Sign(i, up[i].text) : i \in e.text \cap Messages})
                    \cup {x \in Pairs(e) : x[1] \in Reasoning}

LEMMA TerminalMarked ==
    ASSUME NEW x
    PROVE  x \in TerminalMarks(cur) <=>
              \/ \E j \in cur.text \cap Messages : x \in Sign(j, up[j].text)
              \/ x \in Pairs(cur) /\ x[1] \in Reasoning
<1> DEFINE A == UNION {Sign(i, up[i].text) : i \in cur.text \cap Messages}
           B == {y \in Pairs(cur) : y[1] \in Reasoning}
<1>1. x \in A <=> \E j \in cur.text \cap Messages : x \in Sign(j, up[j].text)
  OBVIOUS
<1>2. x \in B <=> x \in Pairs(cur) /\ x[1] \in Reasoning
  OBVIOUS
<1>3. x \in TerminalMarks(cur) <=> x \in A \/ x \in B
  BY DEF TerminalMarks
<1> QED BY <1>1, <1>2, <1>3

LEMMA TerminalKeeps ==
    ASSUME StreamTypes, Relaying, BlockEnds, cur.kind = "terminal", TerminalBlock(cur)
    PROVE  StreamTypes' /\ Relaying'
<1> DEFINE m == TerminalMarks(cur)
           id == IF responseId = Nothing THEN "encoded" ELSE responseId
<1>1. /\ cur.item = Nothing /\ place # "clean" /\ EventInv /\ sent' = sent /\ place' = "clean"
      /\ cur.text \subseteq {i \in Items : up[i].stage = "done"}
  <2>1. place # "clean" /\ EventInv /\ sent' = sent /\ place' = "clean"
    BY DEF Relaying, BlockEnds, upstream
  <2> QED BY <2>1 DEF EventInv, ItemEvent
<1>2. /\ Pairs(cur) \subseteq Pieces /\ cur.text \subseteq Items
      /\ \A i \in Items : \A q : <<i, q>> \in Pairs(cur) <=> i \in cur.text /\ q \in up[i].text
  BY <1>1, PairsFacts
<1>3. /\ Emit(FALSE, cur, m, id) /\ terminal' = TRUE /\ UNCHANGED <<headed, responseId>>
      /\ headerPart' = [i \in Messages |-> IF i \in cur.text \cap Messages THEN Default(i, up[i].text)
                                                                           ELSE headerPart[i]]
  BY DEF TerminalBlock, TerminalMarks
<1>4. ASSUME NEW i \in Messages
      PROVE  /\ up[i].text = {} => Sign(i, up[i].text) = {}
             /\ up[i].text # {} => headerPart[i] # 0 /\ Sign(i, up[i].text) = {<<i, headerPart[i]>>}
             /\ Default(i, up[i].text) = headerPart[i]
             /\ headerPart[i] # 0 => headerPart[i] \in 1..Parts
  <2>1. i # Nothing /\ i \in Items
    BY MarkerAssumption DEF Items
  <2>2. /\ headerPart[i] = 0 => up[i].text = {}
        /\ headerPart[i] # 0 => headerPart[i] \in up[i].text /\ \A q \in up[i].text : headerPart[i] <= q
    BY <1>1, <2>1 DEF Relaying, HeaderInv, HeaderAt, Coming
  <2>3. headerPart[i] # 0 => headerPart[i] = Min(up[i].text)
    <3>1. up[i].text \in SUBSET (1..Parts)
      BY <2>1, UpFields
    <3> QED BY <2>2, <3>1, MinFacts
  <2>4. headerPart[i] # 0 => headerPart[i] \in 1..Parts
    BY MarkerAssumption DEF StreamTypes
  <2> QED BY <2>2, <2>3, <2>4 DEF Sign, Default
<1>5. headerPart' = headerPart
  BY <1>3, <1>4 DEF StreamTypes
<1>6. \A i \in Items : \A q : <<i, q>> \in m <=>
         \/ i \in Messages /\ i \in cur.text /\ <<i, q>> \in Sign(i, up[i].text)
         \/ i \in Reasoning /\ <<i, q>> \in Pairs(cur)
  <2> SUFFICES ASSUME NEW i \in Items, NEW q
               PROVE  <<i, q>> \in m <=>
                         \/ i \in Messages /\ i \in cur.text /\ <<i, q>> \in Sign(i, up[i].text)
                         \/ i \in Reasoning /\ <<i, q>> \in Pairs(cur)
    OBVIOUS
  <2>1. \A j \in Messages : <<i, q>> \in Sign(j, up[j].text) => i = j
    BY <1>4
  <2>2. <<i, q>> \in m <=>
           \/ \E j \in cur.text \cap Messages : <<i, q>> \in Sign(j, up[j].text)
           \/ <<i, q>> \in Pairs(cur) /\ i \in Reasoning
    BY TerminalMarked
  <2> QED BY <2>1, <2>2
<1>7. m \in SUBSET Pieces
  <2> SUFFICES ASSUME NEW x \in m PROVE x \in Pieces
    OBVIOUS
  <2>1. CASE x \in Pairs(cur)
    BY <1>2, <2>1
  <2>2. CASE \E i \in cur.text \cap Messages : x \in Sign(i, up[i].text)
    <3>1. PICK i \in cur.text \cap Messages : x \in Sign(i, up[i].text)
      BY <2>2
    <3>2. x = <<i, headerPart[i]>> /\ headerPart[i] \in 1..Parts /\ i \in Items
      BY <1>4, <3>1 DEF Items
    <3> QED BY <3>2 DEF Pieces
  <2>3. x \in Pairs(cur) \/ \E i \in cur.text \cap Messages : x \in Sign(i, up[i].text)
    BY TerminalMarked
  <2> QED BY <2>1, <2>2, <2>3
<1> HIDE DEF m
<1>8. ASSUME NEW j \in Messages, NEW q \in 1..Parts
      PROVE  /\ <<j, q>> \in m => q = headerPart[j]
             /\ <<j, q>> \in Pairs(cur) \ m => headerPart[j] # 0 /\ q # headerPart[j]
  <2>1. j \in Items /\ j \notin Reasoning
    BY MarkerAssumption DEF Items
  <2>2. <<j, q>> \in m <=> j \in cur.text /\ <<j, q>> \in Sign(j, up[j].text)
    BY <1>6, <2>1
  <2>3. <<j, q>> \in Pairs(cur) <=> j \in cur.text /\ q \in up[j].text
    BY <1>2, <2>1
  <2> QED BY <1>4, <2>2, <2>3
<1>9. ASSUME NEW j \in Reasoning, NEW q \in 1..Parts
      PROVE  /\ <<j, q>> \in m => q <= up[j].part /\ up[j].stage # "part"
             /\ <<j, q>> \notin Pairs(cur) \ m
  <2>1. j \in Items /\ j \notin Messages /\ up[j].part \in Nat /\ up[j].text \subseteq 1..up[j].part
    BY MarkerAssumption, UpFields DEF Items, Relaying, UpInv, UpOf
  <2>2. <<j, q>> \in m <=> <<j, q>> \in Pairs(cur)
    BY <1>6, <2>1
  <2>3. <<j, q>> \in Pairs(cur) => j \in cur.text /\ q \in up[j].text
    BY <1>2, <2>1
  <2> QED BY <1>1, <2>1, <2>2, <2>3
<1>10. id \in {Nothing, "announced", "encoded"} /\ id # Nothing /\ terminal' \in BOOLEAN
       /\ responseId' \in {Nothing, "announced"}
  BY <1>3, MarkerAssumption DEF StreamTypes
<1> HIDE DEF id
<1>11. /\ StreamTypes' /\ UpInv' /\ EventInv' /\ HeaderInv' /\ HeaderShown' /\ HeldInv' /\ TagShown'
       /\ view'.ids = view.ids \cup (IF id = Nothing THEN {} ELSE {id})
       /\ view'.ends = IF cur.kind = "terminal" THEN Append(view.ends, "terminal") ELSE view.ends
  <2>1. MarksFit(m)
    BY <1>8, <1>9 DEF MarksFit
  <2>2. Emit(FALSE, cur, m, id) /\ UNCHANGED <<headed, headerPart>>
    BY <1>3, <1>5
  <2> QED BY <1>1, <1>7, <1>10, <2>1, <2>2, ResponseKeeps
<1>12. VerdictInv'
  <2>1. ~terminal /\ "terminal" \in sent
    BY <1>1 DEF Relaying, VerdictInv, Coming
  <2>2. view.ends = <<>> /\ view.ids = IF responseId # Nothing THEN {"announced"} ELSE {}
    BY <2>1 DEF Relaying, VerdictInv
  <2>3. Append(<<>>, "terminal") = <<"terminal">>
    OBVIOUS
  <2>4. view'.ends = <<"terminal">>
    BY <1>11, <2>2, <2>3
  <2>5. view'.ids = IF responseId # Nothing THEN {"announced"} ELSE {"encoded"}
    BY <1>10, <1>11, <2>2 DEF id, StreamTypes
  <2> QED BY <1>1, <1>3, <2>1, <2>4, <2>5 DEF VerdictInv, Coming
<1> QED BY <1>11, <1>12 DEF Relaying

(* The upstream's event e takes the item i from up[i] to u: what is new of *)
(* the texts comes after what was there, and is in the event.              *)
Onward(i, e, u) ==
    /\ u \in Ups /\ UpOf(i, u) /\ e.item = i /\ ItemEvent(e, u)
    /\ up[i].part <= u.part /\ up[i].text \subseteq u.text
    /\ u.text # up[i].text => e.kind # "idone"
    /\ up[i].text = {} /\ u.text # {} /\ e.kind \in {"tdone", "pdone"} => u.lead = "done"
    /\ up[i].lead # "live" => u.lead # "live"
    /\ up[i].lead = "mixed" => u.lead = "mixed"
    /\ \A q \in u.text : q \in up[i].text \/ (q \in e.text /\ \A r \in up[i].text : r <= q)
    /\ u.part > 0 => up[i].part > 0 \/ up[i].text = {}
    /\ up[i].stage = "part" => u.part = up[i].part /\ (e.kind = "delta" \/ e.kind = "tdone")
                               /\ (u.stage = "part" \/ e.kind = "tdone")
    /\ u.part = up[i].part /\ (u.stage = "part" \/ e.kind = "tdone") => up[i].stage = "part"

(* Between two blocks the texts of a message are those its header is of.   *)
LEMMA Between ==
    ASSUME StreamTypes, Relaying, place = "clean", NEW j \in Messages
    PROVE  HeaderAt(j) /\ (headerPart[j] = 0 => up[j].text = {}) /\ j \in Items /\ headerPart[j] \in Nat
BY MarkerAssumption DEF Relaying, HeaderInv, Coming, Items, StreamTypes

(* Any block that arrives while a delta is held parts it from its end, but *)
(* for one of the same item.                                               *)
LEMMA ArriveHeld ==
    ASSUME StreamTypes, Relaying, NEW e, Arrive(e), parted \subseteq Pieces
    PROVE  /\ place = "clean" /\ over = "relay" /\ cur' = e /\ place' = "half"
           /\ UNCHANGED <<held, headed, headerPart, responseId, terminal, over, view>>
           /\ parted' \subseteq Pieces /\ parted \subseteq parted'
           /\ HeldPairs' = HeldPairs
           /\ held # <<>> /\ held[1].item # e.item => <<held[1].item, held[1].part>> \in parted'
<1>1. /\ place = "clean" /\ over = "relay" /\ cur' = e /\ place' = "half"
      /\ UNCHANGED <<held, headed, headerPart, responseId, terminal, over, view>>
      /\ parted' = parted \cup (IF held # <<>> /\ held[1].item # e.item THEN Pairs(held[1]) ELSE {})
  BY DEF Arrive, marker
<1>2. held # <<>> => Pairs(held[1]) = HeldPairs /\ HeldPairs = {<<held[1].item, held[1].part>>}
  <2>1. held # <<>> => held[1].kind = "delta" /\ held[1].text = {held[1].part}
    BY DEF Relaying, HeldInv
  <2> QED BY <2>1 DEF Pairs, HeldPairs
<1>3. HeldPairs \subseteq Pieces /\ HeldPairs' = HeldPairs
  <2>1. HeldPairs \subseteq Pieces
    <3>1. TRUE \in BOOLEAN
      OBVIOUS
    <3> QED BY <3>1, HeldShown DEF Relaying
  <2>2. HeldPairs' = HeldPairs
    BY <1>1 DEF HeldPairs
  <2> QED BY <2>1, <2>2
<1> QED BY <1>1, <1>2, <1>3

LEMMA ItemKeeps ==
    ASSUME StreamTypes, Relaying, NEW i \in Items, NEW e, NEW u, Item(i, e, u), Onward(i, e, u)
    PROVE  StreamTypes' /\ Relaying' /\ over' = "relay"
<1>1. /\ place = "clean" /\ over = "relay" /\ cur' = e /\ place' = "half" /\ place' # "clean"
      /\ UNCHANGED <<held, headed, headerPart, responseId, terminal, over, view, sent>>
      /\ parted' \subseteq Pieces /\ parted \subseteq parted' /\ HeldPairs' = HeldPairs
      /\ held # <<>> /\ held[1].item # i => <<held[1].item, held[1].part>> \in parted'
  BY ArriveHeld DEF Item, StreamTypes, Onward
<1>2. /\ up' = [up EXCEPT ![i] = u] /\ up'[i] = u /\ up' \in [Items -> Ups]
      /\ \A j \in Items : j # i => up'[j] = up[j]
  BY DEF Item, Onward, StreamTypes
<1>3. StreamTypes'
  BY <1>1, <1>2 DEF StreamTypes
<1>4. UpInv'
  BY <1>2 DEF UpInv, Relaying, Onward
<1>5. EventInv'
  BY <1>1, <1>2 DEF EventInv, Onward
<1>6. up[i].part \in Nat /\ u.part \in Nat /\ up[i].text \subseteq Nat /\ u.text \subseteq Nat
  <2>1. u.part \in Nat /\ u.text \subseteq Nat
    BY MarkerAssumption DEF Onward, Ups
  <2> QED BY <2>1, UpFields
<1>7. HeaderInv'
  <2> SUFFICES ASSUME NEW j \in Messages
               PROVE  /\ HeaderAt(j)'
                      /\ headerPart[j] = 0 /\ up'[j].text # {} =>
                            /\ e.item = j /\ e.kind \in {"add", "padd", "delta", "tdone", "pdone"}
                            /\ up'[j].text = e.text
                            /\ e.kind \in {"tdone", "pdone"} => up'[j].lead = "done"
    BY <1>1 DEF HeaderInv, Coming
  <2>1. HeaderAt(j) /\ (headerPart[j] = 0 => up[j].text = {}) /\ j \in Items /\ headerPart[j] \in Nat
    BY <1>1, Between
  <2>2. CASE j # i
    BY <1>1, <1>2, <2>1, <2>2 DEF HeaderAt
  <2>3. CASE j = i
    <3>1. headerPart[i] # 0 => headerPart[i] \in u.text /\ \A q \in u.text : headerPart[i] <= q
      BY <2>1, <2>3 DEF Onward, HeaderAt
    <3>2. headerPart[i] = 0 /\ u.text # {} =>
             /\ e.item = i /\ e.kind \in {"add", "padd", "delta", "tdone", "pdone"} /\ u.text = e.text
             /\ e.kind \in {"tdone", "pdone"} => u.lead = "done"
      BY <2>1, <2>3 DEF Onward, ItemEvent
    <3>3. ASSUME headerPart[i] # 0, u.part > 0, <<i, headerPart[i]>> \notin view.begun
          PROVE  <<i, headerPart[i]>> \notin view.streamed /\ (headerPart[i] < u.part \/ u.stage # "part")
      <4>1. /\ headerPart[i] \in up[i].text /\ up[i].part > 0
            /\ <<i, headerPart[i]>> \notin view.streamed
            /\ headerPart[i] < up[i].part \/ up[i].stage # "part"
        BY <2>1, <2>3, <3>3 DEF Onward, HeaderAt
      <4>2. headerPart[i] \in Nat /\ headerPart[i] <= up[i].part /\ up[i].part <= u.part
        BY <1>6, <4>1 DEF Relaying, UpInv, UpOf, Onward
      <4>3. CASE u.part = up[i].part
        BY <4>1, <4>3 DEF Onward
      <4>4. CASE u.part # up[i].part
        BY <1>6, <4>1, <4>2, <4>4
      <4> QED BY <4>3, <4>4
    <3>4. headerPart[i] # 0 => i \in headed \/ u.lead # "live"
      BY <2>1, <2>3 DEF Onward, HeaderAt
    <3> QED BY <1>1, <1>2, <2>1, <2>3, <3>1, <3>2, <3>3, <3>4 DEF HeaderAt
  <2> QED BY <2>2, <2>3
<1>8. HeaderShown'
  <2>1. \A j \in Messages : /\ j \in Items /\ (up[j].part > 0 => up'[j].part > 0)
                            /\ up[j].lead = "mixed" => up'[j].lead = "mixed"
    BY <1>2, <1>6 DEF Items, Onward
  <2> QED BY <1>1, <2>1 DEF Relaying, HeaderShown
<1>9. HeldInv'
  <2>1. CASE held = <<>>
    BY <1>1, <2>1 DEF HeldInv
  <2>2. CASE held # <<>>
    <3> DEFINE j == held[1].item
               p == held[1].part
    <3>1. /\ held = <<held[1]>> /\ j \in Reasoning /\ j \in Items /\ held[1].kind = "delta"
          /\ held[1].text = {p}
          /\ p = up[j].part /\ p > 0 /\ up[j].stage = "part"
      BY <1>1, <2>2 DEF Relaying, HeldInv, Coming, Items
    <3>2. CASE j = i
      <4>1. /\ u.part = p /\ (u.stage = "part" \/ e.kind = "tdone")
            /\ e.kind \in {"delta", "tdone"} /\ e.item = i
        BY <3>1, <3>2 DEF Onward
      <4>2. /\ Coming(j, {"delta", "tdone"})' /\ p = up'[j].part
            /\ up'[j].stage = "part" \/ Coming(j, {"tdone"})'
        BY <1>1, <1>2, <3>2, <4>1 DEF Coming
      <4> QED BY <1>1, <3>1, <4>2 DEF HeldInv
    <3>3. CASE j # i
      BY <1>1, <1>2, <3>1, <3>3 DEF HeldInv
    <3> QED BY <3>2, <3>3
  <2> QED BY <2>1, <2>2
<1>10. TagShown'
  <2> SUFFICES ASSUME NEW j \in Reasoning, NEW q \in 1..Parts
               PROVE  /\ <<j, q>> \notin view.plain
                      /\ <<j, q>> \in view.streamed => <<j, q>> \in view.begun \cup parted' \cup HeldPairs
                      /\ <<j, q>> \in view.marked =>
                            /\ q <= up'[j].part
                            /\ q = up'[j].part => up'[j].stage # "part" /\ ~Coming(j, {"tdone"})'
    BY <1>1 DEF TagShown
  <2>1. /\ <<j, q>> \notin view.plain /\ j \in Items
        /\ <<j, q>> \in view.streamed => <<j, q>> \in view.begun \cup parted \cup HeldPairs
        /\ <<j, q>> \in view.marked => q <= up[j].part /\ (q = up[j].part => up[j].stage # "part")
    BY DEF Relaying, TagShown, Items
  <2>2. CASE j # i
    <3>1. ~Coming(j, {"tdone"})'
      BY <1>1, <2>2 DEF Coming, Onward
    <3> QED BY <1>1, <1>2, <2>1, <2>2, <3>1
  <2>3. CASE j = i
    <3>1. ASSUME <<j, q>> \in view.marked
          PROVE  q <= u.part /\ (q = u.part => u.stage # "part" /\ e.kind # "tdone")
      <4>1. q \in Nat /\ q <= up[i].part /\ up[i].part <= u.part /\ (q = up[i].part => up[i].stage # "part")
        BY <2>1, <2>3, <3>1, MarkerAssumption DEF Onward
      <4>2. q = u.part => u.part = up[i].part
        BY <1>6, <4>1
      <4>3. q <= u.part
        BY <1>6, <4>1
      <4> QED BY <4>1, <4>2, <4>3 DEF Onward
    <3>2. <<j, q>> \in view.marked => ~Coming(j, {"tdone"})' \/ q # u.part
      BY <1>1, <2>3, <3>1 DEF Coming
    <3> QED BY <1>1, <1>2, <2>1, <2>3, <3>1, <3>2
  <2> QED BY <2>2, <2>3
<1>11. VerdictInv'
  <2>1. e.item # Nothing
    BY MarkerAssumption DEF Onward
  <2> QED BY <1>1, <2>1 DEF Relaying, VerdictInv, Coming
<1> QED BY <1>1, <1>3, <1>4, <1>5, <1>7, <1>8, <1>9, <1>10, <1>11 DEF Relaying

(* An event that is no item's.                                             *)
LEMMA ResponseComes ==
    ASSUME StreamTypes, Relaying, NEW e, Arrive(e), UNCHANGED up, e.item = Nothing,
           e.kind \in {"created", "terminal", "ping"}, e.kind # "terminal" => e.text = {},
           e.kind = "terminal" => e.text \subseteq {i \in Items : up[i].stage = "done"},
           sent \subseteq sent',
           e.kind = "created" => sent = {} /\ sent' # {},
           e.kind = "terminal" => "terminal" \notin sent /\ "terminal" \in sent'
    PROVE  StreamTypes' /\ Relaying' /\ over' = "relay"
<1>1. /\ place = "clean" /\ over = "relay" /\ cur' = e /\ place' = "half" /\ place' # "clean"
      /\ UNCHANGED <<held, headed, headerPart, responseId, terminal, over, view, up>>
      /\ parted' \subseteq Pieces /\ parted \subseteq parted' /\ HeldPairs' = HeldPairs
      /\ held # <<>> /\ held[1].item # Nothing => <<held[1].item, held[1].part>> \in parted'
  BY ArriveHeld DEF StreamTypes
<1>2. \A i \in Items : \A K : ~Coming(i, K)'
  BY <1>1, MarkerAssumption DEF Coming
<1>3. StreamTypes' /\ UpInv' /\ EventInv'
  BY <1>1 DEF StreamTypes, Relaying, UpInv, EventInv
<1>4. HeaderInv' /\ HeaderShown'
  <2>1. HeaderInv'
    BY <1>1, Between DEF HeaderInv, HeaderAt
  <2> QED BY <1>1, <2>1 DEF Relaying, HeaderShown
<1>5. HeldInv'
  <2>1. held # <<>> => held[1].item # Nothing /\ up[held[1].item].stage = "part"
    BY <1>1, MarkerAssumption DEF Relaying, HeldInv, Coming, Items
  <2> QED BY <1>1, <2>1 DEF Relaying, HeldInv
<1>6. TagShown'
  <2>1. \A i \in Reasoning : ~Coming(i, {"tdone"})'
    BY <1>2 DEF Items
  <2> QED BY <1>1, <2>1 DEF Relaying, TagShown
<1>7. VerdictInv'
  <2>1. sent = {} => responseId = Nothing /\ ~terminal
    BY DEF Relaying, VerdictInv
  <2>2. "terminal" \notin sent => ~terminal
    BY DEF Relaying, VerdictInv
  <2> QED BY <1>1, <2>1, <2>2 DEF Relaying, VerdictInv, Coming
<1> QED BY <1>1, <1>3, <1>4, <1>5, <1>6, <1>7 DEF Relaying

(* The actions of the upstream.                                            *)
LEMMA AddedOnward ==
    ASSUME StreamTypes, Relaying, NEW i \in Items, Added(i)
    PROVE  StreamTypes' /\ Relaying' /\ over' = "relay"
<1>1. PICK text \in {{}} \cup (IF i \in Messages THEN SUBSET (1..Parts) ELSE {}) :
         Item(i, Event("add", i, 0, text),
              [up[i] EXCEPT !.stage = IF text = {} THEN "open" ELSE "whole", !.text = text])
  BY DEF Added
<1> DEFINE e == Event("add", i, 0, text)
           st == IF text = {} THEN "open" ELSE "whole"
           u == [up[i] EXCEPT !.stage = st, !.text = text]
<1>2. /\ text \subseteq 1..Parts /\ st \in {"open", "whole"} /\ (text = {} <=> st = "open")
      /\ i \in Reasoning => text = {}
  BY MarkerAssumption
<1>3. e.item = i /\ e.kind = "add" /\ e.text = text
  BY DEF Event
<1>4. /\ up[i] \in Ups /\ up[i].part = 0 /\ up[i].text = {} /\ up[i].stage = "new"
      /\ up[i].lead = "live"
      /\ i \in Messages \/ i \in Reasoning
  BY UpFields DEF Added, Relaying, UpInv, UpOf, Items
<1> HIDE DEF e, st
<1>5. u \in Ups /\ u.part = 0 /\ u.text = text /\ u.stage = st /\ u.lead = up[i].lead
  BY <1>2, <1>4 DEF Ups
<1>6. Item(i, e, u)
  BY <1>1 DEF e, st
<1> HIDE DEF u
<1>7. UpOf(i, u) /\ ItemEvent(e, u)
  BY <1>2, <1>3, <1>4, <1>5 DEF UpOf, ItemEvent
<1>8. Onward(i, e, u)
  BY <1>2, <1>3, <1>4, <1>5, <1>7 DEF Onward
<1> QED BY <1>6, <1>8, ItemKeeps

LEMMA PartAddedOnward ==
    ASSUME StreamTypes, Relaying, NEW i \in Items, PartAdded(i)
    PROVE  StreamTypes' /\ Relaying' /\ over' = "relay"
<1> DEFINE p == up[i].part + 1
<1>1. PICK text \in {{}} \cup (IF i \in Messages THEN {{p}} ELSE {}) :
         Item(i, Event("padd", i, p, text),
              [up[i] EXCEPT !.stage = "part", !.part = p, !.text = @ \cup text, !.deltas = 0])
  BY DEF PartAdded
<1> DEFINE e == Event("padd", i, p, text)
           tx == up[i].text \cup text
           u == [up[i] EXCEPT !.stage = "part", !.part = p, !.text = tx, !.deltas = 0]
<1>2. /\ up[i] \in Ups /\ up[i].part \in Nat /\ up[i].stage = "open" /\ p \in 0..Parts
      /\ p > 0 /\ p \in Nat
      /\ p > up[i].part /\ up[i].text \subseteq 1..Parts /\ UpOf(i, up[i])
      /\ i \in Messages \/ i \in Reasoning
  BY UpFields, MarkerAssumption DEF PartAdded, Relaying, UpInv, Items
<1>3. text \in {{}, {p}} /\ (i \in Reasoning => text = {})
  BY MarkerAssumption
<1>4. e.item = i /\ e.kind = "padd" /\ e.part = p /\ e.text = text
  BY DEF Event
<1>5. Item(i, e, u)
  BY <1>1
<1> HIDE DEF e, p
<1>6. up[i].text \subseteq 1..up[i].part
  <2>1. CASE up[i].part = 0
    BY <1>2, <2>1 DEF UpOf
  <2>2. CASE up[i].part > 0
    BY <1>2, <2>2 DEF UpOf
  <2> QED BY <1>2, <2>1, <2>2
<1>7. tx \subseteq 1..p /\ tx \subseteq 1..Parts /\ text \subseteq tx /\ up[i].text \subseteq tx
  BY <1>2, <1>3, <1>6
<1>8. \A q \in tx : q \in up[i].text \/ (q \in text /\ \A r \in up[i].text : r <= q)
  BY <1>2, <1>3, <1>6
<1>9. tx # up[i].text => text # {}
  OBVIOUS
<1> HIDE DEF tx
<1>10. u \in Ups /\ u.part = p /\ u.text = tx /\ u.stage = "part" /\ u.lead = up[i].lead
  BY <1>2, <1>7 DEF Ups
<1> HIDE DEF u
<1>11. UpOf(i, u) /\ ItemEvent(e, u)
  BY <1>2, <1>3, <1>4, <1>7, <1>10 DEF UpOf, ItemEvent
<1>12. u.part > 0 => up[i].part > 0 \/ up[i].text = {}
  BY <1>2 DEF UpOf
<1>13. Onward(i, e, u)
  <2>1. up[i].part <= u.part /\ up[i].text \subseteq u.text
    BY <1>2, <1>7, <1>10
  <2>2. \A q \in u.text : q \in up[i].text \/ (q \in e.text /\ \A r \in up[i].text : r <= q)
    BY <1>4, <1>8, <1>10
  <2>3. u.part # up[i].part
    BY <1>2, <1>10
  <2> QED BY <1>2, <1>4, <1>10, <1>11, <1>12, <2>1, <2>2, <2>3 DEF Onward
<1> QED BY <1>5, <1>13, ItemKeeps

LEMMA DeltaOnward ==
    ASSUME StreamTypes, Relaying, NEW i \in Items, Delta(i)
    PROVE  StreamTypes' /\ Relaying' /\ over' = "relay"
<1> DEFINE p == up[i].part
<1>1. PICK text \in Texts(i, p) :
         Item(i, Event("delta", i, p, text),
              [up[i] EXCEPT !.text = @ \cup text, !.deltas = @ + 1,
                            !.lead = IF @ = "done" /\ text # {} THEN "mixed" ELSE @])
  BY DEF Delta
<1> DEFINE e == Event("delta", i, p, text)
           tx == up[i].text \cup text
           d == up[i].deltas + 1
           ld == IF up[i].lead = "done" /\ text # {} THEN "mixed" ELSE up[i].lead
           u == [up[i] EXCEPT !.text = tx, !.deltas = d, !.lead = ld]
<1>2. /\ up[i] \in Ups /\ p \in Nat /\ p \in 1..Parts /\ p > 0 /\ up[i].stage = "part"
      /\ up[i].text \subseteq 1..Parts /\ up[i].text \subseteq 1..p /\ d \in Nat
      /\ i \in Messages \/ i \in Reasoning
  BY UpFields, MarkerAssumption DEF Delta, Relaying, UpInv, UpOf, Items, Ups
<1>3. text \in {{}, {p}} /\ (i \in Reasoning => text = {p})
  BY MarkerAssumption DEF Texts
<1>4. e.item = i /\ e.kind = "delta" /\ e.part = p /\ e.text = text
  BY DEF Event
<1>5. Item(i, e, u)
  BY <1>1
<1>6. tx \subseteq 1..p /\ tx \subseteq 1..Parts /\ text \subseteq tx /\ up[i].text \subseteq tx
  BY <1>2, <1>3
<1>7. \A q \in tx : q \in up[i].text \/ (q \in text /\ \A r \in up[i].text : r <= q)
  BY <1>2, <1>3
<1>8. /\ ld \in {"live", "done", "mixed"} /\ (text # {} => ld # "done")
      /\ (up[i].lead # "live" => ld # "live") /\ (up[i].lead = "mixed" => ld = "mixed")
      /\ tx = {} => ld = "live"
  <2>1. up[i].text = {} => up[i].lead = "live"
    BY DEF Relaying, UpInv, UpOf
  <2> QED BY <1>2, <2>1 DEF Ups
<1> HIDE DEF e, tx, d, ld
<1>9. /\ u \in Ups /\ u.part = p /\ u.text = tx /\ u.stage = "part" /\ u.lead = ld
  BY <1>2, <1>6, <1>8 DEF Ups
<1> HIDE DEF u
<1>10. UpOf(i, u) /\ ItemEvent(e, u)
  BY <1>2, <1>3, <1>4, <1>6, <1>8, <1>9 DEF UpOf, ItemEvent
<1>11. Onward(i, e, u)
  <2>1. up[i].part <= u.part /\ up[i].text \subseteq u.text
    BY <1>2, <1>6, <1>9
  <2>2. \A q \in u.text : q \in up[i].text \/ (q \in e.text /\ \A r \in up[i].text : r <= q)
    BY <1>4, <1>7, <1>9
  <2> QED BY <1>2, <1>4, <1>8, <1>9, <1>10, <2>1, <2>2 DEF Onward
<1> QED BY <1>5, <1>11, ItemKeeps

LEMMA DoneOnward ==
    ASSUME StreamTypes, Relaying, NEW i \in Items,
           NEW kind, NEW from, NEW to,
           <<kind, from, to>> \in {<<"tdone", "part", "text">>, <<"pdone", "text", "open">>},
           Done(i, kind, from, to)
    PROVE  StreamTypes' /\ Relaying' /\ over' = "relay"
<1> DEFINE p == up[i].part
<1>1. PICK text \in {up[i].text \cap {p}, {p}} :
         Item(i, Event(kind, i, p, text),
              [up[i] EXCEPT !.stage = to, !.text = @ \cup text,
                            !.lead = IF up[i].text = {} /\ text # {} THEN "done" ELSE @])
  BY DEF Done
<1> DEFINE e == Event(kind, i, p, text)
           tx == up[i].text \cup text
           ld == IF up[i].text = {} /\ text # {} THEN "done" ELSE up[i].lead
           u == [up[i] EXCEPT !.stage = to, !.text = tx, !.lead = ld]
<1>2. /\ up[i] \in Ups /\ p \in Nat /\ p \in 1..Parts /\ p > 0 /\ up[i].stage = from
      /\ up[i].text \subseteq 1..Parts /\ up[i].text \subseteq 1..p
      /\ i \in Messages \/ i \in Reasoning
      /\ \/ kind = "tdone" /\ from = "part" /\ to = "text"
         \/ kind = "pdone" /\ from = "text" /\ to = "open"
  BY UpFields, MarkerAssumption DEF Done, Relaying, UpInv, UpOf, Items
<1>3. /\ tx \subseteq 1..p /\ tx \subseteq 1..Parts /\ text \subseteq tx /\ up[i].text \subseteq tx
      /\ text \subseteq {p} /\ text = tx \cap {p}
      /\ \A q \in tx : q \in up[i].text \/ (q \in text /\ \A r \in up[i].text : r <= q)
  BY <1>2
<1>4. /\ ld \in {"live", "done", "mixed"}
      /\ up[i].text = {} /\ tx # {} => ld = "done"
      /\ up[i].lead # "live" => ld # "live"
      /\ up[i].lead = "mixed" => ld = "mixed"
      /\ tx = {} => ld = "live"
  <2>1. up[i].text = {} => up[i].lead = "live"
    BY DEF Relaying, UpInv, UpOf
  <2> QED BY <1>2, <2>1 DEF Ups
<1>5. e.item = i /\ e.kind = kind /\ e.part = p /\ e.text = text
  BY DEF Event
<1>6. Item(i, e, u)
  BY <1>1
<1> HIDE DEF e, tx, ld
<1>7. u \in Ups /\ u.part = p /\ u.text = tx /\ u.stage = to /\ u.lead = ld
  BY <1>2, <1>3, <1>4 DEF Ups
<1> HIDE DEF u
<1>8. UpOf(i, u) /\ ItemEvent(e, u)
  BY <1>2, <1>3, <1>4, <1>5, <1>7 DEF UpOf, ItemEvent
<1>9. Onward(i, e, u)
  <2>1. \A q \in u.text : q \in up[i].text \/ (q \in e.text /\ \A r \in up[i].text : r <= q)
    BY <1>3, <1>5, <1>7
  <2> QED BY <1>2, <1>3, <1>4, <1>5, <1>7, <1>8, <2>1 DEF Onward
<1> QED BY <1>6, <1>9, ItemKeeps

LEMMA ItemDoneOnward ==
    ASSUME StreamTypes, Relaying, NEW i \in Items, ItemDone(i)
    PROVE  StreamTypes' /\ Relaying' /\ over' = "relay"
<1> DEFINE e == Event("idone", i, 0, up[i].text)
           u == [up[i] EXCEPT !.stage = "done"]
<1>1. /\ up[i] \in Ups /\ up[i].part \in Nat /\ up[i].stage \in {"whole", "open"} /\ UpOf(i, up[i])
  BY UpFields DEF ItemDone, Relaying, UpInv
<1>2. e.item = i /\ e.kind = "idone" /\ e.text = up[i].text
  BY DEF Event
<1>3. Item(i, e, u)
  BY DEF ItemDone
<1> HIDE DEF e
<1>4. /\ u \in Ups /\ u.part = up[i].part /\ u.text = up[i].text /\ u.stage = "done"
      /\ u.lead = up[i].lead
  BY <1>1 DEF Ups
<1> HIDE DEF u
<1>5. UpOf(i, u) /\ ItemEvent(e, u)
  BY <1>1, <1>2, <1>4 DEF UpOf, ItemEvent
<1>6. Onward(i, e, u)
  BY <1>1, <1>2, <1>4, <1>5 DEF Onward
<1> QED BY <1>3, <1>6, ItemKeeps

LEMMA ResponseOnward ==
    ASSUME StreamTypes, Relaying, Created \/ Terminal \/ Ping
    PROVE  StreamTypes' /\ Relaying' /\ over' = "relay"
<1>1. CASE Created
  <2> DEFINE e == Event("created", Nothing, 0, {})
  <2>1. e.item = Nothing /\ e.kind = "created" /\ e.text = {}
    BY DEF Event
  <2>2. Arrive(e) /\ UNCHANGED up /\ sent = {} /\ sent' = {"created"}
    BY <1>1 DEF Created
  <2> HIDE DEF e
  <2> QED BY <2>1, <2>2, ResponseComes
<1>2. CASE Terminal
  <2>1. PICK whole \in BOOLEAN :
           Arrive([Event("terminal", Nothing, 0, {}) EXCEPT !.text =
                     IF whole THEN {i \in Items : up[i].stage = "done"} ELSE {}])
    BY <1>2 DEF Terminal
  <2> DEFINE tx == IF whole THEN {i \in Items : up[i].stage = "done"} ELSE {}
             e == [Event("terminal", Nothing, 0, {}) EXCEPT !.text = tx]
  <2>2. tx \subseteq {i \in Items : up[i].stage = "done"}
    OBVIOUS
  <2>3. Arrive(e)
    BY <2>1
  <2> HIDE DEF tx
  <2>4. e.item = Nothing /\ e.kind = "terminal" /\ e.text = tx
    BY DEF Event
  <2>5. UNCHANGED up /\ "terminal" \notin sent /\ sent' = sent \cup {"terminal"}
    BY <1>2 DEF Terminal
  <2> HIDE DEF e
  <2> QED BY <2>2, <2>3, <2>4, <2>5, ResponseComes
<1>3. CASE Ping
  <2> DEFINE e == Event("ping", Nothing, 0, {})
  <2>1. e.item = Nothing /\ e.kind = "ping" /\ e.text = {}
    BY DEF Event
  <2>2. Arrive(e) /\ UNCHANGED up /\ UNCHANGED sent
    BY <1>3 DEF Ping
  <2> HIDE DEF e
  <2> QED BY <2>1, <2>2, ResponseComes
<1> QED BY <1>1, <1>2, <1>3

(* A line is complete, and the block is processed.                         *)
LEMMA LineKeeps == ASSUME StreamTypes, Relaying, Line PROVE StreamTypes' /\ Relaying' /\ over' = "relay"
<1>1. /\ place # "clean" /\ place' # "clean" /\ place' = "line" /\ over = "relay"
      /\ UNCHANGED <<up, sent, parted, cur, held, headed, headerPart, responseId, terminal, over, view>>
  BY DEF Line, upstream, marker
<1>2. HeldPairs' = HeldPairs
  BY <1>1 DEF HeldPairs
<1>3. \A i, K : Coming(i, K)' <=> Coming(i, K)
  BY <1>1 DEF Coming
<1>4. StreamTypes' /\ UpInv' /\ EventInv'
  BY <1>1 DEF StreamTypes, Relaying, UpInv, EventInv
<1>5. HeaderInv' /\ HeaderShown'
  BY <1>1, <1>3 DEF Relaying, HeaderInv, HeaderAt, HeaderShown
<1>6. HeldInv'
  BY <1>1, <1>3 DEF Relaying, HeldInv
<1>7. TagShown'
  BY <1>1, <1>2, <1>3 DEF Relaying, TagShown
<1>8. VerdictInv'
  BY <1>1, <1>3 DEF Relaying, VerdictInv
<1> QED BY <1>1, <1>4, <1>5, <1>6, <1>7, <1>8 DEF Relaying

LEMMA BlockKeeps == ASSUME StreamTypes, Relaying, Block PROVE StreamTypes' /\ Relaying' /\ over' = "relay"
<1>1. BlockEnds /\ over' = "relay"
  BY DEF Block, BlockEnds
<1>2. \/ cur.item \in Messages /\ MessageBlock(cur)
      \/ cur.item \in Reasoning /\ SummaryBlock(cur)
      \/ cur.kind = "terminal" /\ TerminalBlock(cur)
      \/ cur.kind = "created" /\ CreatedBlock(cur)
      \/ cur.kind = "ping" /\ OtherBlock(cur)
  BY DEF Block
<1> QED BY <1>1, <1>2, MessageKeeps, SummaryKeeps, TerminalKeeps, OtherKeeps

(* The end of the stream, unless it cuts a block between its lines and the *)
(* blank line: the held delta leaves without its tag.                      *)
LEMMA EofShows ==
    ASSUME StreamTypes, Relaying, Eof, place # "line"
    PROVE  /\ view' \in Views /\ view'.streamed = view.streamed \cup HeldPairs
           /\ view'.begun = view.begun /\ view'.marked = view.marked /\ view'.plain = view.plain
           /\ view'.ids = view.ids
           /\ place = "clean" =>
                 view'.ends = IF terminal THEN view.ends ELSE Append(view.ends, "error")
<1> DEFINE t == FALSE
           v == AfterHeld(t)
<1>1. t \in BOOLEAN /\ ~t
  OBVIOUS
<1>2. view' = IF terminal \/ place = "half" THEN v ELSE [v EXCEPT !.ends = Append(@, "error")]
  BY DEF Eof
<1> HIDE DEF t
<1>3. /\ v \in Views /\ v.streamed = view.streamed \cup HeldPairs
      /\ v.begun = view.begun \cup (IF t THEN HeldPairs ELSE {})
      /\ v.marked = view.marked /\ v.plain = view.plain /\ v.ids = view.ids /\ v.ends = view.ends
  BY <1>1, HeldShown DEF Relaying
<1>4. v.begun = view.begun
  BY <1>1, <1>3
<1> HIDE DEF v
<1>5. CASE terminal \/ place = "half"
  BY <1>2, <1>3, <1>4, <1>5
<1>6. CASE ~(terminal \/ place = "half")
  <2> DEFINE w == Append(v.ends, "error")
  <2>1. w \in Seq({"terminal", "error"})
    BY <1>3 DEF Views
  <2>2. view' = [v EXCEPT !.ends = w]
    BY <1>2, <1>6
  <2> HIDE DEF w
  <2>3. /\ view' \in Views /\ view'.streamed = v.streamed /\ view'.begun = v.begun
        /\ view'.marked = v.marked
        /\ view'.plain = v.plain /\ view'.ids = v.ids /\ view'.ends = w
    BY <1>3, <2>1, <2>2 DEF Views
  <2> QED BY <1>3, <1>4, <1>6, <2>3 DEF w
<1> QED BY <1>5, <1>6

LEMMA EofTypes == ASSUME StreamTypes, Relaying, Eof PROVE StreamTypes' /\ over' = "ended"
<1>1. /\ over' = "ended" /\ place' = "clean"
      /\ UNCHANGED <<up, parted, headed, headerPart, responseId, terminal>>
  BY DEF Eof, upstream, marker
<1>2. view' \in Views
  <2>1. CASE place # "line"
    BY <2>1, EofShows
  <2>2. CASE place = "line"
    <3> DEFINE t == FALSE
               id == RawId(cur)
               v == Shown(AfterHeld(t), cur, {}, id)
               w == Append(v.ends, "error")
    <3>1. t \in BOOLEAN /\ {} \in SUBSET Pieces /\ id \in {Nothing, "announced", "encoded"}
      BY DEF RawId
    <3>2. view' = IF terminal THEN v ELSE [v EXCEPT !.ends = Append(@, "error")]
      BY <2>2 DEF Eof
    <3> HIDE DEF t, id
    <3>3. AfterHeld(t) \in Views /\ Pairs(cur) \subseteq Pieces
      BY <2>2, <3>1, HeldShown, PairsFacts DEF Relaying
    <3>4. v \in Views
      BY <3>1, <3>3, ShownFacts
    <3> HIDE DEF v
    <3>5. w \in Seq({"terminal", "error"})
      BY <3>4 DEF Views
    <3>6. view' = v \/ view' = [v EXCEPT !.ends = w]
      BY <3>2
    <3> HIDE DEF w
    <3> QED BY <3>4, <3>5, <3>6 DEF Views
  <2> QED BY <2>1, <2>2
<1> QED BY <1>1, <1>2 DEF StreamTypes

LEMMA EofKeeps ==
    ASSUME "line" \notin Cuts, StreamTypes, Relaying, Eof PROVE MarksAgree'
<1>1. /\ view' \in Views /\ view'.streamed = view.streamed \cup HeldPairs
      /\ view'.begun = view.begun /\ view'.marked = view.marked /\ view'.plain = view.plain
  BY EofShows DEF Eof
<1>2. parted' = parted /\ Mixed' = Mixed
  BY DEF Eof, upstream, Mixed
<1>4. MarksAgree
  BY RelayingAgrees
<1>5. \A i \in Messages : \A q : <<i, q>> \notin HeldPairs
  <2>1. TRUE \in BOOLEAN
    OBVIOUS
  <2>2. HeldPairs \subseteq Reasoning \X (1..Parts)
    BY <2>1, HeldShown DEF Relaying
  <2> QED BY <2>2, MarkerAssumption
<1>6. Same(Messages \ Mixed, {})'
  <2> SUFFICES ASSUME NEW i \in Messages \ Mixed, NEW q \in 1..Parts
               PROVE  /\ <<i, q>> \in view'.plain => <<i, q>> \notin view'.marked /\ <<i, q>> \notin view'.begun
                      /\ <<i, q>> \in view'.marked /\ <<i, q>> \in view'.streamed => <<i, q>> \in view'.begun
    BY <1>2 DEF Same
  <2>1. /\ <<i, q>> \in view.plain => <<i, q>> \notin view.marked /\ <<i, q>> \notin view.begun
        /\ <<i, q>> \in view.marked /\ <<i, q>> \in view.streamed => <<i, q>> \in view.begun
    BY <1>4 DEF MarksAgree, Same
  <2> QED BY <1>1, <1>5, <2>1
<1>7. Same(Reasoning, parted)'
  <2> SUFFICES ASSUME NEW i \in Reasoning, NEW q \in 1..Parts
               PROVE  /\ <<i, q>> \in view'.plain => <<i, q>> \notin view'.marked /\ <<i, q>> \notin view'.begun
                      /\ <<i, q>> \in view'.marked /\ <<i, q>> \in view'.streamed =>
                            <<i, q>> \in view'.begun \cup parted
    BY <1>2 DEF Same
  <2>1. /\ <<i, q>> \in view.plain => <<i, q>> \notin view.marked /\ <<i, q>> \notin view.begun
        /\ <<i, q>> \in view.marked /\ <<i, q>> \in view.streamed => <<i, q>> \in view.begun \cup parted
    BY <1>4 DEF MarksAgree, Same
  <2>2. <<i, q>> \in view.marked => <<i, q>> \notin HeldPairs
    BY HeldUnmarked DEF Relaying
  <2> QED BY <1>1, <2>1, <2>2
<1> QED BY <1>1, <1>2, <1>4, <1>6, <1>7 DEF MarksAgree

LEMMA MarkStarts == MarkerInit => MarkInv
<1> SUFFICES ASSUME MarkerInit PROVE MarkInv
  OBVIOUS
<1>1. \A i \in Items : up[i] = [stage |-> "new", part |-> 0, text |-> {}, deltas |-> 0,
                            lead |-> "live"]
  BY DEF MarkerInit
<1>2. [stage |-> "new", part |-> 0, text |-> {}, deltas |-> 0, lead |-> "live"] \in Ups
  BY MarkerAssumption DEF Ups
<1>3. /\ view.streamed = {} /\ view.begun = {} /\ view.marked = {} /\ view.plain = {}
      /\ view.ids = {}
      /\ view.ends = <<>> /\ view \in Views
  <2>1. <<>> \in Seq({"terminal", "error"})
    OBVIOUS
  <2> QED BY <2>1 DEF MarkerInit, Views
<1>4. /\ held = <<>> /\ headed = {} /\ headerPart = [i \in Messages |-> 0]
      /\ responseId = Nothing /\ terminal = FALSE
      /\ over = "relay" /\ place = "clean" /\ parted = {} /\ sent = {}
  BY DEF MarkerInit
<1>5. StreamTypes
  <2>1. up \in [Items -> Ups]
    BY <1>2 DEF MarkerInit
  <2>2. headerPart \in [Messages -> 0..Parts]
    BY <1>4, MarkerAssumption
  <2> QED BY <1>3, <1>4, <2>1, <2>2 DEF StreamTypes
<1>6. UpInv /\ EventInv
  BY <1>1, <1>4 DEF UpInv, UpOf, EventInv
<1>7. HeaderInv /\ HeaderShown
  BY <1>1, <1>3, <1>4 DEF HeaderInv, HeaderAt, HeaderShown, Items
<1>8. HeldInv /\ TagShown
  BY <1>3, <1>4 DEF HeldInv, TagShown
<1>9. VerdictInv
  BY <1>3, <1>4 DEF VerdictInv, Coming
<1> QED BY <1>4, <1>5, <1>6, <1>7, <1>8, <1>9 DEF MarkInv, Relaying

LEMMA MarkStep == MarkInv /\ [MarkerNext]_stream => MarkInv'
<1> SUFFICES ASSUME MarkInv, [MarkerNext]_stream PROVE MarkInv'
  OBVIOUS
<1>1. CASE UNCHANGED stream
  <2>1. UNCHANGED <<up, sent, parted, cur, place, held, headed, headerPart, responseId, terminal, over, view>>
    BY <1>1 DEF stream, upstream, marker
  <2>2. StreamTypes' /\ (Relaying => Relaying') /\ (MarksAgree => MarksAgree')
    BY <2>1 DEF MarkInv, StreamTypes, Relaying, MarksAgree, Same, Mixed, UpInv, EventInv, HeaderInv,
           HeaderAt, HeaderShown,
       HeldInv, HeldPairs, TagShown, VerdictInv, Coming
  <2> QED BY <2>1, <2>2 DEF MarkInv
<1>2. CASE MarkerNext
  <2>1. over = "relay" /\ StreamTypes /\ Relaying
    BY <1>2 DEF MarkerNext, Upstream, Created, Terminal, Ping, Added, PartAdded, Delta, ItemDone,
           Done, Item,
       Arrive, Line, Block, Eof, Break, MarkInv
  <2>2. SUFFICES /\ StreamTypes'
                 /\ \/ over' = "relay" /\ Relaying'
                    \/ over' # "relay" /\ ("line" \notin Cuts => MarksAgree')
    BY DEF MarkInv
  <2>3. ASSUME NEW i \in Items,
               \/ Added(i) \/ PartAdded(i) \/ Delta(i) \/ ItemDone(i)
               \/ Done(i, "tdone", "part", "text") \/ Done(i, "pdone", "text", "open")
        PROVE  StreamTypes' /\ Relaying' /\ over' = "relay"
    <3>1. CASE Done(i, "tdone", "part", "text")
      BY <2>1, <3>1, DoneOnward
    <3>2. CASE Done(i, "pdone", "text", "open")
      BY <2>1, <3>2, DoneOnward
    <3> QED BY <2>1, <2>3, <3>1, <3>2, AddedOnward, PartAddedOnward, DeltaOnward, ItemDoneOnward
  <2>4. CASE Upstream
    BY <2>1, <2>3, <2>4, ResponseOnward DEF Upstream
  <2>5. CASE Line
    BY <2>1, <2>5, LineKeeps
  <2>6. CASE Block
    BY <2>1, <2>6, BlockKeeps
  <2>7. CASE Eof
    BY <2>1, <2>7, EofTypes, EofKeeps
  <2>8. CASE Break
    <3>1. UNCHANGED <<up, parted, headed, headerPart, responseId, terminal, place, view>> /\ over' = "broken"
      BY <2>8 DEF Break, upstream, marker
    <3>2. MarksAgree
      BY <2>1, RelayingAgrees
    <3> QED BY <2>1, <3>1, <3>2 DEF StreamTypes, MarksAgree, Same, Mixed
  <2> QED BY <1>2, <2>4, <2>5, <2>6, <2>7, <2>8 DEF MarkerNext
<1> QED BY <1>1, <1>2

(* Unless the stream is cut between a block's lines and its blank line,    *)
(* what SummaryMarker streams of a text is what it repeats in the events   *)
(* that end it: a tag on every summary but those that another block parted *)
(* from their end, and one header on one part of a message, but for the    *)
(* messages that are streamed after a done event was first to show text.   *)
THEOREM MarksStayInStep == ASSUME "line" \notin Cuts PROVE MarkerSpec => []MarksAgree
<1>1. MarkInv => MarksAgree
  BY RelayingAgrees DEF MarkInv
<1> QED BY <1>1, MarkStarts, MarkStep, PTL DEF MarkerSpec

(* A stream that ends between two blocks has told the caller once how, and *)
(* under one id: _forward adds an error only where no terminal event came. *)
THEOREM EndsOnce == MarkerSpec => OneVerdict
<1> DEFINE A == over' = "ended" /\ place = "clean" => Len(view'.ends) = 1 /\ Cardinality(view'.ids) <= 1
<1>1. MarkInv /\ [MarkerNext]_stream => [A]_stream
  <2> SUFFICES ASSUME MarkInv, MarkerNext, over' = "ended", place = "clean"
               PROVE  Len(view'.ends) = 1 /\ Cardinality(view'.ids) <= 1
    OBVIOUS
  <2>1. Eof /\ over = "relay" /\ StreamTypes /\ Relaying
    BY DEF MarkerNext, Upstream, Created, Terminal, Ping, Added, PartAdded, Delta, ItemDone,
           Done, Item,
       Arrive, Line, Block, Eof, Break, MarkInv
  <2>2. view'.ids = view.ids /\ view'.ends = IF terminal THEN view.ends ELSE Append(view.ends, "error")
    BY <2>1, EofShows
  <2>3. /\ view.ends = IF terminal THEN <<"terminal">> ELSE <<>>
        /\ view.ids = {"announced"} \/ view.ids = {"encoded"} \/ view.ids = {}
    BY <2>1 DEF Relaying, VerdictInv
  <2>4. Len(view'.ends) = 1
    <3>1. view'.ends = <<"terminal">> \/ view'.ends = Append(<<>>, "error")
      BY <2>2, <2>3
    <3> QED BY <3>1
  <2>5. Cardinality(view'.ids) <= 1
    <3>1. CASE view'.ids = {}
      BY <3>1, FS_EmptySet
    <3>2. ASSUME NEW x, view'.ids = {x} PROVE Cardinality(view'.ids) <= 1
      <4>1. Cardinality({x}) = 1
        BY FS_Singleton
      <4> QED BY <3>2, <4>1
    <3> QED BY <2>2, <2>3, <3>1, <3>2
  <2> QED BY <2>4, <2>5
<1> QED BY <1>1, MarkStarts, MarkStep, PTL DEF MarkerSpec, OneVerdict
=============================================================================
