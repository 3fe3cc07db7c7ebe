------------------------ MODULE LocalExecutionProofs ------------------------
(***************************************************************************)
(* The decision records tell the truth about the calls executed on the     *)
(* workstations, for any number of them, of routes and of kept records.    *)
(***************************************************************************)
EXTENDS LocalExecution, TLAPS

Reported == [route : Routes, status : Status]

\* The call is over; what was executed and how it ended stands.
Over(c) == client[c] \in {"reporting", "posting", "done"}

\* What the client knows of its own call.
ClientInv(c) ==
    /\ client[c] = "idle" => central[c] = "none" /\ chosen[c] = None
    /\ client[c] \in {"idle", "routing"} => receipt[c] = "none"
    /\ client[c] \in {"idle", "routing", "executing"} => terminal[c] = "none"
    /\ client[c] = "streaming" => http[c] \in Status
    /\ client[c] = "streaming" /\ http[c] # 200 => terminal[c] = "none"
    /\ Over(c) => (status[c] = 200 <=> terminal[c] = "completed")
    /\ outcome[c] # "none" => client[c] \in {"posting", "done"} /\ receipt[c] = "held"
    /\ Over(c) => status[c] \in Status

\* How the route the client executes is tied to the one the handler answers.
RouteInv(c) ==
    /\ receipt[c] \in {"pending", "held"} => chosen[c] = route[c] /\ route[c] # None
    /\ receipt[c] = "held" => central[c] = "answered"
    /\ central[c] = "judging" => chosen[c] = None
    /\ central[c] \in {"decided", "replying", "answered"} => chosen[c] # None

\* What the record of the call says.
RecordInv(c) ==
    records[c] # None =>
        LET r == records[c]
        IN  /\ central[c] \notin {"none", "sent"}
            /\ r.selected # None => r.selected = chosen[c]
                                    /\ central[c] \in {"replying", "answered", "gone"}
            /\ r.phase \in Terminal =>
                 \/ central[c] = "gone"
                 \/ central[c] = "answered" /\ outcome[c] = "over"
            /\ r.outcome # None =>
                 /\ outcome[c] = "over"
                 /\ r.outcome.route = route[c] /\ r.outcome.status = status[c]
                 /\ r.phase = "completed" <=> status[c] = 200

CallInv(c) == ClientInv(c) /\ RouteInv(c) /\ RecordInv(c)

\* The inductive invariant.
ExecutionInv == TypeOK /\ \A c \in Calls : CallInv(c)

-----------------------------------------------------------------------------

\* dashboard.record writes the merged record or nothing, and retention only
\* removes.
LEMMA TraceEffect ==
    ASSUME TypeOK, NEW c \in Calls, NEW phase \in Phase,
           NEW selected \in Routes \cup {None}, NEW result \in Reported \cup {None},
           Trace(c, phase, selected, result)
    PROVE  /\ records' \in [Calls -> Record \cup {None}]
           /\ clock' \in Nat
           /\ \A d \in Calls \ {c} : records'[d] \in {records[d], None}
           /\ \/ records'[c] \in {records[c], None}
              \/ /\ records'[c] # None
                 /\ records'[c].phase = phase
                 /\ records'[c].selected =
                      (IF selected # None \/ records[c] = None THEN selected
                       ELSE records[c].selected)
                 /\ records'[c].outcome =
                      (IF result # None \/ records[c] = None THEN result
                       ELSE records[c].outcome)
<1> DEFINE table == Merged(c, phase, selected, result)
<1>1. CASE UNCHANGED <<records, clock>>
  BY <1>1 DEF TypeOK
<1>2. ASSUME records' \in {table, Pruned(table)},
             clock' \in {clock, clock + 1}
      PROVE  /\ records' \in [Calls -> Record \cup {None}]
             /\ clock' \in Nat
             /\ \A d \in Calls \ {c} : records'[d] \in {records[d], None}
             /\ records'[c] \in {table[c], None}
  <2>1. table[c] \in Record
    BY DEF Merged, TypeOK, Record, Reported
  <2>2. /\ table \in [Calls -> Record \cup {None}]
        /\ \A d \in Calls \ {c} : table[d] = records[d]
    BY <2>1 DEF Merged, TypeOK
  <2> HIDE DEF table
  <2>3. /\ Pruned(table) \in [Calls -> Record \cup {None}]
        /\ \A d \in Calls : Pruned(table)[d] \in {table[d], None}
    BY <2>2 DEF Pruned
  <2> QED BY <1>2, <2>2, <2>3 DEF TypeOK
<1>3. /\ table[c].phase = phase
      /\ table[c].selected =
           (IF selected # None \/ records[c] = None THEN selected ELSE records[c].selected)
      /\ table[c].outcome =
           (IF result # None \/ records[c] = None THEN result ELSE records[c].outcome)
  BY DEF Merged, TypeOK
<1>4. CASE ~ UNCHANGED <<records, clock>>
  <2>1. records' \in {table, Pruned(table)} /\ clock' \in {clock, clock + 1}
    BY <1>4 DEF Trace
  <2> QED BY <1>2, <1>3, <2>1
<1> QED BY <1>1, <1>4

\* A step of call c leaves what is known of another call alone; its record may
\* be removed by retention.
LEMMA OtherCalls ==
    ASSUME NEW d \in Calls, CallInv(d),
           /\ client'[d] = client[d] /\ route'[d] = route[d]
           /\ receipt'[d] = receipt[d] /\ http'[d] = http[d]
           /\ terminal'[d] = terminal[d] /\ status'[d] = status[d]
           /\ central'[d] = central[d] /\ chosen'[d] = chosen[d]
           /\ outcome'[d] = outcome[d],
           records'[d] \in {records[d], None}
    PROVE  CallInv(d)'
  BY DEF CallInv, ClientInv, RouteInv, RecordInv, Over

\* The invariant holds in the initial state.
LEMMA ExecutionInit == Init => ExecutionInv
  BY DEF Init, ExecutionInv, TypeOK, CallInv, ClientInv, RouteInv, RecordInv, Over

\* The client's steps keep it.
LEMMA ClientSteps ==
    ASSUME ExecutionInv, NEW c \in Calls,
           \/ BeginAutomatic(c) \/ \E r \in Routes : BeginFixed(c, r)
           \/ RouteArrives(c) \/ RouteFails(c) \/ RegistrationSettles(c)
           \/ \E s \in Backend : BackendResponds(c, s)
           \/ \E t \in {"completed", "other"} : TerminalEvent(c, t)
           \/ StreamEnds(c) \/ ExecutionFails(c) \/ Report(c) \/ ReportReturns(c)
    PROVE  ExecutionInv'
<1> USE DEF ExecutionInv
<1>1. ASSUME TypeOK', CallInv(c)', UNCHANGED records,
             \A d \in Calls \ {c} :
               /\ client'[d] = client[d] /\ route'[d] = route[d]
               /\ receipt'[d] = receipt[d] /\ http'[d] = http[d]
               /\ terminal'[d] = terminal[d] /\ status'[d] = status[d]
               /\ central'[d] = central[d] /\ chosen'[d] = chosen[d]
               /\ outcome'[d] = outcome[d]
      PROVE  ExecutionInv'
  BY <1>1, OtherCalls
<1> USE ExecutionAssumption DEF clientVars, centralVars
<1>2. CASE BeginAutomatic(c)
  BY <1>1, <1>2 DEF BeginAutomatic, TypeOK, CallInv, ClientInv, RouteInv, RecordInv, Over
<1>3. CASE \E r \in Routes : BeginFixed(c, r)
  BY <1>1, <1>3 DEF BeginFixed, TypeOK, CallInv, ClientInv, RouteInv, RecordInv, Over
<1>4. CASE RouteArrives(c)
  BY <1>1, <1>4 DEF RouteArrives, TypeOK, CallInv, ClientInv, RouteInv, RecordInv, Over
<1>5. CASE RouteFails(c)
  BY <1>1, <1>5 DEF RouteFails, TypeOK, CallInv, ClientInv, RouteInv, RecordInv, Over
<1>6. CASE RegistrationSettles(c)
  BY <1>1, <1>6 DEF RegistrationSettles, TypeOK, CallInv, ClientInv, RouteInv, RecordInv, Over
<1>7. CASE \E s \in Backend : BackendResponds(c, s)
  BY <1>1, <1>7 DEF BackendResponds, TypeOK, CallInv, ClientInv, RouteInv, RecordInv, Over
<1>8. CASE \E t \in {"completed", "other"} : TerminalEvent(c, t)
  BY <1>1, <1>8 DEF TerminalEvent, TypeOK, CallInv, ClientInv, RouteInv, RecordInv, Over
<1>9. CASE StreamEnds(c)
  <2> DEFINE s == IF http[c] = 200 /\ terminal[c] # "completed" THEN 502 ELSE http[c]
  <2>1. client[c] = "streaming" /\ Ended(c, s)
    BY <1>9 DEF StreamEnds
  <2>2. s \in Status /\ (s = 200 <=> terminal[c] = "completed")
    BY <2>1 DEF CallInv, ClientInv, Status
  <2> HIDE DEF s
  <2> QED
    BY <1>1, <2>1, <2>2 DEF Ended, TypeOK, CallInv, ClientInv, RouteInv, RecordInv, Over
<1>10. CASE ExecutionFails(c)
  BY <1>1, <1>10 DEF ExecutionFails, Ended, TypeOK, CallInv, ClientInv, RouteInv,
                     RecordInv, Over, Status
<1>11. CASE Report(c)
  BY <1>1, <1>11 DEF Report, TypeOK, CallInv, ClientInv, RouteInv, RecordInv, Over
<1>12. CASE ReportReturns(c)
  BY <1>1, <1>12 DEF ReportReturns, TypeOK, CallInv, ClientInv, RouteInv, RecordInv, Over
<1> QED BY <1>2, <1>3, <1>4, <1>5, <1>6, <1>7, <1>8, <1>9, <1>10, <1>11, <1>12

\* The steps of the /v1/route and /v1/outcome handlers keep it.
LEMMA CentralSteps ==
    ASSUME ExecutionInv, NEW c \in Calls,
           \/ RouteReceived(c) \/ RouteRefused(c)
           \/ \E r \in Routes : JevDecides(c, r)
           \/ JevFails(c) \/ RouteSelected(c) \/ RouteAnswered(c)
           \/ AnswerUndelivered(c)
           \/ OutcomeAccepted(c) \/ OutcomeRejected(c) \/ OutcomeRecorded(c)
    PROVE  ExecutionInv'
<1> USE DEF ExecutionInv
<1>1. ASSUME TypeOK', CallInv(c)', UNCHANGED clientVars,
             \A d \in Calls \ {c} :
               /\ central'[d] = central[d] /\ chosen'[d] = chosen[d]
               /\ outcome'[d] = outcome[d] /\ records'[d] \in {records[d], None}
      PROVE  ExecutionInv'
  BY <1>1, OtherCalls DEF clientVars
<1> USE ExecutionAssumption DEF clientVars
<1>2. CASE RouteReceived(c)
  <2>1. Trace(c, "received", None, None)
    BY <1>2 DEF RouteReceived, RouteStep
  <2> QED BY <1>1, <1>2, <2>1, TraceEffect
          DEF RouteReceived, RouteStep, TypeOK, CallInv, ClientInv, RouteInv,
              RecordInv, Over, Phase, Terminal
<1>3. CASE RouteRefused(c)
  BY <1>1, <1>3 DEF RouteRefused, TypeOK, CallInv, ClientInv, RouteInv, RecordInv, Over
<1>4. CASE \E r \in Routes : JevDecides(c, r)
  <2>1. Trace(c, "decided", None, None)
    BY <1>4 DEF JevDecides, RouteStep
  <2> QED BY <1>1, <1>4, <2>1, TraceEffect
          DEF JevDecides, RouteStep, TypeOK, CallInv, ClientInv, RouteInv,
              RecordInv, Over, Phase, Terminal
<1>5. CASE JevFails(c)
  <2>1. PICK phase \in {"failed", "disconnected"} : RouteStep(c, "gone", phase, None)
    BY <1>5 DEF JevFails
  <2>2. Trace(c, phase, None, None) /\ phase \in Phase
    BY <2>1 DEF RouteStep, Phase, Terminal
  <2> QED BY <1>1, <1>5, <2>1, <2>2, TraceEffect
          DEF JevFails, RouteStep, TypeOK, CallInv, ClientInv, RouteInv,
              RecordInv, Over, Terminal
<1>6. CASE RouteSelected(c)
  <2>1. Trace(c, "selected", chosen[c], None)
    BY <1>6 DEF RouteSelected, RouteStep
  <2> QED BY <1>1, <1>6, <2>1, TraceEffect
          DEF RouteSelected, RouteStep, TypeOK, CallInv, ClientInv, RouteInv,
              RecordInv, Over, Phase, Terminal
<1>7. CASE RouteAnswered(c)
  BY <1>1, <1>7 DEF RouteAnswered, TypeOK, CallInv, ClientInv, RouteInv, RecordInv, Over
<1>8. CASE AnswerUndelivered(c)
  <2>1. Trace(c, "disconnected", None, None)
    BY <1>8 DEF AnswerUndelivered, RouteStep
  <2> QED BY <1>1, <1>8, <2>1, TraceEffect
          DEF AnswerUndelivered, RouteStep, TypeOK, CallInv, ClientInv, RouteInv,
              RecordInv, Over, Phase, Terminal
<1>9. CASE OutcomeAccepted(c)
  BY <1>1, <1>9 DEF OutcomeAccepted, TypeOK, CallInv, ClientInv, RouteInv, RecordInv, Over
<1>10. CASE OutcomeRejected(c)
  BY <1>1, <1>10 DEF OutcomeRejected, TypeOK, CallInv, ClientInv, RouteInv, RecordInv, Over
<1>11. CASE OutcomeRecorded(c)
  <2> DEFINE phase == IF status[c] = 200 THEN "completed" ELSE "failed"
             result == [route |-> route[c], status |-> status[c]]
  <2>1. /\ outcome[c] = "accepted" /\ Over(c) /\ receipt[c] = "held"
        /\ central[c] = "answered" /\ route[c] \in Routes /\ status[c] \in Status
    BY <1>11 DEF OutcomeRecorded, TypeOK, CallInv, ClientInv, RouteInv, Over
  <2>2. /\ Trace(c, phase, None, result) /\ phase \in Phase
        /\ result \in Reported /\ result # None
    BY <1>11, <2>1 DEF OutcomeRecorded, Phase, Terminal, Reported
  <2> HIDE DEF result, phase
  <2>3. /\ records' \in [Calls -> Record \cup {None}]
        /\ clock' \in Nat
        /\ \A d \in Calls \ {c} : records'[d] \in {records[d], None}
        /\ \/ records'[c] \in {records[c], None}
           \/ /\ records'[c] # None
              /\ records'[c].phase = phase
              /\ records'[c].selected =
                   (IF records[c] = None THEN None ELSE records[c].selected)
              /\ records'[c].outcome = result
    BY <2>2, TraceEffect
  <2>4. TypeOK'
    BY <1>11, <2>3 DEF OutcomeRecorded, TypeOK
  <2>5. ClientInv(c)' /\ RouteInv(c)'
    BY <1>11, <2>1 DEF OutcomeRecorded, TypeOK, CallInv, ClientInv, RouteInv, Over
  <2>6. RecordInv(c)'
    <3>1. CASE records'[c] \in {records[c], None}
      BY <1>11, <2>1, <3>1 DEF OutcomeRecorded, TypeOK, CallInv, RecordInv
    <3>2. CASE records'[c] \notin {records[c], None}
      BY <1>11, <2>1, <2>3, <3>2
         DEF OutcomeRecorded, TypeOK, CallInv, RecordInv, phase, result
    <3> QED BY <3>1, <3>2
  <2> QED BY <1>1, <1>11, <2>3, <2>4, <2>5, <2>6 DEF OutcomeRecorded, CallInv, TypeOK
<1> QED BY <1>2, <1>3, <1>4, <1>5, <1>6, <1>7, <1>8, <1>9, <1>10, <1>11

\* Every step keeps it, a stuttering one too.
LEMMA ExecutionStep == ExecutionInv /\ [Next]_vars => ExecutionInv'
<1> SUFFICES ASSUME ExecutionInv, [Next]_vars PROVE ExecutionInv'
  OBVIOUS
<1>1. CASE Next
  BY <1>1, ClientSteps, CentralSteps DEF Next
<1>2. CASE UNCHANGED vars
  BY <1>2 DEF vars, clientVars, centralVars, ExecutionInv, TypeOK, CallInv,
              ClientInv, RouteInv, RecordInv, Over
<1> QED BY <1>1, <1>2

\* The inductive invariant is one of the specification.
LEMMA ExecutionInvHolds == Spec => []ExecutionInv
  BY ExecutionInit, ExecutionStep, PTL DEF Spec

\* However many workstations call, and whatever is delayed, lost or pruned: a
\* recorded outcome is the route that was executed and how it ended.
THEOREM RecordsAreTruthful == Spec => [](TypeOK /\ OutcomeIsTheExecution)
<1>1. ExecutionInv => TypeOK /\ OutcomeIsTheExecution
  BY ExecutionAssumption
     DEF ExecutionInv, TypeOK, OutcomeIsTheExecution, CallInv, ClientInv, RouteInv,
         RecordInv, Over
<1> QED BY <1>1, ExecutionInvHolds, PTL

\* Every call, message and record keeps its type.
THEOREM TypeCorrect == Spec => []TypeOK
BY RecordsAreTruthful, PTL

\* A record's terminal phase is its last one: the handlers of /v1/route and of
\* /v1/outcome never both end the record of a call.
THEOREM RecordsAreFinal == Spec => TerminalRecordIsFinal
<1>1. ASSUME ExecutionInv, Next, NEW c \in Calls,
             records[c] # None, records[c].phase \in Terminal
      PROVE  records'[c] \in {records[c], None}
  <2>1. PICK b \in Calls : Next!(b)
    BY <1>1 DEF Next
  <2>2. ASSUME NEW phase \in Phase, NEW selected \in Routes \cup {None},
               NEW result \in Reported \cup {None},
               Trace(b, phase, selected, result), b # c
        PROVE  records'[c] \in {records[c], None}
    BY <1>1, <2>2, TraceEffect DEF ExecutionInv
  <2>3. /\ central[c] \in {"gone", "answered"}
        /\ outcome[c] # "accepted"
    BY <1>1 DEF ExecutionInv, CallInv, ClientInv, RouteInv, RecordInv
  <2>4. CASE \/ RouteReceived(b) \/ JevFails(b) \/ AnswerUndelivered(b)
             \/ \E r \in Routes : JevDecides(b, r)
    BY <2>2, <2>3, <2>4
       DEF RouteReceived, JevFails, AnswerUndelivered, JevDecides, RouteStep, Phase,
           Terminal
  <2>5. CASE RouteSelected(b)
    BY <1>1, <2>2, <2>3, <2>5 DEF RouteSelected, RouteStep, Phase, ExecutionInv, TypeOK
  <2>6. CASE OutcomeRecorded(b)
    <3>1. b # c
      BY <2>3, <2>6 DEF OutcomeRecorded
    <3>2. [route |-> route[b], status |-> status[b]] \in Reported
      BY <1>1, <2>6 DEF OutcomeRecorded, ExecutionInv, TypeOK, CallInv, ClientInv,
                        RouteInv, Over, Reported
    <3> QED BY <2>2, <2>6, <3>1, <3>2 DEF OutcomeRecorded, Phase, Terminal
  <2>7. CASE UNCHANGED records
    BY <2>7
  <2> QED
    BY <2>1, <2>4, <2>5, <2>6, <2>7
       DEF BeginAutomatic, BeginFixed, RouteArrives, RouteFails, RegistrationSettles,
           BackendResponds, TerminalEvent, StreamEnds, ExecutionFails, Ended, Report,
           ReportReturns, RouteRefused, RouteAnswered, OutcomeAccepted,
           OutcomeRejected, centralVars
<1>2. ExecutionInv /\ [Next]_vars =>
        [\A c \in Calls :
            records[c] # None /\ records[c].phase \in Terminal =>
                records'[c] = None \/ records'[c].phase = records[c].phase]_vars
  BY <1>1
<1> QED BY <1>2, ExecutionInvHolds, PTL DEF Spec, TerminalRecordIsFinal
=============================================================================
