--------------------------- MODULE CredentialProofs ---------------------------
(***************************************************************************)
(* Proofs about the credential watcher, for any principals, lifetimes and   *)
(* horizon and any number of failures: the types, that a row says accepted  *)
(* only of a token that worked, and that no expiry within the horizon goes  *)
(* without a warning, unless a shorter-lived token came unreported.         *)
(***************************************************************************)
EXTENDS CredentialWatcher, TLAPS

-----------------------------------------------------------------------------
(* Types *)

LEMMA OlderType ==
  ASSUME CredentialAssumption, NEW age \in Nat
  PROVE  /\ Older(age) \in Nat /\ age <= Older(age)
         /\ Older(age) <= TTL => Older(age) = age + 1
  BY DEF CredentialAssumption, Older

LEMMA LessType ==
  ASSUME NEW n \in Nat
  PROVE  (IF n = 0 THEN 0 ELSE n - 1) \in Nat
  OBVIOUS

(* What happens to a report from one round to the next.                     *)
LEMMA AgedType ==
  ASSUME CredentialAssumption, NEW r \in ReportRow \cup {NONE}
  PROVE  /\ Aged(r) \in ReportRow \cup {NONE}
         /\ Aged(r) # NONE =>
               /\ r # NONE /\ r \in ReportRow /\ Aged(r).verdict = r.verdict
               /\ Aged(r).shortened = r.shortened
               /\ Aged(r).age = Older(r.age)
               /\ Aged(r).exp # NONE =>
                     /\ r.exp # NONE /\ r.exp \in Nat
                     /\ Aged(r).exp = IF r.exp = 0 THEN 0 ELSE r.exp - 1
<1>1. CASE r = NONE
  BY <1>1 DEF Aged
<1>2. CASE r # NONE
  <2> DEFINE e == IF r.exp = NONE THEN NONE ELSE IF r.exp = 0 THEN 0 ELSE r.exp - 1
  <2>1. r \in ReportRow
    BY <1>2
  <2>2. e \in Expiry /\ Older(r.age) \in Nat
    BY <2>1, OlderType DEF ReportRow, Expiry
  <2>3. Aged(r) = [r EXCEPT !.age = Older(r.age), !.exp = e]
    BY <1>2 DEF Aged
  <2> HIDE DEF e
  <2>4. Aged(r) = [age |-> Older(r.age), exp |-> e, verdict |-> r.verdict,
                   shortened |-> r.shortened]
    BY <2>1, <2>3 DEF ReportRow
  <2>5. Aged(r) \in ReportRow
    BY <2>1, <2>2, <2>4 DEF ReportRow
  <2>6. e # NONE => r.exp # NONE /\ r.exp \in Nat /\ e = IF r.exp = 0 THEN 0 ELSE r.exp - 1
    BY <2>1 DEF e, ReportRow, Expiry
  <2> QED BY <1>2, <2>1, <2>4, <2>5, <2>6
<1> QED BY <1>1, <1>2

LEMMA ReconcileType ==
  ASSUME CredentialTypes, NEW p \in Principal
  PROVE  reconcile(p) \in MatrixRow
<1>1. Silent \in MatrixRow
  BY DEF Silent, MatrixRow, Expiry
<1>2. ASSUME reports[p] # NONE PROVE reconcile(p) \in MatrixRow
  <2>1. reports[p] \in ReportRow
    BY <1>2 DEF CredentialTypes, ReportRow
  <2>2. expiringSoon(reports[p].exp) \in BOOLEAN
    BY DEF expiringSoon
  <2> QED BY <1>2, <2>1, <2>2 DEF reconcile, ReportRow, MatrixRow
<1> QED BY <1>1, <1>2 DEF reconcile

LEMMA InitTypes ==
  ASSUME CredentialAssumption, Init PROVE CredentialTypes
  BY DEF CredentialAssumption, Init, CredentialTypes, Nothing

LEMMA ReporterTypes ==
  ASSUME CredentialTypes, NEW p \in Principal,
         Report(p) \/ recordSelfReport(p) \/ ReportLost(p)
  PROVE  CredentialTypes'
<1> USE DEF CredentialTypes, NoFault, consumerVars
<1>1. CASE Report(p)
  <2>1. probeCredential(p) \in Verdict
    BY DEF probeCredential, Verdict
  <2>2. PICK exp \in {NONE, life[p]} :
          flight' = [flight EXCEPT ![p] =
                        [verdict |-> probeCredential(p), exp |-> exp, shortened |-> FALSE]]
    BY <1>1 DEF Report
  <2>3. exp \in Expiry
    BY DEF Expiry
  <2>4. flight' \in [Principal -> FlightRow \cup {NONE}]
    <3>1. [verdict |-> probeCredential(p), exp |-> exp, shortened |-> FALSE] \in FlightRow
      BY <2>1, <2>3 DEF FlightRow
    <3> QED BY <2>2, <3>1
  <2>5. worked' \in [Principal -> Nat]
    BY <1>1 DEF Report
  <2> QED BY <1>1, <2>4, <2>5 DEF Report
<1>2. CASE recordSelfReport(p)
  <2>1. flight[p] \in FlightRow
    BY <1>2 DEF recordSelfReport
  <2>2. stored(p) \in ReportRow
    BY <2>1 DEF stored, FlightRow, ReportRow
  <2> QED BY <1>2, <2>2 DEF recordSelfReport
<1>3. CASE ReportLost(p)
  BY <1>3 DEF ReportLost
<1> QED BY <1>1, <1>2, <1>3

LEMMA NothingType == ASSUME NEW S PROVE Nothing \in [Principal -> S \cup {NONE}]
  BY DEF Nothing

LEMMA FaultType ==
  ASSUME CredentialAssumption, CredentialTypes, Fault PROVE faults' \in 0..MaxFaults
  BY DEF CredentialAssumption, CredentialTypes, Fault

LEMMA WatcherTypes ==
  ASSUME CredentialAssumption, CredentialTypes, Sweep \/ PodRestarts \/ Tick
  PROVE  CredentialTypes'
<1> USE DEF CredentialTypes, NoFault, consumerVars
<1>1. CASE FetchInventory
  BY <1>1 DEF FetchInventory
<1>2. CASE FetchFails
  BY <1>2, FaultType, NothingType DEF FetchFails
<1>3. CASE Reconcile
  <2>1. \A p \in Principal : reconcile(p) \in MatrixRow
    BY ReconcileType
  <2>2. matrix' \in [Principal -> MatrixRow \cup {NONE}]
    BY <1>3, <2>1 DEF Reconcile
  <2> QED BY <1>3, <2>2 DEF Reconcile, MatrixRow
<1>4. CASE PodRestarts
  BY <1>4, FaultType, NothingType DEF PodRestarts
<1>5. CASE Tick
  <2>1. \A p \in Principal : Aged(reports[p]) \in ReportRow \cup {NONE}
    BY AgedType DEF ReportRow
  <2>2. reports' \in [Principal -> ReportRow \cup {NONE}]
    BY <1>5, <2>1 DEF Tick
  <2>3. worked' \in [Principal -> Nat]
    BY <1>5, OlderType DEF Tick
  <2>4. life' \in [Principal -> Nat]
    <3>1. \A p \in Principal : life[p] \in Nat
      OBVIOUS
    <3>2. \A p \in Principal : (IF life[p] = 0 THEN 0 ELSE life[p] - 1) \in Nat
      BY <3>1, LessType, Zenon
    <3>3. life' = [p \in Principal |-> IF life[p] = 0 THEN 0 ELSE life[p] - 1]
      BY <1>5 DEF Tick
    <3> QED BY <3>2, <3>3
  <2>5. UNCHANGED <<listed, alive, target, flight, principals, faults>>
    BY <1>5 DEF Tick
  <2>6. due' = TRUE /\ matrix' = Nothing
    BY <1>5 DEF Tick
  <2> QED BY <2>2, <2>3, <2>4, <2>5, <2>6, NothingType DEF ReportRow
<1> QED BY <1>1, <1>2, <1>3, <1>4, <1>5 DEF Sweep

(* A rotation marks what was said of p's token if its successor lives       *)
(* shorter, and changes nothing else that is said of anyone.                *)
LEMMA OutlivedFlight ==
  ASSUME CredentialTypes, NEW p \in Principal
  PROVE  /\ Outlived(flight, p) \in [Principal -> FlightRow \cup {NONE}]
         /\ \A q \in Principal \ {p} : Outlived(flight, p)[q] = flight[q]
         /\ Outlived(flight, p)[p] # NONE =>
               /\ flight[p] # NONE /\ Outlived(flight, p)[p].shortened
               /\ Outlived(flight, p)[p].verdict = flight[p].verdict
<1>1. CASE flight[p] = NONE
  BY <1>1 DEF CredentialTypes, Outlived
<1>2. CASE flight[p] # NONE
  <2> DEFINE r == [flight[p] EXCEPT !.shortened = TRUE]
  <2>1. r \in FlightRow /\ r.shortened /\ r.verdict = flight[p].verdict
    BY <1>2 DEF CredentialTypes, FlightRow
  <2>2. Outlived(flight, p) = [flight EXCEPT ![p] = r]
    BY <1>2 DEF Outlived
  <2> HIDE DEF r
  <2> QED BY <1>2, <2>1, <2>2 DEF CredentialTypes
<1> QED BY <1>1, <1>2

LEMMA OutlivedReports ==
  ASSUME CredentialTypes, NEW p \in Principal
  PROVE  /\ Outlived(reports, p) \in [Principal -> ReportRow \cup {NONE}]
         /\ \A q \in Principal \ {p} : Outlived(reports, p)[q] = reports[q]
         /\ Outlived(reports, p)[p] # NONE =>
               /\ reports[p] # NONE /\ Outlived(reports, p)[p].shortened
               /\ Outlived(reports, p)[p].verdict = reports[p].verdict
               /\ Outlived(reports, p)[p].age = reports[p].age
<1>1. CASE reports[p] = NONE
  BY <1>1 DEF CredentialTypes, Outlived
<1>2. CASE reports[p] # NONE
  <2> DEFINE r == [reports[p] EXCEPT !.shortened = TRUE]
  <2>1. r \in ReportRow /\ r.shortened /\ r.verdict = reports[p].verdict /\ r.age = reports[p].age
    BY <1>2 DEF CredentialTypes, ReportRow
  <2>2. Outlived(reports, p) = [reports EXCEPT ![p] = r]
    BY <1>2 DEF Outlived
  <2> HIDE DEF r
  <2> QED BY <1>2, <2>1, <2>2 DEF CredentialTypes
<1> QED BY <1>1, <1>2

LEMMA OutlivedMatrix ==
  ASSUME CredentialTypes, NEW p \in Principal
  PROVE  /\ Outlived(matrix, p) \in [Principal -> MatrixRow \cup {NONE}]
         /\ \A q \in Principal \ {p} : Outlived(matrix, p)[q] = matrix[q]
         /\ Outlived(matrix, p)[p] # NONE =>
               /\ matrix[p] # NONE /\ Outlived(matrix, p)[p].shortened
               /\ Outlived(matrix, p)[p].status = matrix[p].status
<1>1. CASE matrix[p] = NONE
  BY <1>1 DEF CredentialTypes, Outlived
<1>2. CASE matrix[p] # NONE
  <2> DEFINE r == [matrix[p] EXCEPT !.shortened = TRUE]
  <2>1. r \in MatrixRow /\ r.shortened /\ r.status = matrix[p].status
    BY <1>2 DEF CredentialTypes, MatrixRow
  <2>2. Outlived(matrix, p) = [matrix EXCEPT ![p] = r]
    BY <1>2 DEF Outlived
  <2> HIDE DEF r
  <2> QED BY <1>2, <2>1, <2>2 DEF CredentialTypes
<1> QED BY <1>1, <1>2

LEMMA RotationEffect ==
  ASSUME CredentialAssumption, CredentialTypes, NEW p \in Principal, TokenRotated(p)
  PROVE  /\ life' \in [Principal -> Nat] /\ \A q \in Principal \ {p} : life'[q] = life[q]
         /\ \/ UNCHANGED <<flight, reports, matrix>> /\ life[p] <= life'[p]
            \/ /\ flight' = Outlived(flight, p) /\ reports' = Outlived(reports, p)
               /\ matrix' = Outlived(matrix, p)
<1>1. PICK l \in 1..LIFE :
         /\ life' = [life EXCEPT ![p] = l]
         /\ IF l < life[p]
            THEN /\ flight' = Outlived(flight, p) /\ reports' = Outlived(reports, p)
                 /\ matrix' = Outlived(matrix, p)
            ELSE UNCHANGED <<flight, reports, matrix>>
  BY DEF TokenRotated
<1>2. life \in [Principal -> Nat] /\ l \in Nat
  BY DEF CredentialTypes, CredentialAssumption
<1> QED BY <1>1, <1>2

LEMMA WorldTypes ==
  ASSUME CredentialAssumption, CredentialTypes, NEW p \in Principal,
         TargetChanges(p) \/ TokenRotated(p) \/ ConsumerStops(p) \/ InventoryChanges(p)
  PROVE  CredentialTypes'
<1>1. CASE TokenRotated(p)
  BY <1>1, RotationEffect, OutlivedFlight, OutlivedReports, OutlivedMatrix
     DEF CredentialTypes, TokenRotated
<1>2. CASE TargetChanges(p) \/ ConsumerStops(p) \/ InventoryChanges(p)
  BY <1>2 DEF CredentialTypes, consumerVars, TargetChanges, ConsumerStops, InventoryChanges
<1> QED BY <1>1, <1>2

LEMMA NextTypes ==
  ASSUME CredentialAssumption, CredentialTypes, [Next]_vars PROVE CredentialTypes'
<1>1. CASE UNCHANGED vars
  BY <1>1 DEF vars, consumerVars, CredentialTypes
<1> QED BY <1>1, ReporterTypes, WatcherTypes, WorldTypes DEF Next, Answered

(* Every variable keeps its type, for every value of the constants.         *)
THEOREM CredentialTypesCorrect ==
  ASSUME CredentialAssumption PROVE Spec => []CredentialTypes
<1>1. Init => CredentialTypes
  BY InitTypes
<1>2. CredentialTypes /\ [Next]_vars => CredentialTypes'
  BY NextTypes
<1> QED BY <1>1, <1>2, PTL DEF Spec

-----------------------------------------------------------------------------
(* What a verdict is worth *)

(* A verdict in flight was probed in this round, and a report that is not   *)
(* stale was accepted no longer ago than it is old.                         *)
PostedNow(p) == flight[p] # NONE /\ flight[p].verdict = "accepted" => worked[p] = 0

ReportedSince(p) ==
  reports[p] # NONE /\ reports[p].verdict = "accepted" /\ reports[p].age <= TTL
     => worked[p] <= reports[p].age

ShownWithin(p) == matrix[p] # NONE /\ matrix[p].status = "accepted" => worked[p] <= TTL

VerdictInv == \A p \in Principal : PostedNow(p) /\ ReportedSince(p) /\ ShownWithin(p)

LEMMA InitVerdicts == ASSUME Init PROVE VerdictInv
  BY DEF Init, Nothing, VerdictInv, PostedNow, ReportedSince, ShownWithin

LEMMA ReporterVerdicts ==
  ASSUME CredentialAssumption, CredentialTypes, VerdictInv, NEW p \in Principal,
         Report(p) \/ recordSelfReport(p) \/ ReportLost(p)
  PROVE  VerdictInv'
<1> USE DEF CredentialTypes, VerdictInv
<1>1. CASE Report(p)
  <2>1. UNCHANGED <<reports, matrix>> /\ \A q \in Principal \ {p} :
           flight'[q] = flight[q] /\ worked'[q] = worked[q]
    BY <1>1 DEF Report
  <2>2. PICK exp \in {NONE, life[p]} :
          flight' = [flight EXCEPT ![p] =
                        [verdict |-> probeCredential(p), exp |-> exp, shortened |-> FALSE]]
    BY <1>1 DEF Report
  <2>3. flight'[p].verdict = probeCredential(p)
    BY <2>2
  <2>4. worked'[p] = IF Accepts(p) THEN 0 ELSE worked[p]
    BY <1>1 DEF Report
  <2>5. PostedNow(p)'
    BY <2>3, <2>4 DEF PostedNow, probeCredential
  <2>6. ReportedSince(p)' /\ ShownWithin(p)'
    <3>1. worked'[p] = 0 \/ worked'[p] = worked[p]
      BY <2>4
    <3>2. reports[p] # NONE => reports[p].age \in Nat
      BY DEF ReportRow
    <3> QED BY <2>1, <3>1, <3>2 DEF ReportedSince, ShownWithin, CredentialAssumption
  <2> QED BY <2>1, <2>5, <2>6 DEF PostedNow, ReportedSince, ShownWithin
<1>2. CASE recordSelfReport(p)
  <2>1. /\ UNCHANGED <<worked, matrix>>
        /\ \A q \in Principal \ {p} : flight'[q] = flight[q] /\ reports'[q] = reports[q]
        /\ flight'[p] = NONE /\ reports'[p] = stored(p) /\ flight[p] # NONE
    BY <1>2 DEF recordSelfReport
  <2>2. ReportedSince(p)'
    BY <2>1 DEF ReportedSince, PostedNow, stored
  <2> QED BY <2>1, <2>2 DEF PostedNow, ReportedSince, ShownWithin
<1>3. CASE ReportLost(p)
  <2>1. /\ UNCHANGED <<worked, matrix, reports>> /\ flight'[p] = NONE
        /\ \A q \in Principal \ {p} : flight'[q] = flight[q]
    BY <1>3 DEF ReportLost
  <2> QED BY <2>1 DEF PostedNow, ReportedSince, ShownWithin
<1> QED BY <1>1, <1>2, <1>3

LEMMA ReconcileVerdicts ==
  ASSUME CredentialAssumption, CredentialTypes, VerdictInv, Reconcile
  PROVE  VerdictInv'
<1>1. UNCHANGED <<flight, reports, worked>>
  BY DEF Reconcile
<1>2. ASSUME NEW p \in Principal PROVE ShownWithin(p)'
  <2>1. matrix'[p] = IF p \in principals THEN reconcile(p) ELSE NONE
    BY DEF Reconcile
  <2>2. reports[p] # NONE => reports[p].age \in Nat /\ reports[p].verdict \in Verdict
    BY DEF CredentialTypes, ReportRow
  <2>3. worked[p] \in Nat /\ TTL \in Nat
    BY DEF CredentialTypes, CredentialAssumption
  <2>4. CASE reports[p] = NONE
    BY <2>1, <2>4 DEF ShownWithin, reconcile, Silent
  <2>5. CASE reports[p] # NONE
    <3>1. reconcile(p).status = IF reports[p].age > TTL THEN "stale" ELSE reports[p].verdict
      BY <2>5 DEF reconcile
    <3> QED BY <1>1, <2>1, <2>2, <2>3, <2>5, <3>1 DEF VerdictInv, ShownWithin, ReportedSince
  <2> QED BY <2>4, <2>5
<1> QED BY <1>1, <1>2 DEF VerdictInv, PostedNow, ReportedSince

LEMMA TickVerdicts ==
  ASSUME CredentialAssumption, CredentialTypes, VerdictInv, Tick
  PROVE  VerdictInv'
<1> SUFFICES ASSUME NEW p \in Principal
             PROVE  PostedNow(p)' /\ ReportedSince(p)' /\ ShownWithin(p)'
  BY DEF VerdictInv
<1>1. PostedNow(p)' /\ ShownWithin(p)'
  BY DEF Tick, Nothing, PostedNow, ShownWithin
<1>2. reports'[p] = Aged(reports[p]) /\ worked'[p] = Older(worked[p])
  BY DEF Tick
<1>3. reports[p] \in ReportRow \cup {NONE} /\ worked[p] \in Nat /\ TTL \in Nat
  BY DEF CredentialTypes, ReportRow, CredentialAssumption
<1>4. ASSUME Aged(reports[p]) # NONE, Aged(reports[p]).verdict = "accepted",
             Aged(reports[p]).age <= TTL
      PROVE  Older(worked[p]) <= Aged(reports[p]).age
  <2>1. /\ reports[p] # NONE /\ reports[p].age \in Nat /\ reports[p].verdict = "accepted"
        /\ Aged(reports[p]).age = Older(reports[p].age)
    BY <1>3, <1>4, AgedType DEF ReportRow
  <2>2. reports[p].age <= TTL /\ Older(reports[p].age) = reports[p].age + 1
    BY <1>3, <1>4, <2>1, OlderType
  <2>3. worked[p] <= reports[p].age
    BY <2>1, <2>2 DEF VerdictInv, ReportedSince
  <2> QED BY <1>3, <2>1, <2>2, <2>3 DEF Older
<1>5. ReportedSince(p)'
  BY <1>2, <1>4 DEF ReportedSince
<1> QED BY <1>1, <1>5

LEMMA NextVerdicts ==
  ASSUME CredentialAssumption, CredentialTypes, VerdictInv, [Next]_vars
  PROVE  VerdictInv'
<1> USE DEF PostedNow, ReportedSince, ShownWithin
<1>1. CASE FetchInventory \/ UNCHANGED vars
  BY <1>1 DEF FetchInventory, VerdictInv, vars
<1>2. CASE FetchFails
  BY <1>2 DEF FetchFails, VerdictInv, Nothing
<1>3. CASE PodRestarts
  BY <1>3 DEF PodRestarts, VerdictInv, Nothing
<1>4. CASE \E p \in Principal : TargetChanges(p) \/ ConsumerStops(p) \/ InventoryChanges(p)
  BY <1>4 DEF TargetChanges, ConsumerStops, InventoryChanges, VerdictInv
<1>5. CASE \E p \in Principal : TokenRotated(p)
  <2>1. PICK p \in Principal : TokenRotated(p)
    BY <1>5
  <2>2. worked' = worked
    BY <2>1 DEF TokenRotated
  <2> QED BY <2>1, <2>2, RotationEffect, OutlivedFlight, OutlivedReports, OutlivedMatrix
          DEF VerdictInv
<1> QED BY <1>1, <1>2, <1>3, <1>4, <1>5, ReporterVerdicts, ReconcileVerdicts, TickVerdicts
        DEF Next, Answered, Sweep

(* A row of the matrix says accepted only of a token the target accepted    *)
(* within the reports' lifetime.                                            *)
THEOREM AcceptedMeansWorked ==
  ASSUME CredentialAssumption PROVE Spec => []AcceptedWorked
<1>1. Init => CredentialTypes /\ VerdictInv
  BY InitTypes, InitVerdicts
<1>2. CredentialTypes /\ VerdictInv /\ [Next]_vars => (CredentialTypes /\ VerdictInv)'
  BY NextTypes, NextVerdicts
<1>3. VerdictInv => AcceptedWorked
  BY DEF VerdictInv, ShownWithin, AcceptedWorked
<1> QED BY <1>1, <1>2, <1>3, PTL DEF Spec

-----------------------------------------------------------------------------
(* What an expiry is worth *)

(* An expiry that is posted, held or shown is never later than the token's  *)
(* own, unless a token of a shorter life has come since: time shortens      *)
(* both, and any other rotation lengthens the token's life.                 *)
NotLater(r, p) == r.exp # NONE /\ ~r.shortened => r.exp <= life[p]

ExpiryInv ==
  \A p \in Principal :
     /\ flight[p] # NONE => NotLater(flight[p], p)
     /\ reports[p] # NONE => NotLater(reports[p], p)
     /\ matrix[p] # NONE /\ matrix[p].exp # NONE /\ ~matrix[p].shortened =>
           matrix[p].exp <= life[p] /\ (matrix[p].expiringSoon \/ matrix[p].exp > HORIZON)

LEMMA InitExpiries == ASSUME Init PROVE ExpiryInv
  BY DEF Init, Nothing, ExpiryInv

LEMMA ReporterExpiries ==
  ASSUME CredentialTypes, ExpiryInv, NEW p \in Principal,
         Report(p) \/ recordSelfReport(p) \/ ReportLost(p)
  PROVE  ExpiryInv'
<1> USE DEF CredentialTypes, ExpiryInv, NotLater
<1>1. CASE Report(p)
  <2>1. UNCHANGED <<reports, matrix, life>>
    BY <1>1 DEF Report, consumerVars
  <2>2. PICK exp \in {NONE, life[p]} :
          flight' = [flight EXCEPT ![p] =
                        [verdict |-> probeCredential(p), exp |-> exp, shortened |-> FALSE]]
    BY <1>1 DEF Report
  <2>3. flight'[p].exp = exp /\ \A q \in Principal \ {p} : flight'[q] = flight[q]
    BY <2>2
  <2> QED BY <2>1, <2>3
<1>2. CASE recordSelfReport(p)
  BY <1>2 DEF recordSelfReport, stored, consumerVars
<1>3. CASE ReportLost(p)
  BY <1>3 DEF ReportLost, consumerVars
<1> QED BY <1>1, <1>2, <1>3

LEMMA ReconcileExpiries ==
  ASSUME CredentialAssumption, CredentialTypes, ExpiryInv, Reconcile
  PROVE  ExpiryInv'
<1>1. UNCHANGED <<flight, reports, life>>
  BY DEF Reconcile, consumerVars
<1>2. ASSUME NEW p \in Principal, matrix'[p] # NONE, matrix'[p].exp # NONE,
             ~matrix'[p].shortened
      PROVE  matrix'[p].exp <= life[p] /\ (matrix'[p].expiringSoon \/ matrix'[p].exp > HORIZON)
  <2>1. matrix'[p] = reconcile(p)
    BY <1>2 DEF Reconcile
  <2>2. CASE reports[p] = NONE
    BY <1>2, <2>1, <2>2 DEF reconcile, Silent
  <2>3. CASE reports[p] # NONE
    <3>1. /\ matrix'[p].exp = reports[p].exp /\ matrix'[p].shortened = reports[p].shortened
          /\ matrix'[p].expiringSoon = expiringSoon(reports[p].exp)
      BY <2>1, <2>3 DEF reconcile
    <3>2. reports[p].exp \in Nat /\ HORIZON \in Nat
      BY <1>2, <2>3, <3>1 DEF CredentialTypes, ReportRow, MatrixRow, Expiry, CredentialAssumption
    <3>3. reports[p].exp <= life[p]
      BY <1>2, <2>3, <3>1 DEF ExpiryInv, NotLater
    <3>4. matrix'[p].expiringSoon \/ ~(reports[p].exp <= HORIZON)
      BY <1>2, <3>1, Zenon DEF expiringSoon
    <3>5. matrix'[p].expiringSoon \/ reports[p].exp > HORIZON
      <4>1. ~(reports[p].exp <= HORIZON) => reports[p].exp > HORIZON
        BY <3>2
      <4> QED BY <3>4, <4>1, Zenon
    <3> QED BY <3>1, <3>3, <3>5, Zenon
  <2> QED BY <2>2, <2>3
<1> QED BY <1>1, <1>2 DEF ExpiryInv, NotLater

LEMMA TickExpiries ==
  ASSUME CredentialAssumption, CredentialTypes, ExpiryInv, Tick
  PROVE  ExpiryInv'
<1>1. \A p \in Principal : matrix'[p] = NONE /\ flight'[p] = NONE
  BY DEF Tick, Nothing
<1>2. ASSUME NEW p \in Principal, reports'[p] # NONE, reports'[p].exp # NONE,
             ~reports'[p].shortened
      PROVE  reports'[p].exp <= life'[p]
  <2>1. reports'[p] = Aged(reports[p]) /\ life'[p] = IF life[p] = 0 THEN 0 ELSE life[p] - 1
    BY DEF Tick
  <2>2. reports[p] \in ReportRow \cup {NONE} /\ life[p] \in Nat
    BY DEF CredentialTypes, ReportRow
  <2>3. /\ reports[p] # NONE /\ reports[p].exp # NONE /\ reports[p].exp \in Nat
        /\ ~reports[p].shortened
        /\ reports'[p].exp = IF reports[p].exp = 0 THEN 0 ELSE reports[p].exp - 1
    BY <1>2, <2>1, <2>2, AgedType
  <2>4. reports[p].exp <= life[p]
    BY <2>3 DEF ExpiryInv, NotLater
  <2> QED BY <2>1, <2>2, <2>3, <2>4
<1> QED BY <1>1, <1>2 DEF ExpiryInv, NotLater

LEMMA RotationExpiries ==
  ASSUME CredentialAssumption, CredentialTypes, ExpiryInv, NEW p \in Principal, TokenRotated(p)
  PROVE  ExpiryInv'
<1>1. CASE UNCHANGED <<flight, reports, matrix>> /\ life[p] <= life'[p]
  <2>1. \A q \in Principal : life[q] \in Nat /\ life'[q] \in Nat /\ life[q] <= life'[q]
    BY <1>1, RotationEffect DEF CredentialTypes
  <2>2. \A q \in Principal :
           /\ flight[q] # NONE => flight[q].exp \in Expiry
           /\ reports[q] # NONE => reports[q].exp \in Expiry
           /\ matrix[q] # NONE => matrix[q].exp \in Expiry
    BY DEF CredentialTypes, FlightRow, ReportRow, MatrixRow
  <2> QED BY <1>1, <2>1, <2>2 DEF ExpiryInv, NotLater, Expiry
<1>2. CASE /\ flight' = Outlived(flight, p) /\ reports' = Outlived(reports, p)
           /\ matrix' = Outlived(matrix, p)
  <2>1. /\ flight'[p] # NONE => flight'[p].shortened
        /\ reports'[p] # NONE => reports'[p].shortened
        /\ matrix'[p] # NONE => matrix'[p].shortened
    BY <1>2, OutlivedFlight, OutlivedReports, OutlivedMatrix
  <2>2. \A q \in Principal \ {p} :
           /\ flight'[q] = flight[q] /\ reports'[q] = reports[q] /\ matrix'[q] = matrix[q]
           /\ life'[q] = life[q]
    BY <1>2, RotationEffect, OutlivedFlight, OutlivedReports, OutlivedMatrix
  <2> QED BY <2>1, <2>2 DEF ExpiryInv, NotLater
<1> QED BY <1>1, <1>2, RotationEffect

LEMMA NextExpiries ==
  ASSUME CredentialAssumption, CredentialTypes, ExpiryInv, [Next]_vars
  PROVE  ExpiryInv'
<1> USE DEF NotLater, consumerVars
<1>1. CASE FetchInventory \/ UNCHANGED vars
  BY <1>1 DEF FetchInventory, ExpiryInv, vars
<1>2. CASE FetchFails
  BY <1>2 DEF FetchFails, ExpiryInv, Nothing
<1>3. CASE PodRestarts
  BY <1>3 DEF PodRestarts, ExpiryInv, Nothing
<1>4. CASE \E p \in Principal : TargetChanges(p) \/ ConsumerStops(p) \/ InventoryChanges(p)
  BY <1>4 DEF TargetChanges, ConsumerStops, InventoryChanges, ExpiryInv
<1> QED BY <1>1, <1>2, <1>3, <1>4, ReporterExpiries, ReconcileExpiries, TickExpiries,
           RotationExpiries
        DEF Next, Answered, Sweep

(* No row shows an expiry without a warning while the principal's token has *)
(* no longer to live than the horizon, unless a token of a shorter life has *)
(* come that was not reported yet.                                          *)
THEOREM ExpiryIsForewarned ==
  ASSUME CredentialAssumption PROVE Spec => []ExpiryForewarned
<1>1. Init => CredentialTypes /\ ExpiryInv
  BY InitTypes, InitExpiries
<1>2. CredentialTypes /\ ExpiryInv /\ [Next]_vars => (CredentialTypes /\ ExpiryInv)'
  BY NextTypes, NextExpiries
<1>3. ASSUME CredentialAssumption, CredentialTypes, ExpiryInv PROVE ExpiryForewarned
  <2> SUFFICES ASSUME NEW p \in Principal, matrix[p] # NONE, matrix[p].exp # NONE,
                      ~matrix[p].expiringSoon, ~matrix[p].shortened
               PROVE  life[p] > HORIZON
    BY DEF ExpiryForewarned
  <2>1. matrix[p].exp \in Nat /\ life[p] \in Nat /\ HORIZON \in Nat
    BY <1>3 DEF CredentialTypes, ReportRow, MatrixRow, Expiry, CredentialAssumption
  <2> QED BY <1>3, <2>1 DEF ExpiryInv
<1>4. CredentialTypes /\ ExpiryInv => ExpiryForewarned
  BY <1>3
<1> QED BY <1>1, <1>2, <1>4, PTL DEF Spec
=============================================================================
