----------------------------- MODULE RepairProofs -----------------------------
(***************************************************************************)
(* Proofs about the repair orchestrator, for any number of sweeps, alerts   *)
(* and failures: the types, that a fingerprint has no more decisions than   *)
(* sweeps overlap, that only overlapping lookups decide it twice, that      *)
(* autonomy is opt-in, that no decision is announced twice, and that one    *)
(* failure costs one alert; and about the repair verifier, for any window:  *)
(* that no answer and a young index are never taken for success.  The last  *)
(* section joins the types of everything that MCOperations runs together.   *)
(***************************************************************************)
EXTENDS MCOperations, FiniteSetTheorems, TLAPS

-----------------------------------------------------------------------------
(* Types *)

LEMMA InitTypes == Init => RepairTypes
  BY RepairAssumption DEF RepairAssumption, Init, RepairTypes, Idle, Task

(* What a worker goes on with after an alert.                               *)
LEMMA NextAlertType ==
  ASSUME RepairTypes, NEW w \in Worker
  PROVE  /\ Idle \in Task /\ NextAlert(w) \in Task
         /\ Idle.step = "idle" /\ NextAlert(w).step = "alerts"
<1>1. Idle \in Task
  BY DEF Idle, Task
<1>2. worker[w].left \ {worker[w].alert} \in SUBSET Fingerprint
  BY DEF RepairTypes, Task
<1> QED BY <1>1, <1>2 DEF NextAlert, Task, Idle

(* A step that only touches one worker keeps the types if its task is one.  *)
LEMMA OneWorkerTypes ==
  ASSUME RepairTypes, NEW w \in Worker, NEW task \in Task,
         worker' = [worker EXCEPT ![w] = task],
         task.step \in {"record", "announce"} => task.alert # NONE
  PROVE  /\ worker' \in [Worker -> Task]
         /\ \A v \in Worker : worker'[v].step \in {"record", "announce"} => worker'[v].alert # NONE
  BY DEF RepairTypes

(* A step of a worker, one by one.                                          *)
LEMMA StepTypes ==
  ASSUME RepairTypes, NEW w \in Worker, Step(w) PROVE RepairTypes'
<1> USE RepairAssumption DEF RepairAssumption, Fault, NoFault
<1>1. CASE FindActive(w)
  <2>1. worker[w] \in Task
    BY DEF RepairTypes
  <2> DEFINE task == [worker[w] EXCEPT !.step = "alerts", !.left = open]
  <2>2. task \in Task /\ task.step = "alerts" /\ worker' = [worker EXCEPT ![w] = task]
    BY <1>1, <2>1 DEF RepairTypes, FindActive, Task
  <2> HIDE DEF task
  <2> QED BY <1>1, <2>2, OneWorkerTypes DEF RepairTypes, FindActive
<1>2. CASE Record(w)
  <2>1. worker[w] \in Task /\ worker[w].alert \in Fingerprint
    BY <1>2 DEF Record, RepairTypes, Task
  <2>2. [status |-> worker[w].status, by |-> w] \in Row
    BY <2>1 DEF Task, Row
  <2>3. attempts' \in [Fingerprint -> Seq(Row)]
    BY <1>2, <2>1, <2>2 DEF Record, RepairTypes
  <2>4. ToAnnounce(w) \in Task /\ ToAnnounce(w).alert = worker[w].alert
    BY <2>1 DEF ToAnnounce, Task
  <2>5. worker' \in [Worker -> Task]
    BY <1>2, <2>4, NextAlertType DEF Record, RepairTypes
  <2>6. \A v \in Worker : worker'[v].step \in {"record", "announce"} => worker'[v].alert # NONE
    BY <1>2, <2>1, <2>4, NextAlertType DEF Record, RepairTypes
  <2> QED BY <1>2, <2>3, <2>5, <2>6 DEF Record, RepairTypes
<1>3. CASE AnnounceBlocked(w)
  <2>1. worker[w].alert \in Fingerprint
    BY <1>3 DEF AnnounceBlocked, RepairTypes, Task
  <2> QED BY <1>3, <2>1, NextAlertType DEF AnnounceBlocked, RepairTypes
<1>4. CASE FinishSweep(w)
  BY <1>4, NextAlertType DEF FinishSweep, RepairTypes
<1>5. CASE AlertFails(w)
  BY <1>5, NextAlertType DEF AlertFails, RepairTypes
<1>6. CASE AnnounceFails(w)
  <2>1. worker[w].alert \in Fingerprint
    BY <1>6 DEF AnnounceFails, RepairTypes, Task
  <2>2. announced' \in [Fingerprint -> Nat]
    <3>1. announced \in [Fingerprint -> Nat]
      BY DEF RepairTypes
    <3>2. PICK f \in Fingerprint :
             announced' \in {announced, [announced EXCEPT ![f] = @ + 1]}
      BY <1>6, <2>1 DEF AnnounceFails
    <3> QED BY <3>1, <3>2
  <2>3. UNCHANGED <<open, attempts>> /\ Fault /\ worker' = [worker EXCEPT ![w] = NextAlert(w)]
    BY <1>6 DEF AnnounceFails, GivesUp
  <2>4. faults' \in 0..MaxFaults
    BY <2>3 DEF RepairTypes
  <2> QED BY <2>2, <2>3, <2>4, NextAlertType, OneWorkerTypes DEF RepairTypes
<1>7. CASE PodRestarts(w)
  BY <1>7, NextAlertType DEF PodRestarts, RepairTypes
<1>8. CASE \E f \in Fingerprint : AlreadyDecided(w, f)
  <2>1. PICK f \in Fingerprint : AlreadyDecided(w, f)
    BY <1>8
  <2>2. worker[w] \in Task
    BY DEF RepairTypes
  <2> DEFINE task == [worker[w] EXCEPT !.left = @ \ {f}]
  <2>3. task \in Task /\ task.step = "alerts" /\ worker' = [worker EXCEPT ![w] = task]
    BY <2>1, <2>2 DEF RepairTypes, AlreadyDecided, Skip, Task
  <2> HIDE DEF task
  <2> QED BY <2>1, <2>3, OneWorkerTypes DEF RepairTypes, AlreadyDecided
<1>9. CASE \E f \in Fingerprint : Decide(w, f)
  <2>1. PICK f \in Fingerprint : Decide(w, f)
    BY <1>9
  <2>2. PICK s \in {"shadow", "blocked"} :
          worker' = [worker EXCEPT ![w].step = "record", ![w].alert = f, ![w].status = s]
    BY <2>1 DEF Decide
  <2>3. worker[w] \in Task
    BY DEF RepairTypes
  <2> DEFINE task == [worker[w] EXCEPT !.step = "record", !.alert = f, !.status = s]
  <2>4. task \in Task /\ task.alert = f /\ worker' = [worker EXCEPT ![w] = task]
    BY <2>2, <2>3 DEF RepairTypes, Task
  <2> HIDE DEF task
  <2>5. f # NONE
    OBVIOUS
  <2>6. /\ worker' \in [Worker -> Task]
        /\ \A v \in Worker : worker'[v].step \in {"record", "announce"} => worker'[v].alert # NONE
    BY <2>4, <2>5, OneWorkerTypes
  <2>7. UNCHANGED <<open, attempts, announced, faults>>
    BY <2>1 DEF Decide
  <2> QED BY <2>6, <2>7 DEF RepairTypes
<1> QED BY <1>1, <1>2, <1>3, <1>4, <1>5, <1>6, <1>7, <1>8, <1>9 DEF Step

LEMMA NextTypes ==
  ASSUME RepairTypes, [Next]_vars PROVE RepairTypes'
<1>1. CASE \E w \in Worker : Step(w)
  BY <1>1, StepTypes
<1>2. CASE \E f \in Fingerprint : AlertChanges(f)
  BY <1>2 DEF AlertChanges, RepairTypes
<1>3. CASE UNCHANGED vars
  BY <1>3 DEF vars, RepairTypes
<1> QED BY <1>1, <1>2, <1>3 DEF Next

(* Every variable keeps its type, for every value of the constants.         *)
THEOREM RepairTypesCorrect == Spec => []RepairTypes
<1>1. Init => RepairTypes
  BY InitTypes
<1>2. RepairTypes /\ [Next]_vars => RepairTypes'
  BY NextTypes
<1> QED BY <1>1, <1>2, PTL DEF Spec

-----------------------------------------------------------------------------
(* What each step does to the rows and to a worker that is about to record  *)

(* A row is only ever added by Record; a worker only comes to record an     *)
(* alert by Decide, which finds no row of it, since no row of this code is  *)
(* a failed attempt.                                                        *)
LEMMA Undecided ==
  ASSUME RepairTypes, NEW f \in Fingerprint, ~decided(f)
  PROVE  attempts[f] = <<>>
<1> SUFFICES ASSUME attempts[f] # <<>> PROVE FALSE
  OBVIOUS
<1>1. attempts[f] \in Seq(Row) /\ Len(attempts[f]) \in 1..Len(attempts[f])
  BY DEF RepairTypes
<1> DEFINE last == attempts[f][Len(attempts[f])]
<1>2. last \in Row
  BY <1>1
<1> HIDE DEF last
<1>3. last.status # "failed"
  BY <1>2 DEF Row
<1> QED BY <1>3 DEF decided, isRedecidable, last

Recording(w, f) == worker[w].step = "record" /\ worker[w].alert = f

LEMMA DecideEffect ==
  ASSUME RepairTypes, NEW w \in Worker, NEW f \in Fingerprint, Decide(w, f)
  PROVE  /\ attempts[f] = <<>> /\ attempts' = attempts
         /\ \A v \in Worker \ {w} : worker'[v] = worker[v]
         /\ \A g \in Fingerprint : Recording(w, g)' => g = f
         /\ worker'[w].step = "record" /\ worker'[w].alert = f
         /\ worker'[w].status = "shadow" => evaluateRepairGate(f)
<1>1. attempts[f] = <<>>
  BY Undecided DEF Decide
<1>2. worker[w] \in Task /\ worker \in [Worker -> Task]
  BY DEF RepairTypes
<1> QED BY <1>1, <1>2 DEF Decide, Recording, Task

LEMMA RecordEffect ==
  ASSUME RepairTypes, NEW w \in Worker, Record(w)
  PROVE  /\ worker[w].alert \in Fingerprint
         /\ worker[w].status \in {"blocked", "shadow"}
         /\ attempts' = [attempts EXCEPT ![worker[w].alert] =
                           Append(@, [status |-> worker[w].status, by |-> w])]
         /\ \A v \in Worker \ {w} : worker'[v] = worker[v]
         /\ worker'[w].step # "record"
<1>1. worker[w] \in Task /\ worker[w].alert \in Fingerprint
  BY DEF RepairTypes, Record, Task
<1>2. ToAnnounce(w).step = "announce"
  BY <1>1 DEF ToAnnounce, Task
<1> QED BY <1>1, <1>2, NextAlertType DEF Record, RepairTypes, Task

LEMMA LoopEffect ==
  ASSUME RepairTypes, NEW w \in Worker, NEW f,
         FindActive(w) \/ AlreadyDecided(w, f)
  PROVE  /\ attempts' = attempts /\ announced' = announced
         /\ worker'[w].step = "alerts" /\ \A v \in Worker \ {w} : worker'[v] = worker[v]
<1>1. worker[w] \in Task /\ worker \in [Worker -> Task]
  BY DEF RepairTypes
<1>2. CASE FindActive(w)
  <2> DEFINE task == [worker[w] EXCEPT !.step = "alerts", !.left = open]
  <2>1. worker' = [worker EXCEPT ![w] = task] /\ task.step = "alerts"
    BY <1>1, <1>2 DEF FindActive, Task
  <2> HIDE DEF task
  <2> QED BY <1>1, <1>2, <2>1 DEF FindActive
<1>3. CASE AlreadyDecided(w, f)
  <2> DEFINE task == [worker[w] EXCEPT !.left = @ \ {f}]
  <2>1. worker' = [worker EXCEPT ![w] = task] /\ task.step = worker[w].step
    BY <1>1, <1>3 DEF AlreadyDecided, Skip, Task
  <2> HIDE DEF task
  <2> QED BY <1>1, <1>3, <2>1 DEF AlreadyDecided
<1> QED BY <1>2, <1>3

LEMMA OtherEffect ==
  ASSUME RepairTypes, [Next]_vars,
         ~ \E w \in Worker : Record(w) \/ \E f \in Fingerprint : Decide(w, f)
  PROVE  /\ attempts' = attempts
         /\ \A w \in Worker :
               worker'[w].step = "record" =>
                  /\ worker[w].step = "record" /\ worker'[w].alert = worker[w].alert
                  /\ worker'[w].status = worker[w].status
<1> USE DEF RepairTypes
<1>1. CASE \E w \in Worker : FindActive(w) \/ \E f \in Fingerprint : AlreadyDecided(w, f)
  <2>1. PICK w \in Worker : FindActive(w) \/ \E f \in Fingerprint : AlreadyDecided(w, f)
    BY <1>1
  <2>2. /\ attempts' = attempts /\ worker'[w].step = "alerts"
        /\ \A v \in Worker \ {w} : worker'[v] = worker[v]
    BY <2>1, LoopEffect
  <2> QED BY <2>2
<1>2. CASE \E w \in Worker : AnnounceBlocked(w) \/ FinishSweep(w) \/ AlertFails(w)
                             \/ AnnounceFails(w) \/ PodRestarts(w)
  <2>1. PICK w \in Worker : AnnounceBlocked(w) \/ FinishSweep(w) \/ AlertFails(w)
                            \/ AnnounceFails(w) \/ PodRestarts(w)
    BY <1>2
  <2>2. worker' = [worker EXCEPT ![w] = Idle] \/ worker' = [worker EXCEPT ![w] = NextAlert(w)]
    BY <2>1 DEF AnnounceBlocked, FinishSweep, AlertFails, AnnounceFails, GivesUp, PodRestarts
  <2>3. attempts' = attempts
    BY <2>1 DEF AnnounceBlocked, FinishSweep, AlertFails, AnnounceFails, PodRestarts
  <2> QED BY <2>2, <2>3, NextAlertType
<1>3. CASE (\E f \in Fingerprint : AlertChanges(f)) \/ UNCHANGED vars
  BY <1>3 DEF AlertChanges, vars
<1> QED BY <1>1, <1>2, <1>3 DEF Next, Step

-----------------------------------------------------------------------------
(* One decision per sweep and fingerprint *)

(* The rows of a fingerprint are by different sweeps.                       *)
DistinctSweeps ==
  \A f \in Fingerprint : \A i, j \in Rows(f) :
     attempts[f][i].by = attempts[f][j].by => i = j

(* A sweep about to record an alert has recorded no row of it before: it    *)
(* decided the alert when there was none.                                   *)
DecidesFirst ==
  \A w \in Worker, f \in Fingerprint : Recording(w, f) =>
     \A i \in Rows(f) : attempts[f][i].by # w

DecisionInv == RepairTypes /\ DistinctSweeps /\ DecidesFirst

LEMMA RecordDecides ==
  ASSUME DecisionInv, NEW w \in Worker, Record(w)
  PROVE  DistinctSweeps' /\ DecidesFirst'
<1> DEFINE entry == [status |-> worker[w].status, by |-> w]
<1>1. PICK f \in Fingerprint : f = worker[w].alert
  BY RecordEffect DEF DecisionInv
<1>2. attempts' = [attempts EXCEPT ![f] = Append(@, entry)]
  BY <1>1, RecordEffect DEF DecisionInv
<1>3. attempts \in [Fingerprint -> Seq(Row)] /\ entry.by = w /\ entry \in Row
  BY RecordEffect DEF DecisionInv, RepairTypes, Row
<1>4. \A g \in Fingerprint \ {f} : attempts'[g] = attempts[g]
  BY <1>2, <1>3
<1> HIDE DEF entry
<1>5. /\ Len(attempts'[f]) = Len(attempts[f]) + 1 /\ Len(attempts[f]) \in Nat
      /\ \A i \in 1..Len(attempts[f]) : attempts'[f][i] = attempts[f][i]
      /\ attempts'[f][Len(attempts[f]) + 1] = entry
  BY <1>2, <1>3
<1>6. \A i \in Rows(f) : attempts[f][i].by # w
  BY <1>1 DEF DecisionInv, DecidesFirst, Recording, Record
<1>7. \A i \in Rows(f)' :
         \/ i \in Rows(f) /\ attempts'[f][i] = attempts[f][i]
         \/ i = Len(attempts[f]) + 1 /\ attempts'[f][i].by = w
  BY <1>3, <1>5 DEF Rows
<1>8. DistinctSweeps'
  <2>1. \A i, j \in Rows(f)' : attempts'[f][i].by = attempts'[f][j].by => i = j
    BY <1>6, <1>7 DEF DecisionInv, DistinctSweeps
  <2>2. \A g \in Fingerprint \ {f} : \A i, j \in Rows(g)' :
           attempts'[g][i].by = attempts'[g][j].by => i = j
    BY <1>4 DEF DecisionInv, DistinctSweeps, Rows
  <2> QED BY <2>1, <2>2 DEF DistinctSweeps
<1>9. DecidesFirst'
  <2>1. \A v \in Worker, g \in Fingerprint : Recording(v, g)' => v # w /\ Recording(v, g)
    BY RecordEffect DEF Recording, DecisionInv
  <2>2. \A v \in Worker \ {w} : Recording(v, f) => \A i \in Rows(f)' : attempts'[f][i].by # v
    BY <1>7 DEF DecisionInv, DecidesFirst
  <2>3. \A v \in Worker, g \in Fingerprint \ {f} :
           Recording(v, g) => \A i \in Rows(g)' : attempts'[g][i].by # v
    BY <1>4 DEF DecisionInv, DecidesFirst, Rows
  <2> QED BY <2>1, <2>2, <2>3 DEF DecidesFirst
<1> QED BY <1>8, <1>9

LEMMA NextDecides ==
  ASSUME DecisionInv, [Next]_vars PROVE DecisionInv'
<1>1. RepairTypes'
  BY NextTypes DEF DecisionInv
<1>2. CASE \E w \in Worker : Record(w)
  BY <1>1, <1>2, RecordDecides DEF DecisionInv
<1>3. CASE \E w \in Worker, f \in Fingerprint : Decide(w, f)
  <2>1. PICK w \in Worker, f \in Fingerprint : Decide(w, f)
    BY <1>3
  <2>2. attempts' = attempts /\ Rows(f) = {}
    BY <2>1, DecideEffect DEF DecisionInv, Rows
  <2>3. \A v \in Worker, g \in Fingerprint : Recording(v, g)' => Recording(v, g) \/ g = f
    BY <2>1, DecideEffect DEF DecisionInv, Recording
  <2> QED BY <1>1, <2>2, <2>3 DEF DecisionInv, DistinctSweeps, DecidesFirst, Rows
<1>4. CASE ~ \E w \in Worker : Record(w) \/ \E f \in Fingerprint : Decide(w, f)
  <2>1. attempts' = attempts
    BY <1>4, OtherEffect DEF DecisionInv
  <2>2. \A v \in Worker, g \in Fingerprint : Recording(v, g)' => Recording(v, g)
    BY <1>4, OtherEffect DEF DecisionInv, Recording
  <2> QED BY <1>1, <2>1, <2>2 DEF DecisionInv, DistinctSweeps, DecidesFirst, Rows
<1> QED BY <1>2, <1>3, <1>4

(* However many sweeps overlap, fail or restart, a fingerprint has no more  *)
(* decisions than sweeps can run at a time (repair.service.ts:90-92).       *)
THEOREM DecisionsAreBounded == Spec => []DecisionsBounded
<1>1. Init => DecisionInv
  BY InitTypes DEF Init, Idle, DecisionInv, DistinctSweeps, DecidesFirst, Rows, Recording
<1>2. DecisionInv /\ [Next]_vars => DecisionInv'
  BY NextDecides
<1>3. ASSUME DecisionInv PROVE DecisionsBounded
  <2> SUFFICES ASSUME NEW f \in Fingerprint PROVE Len(attempts[f]) <= Cardinality(Worker)
    BY DEF DecisionsBounded
  <2> DEFINE writer == [i \in Rows(f) |-> attempts[f][i].by]
  <2>1. attempts[f] \in Seq(Row) /\ Len(attempts[f]) \in Nat
    BY <1>3 DEF DecisionInv, RepairTypes
  <2>2. writer \in Injection(Rows(f), Worker)
    <3>1. \A i \in Rows(f) : attempts[f][i] \in Row
      BY <2>1 DEF Rows
    <3>2. writer \in [Rows(f) -> Worker]
      BY <3>1 DEF Row
    <3>3. \A i, j \in Rows(f) : writer[i] = writer[j] => i = j
      BY <1>3 DEF DecisionInv, DistinctSweeps
    <3> HIDE DEF writer
    <3> QED BY <3>2, <3>3 DEF Injection, IsInjective
  <2> HIDE DEF writer
  <2>3. Cardinality(Rows(f)) <= Cardinality(Worker)
    BY <2>2, FS_Injection, RepairAssumption DEF RepairAssumption
  <2>4. Cardinality(Rows(f)) = Len(attempts[f])
    BY <2>1, FS_Interval DEF Rows
  <2> QED BY <2>3, <2>4
<1> QED BY <1>1, <1>2, <1>3, PTL DEF Spec

(* Between its lookup and its insert a sweep is alone with a fingerprint.   *)
LookupsApart ==
  \A f \in Fingerprint : \A v, w \in Worker : Recording(v, f) /\ Recording(w, f) => v = w

(* A sweep about to record a decision looked when there was none.           *)
StillUndecided == \A w \in Worker, f \in Fingerprint : Recording(w, f) => attempts[f] = <<>>

OnceInv == RepairTypes /\ OneDecisionEach /\ StillUndecided

LEMMA NextOnce ==
  ASSUME OnceInv, LookupsApart, [Next]_vars PROVE OnceInv'
<1>1. RepairTypes'
  BY NextTypes DEF OnceInv
<1>2. CASE \E w \in Worker : Record(w)
  <2>1. PICK w \in Worker : Record(w)
    BY <1>2
  <2> DEFINE entry == [status |-> worker[w].status, by |-> w]
  <2>2. PICK f \in Fingerprint : f = worker[w].alert
    BY <2>1, RecordEffect DEF OnceInv
  <2>3. attempts' = [attempts EXCEPT ![f] = Append(@, entry)] /\ entry \in Row
    BY <2>1, <2>2, RecordEffect DEF OnceInv, Row
  <2>4. Recording(w, f) /\ attempts[f] = <<>> /\ attempts \in [Fingerprint -> Seq(Row)]
    BY <2>1, <2>2 DEF OnceInv, StillUndecided, Recording, Record, RepairTypes
  <2> HIDE DEF entry
  <2>5. attempts'[f] = <<entry>> /\ \A g \in Fingerprint \ {f} : attempts'[g] = attempts[g]
    BY <2>3, <2>4
  <2>6. OneDecisionEach'
    <3>1. Len(attempts'[f]) <= 1
      BY <2>5
    <3>2. \A g \in Fingerprint \ {f} : Len(attempts'[g]) <= 1
      BY <2>5 DEF OnceInv, OneDecisionEach
    <3> QED BY <3>1, <3>2 DEF OneDecisionEach
  <2>7. \A v \in Worker, g \in Fingerprint : Recording(v, g)' => v # w /\ Recording(v, g)
    BY <2>1, RecordEffect DEF Recording, OnceInv
  <2>8. StillUndecided'
    BY <2>4, <2>5, <2>7 DEF OnceInv, StillUndecided, LookupsApart
  <2> QED BY <1>1, <2>6, <2>8 DEF OnceInv
<1>3. CASE \E w \in Worker, f \in Fingerprint : Decide(w, f)
  <2>1. PICK w \in Worker, f \in Fingerprint : Decide(w, f)
    BY <1>3
  <2>2. attempts' = attempts /\ attempts[f] = <<>>
    BY <2>1, DecideEffect DEF OnceInv
  <2>3. \A v \in Worker, g \in Fingerprint : Recording(v, g)' => Recording(v, g) \/ g = f
    BY <2>1, DecideEffect DEF OnceInv, Recording
  <2> QED BY <1>1, <2>2, <2>3 DEF OnceInv, OneDecisionEach, StillUndecided
<1>4. CASE ~ \E w \in Worker : Record(w) \/ \E f \in Fingerprint : Decide(w, f)
  <2>1. attempts' = attempts
    BY <1>4, OtherEffect DEF OnceInv
  <2>2. \A v \in Worker, g \in Fingerprint : Recording(v, g)' => Recording(v, g)
    BY <1>4, OtherEffect DEF OnceInv, Recording
  <2> QED BY <1>1, <2>1, <2>2 DEF OnceInv, OneDecisionEach, StillUndecided
<1> QED BY <1>2, <1>3, <1>4

(* A fingerprint gets its second decision only from sweeps of which two are *)
(* between the lookup and the insert at one time (repair.service.ts:93).    *)
THEOREM OnlyOverlapsDecideTwice == Spec /\ []LookupsApart => []OneDecisionEach
<1>1. Init => OnceInv
  BY InitTypes DEF Init, Idle, OnceInv, OneDecisionEach, StillUndecided, Recording
<1>2. OnceInv /\ LookupsApart /\ [Next]_vars => OnceInv'
  BY NextOnce
<1>3. OnceInv => OneDecisionEach
  BY DEF OnceInv
<1> QED BY <1>1, <1>2, <1>3, PTL DEF Spec

-----------------------------------------------------------------------------
(* Autonomy is opt-in *)

OptedIn(f) ==
  /\ About[f].service \in AutoFixEligible
  /\ About[f].service # "monitoring-microservice"
  /\ About[f].alertname # "LogIngestStale"

(* No entry of the ledger that is eligible is this service.                 *)
LEMMA NotItself == "monitoring-microservice" \notin AutoFixEligible
  BY DEF AutoFixEligible, Kinds, Eligible

LEMMA GateOptsIn ==
  ASSUME NEW f \in Fingerprint, evaluateRepairGate(f) PROVE OptedIn(f)
  BY NotItself DEF evaluateRepairGate, OptedIn, SELF_REFERENTIAL_ALERTS, isAutoFixEligible

(* A decision to repair passed the gate before it was recorded.             *)
ShadowsOptedIn ==
  \A w \in Worker, f \in Fingerprint :
     Recording(w, f) /\ worker[w].status = "shadow" => OptedIn(f)

OptInv == RepairTypes /\ OptInOnly /\ ShadowsOptedIn

LEMMA NextOptsIn ==
  ASSUME OptInv, [Next]_vars PROVE OptInv'
<1>1. RepairTypes'
  BY NextTypes DEF OptInv
<1>2. CASE \E w \in Worker : Record(w)
  <2>1. PICK w \in Worker : Record(w)
    BY <1>2
  <2> DEFINE entry == [status |-> worker[w].status, by |-> w]
  <2>2. PICK f \in Fingerprint : f = worker[w].alert
    BY <2>1, RecordEffect DEF OptInv
  <2>3. attempts \in [Fingerprint -> Seq(Row)] /\ entry \in Row
    BY <2>1, RecordEffect DEF OptInv, RepairTypes, Row
  <2>4. attempts' = [attempts EXCEPT ![f] = Append(@, entry)]
    BY <2>1, <2>2, RecordEffect DEF OptInv
  <2>5. entry.status = "shadow" => OptedIn(f)
    BY <2>1, <2>2 DEF OptInv, ShadowsOptedIn, Recording, Record
  <2> HIDE DEF entry
  <2>6. \A g \in Fingerprint : \A i \in Rows(g)' :
           \/ i \in Rows(g) /\ attempts'[g][i] = attempts[g][i]
           \/ g = f /\ attempts'[g][i] = entry
    BY <2>3, <2>4 DEF Rows
  <2>7. OptInOnly'
    BY <2>5, <2>6 DEF OptInv, OptInOnly, OptedIn
  <2>8. \A v \in Worker, g \in Fingerprint :
           Recording(v, g)' => Recording(v, g) /\ worker'[v] = worker[v]
    BY <2>1, RecordEffect DEF OptInv, Recording
  <2>9. ShadowsOptedIn'
    BY <2>8 DEF OptInv, ShadowsOptedIn, OptedIn
  <2> QED BY <1>1, <2>7, <2>9 DEF OptInv
<1>3. CASE \E w \in Worker, f \in Fingerprint : Decide(w, f)
  <2>1. PICK w \in Worker, f \in Fingerprint : Decide(w, f)
    BY <1>3
  <2>2. attempts' = attempts
    BY <2>1, DecideEffect DEF OptInv
  <2>3. worker'[w].status = "shadow" => OptedIn(f)
    BY <2>1, DecideEffect, GateOptsIn DEF OptInv
  <2>4. \A v \in Worker \ {w}, g \in Fingerprint :
           Recording(v, g)' => Recording(v, g) /\ worker'[v] = worker[v]
    BY <2>1, DecideEffect DEF OptInv, Recording
  <2>5. \A g \in Fingerprint : Recording(w, g)' => g = f
    BY <2>1, DecideEffect DEF OptInv
  <2>6. ShadowsOptedIn'
    BY <2>3, <2>4, <2>5 DEF OptInv, ShadowsOptedIn, OptedIn
  <2> QED BY <1>1, <2>2, <2>6 DEF OptInv, OptInOnly, Rows
<1>4. CASE ~ \E w \in Worker : Record(w) \/ \E f \in Fingerprint : Decide(w, f)
  <2>1. attempts' = attempts
    BY <1>4, OtherEffect DEF OptInv
  <2>2. \A v \in Worker, g \in Fingerprint :
           Recording(v, g)' => Recording(v, g) /\ worker'[v].status = worker[v].status
    BY <1>4, OtherEffect DEF OptInv, Recording
  <2>3. ShadowsOptedIn'
    BY <2>2 DEF OptInv, ShadowsOptedIn, OptedIn
  <2> QED BY <1>1, <2>1, <2>3 DEF OptInv, OptInOnly, Rows
<1> QED BY <1>2, <1>3, <1>4

(* What would be repaired is in the ledger, marked eligible, and not this   *)
(* service: for any alerts, ledger entries as they are.                     *)
THEOREM AutonomyIsOptIn == Spec => []OptInOnly
<1>1. Init => OptInv
  BY InitTypes DEF Init, Idle, OptInv, OptInOnly, ShadowsOptedIn, Rows, Recording
<1>2. OptInv /\ [Next]_vars => OptInv'
  BY NextOptsIn
<1>3. OptInv => OptInOnly
  BY DEF OptInv
<1> QED BY <1>1, <1>2, <1>3, PTL DEF Spec

-----------------------------------------------------------------------------
(* An escalation is announced at most once *)

LEMMA CountsAreFinite ==
  ASSUME RepairTypes, NEW f \in Fingerprint
  PROVE  /\ IsFiniteSet(Blocked(f)) /\ Cardinality(Blocked(f)) \in Nat
         /\ IsFiniteSet(Announcing(f)) /\ Cardinality(Announcing(f)) \in Nat
<1>1. Len(attempts[f]) \in Nat
  BY DEF RepairTypes
<1>2. IsFiniteSet(Rows(f)) /\ Blocked(f) \subseteq Rows(f)
  BY <1>1, FS_Interval DEF Rows, Blocked
<1>3. IsFiniteSet(Worker) /\ Announcing(f) \subseteq Worker
  BY RepairAssumption DEF RepairAssumption, Announcing
<1> QED BY <1>2, <1>3, FS_Subset, FS_CardinalityType

(* A worker that leaves its announcement frees one, if it was the alert's.  *)
LEMMA StopsAnnouncing ==
  ASSUME RepairTypes, RepairTypes', NEW f \in Fingerprint, NEW w \in Announcing(f),
         Announcing(f)' = Announcing(f) \ {w}
  PROVE  Cardinality(Announcing(f))' = Cardinality(Announcing(f)) - 1
  BY CountsAreFinite, FS_RemoveElement

LEMMA RecordAnnounces ==
  ASSUME RepairTypes, RepairTypes', AnnouncedOnce, NEW w \in Worker, Record(w)
  PROVE  AnnouncedOnce'
<1> DEFINE entry == [status |-> worker[w].status, by |-> w]
<1>1. PICK f \in Fingerprint : f = worker[w].alert
  BY RecordEffect
<1>2. attempts \in [Fingerprint -> Seq(Row)] /\ entry \in Row /\ entry.status = worker[w].status
  BY RecordEffect DEF RepairTypes, Row
<1>3. attempts' = [attempts EXCEPT ![f] = Append(@, entry)]
  BY <1>1, RecordEffect
<1> HIDE DEF entry
<1>4. /\ Len(attempts[f]) \in Nat /\ Len(attempts'[f]) = Len(attempts[f]) + 1
      /\ \A i \in 1..Len(attempts[f]) : attempts'[f][i] = attempts[f][i]
      /\ attempts'[f][Len(attempts[f]) + 1] = entry
  BY <1>2, <1>3
<1>5. \A v \in Worker \ {w} : worker'[v] = worker[v]
  BY RecordEffect
<1>6. announced' = announced /\ worker[w].step = "record"
  BY DEF Record
<1>7. ASSUME NEW g \in Fingerprint \ {f}
      PROVE  /\ Blocked(g)' = Blocked(g) /\ Announcing(g)' = Announcing(g)
  <2>1. attempts'[g] = attempts[g]
    BY <1>2, <1>3
  <2>2. ~(worker'[w].step = "announce" /\ worker'[w].alert = g)
    <3>1. worker[w] \in Task
      BY DEF RepairTypes
    <3>2. ToAnnounce(w).alert = f
      BY <1>1, <3>1 DEF ToAnnounce, Task
    <3> QED BY <3>2, NextAlertType DEF Record, RepairTypes
  <2> QED BY <1>5, <1>6, <2>1, <2>2 DEF Blocked, Rows, Announcing
<1>8. announced'[f] + Cardinality(Announcing(f)') <= Cardinality(Blocked(f)')
  <2>1. CASE worker[w].status = "shadow"
    <3>1. Blocked(f)' = Blocked(f)
      BY <1>2, <1>4, <2>1 DEF Blocked, Rows
    <3>2. worker'[w].step # "announce"
      BY <2>1, NextAlertType DEF Record, RepairTypes
    <3>3. Announcing(f)' = Announcing(f)
      BY <1>5, <1>6, <3>2 DEF Announcing
    <3> QED BY <1>6, <3>1, <3>3 DEF AnnouncedOnce
  <2>2. CASE worker[w].status = "blocked"
    <3>1. Blocked(f)' = Blocked(f) \cup {Len(attempts[f]) + 1}
      BY <1>2, <1>4, <2>2 DEF Blocked, Rows
    <3>2. Len(attempts[f]) + 1 \notin Blocked(f)
      BY <1>4 DEF Blocked, Rows
    <3>3. Cardinality(Blocked(f)') = Cardinality(Blocked(f)) + 1
      BY <3>1, <3>2, CountsAreFinite, FS_AddElement
    <3>4. worker[w] \in Task
      BY DEF RepairTypes
    <3>5. worker'[w].step = "announce" /\ worker'[w].alert = f
      BY <1>1, <2>2, <3>4 DEF Record, ToAnnounce, RepairTypes, Task
    <3>6. Announcing(f)' = Announcing(f) \cup {w} /\ w \notin Announcing(f)
      BY <1>5, <1>6, <3>5 DEF Announcing
    <3>7. Cardinality(Announcing(f)') = Cardinality(Announcing(f)) + 1
      BY <3>6, CountsAreFinite, FS_AddElement
    <3>8. announced[f] \in Nat
      BY DEF RepairTypes
    <3> QED BY <1>6, <3>3, <3>7, <3>8, CountsAreFinite DEF AnnouncedOnce
  <2> QED BY <2>1, <2>2, RecordEffect
<1> QED BY <1>6, <1>7, <1>8 DEF AnnouncedOnce

LEMMA AnnounceAnnounces ==
  ASSUME RepairTypes, RepairTypes', AnnouncedOnce, NEW w \in Worker,
         AnnounceBlocked(w) \/ AnnounceFails(w)
  PROVE  AnnouncedOnce'
<1>1. PICK f \in Fingerprint : f = worker[w].alert
  BY DEF AnnounceBlocked, AnnounceFails, RepairTypes, Task
<1>2. worker[w].step = "announce" /\ attempts' = attempts
  BY DEF AnnounceBlocked, AnnounceFails
<1>3. worker' = [worker EXCEPT ![w] = NextAlert(w)]
  BY DEF AnnounceBlocked, AnnounceFails, GivesUp
<1>4. worker'[w].step # "announce" /\ \A v \in Worker \ {w} : worker'[v] = worker[v]
  BY <1>3, NextAlertType DEF RepairTypes
<1>5. \A g \in Fingerprint : Blocked(g)' = Blocked(g)
  BY <1>2 DEF Blocked, Rows
<1>6. \A g \in Fingerprint \ {f} : announced'[g] = announced[g] /\ Announcing(g)' = Announcing(g)
  BY <1>1, <1>4 DEF AnnounceBlocked, AnnounceFails, Announcing, RepairTypes
<1>7. announced[f] \in Nat /\ (announced'[f] = announced[f] \/ announced'[f] = announced[f] + 1)
  BY <1>1 DEF AnnounceBlocked, AnnounceFails, RepairTypes
<1>8. w \in Announcing(f) /\ Announcing(f)' = Announcing(f) \ {w}
  BY <1>1, <1>2, <1>4 DEF Announcing
<1>9. Cardinality(Announcing(f)') = Cardinality(Announcing(f)) - 1
  BY <1>8, StopsAnnouncing
<1>10. announced'[f] + Cardinality(Announcing(f)') <= Cardinality(Blocked(f)')
  BY <1>5, <1>7, <1>9, CountsAreFinite DEF AnnouncedOnce
<1> QED BY <1>5, <1>6, <1>10 DEF AnnouncedOnce

LEMMA NextAnnounces ==
  ASSUME RepairTypes, AnnouncedOnce, [Next]_vars PROVE AnnouncedOnce'
<1>1. RepairTypes'
  BY NextTypes
<1>2. CASE \E w \in Worker : Record(w)
  BY <1>1, <1>2, RecordAnnounces
<1>3. CASE \E w \in Worker : AnnounceBlocked(w) \/ AnnounceFails(w)
  BY <1>1, <1>3, AnnounceAnnounces
<1>4. CASE ~ \E w \in Worker : Record(w) \/ AnnounceBlocked(w) \/ AnnounceFails(w)
  <2>1. /\ attempts' = attempts /\ announced' = announced
        /\ \A w \in Worker, f \in Fingerprint :
              worker'[w].step = "announce" /\ worker'[w].alert = f
                 => worker[w].step = "announce" /\ worker[w].alert = f
    <3>1. CASE \E w \in Worker : FindActive(w) \/ \E f \in Fingerprint : AlreadyDecided(w, f)
      BY <3>1, LoopEffect
    <3>2. CASE \E w \in Worker, f \in Fingerprint : Decide(w, f)
      BY <3>2, DecideEffect DEF Decide
    <3>3. CASE \E w \in Worker : FinishSweep(w) \/ AlertFails(w) \/ PodRestarts(w)
      BY <3>3, NextAlertType DEF FinishSweep, AlertFails, PodRestarts, RepairTypes
    <3>4. CASE (\E f \in Fingerprint : AlertChanges(f)) \/ UNCHANGED vars
      BY <3>4 DEF AlertChanges, vars
    <3> QED BY <1>4, <3>1, <3>2, <3>3, <3>4 DEF Next, Step
  <2> SUFFICES ASSUME NEW f \in Fingerprint
               PROVE  announced'[f] + Cardinality(Announcing(f)') <= Cardinality(Blocked(f)')
    BY DEF AnnouncedOnce
  <2>2. Blocked(f)' = Blocked(f)
    BY <2>1 DEF Blocked, Rows
  <2>3. Announcing(f)' \subseteq Announcing(f)
    BY <2>1 DEF Announcing
  <2>4. Cardinality(Announcing(f)') <= Cardinality(Announcing(f))
    BY <2>3, CountsAreFinite, FS_Subset
  <2>5. announced[f] \in Nat /\ Cardinality(Announcing(f)') \in Nat
    BY <2>3, CountsAreFinite, FS_Subset, FS_CardinalityType DEF RepairTypes
  <2> QED BY <2>1, <2>2, <2>4, <2>5, CountsAreFinite DEF AnnouncedOnce
<1> QED BY <1>2, <1>3, <1>4

(* Each announcement is of a recorded decision of its own: a send that      *)
(* fails, or a sweep that starts over, announces nothing again.             *)
THEOREM EscalationsAnnouncedOnce == Spec => []AnnouncedOnce
<1>1. ASSUME Init PROVE AnnouncedOnce
  <2> SUFFICES ASSUME NEW f \in Fingerprint
               PROVE  announced[f] + Cardinality(Announcing(f)) <= Cardinality(Blocked(f))
    BY DEF AnnouncedOnce
  <2>1. announced[f] = 0 /\ Announcing(f) = {} /\ Blocked(f) = {}
    BY <1>1 DEF Init, Idle, Announcing, Blocked, Rows
  <2> QED BY <2>1, FS_EmptySet
<1>2. Init => RepairTypes /\ AnnouncedOnce
  BY <1>1, InitTypes
<1>3. RepairTypes /\ AnnouncedOnce /\ [Next]_vars => (RepairTypes /\ AnnouncedOnce)'
  BY NextTypes, NextAnnounces
<1> QED BY <1>2, <1>3, PTL DEF Spec

-----------------------------------------------------------------------------
(* One failure costs one alert *)

(* The alerts of Kept that w's sweep has left behind without a decision, but*)
(* for those whose decision can never be recorded.                          *)
Undealt(w, Kept) == {f \in (Kept \ Poison) \ worker[w].left : attempts[f] = <<>>}

PaidFor(w, Kept, F) ==
    /\ F <= faults
    /\ worker[w].step # "idle" => Cardinality(Undealt(w, Kept)) <= faults - F
    /\ worker[w].step = "announce" => attempts[worker[w].alert] # <<>>

LEMMA OneMore ==
  ASSUME NEW S, IsFiniteSet(S), NEW T, NEW x, T \subseteq S \cup {x}
  PROVE  /\ Cardinality(T) \in Nat /\ Cardinality(S) \in Nat
         /\ Cardinality(T) <= Cardinality(S) + 1
         /\ T \subseteq S => Cardinality(T) <= Cardinality(S)
<1>1. IsFiniteSet(S \cup {x}) /\ Cardinality(S \cup {x}) \in Nat
      /\ Cardinality(S \cup {x}) <= Cardinality(S) + 1 /\ Cardinality(S) \in Nat
  BY FS_AddElement, FS_CardinalityType
<1>2. Cardinality(T) <= Cardinality(S \cup {x}) /\ Cardinality(T) \in Nat
  BY <1>1, FS_Subset, FS_CardinalityType
<1>3. T \subseteq S => Cardinality(T) <= Cardinality(S)
  BY FS_Subset
<1> QED BY <1>1, <1>2, <1>3

(* A step after which nobody is newly without a decision, or one alert that *)
(* a failure was spent on.                                                  *)
LEMMA PaidStep ==
  ASSUME RepairTypes, NEW w \in Worker, NEW Kept, IsFiniteSet(Kept), NEW F \in Nat,
         PaidFor(w, Kept, F),
         worker[w].step # "idle", NEW f, Undealt(w, Kept)' \subseteq Undealt(w, Kept) \cup {f},
         \/ Undealt(w, Kept)' \subseteq Undealt(w, Kept) /\ faults' \in {faults, faults + 1}
         \/ faults' = faults + 1,
         worker'[w].step = "announce" => attempts'[worker'[w].alert] # <<>>
  PROVE  PaidFor(w, Kept, F)'
<1> DEFINE Before == Undealt(w, Kept)
           After == Undealt(w, Kept)'
<1>1. IsFiniteSet(Before)
  <2>1. Before \subseteq Kept
    BY DEF Undealt
  <2> QED BY <2>1, FS_Subset
<1>2. /\ Cardinality(After) \in Nat /\ Cardinality(Before) \in Nat
      /\ Cardinality(After) <= Cardinality(Before) + 1
      /\ After \subseteq Before => Cardinality(After) <= Cardinality(Before)
  BY <1>1, OneMore
<1>3. faults \in Nat /\ F <= faults /\ Cardinality(Before) <= faults - F
  BY RepairAssumption DEF RepairAssumption, RepairTypes, PaidFor
<1>4. \/ After \subseteq Before /\ faults' \in {faults, faults + 1}
      \/ faults' = faults + 1
  OBVIOUS
<1> HIDE DEF Before, After
<1>5. F <= faults' /\ Cardinality(After) <= faults' - F
  BY <1>2, <1>3, <1>4
<1> QED BY <1>5 DEF After, PaidFor

(* Whatever a step does, it removes no row and spends at most one failure.  *)
LEMMA RowsStay ==
  ASSUME RepairTypes, [Next]_vars
  PROVE  /\ \A f \in Fingerprint : attempts[f] # <<>> => attempts'[f] # <<>>
         /\ faults' \in {faults, faults + 1}
<1>1. faults' \in {faults, faults + 1}
  BY DEF Next, Step, FindActive, Record, AnnounceBlocked, FinishSweep, AlertFails, AnnounceFails,
         PodRestarts, AlreadyDecided, Decide, AlertChanges, vars, Fault, NoFault
<1>2. CASE \E w \in Worker : Record(w)
  <2>1. PICK w \in Worker : Record(w)
    BY <1>2
  <2> DEFINE entry == [status |-> worker[w].status, by |-> w]
  <2>2. attempts' = [attempts EXCEPT ![worker[w].alert] = Append(@, entry)] /\ entry \in Row
    BY <2>1, RecordEffect DEF Row
  <2> HIDE DEF entry
  <2>3. ASSUME NEW f \in Fingerprint, attempts[f] # <<>> PROVE attempts'[f] # <<>>
    <3>1. attempts[f] \in Seq(Row)
      BY DEF RepairTypes
    <3>2. Append(attempts[f], entry) # <<>>
      BY <2>2, <3>1
    <3> QED BY <2>2, <2>3, <3>2 DEF RepairTypes
  <2> QED BY <1>1, <2>3
<1>3. CASE ~ \E w \in Worker : Record(w)
  <2>1. attempts' = attempts
    <3>1. CASE \E w \in Worker : \E f \in Fingerprint : Decide(w, f)
      BY <3>1 DEF Decide
    <3>2. CASE ~ \E w \in Worker : \E f \in Fingerprint : Decide(w, f)
      BY <1>3, <3>2, OtherEffect
    <3> QED BY <3>1, <3>2
  <2> QED BY <1>1, <2>1
<1> QED BY <1>2, <1>3

(* A step of w itself.                                                      *)
LEMMA StepPaidFor ==
  ASSUME RepairTypes, NEW w \in Worker, NEW Kept \in SUBSET Fingerprint,
         IsFiniteSet(Kept), NEW F \in Nat, Kept \subseteq open, PaidFor(w, Kept, F), Step(w)
  PROVE  PaidFor(w, Kept, F)'
<1>1. /\ \A f \in Fingerprint : attempts[f] # <<>> => attempts'[f] # <<>>
      /\ faults' \in {faults, faults + 1}
  BY RowsStay DEF Next
<1>2. worker[w] \in Task /\ worker \in [Worker -> Task] /\ faults \in Nat /\ F <= faults
  BY RepairAssumption DEF RepairAssumption, RepairTypes, PaidFor
<1> DEFINE Same == Undealt(w, Kept)' \subseteq Undealt(w, Kept)
<1>3. CASE FindActive(w)
  <2>1. worker'[w].left = open /\ worker'[w].step = "alerts"
    BY <1>2, <1>3 DEF FindActive, Task
  <2>2. Undealt(w, Kept)' = {}
    BY <2>1 DEF Undealt
  <2>3. Cardinality(Undealt(w, Kept)') = 0
    BY <2>2, FS_EmptySet
  <2>4. F <= faults' /\ 0 <= faults' - F
    <3>1. \A m, n \in Nat : F <= m /\ n \in {m, m + 1} => F <= n /\ 0 <= n - F
      OBVIOUS
    <3>2. faults \in Nat /\ faults' \in Nat /\ F <= faults /\ faults' \in {faults, faults + 1}
      BY <1>1, <1>2
    <3> QED BY <3>1, <3>2
  <2> QED BY <2>1, <2>3, <2>4 DEF PaidFor
<1>4. CASE FinishSweep(w) \/ PodRestarts(w)
  <2>1. worker'[w].step = "idle"
    BY <1>2, <1>4, NextAlertType DEF FinishSweep, PodRestarts
  <2> QED BY <1>1, <1>2, <2>1 DEF PaidFor
<1>5. ASSUME NEW f \in Fingerprint, AlreadyDecided(w, f) PROVE PaidFor(w, Kept, F)'
  <2>1. /\ worker'[w].left = worker[w].left \ {f} /\ worker'[w].step = "alerts"
        /\ worker[w].step = "alerts" /\ attempts[f] # <<>>
    BY <1>2, <1>5 DEF AlreadyDecided, Skip, decided, Task
  <2>2. Same
    BY <1>1, <2>1 DEF Undealt
  <2> QED BY <1>1, <2>1, <2>2, PaidStep
<1>6. ASSUME NEW f \in Fingerprint, Decide(w, f) PROVE PaidFor(w, Kept, F)'
  <2>1. /\ worker'[w].left = worker[w].left /\ worker'[w].step = "record"
        /\ worker[w].step = "alerts"
    BY <1>2, <1>6 DEF Decide, Task
  <2>2. Same
    BY <1>1, <2>1 DEF Undealt
  <2> QED BY <1>1, <2>1, <2>2, PaidStep
<1>7. CASE Record(w)
  <2>1. PICK f \in Fingerprint : f = worker[w].alert
    BY RecordEffect, <1>7
  <2> DEFINE entry == [status |-> worker[w].status, by |-> w]
  <2>2. attempts' = [attempts EXCEPT ![f] = Append(@, entry)] /\ entry \in Row
    BY <1>7, <2>1, RecordEffect DEF Row
  <2> HIDE DEF entry
  <2>3. attempts[f] \in Seq(Row) /\ attempts'[f] = Append(attempts[f], entry)
    BY <2>2 DEF RepairTypes
  <2>4. attempts'[f] # <<>>
    <3>1. Append(attempts[f], entry) # <<>>
      BY <2>2, <2>3
    <3> QED BY <2>3, <3>1
  <2>5. worker'[w] \in {NextAlert(w), ToAnnounce(w)}
    BY <1>2, <1>7 DEF Record
  <2>6. /\ worker'[w].left \in {worker[w].left, worker[w].left \ {f}}
        /\ worker'[w].step = "announce" => worker'[w].alert = f
    BY <1>2, <2>1, <2>5 DEF NextAlert, ToAnnounce, Idle, Task
  <2>7. Same
    BY <1>1, <2>4, <2>6 DEF Undealt
  <2>8. worker[w].step # "idle"
    BY <1>7 DEF Record
  <2> QED BY <1>1, <2>4, <2>6, <2>7, <2>8, PaidStep
<1>8. CASE AnnounceBlocked(w) \/ AnnounceFails(w)
  <2>1. worker[w].step = "announce" /\ worker'[w] = NextAlert(w)
    BY <1>2, <1>8 DEF AnnounceBlocked, AnnounceFails, GivesUp
  <2>2. /\ worker'[w].left = worker[w].left \ {worker[w].alert} /\ worker'[w].step = "alerts"
        /\ attempts[worker[w].alert] # <<>> /\ worker[w].alert \in Fingerprint
    BY <1>2, <2>1 DEF NextAlert, Idle, PaidFor, RepairTypes, Task
  <2>3. Same
    BY <1>1, <2>2 DEF Undealt
  <2> QED BY <1>1, <2>1, <2>2, <2>3, PaidStep
<1>9. CASE AlertFails(w)
  <2>1. worker[w].step = "record" /\ worker'[w] = NextAlert(w)
    BY <1>2, <1>9 DEF AlertFails
  <2>2. worker'[w].left = worker[w].left \ {worker[w].alert} /\ worker'[w].step = "alerts"
    BY <2>1 DEF NextAlert, Idle
  <2>3. Undealt(w, Kept)' \subseteq Undealt(w, Kept) \cup {worker[w].alert}
    BY <1>1, <2>2 DEF Undealt
  <2>4. worker[w].alert \in Poison => Same
    BY <2>3 DEF Undealt
  <2>5. worker[w].alert \notin Poison => faults' = faults + 1
    BY <1>9 DEF AlertFails, Fault
  <2> QED BY <1>1, <2>1, <2>2, <2>3, <2>4, <2>5, PaidStep
<1> QED BY <1>3, <1>4, <1>5, <1>6, <1>7, <1>8, <1>9 DEF Step

LEMMA NextPaidFor ==
  ASSUME RepairTypes, NEW w \in Worker, NEW Kept \in SUBSET Fingerprint,
         IsFiniteSet(Kept), NEW F \in Nat, Kept \subseteq open, PaidFor(w, Kept, F), [Next]_vars
  PROVE  PaidFor(w, Kept, F)'
<1>1. CASE Step(w)
  BY <1>1, StepPaidFor
<1>2. CASE ~Step(w)
  <2>1. /\ \A f \in Fingerprint : attempts[f] # <<>> => attempts'[f] # <<>>
        /\ faults' \in {faults, faults + 1}
    BY RowsStay
  <2>2. worker'[w] = worker[w]
    <3>1. CASE \E v \in Worker : Step(v)
      <4>1. PICK v \in Worker : Step(v)
        BY <3>1
      <4>2. v # w
        BY <1>2, <4>1
      <4> QED BY <4>1, <4>2, LoopEffect, DecideEffect, RecordEffect
         DEF RepairTypes, Step, AnnounceBlocked, FinishSweep, AlertFails, AnnounceFails, PodRestarts
    <3>2. CASE (\E f \in Fingerprint : AlertChanges(f)) \/ UNCHANGED vars
      BY <3>2 DEF AlertChanges, vars
    <3> QED BY <3>1, <3>2 DEF Next
  <2>3. Undealt(w, Kept)' \subseteq Undealt(w, Kept)
    BY <2>1, <2>2 DEF Undealt
  <2>4. worker[w].step = "announce" => worker[w].alert \in Fingerprint
    BY DEF RepairTypes, Task
  <2>5. CASE worker[w].step = "idle"
    <3>1. faults \in Nat /\ F <= faults
      BY RepairAssumption DEF RepairAssumption, RepairTypes, PaidFor
    <3> QED BY <2>1, <2>2, <2>5, <3>1 DEF PaidFor
  <2>6. CASE worker[w].step # "idle"
    <3>1. worker'[w].step = "announce" => attempts'[worker'[w].alert] # <<>>
      BY <2>1, <2>2, <2>4 DEF PaidFor
    <3>2. Undealt(w, Kept)' \subseteq Undealt(w, Kept) \cup {NONE}
      BY <2>3
    <3> QED BY <2>1, <2>3, <2>6, <3>1, <3>2, PaidStep
  <2> QED BY <2>5, <2>6
<1> QED BY <1>1, <1>2

(* One undecidable alert never stops the sweep: of the alerts that were open*)
(* from its start to its end, all but those whose decision can never be     *)
(* recorded are decided, by it or by a sweep it overlaps with, short of one *)
(* for each call that failed meanwhile (repair.service.ts:70-83).           *)
THEOREM OneFailureCostsOneAlert ==
  ASSUME NEW w \in Worker, NEW Kept \in SUBSET Fingerprint, IsFiniteSet(Kept), NEW F \in Nat
  PROVE  Spec =>
           [](worker[w].step = "idle" /\ faults = F /\ [](Kept \subseteq open)
                => [](worker[w].step = "alerts" /\ worker[w].left = {}
                        => Cardinality({f \in Kept \ Poison : attempts[f] = <<>>}) <= faults - F))
<1>1. worker[w].step = "idle" /\ faults = F => PaidFor(w, Kept, F)
  BY DEF PaidFor
<1>2. RepairTypes /\ Kept \subseteq open /\ PaidFor(w, Kept, F) /\ [Next]_vars
        => PaidFor(w, Kept, F)'
  BY NextPaidFor
<1>3. PaidFor(w, Kept, F)
        => (worker[w].step = "alerts" /\ worker[w].left = {}
              => Cardinality({f \in Kept \ Poison : attempts[f] = <<>>}) <= faults - F)
  <2> SUFFICES ASSUME PaidFor(w, Kept, F), worker[w].step = "alerts", worker[w].left = {}
               PROVE  Cardinality({f \in Kept \ Poison : attempts[f] = <<>>}) <= faults - F
    OBVIOUS
  <2>1. Undealt(w, Kept) = {f \in Kept \ Poison : attempts[f] = <<>>}
    BY DEF Undealt
  <2> QED BY <2>1 DEF PaidFor
<1> QED BY <1>1, <1>2, <1>3, RepairTypesCorrect, PTL DEF Spec

-----------------------------------------------------------------------------
(* The repair verifier *)

(* What the checks say does not depend on how long the window is.           *)
LEMMA LaterType ==
  ASSUME NEW bound \in Nat, NEW t \in 0..bound
  PROVE  Later(t, bound) \in 0..bound /\ t <= Later(t, bound) /\ Later(t, bound) <= t + 1
  BY DEF Later

(* A check, one by one: it reads the world and leaves it alone.             *)
LEMMA VerifyStepTypes ==
  ASSUME VerifierTypes, VerifyStep PROVE VerifierTypes' /\ UNCHANGED worldVars
<1> USE DEF VerifierTypes, Told, Result, worldVars, passes
<1>1. ASSUME NEW answer \in BOOLEAN \cup {NONE},
             CheckRollout(answer) \/ CheckHealth(answer) \/ CheckNoCollateral(answer)
      PROVE  VerifierTypes' /\ UNCHANGED worldVars
  BY <1>1 DEF CheckRollout, CheckHealth, CheckNoCollateral
<1>2. CASE CheckCronJobSucceeded \/ CheckErrorsStopped
  BY <1>2 DEF CheckCronJobSucceeded, CheckErrorsStopped
<1>3. CASE CheckCoverage \/ CoverageRefuses
  BY <1>3 DEF CheckCoverage, CoverageRefuses
<1> QED BY <1>1, <1>2, <1>3 DEF VerifyStep

(* The ages keep their types apart from the flags.                          *)
Ages ==
    /\ erred \in 0..WINDOW /\ indexed \in 0..WINDOW /\ observed \in 0..WINDOW
    /\ shipped \in 0..(STALE + 1) /\ seenFor \in 0..WINDOW

Flags ==
    /\ kind \in {"k8s-cronjob", "k8s-deployment"}
    /\ ran \in BOOLEAN /\ shipping \in BOOLEAN /\ ok \in BOOLEAN /\ blind \in BOOLEAN
    /\ check \in {"V1", "V2", "V3 job", "V3 coverage", "V3 errors", "V4", "done"}

(* What a minute does to every age.                                         *)
LEMMA MinuteAges ==
  ASSUME Ages, MinutePasses
  PROVE  /\ Ages'
         /\ erred' \in {erred + 1, WINDOW} /\ observed' <= observed + 1
         /\ indexed' <= indexed + 1 /\ seenFor' \in {0, seenFor + 1, WINDOW}
         /\ seenFor' <= seenFor + 1
<1> USE VerifierAssumption DEF Ages
<1>1. /\ erred' = Later(erred, WINDOW) /\ indexed' = Later(indexed, WINDOW)
      /\ observed' = Later(observed, WINDOW)
  BY DEF MinutePasses
<1>2. shipped' = 0 \/ shipped' = Later(shipped, STALE + 1)
  BY DEF MinutePasses
<1>3. seenFor' = 0 \/ seenFor' = Later(seenFor, WINDOW)
  BY DEF MinutePasses
<1> QED BY <1>1, <1>2, <1>3 DEF Later

(* The world, step by step: it leaves the verification alone.               *)
LEMMA WorldTypes ==
  ASSUME VerifierTypes, World PROVE VerifierTypes' /\ Unverified
<1>1. Unverified
  BY DEF World, JobSucceeds, ServiceFails, ShippingChanges, IndexRestarts, MinutePasses
<1>2. Flags /\ Ages
  BY DEF VerifierTypes, Flags, Ages
<1>3. ran' \in BOOLEAN /\ shipping' \in BOOLEAN
  BY <1>2 DEF World, JobSucceeds, ServiceFails, ShippingChanges, IndexRestarts, MinutePasses,
              Flags
<1>4. Flags'
  BY <1>1, <1>2, <1>3 DEF Flags, Unverified
<1>5. Ages'
  <2>1. CASE JobSucceeds
    BY <1>2, <2>1 DEF JobSucceeds, Ages
  <2>2. CASE ServiceFails
    <3>1. /\ erred' = 0 /\ indexed' \in {0, indexed} /\ shipped' \in {0, shipped}
          /\ observed' = observed /\ seenFor' = seenFor
      BY <2>2 DEF ServiceFails
    <3> QED BY <1>2, <3>1, VerifierAssumption DEF Ages
  <2>3. CASE ShippingChanges
    <3>1. /\ seenFor' = 0 /\ erred' = erred /\ indexed' = indexed
          /\ observed' = observed /\ shipped' = shipped
      BY <2>3 DEF ShippingChanges
    <3> QED BY <1>2, <3>1, VerifierAssumption DEF Ages
  <2>4. CASE IndexRestarts
    <3>1. /\ indexed' = WINDOW /\ observed' = 0 /\ erred' = erred
          /\ shipped' = shipped /\ seenFor' = seenFor
      BY <2>4 DEF IndexRestarts
    <3> QED BY <1>2, <3>1, VerifierAssumption DEF Ages
  <2>5. CASE MinutePasses
    BY <1>2, <2>5, MinuteAges
  <2> QED BY <2>1, <2>2, <2>3, <2>4, <2>5 DEF World
<1>6. VerifierTypes'
  BY <1>4, <1>5 DEF VerifierTypes, Flags, Ages
<1> QED BY <1>1, <1>6

(* Every variable of the verifier keeps its type.                           *)
LEMMA VerifierNextTypes ==
  ASSUME VerifierTypes, [VerifierNext]_verifierVars PROVE VerifierTypes'
<1>1. CASE UNCHANGED verifierVars
  BY <1>1 DEF verifierVars, VerifierTypes
<1>2. CASE VerifyStep
  BY <1>2, VerifyStepTypes
<1>3. CASE World
  BY <1>3, WorldTypes
<1> QED BY <1>1, <1>2, <1>3 DEF VerifierNext

(* For any window and any bound on stale coverage the types hold.           *)
THEOREM VerifierTypesCorrect == VerifierSpec => []VerifierTypes
<1>1. ASSUME VerifierInit PROVE VerifierTypes
  <2>1. Flags
    BY <1>1 DEF VerifierInit, Flags
  <2>2. /\ erred = 0 /\ indexed = 0 /\ seenFor = 0
        /\ observed \in 0..WINDOW /\ shipped \in 0..(STALE + 1)
    BY <1>1 DEF VerifierInit
  <2>3. Ages
    BY <2>2, VerifierAssumption DEF Ages
  <2> QED BY <2>1, <2>3 DEF VerifierTypes, Flags, Ages
<1> QED BY <1>1, VerifierNextTypes, PTL DEF VerifierSpec

(* A verification that has refused nothing was told TRUE by every check,    *)
(* and by V3 that the CronJob ran, if it is about one.                      *)
Refused ==
    /\ ok => ~blind
    /\ kind = "k8s-cronjob" =>
          /\ check \notin {"V3 coverage", "V3 errors"}
          /\ ok /\ check \in {"V4", "done"} => ran

(* A check that is not passed, and one that has no answer, shows in ok.     *)
LEMMA RefusalKept ==
  ASSUME ok => ~blind, NEW answer \in BOOLEAN \cup {NONE}, NEW next,
         Told(answer), Result(passes(answer), next)
  PROVE  ok' => ~blind' /\ ok /\ answer = TRUE
  BY DEF Told, Result, passes

LEMMA NextRefused ==
  ASSUME VerifierTypes, Refused, [VerifierNext]_verifierVars PROVE Refused'
<1> USE DEF Refused
<1>1. ASSUME NEW answer \in BOOLEAN \cup {NONE},
             CheckRollout(answer) \/ CheckHealth(answer) \/ CheckNoCollateral(answer)
      PROVE  Refused'
  <2>1. PICK next : Told(answer) /\ Result(passes(answer), next)
    BY <1>1 DEF CheckRollout, CheckHealth, CheckNoCollateral
  <2>2. ok' => ~blind' /\ ok
    BY <2>1, RefusalKept
  <2>3. kind' = kind /\ ran' = ran
    BY <2>1 DEF Result, worldVars
  <2>4. /\ kind = "k8s-cronjob" => check' \notin {"V3 coverage", "V3 errors"}
        /\ check' \in {"V4", "done"} => check \in {"V4", "done"}
    BY <1>1 DEF CheckRollout, CheckHealth, CheckNoCollateral, Result
  <2> QED BY <2>2, <2>3, <2>4
<1>2. CASE CheckCronJobSucceeded
  <2>1. PICK found \in {ran, NONE} : Told(found) /\ Result(passes(found), "V4")
    BY <1>2 DEF CheckCronJobSucceeded
  <2>2. found \in BOOLEAN \cup {NONE}
    BY <2>1 DEF VerifierTypes
  <2>3. ok' => ~blind' /\ found = TRUE
    BY <2>1, <2>2, RefusalKept
  <2>4. found = TRUE => ran = TRUE
    BY NoAnswerAssumption
  <2>5. ran' = ran /\ check' = "V4"
    BY <2>1 DEF Result, worldVars
  <2> QED BY <2>3, <2>4, <2>5
<1>3. CASE CheckErrorsStopped \/ CheckCoverage \/ CoverageRefuses
  <2>1. kind' = kind /\ kind # "k8s-cronjob"
    BY <1>3 DEF CheckErrorsStopped, CheckCoverage, CoverageRefuses, Result, worldVars
  <2>2. ok' => ~blind'
    <3>1. CASE CheckErrorsStopped
      BY <3>1, RefusalKept DEF CheckErrorsStopped, errorsStopped
    <3>2. CASE CheckCoverage
      BY <3>2 DEF CheckCoverage, Result
    <3>3. CASE CoverageRefuses
      BY <3>3 DEF CoverageRefuses, Result
    <3> QED BY <1>3, <3>1, <3>2, <3>3
  <2> QED BY <2>1, <2>2
<1>4. CASE World
  <2>1. kind' = kind /\ check' = check /\ ok' = ok /\ blind' = blind
    BY <1>4, WorldTypes DEF Unverified
  <2>2. ran => ran'
    BY <1>4
       DEF World, JobSucceeds, ServiceFails, ShippingChanges, IndexRestarts, MinutePasses
  <2> QED BY <2>1, <2>2
<1>5. CASE UNCHANGED verifierVars
  BY <1>5 DEF verifierVars
<1> QED BY <1>1, <1>2, <1>3, <1>4, <1>5 DEF VerifierNext, VerifyStep

(* "I could not determine" is never success (repair-verifier.ts:10-12).     *)
THEOREM VerifierFailsClosed == VerifierSpec => []FailsClosed
<1>1. VerifierInit => Refused
  BY DEF VerifierInit, Refused
<1>2. Refused => FailsClosed
  BY DEF Refused, FailsClosed, Verified
<1> QED BY <1>1, <1>2, NextRefused, VerifierTypesCorrect, PTL DEF VerifierSpec

(* While a service ships all its logs and the index stays up, the index     *)
(* knows of an error as old as the last one.                                *)
LastErrorIndexed ==
    /\ seenFor > 0 => shipping
    /\ erred < seenFor /\ erred < observed => indexed <= erred

LEMMA NextIndexed ==
  ASSUME VerifierTypes, LastErrorIndexed, [VerifierNext]_verifierVars
  PROVE  LastErrorIndexed'
<1>1. CASE VerifyStep \/ UNCHANGED verifierVars
  <2>1. seenFor' = seenFor /\ shipping' = shipping /\ erred' = erred
        /\ observed' = observed /\ indexed' = indexed
    BY <1>1, VerifyStepTypes DEF worldVars, verifierVars
  <2> QED BY <2>1 DEF LastErrorIndexed
<1>2. ASSUME World PROVE LastErrorIndexed'
  <2> USE VerifierAssumption
  <2>1. Ages /\ Ages'
    BY <1>2, WorldTypes DEF VerifierTypes, Ages
  <2>2. seenFor' > 0 => shipping'
    <3>1. CASE ShippingChanges
      BY <3>1 DEF ShippingChanges
    <3>2. CASE MinutePasses
      <4>1. ~shipping => seenFor' = 0
        BY <3>2 DEF MinutePasses
      <4>2. shipping' = shipping
        BY <3>2 DEF MinutePasses
      <4> QED BY <4>1, <4>2
    <3>3. CASE JobSucceeds \/ ServiceFails \/ IndexRestarts
      <4>1. seenFor' = seenFor /\ shipping' = shipping
        BY <3>3 DEF JobSucceeds, ServiceFails, IndexRestarts
      <4> QED BY <4>1 DEF LastErrorIndexed
    <3> QED BY <1>2, <3>1, <3>2, <3>3 DEF World
  <2>3. erred' < seenFor' /\ erred' < observed' => indexed' <= erred'
    <3>1. erred < seenFor /\ erred < observed => indexed <= erred
      BY DEF LastErrorIndexed
    <3>2. CASE MinutePasses
      <4>1. /\ erred' \in {erred + 1, WINDOW} /\ observed' <= observed + 1
            /\ indexed' <= indexed + 1 /\ seenFor' <= seenFor + 1
        BY <2>1, <3>2, MinuteAges
      <4> QED BY <2>1, <3>1, <4>1 DEF Ages
    <3>3. CASE ServiceFails
      <4>1. erred' = 0 /\ seenFor' = seenFor /\ (shipping => indexed' = 0)
        BY <3>3 DEF ServiceFails
      <4>2. seenFor > 0 => shipping
        BY DEF LastErrorIndexed
      <4>3. seenFor' > 0 => indexed' = 0
        BY <4>1, <4>2
      <4> QED BY <2>1, <4>1, <4>3 DEF Ages
    <3>4. CASE IndexRestarts
      <4>1. observed' = 0
        BY <3>4 DEF IndexRestarts
      <4> QED BY <2>1, <4>1 DEF Ages
    <3>5. CASE ShippingChanges
      <4>1. seenFor' = 0
        BY <3>5 DEF ShippingChanges
      <4> QED BY <2>1, <4>1 DEF Ages
    <3>6. CASE JobSucceeds
      BY <3>1, <3>6 DEF JobSucceeds
    <3> QED BY <1>2, <3>2, <3>3, <3>4, <3>5, <3>6 DEF World
  <2> QED BY <2>2, <2>3 DEF LastErrorIndexed
<1> QED BY <1>1, <1>2 DEF VerifierNext

(* When V3 passes for a service that shipped its logs over the whole        *)
(* window, the errors have stopped: neither a young index nor one that      *)
(* restarts between the checks says so (repair-verifier.ts:218-224).        *)
THEOREM QuietWhenPassed == VerifierSpec => QuietWhenSeen
<1>1. VerifierInit => LastErrorIndexed
  BY DEF VerifierInit, LastErrorIndexed
<1>2. ASSUME VerifierTypes, LastErrorIndexed, V3Passes, seenFor >= WINDOW
      PROVE  erred >= WINDOW
  <2>1. errorsStopped
    <3>1. PICK found \in {errorsStopped, NONE} : Told(found) /\ blind' = FALSE
      BY <1>2 DEF V3Passes, CheckErrorsStopped
    <3>2. found = TRUE
      BY <3>1 DEF Told
    <3> QED BY <3>1, <3>2, NoAnswerAssumption
  <2>2. observed >= WINDOW /\ indexed >= WINDOW
    BY <2>1 DEF errorsStopped, NoErrors
  <2>3. Ages
    BY <1>2 DEF VerifierTypes, Ages
  <2>4. erred < seenFor /\ erred < observed => indexed <= erred
    BY <1>2 DEF LastErrorIndexed
  <2> QED BY <1>2, <2>2, <2>3, <2>4, VerifierAssumption DEF Ages
<1>3. VerifierTypes /\ LastErrorIndexed =>
         [V3Passes /\ seenFor >= WINDOW => erred >= WINDOW]_verifierVars
  BY <1>2
<1> QED BY <1>1, <1>3, NextIndexed, VerifierTypesCorrect, PTL DEF VerifierSpec, QuietWhenSeen

-----------------------------------------------------------------------------
(* All five parts side by side *)

CP == INSTANCE CredentialProofs WITH due <- sweepDue, faults <- sweepFaults
IP == INSTANCE IntegrationProofs
DP == INSTANCE DigestProofs

(* The parts as module MCOperations takes them in are the parts as their    *)
(* proofs do, definition by definition.                                     *)
LEMMA SameCredentials ==
  /\ K!Init => CP!Init
  /\ [K!Next]_credentialVars => [CP!Next]_(CP!vars)
  /\ CP!CredentialTypes <=> K!CredentialTypes
<1>1. K!Init => CP!Init
  BY DEF K!Init, CP!Init, K!Nothing, CP!Nothing
<1>2. K!Next => CP!Next
  BY DEF K!consumerVars, CP!consumerVars, K!vars, CP!vars, K!Older, CP!Older, K!Nothing,
         CP!Nothing, K!Init, CP!Init, K!Fault, CP!Fault, K!NoFault, CP!NoFault,
         K!Accepts, CP!Accepts, K!probeCredential, CP!probeCredential, K!Report,
         CP!Report, K!stored, CP!stored, K!recordSelfReport, CP!recordSelfReport,
         K!ReportLost, CP!ReportLost, K!expiringSoon, CP!expiringSoon, K!Silent,
         CP!Silent, K!reconcile, CP!reconcile, K!FetchInventory, CP!FetchInventory,
         K!FetchFails, CP!FetchFails, K!Reconcile, CP!Reconcile, K!PodRestarts,
         CP!PodRestarts, K!Sweep, CP!Sweep, K!TargetChanges, CP!TargetChanges,
         K!TokenRotated, CP!TokenRotated, K!ConsumerStops, CP!ConsumerStops,
         K!InventoryChanges, CP!InventoryChanges, K!Outlived, CP!Outlived, K!Aged, CP!Aged, K!Tick, CP!Tick,
         K!Answered, CP!Answered, K!Next, CP!Next
<1>3. UNCHANGED credentialVars => UNCHANGED CP!vars
  BY DEF credentialVars, CP!vars
<1>4. CP!CredentialTypes <=> K!CredentialTypes
  BY DEF K!CredentialTypes, CP!CredentialTypes, K!Verdict, CP!Verdict, K!Expiry, CP!Expiry,
         K!FlightRow, CP!FlightRow, K!ReportRow, CP!ReportRow, K!MatrixRow, CP!MatrixRow
<1> QED BY <1>1, <1>2, <1>3, <1>4

LEMMA SameIntegrations ==
  /\ I!Init => IP!Init
  /\ [I!Next]_integrationVars => [IP!Next]_(IP!vars)
  /\ IP!IntegrationTypes <=> I!IntegrationTypes
<1>1. I!Init => IP!Init
  BY DEF I!Init, IP!Init, I!Integration, IP!Integration
<1>2. I!Next => IP!Next
  BY DEF I!Integration, IP!Integration, I!tableVars, IP!tableVars, I!eventVars,
         IP!eventVars, I!vars, IP!vars, I!Key, IP!Key, I!Init, IP!Init, I!generateApiKey,
         IP!generateApiKey, I!create, IP!create, I!findOwned, IP!findOwned, I!Answered,
         IP!Answered, I!update, IP!update, I!rotateKey, IP!rotateKey, I!remove, IP!remove,
         I!authenticate, IP!authenticate, I!findExisting, IP!findExisting, I!uniqueIndex,
         IP!uniqueIndex, I!saveEvent, IP!saveEvent, I!saveEventFails, IP!saveEventFails,
         I!PodRestarts, IP!PodRestarts, I!Manage, IP!Manage, I!RecordEvent, IP!RecordEvent,
         I!Next, IP!Next
<1>3. UNCHANGED integrationVars => UNCHANGED IP!vars
  BY DEF integrationVars, IP!vars
<1>4. IP!IntegrationTypes <=> I!IntegrationTypes
  BY DEF I!IntegrationTypes, IP!IntegrationTypes, I!Row, IP!Row, I!Key, IP!Key,
         I!Integration, IP!Integration
<1> QED BY <1>1, <1>2, <1>3, <1>4

LEMMA SameDigests ==
  /\ D!Init => DP!Init
  /\ [D!Next]_digestVars => [DP!Next]_(DP!vars)
  /\ DP!DigestTypes <=> D!DigestTypes
<1>1. D!Init => DP!Init
  BY DEF D!Init, DP!Init, D!NewDay, DP!NewDay, D!Idle, DP!Idle, D!Run, DP!Run
<1>2. D!Next => DP!Next
  BY DEF D!Run, DP!Run, D!Entries, DP!Entries, D!vars, DP!vars, D!NewDay, DP!NewDay, D!Idle,
         DP!Idle, D!Init, DP!Init, D!Running, DP!Running, D!Worse, DP!Worse, D!Begin,
         DP!Begin, D!yesterdaySnapshot, DP!yesterdaySnapshot, D!FindYesterday,
         DP!FindYesterday, D!Upsert, DP!Upsert, D!SendTelegram, DP!SendTelegram,
         D!AfterFailure, DP!AfterFailure, D!CallFails, DP!CallFails,
         D!reportDeliveryFailure, DP!reportDeliveryFailure, D!PodRestarts, DP!PodRestarts,
         D!HealthChanges, DP!HealthChanges, D!Midnight, DP!Midnight, D!runDigest,
         DP!runDigest, D!Next, DP!Next
<1>3. UNCHANGED digestVars => UNCHANGED DP!vars
  BY DEF digestVars, DP!vars
<1>4. DP!DigestTypes <=> D!DigestTypes
  BY DEF D!DigestTypes, DP!DigestTypes, D!Day, DP!Day, D!Entries, DP!Entries,
         D!Run, DP!Run
<1> QED BY <1>1, <1>2, <1>3, <1>4

(* In a run of all, each part behaves as its own specification says, for    *)
(* the others' steps leave its variables alone.                             *)
LEMMA EachPart == MCSpec => Spec /\ VerifierSpec /\ CP!Spec /\ IP!Spec /\ DP!Spec
<1>1. MCInit => Init /\ VerifierInit /\ K!Init /\ I!Init /\ D!Init
  BY DEF MCInit
<1>2. [MCNext]_MCvars =>
        /\ [Next]_vars /\ [VerifierNext]_verifierVars /\ [K!Next]_credentialVars
        /\ [I!Next]_integrationVars /\ [D!Next]_digestVars
  BY DEF MCNext, Repairs, Verifies, Credentials, Expires, Integrates, Digests, MCvars
<1>3. MCInit => CP!Init /\ IP!Init /\ DP!Init
  BY <1>1, SameCredentials, SameIntegrations, SameDigests
<1>4. [MCNext]_MCvars =>
        [CP!Next]_(CP!vars) /\ [IP!Next]_(IP!vars) /\ [DP!Next]_(DP!vars)
  BY <1>2, SameCredentials, SameIntegrations, SameDigests
<1> QED BY <1>1, <1>2, <1>3, <1>4, PTL DEF MCSpec, Spec, VerifierSpec, CP!Spec, IP!Spec, DP!Spec

(* Every variable of every part keeps its type.                             *)
THEOREM OperationTypesCorrect == MCSpec => []TypesOK
<1>1. CP!Spec => []CP!CredentialTypes
  <2>1. CP!CredentialAssumption
    BY CredentialAssumption
       DEF CP!CredentialAssumption, CredentialAssumption, K!CredentialAssumption
  <2> QED BY <2>1, CP!CredentialTypesCorrect
<1>2. IP!Spec => []IP!IntegrationTypes
  <2>1. IP!IntegrationAssumption
    BY IntegrationAssumption
       DEF IP!IntegrationAssumption, IntegrationAssumption, I!IntegrationAssumption
  <2> QED BY <2>1, IP!IntegrationTypesCorrect
<1>3. DP!Spec => []DP!DigestTypes
  BY DP!DigestTypesCorrect
<1>4. RepairTypes /\ VerifierTypes /\ CP!CredentialTypes /\ IP!IntegrationTypes /\ DP!DigestTypes
        => TypesOK
  BY SameCredentials, SameIntegrations, SameDigests DEF TypesOK
<1> QED BY <1>1, <1>2, <1>3, <1>4, EachPart, RepairTypesCorrect, VerifierTypesCorrect, PTL
=============================================================================
