--------------------------- MODULE ErrorLogProofs ---------------------------
(***************************************************************************)
(* Proofs about the error log watcher and the heartbeat, for any watchers,  *)
(* signatures, window and threshold, and any number of failures: the types; *)
(* that no recovery is announced that did not happen, and that alerts that  *)
(* are right stay as they are; and, where the groups or the watchers are    *)
(* finitely many, that one failure costs one group or one watcher.          *)
(***************************************************************************)
EXTENDS ErrorLogProperties, FiniteSetTheorems, TLAPS

USE HeartbeatAssumption, ErrorLogAssumption DEF HeartbeatAssumption, ErrorLogAssumption

-----------------------------------------------------------------------------
(* Types *)

(* A step that only moves a sweep on keeps its type.                        *)
LEMMA SweepType ==
  /\ NoSweep \in Sweep
  /\ [NoSweep EXCEPT !.step = "fetch"] \in Sweep
<1>1. {} \in SUBSET Signature /\ 0 \in 0..1
  OBVIOUS
<1>2. "idle" \in SweepSteps /\ "fetch" \in SweepSteps
  BY DEF SweepSteps
<1>3. NoSweep \in Sweep
  BY <1>1, <1>2, Zenon DEF Sweep, NoSweep
<1> QED BY <1>2, <1>3 DEF Sweep

LEMMA InitTypes == Init => TypeOK
<1> SUFFICES ASSUME Init PROVE TypeOK
  OBVIOUS
<1>1. age \in [Watcher -> 0..(SilentAfter + 1)]
  BY DEF Init
<1>2. check \in [left : SUBSET Watcher, silent : SUBSET Watcher]
  BY DEF Init, NoCheck
<1>3. sweep \in Sweep
  BY SweepType DEF Init
<1>4. logged \in [Signature -> SUBSET Ages] /\ indexed \in [Signature -> SUBSET Ages]
  BY DEF Init
<1>5. observed \in 0..(WINDOW + 1) /\ faults \in 0..MaxFaults
  BY DEF Init
<1>6. /\ open \subseteq Signature \cup Watcher \cup {Ingest} /\ active \subseteq Signature
      /\ outage \in BOOLEAN /\ dark \in BOOLEAN /\ due \subseteq Crons
  BY DEF Init
<1> QED BY <1>1, <1>2, <1>3, <1>4, <1>5, <1>6 DEF TypeOK

(* Every way to leave the catch of runCheck keeps the types.                *)
LEMMA SweepFailedTypes ==
  ASSUME TypeOK, SweepFailed, UNCHANGED envVars,
         open' \subseteq Signature \cup Watcher \cup {Ingest},
         Fault \/ NoFault
  PROVE  TypeOK'
  BY SweepType DEF TypeOK, SweepFailed, envVars, fail, Fault, NoFault

(* The sweep's own steps keep the types.                                    *)
LEMMA SweepTypes == ASSUME TypeOK, SweepStep PROVE TypeOK'
<1> USE DEF TypeOK, envVars, NoFault, Fault
<1>1. CASE Start
  BY <1>1, SweepType DEF Start, Crons
<1>2. CASE Fetch
  <2>1. Worth(indexed) \subseteq Signature /\ Worth(logged) \subseteq Signature
    BY DEF Worth
  <2>2. trustResolution \in BOOLEAN
    BY DEF trustResolution
  <2> QED BY <1>2, <2>1, <2>2 DEF Fetch, Sweep, SweepSteps
<1>3. CASE KeepWatching
  BY <1>3 DEF KeepWatching, Sweep, SweepSteps
<1>4. CASE ListActive
  <2>1. active \subseteq Signature /\ previouslyActive \subseteq Signature
    BY DEF previouslyActive
  <2>2. ASSUME NEW F \in SUBSET Signature, ToResolve(F) PROVE sweep' \in Sweep
    BY <2>2 DEF ToResolve, Sweep, SweepSteps
  <2>3. sweep' \in Sweep /\ faults' \in 0..MaxFaults
    BY <1>4, <2>1, <2>2 DEF ListActive
  <2> QED BY <1>4, <2>3 DEF ListActive
<1>5. CASE Resolved
  BY <1>5 DEF Resolved, Sweep, SweepSteps
<1>6. CASE CheckIngestCoverage
  <2>1. open' \subseteq Signature \cup Watcher \cup {Ingest}
    BY <1>6 DEF CheckIngestCoverage, Coverage
  <2>2. age' \in [Watcher -> 0..(SilentAfter + 1)]
    BY <1>6 DEF CheckIngestCoverage, beat
  <2> QED BY <1>6, <2>1, <2>2, SweepType DEF CheckIngestCoverage
<1>7. CASE FetchFails
  BY <1>7, SweepFailedTypes DEF FetchFails
<1>8. CASE ResolveFails
  BY <1>8, SweepFailedTypes DEF ResolveFails
<1>9. CASE CoverageFails
  BY <1>9, SweepFailedTypes DEF CoverageFails, Coverage
<1>10. CASE \E s \in Signature : HandleGroup(s)
  <2> PICK s \in Signature : HandleGroup(s)
    BY <1>10
  <2>1. Processed(s) \in Sweep
    BY DEF Processed, Sweep
  <2> QED BY <2>1 DEF HandleGroup
<1>11. CASE \E s \in Signature : GroupFails(s)
  <2> PICK s \in Signature : GroupFails(s)
    BY <1>11
  <2>1. Processed(s) \in Sweep
    BY DEF Processed, Sweep
  <2> QED BY <2>1 DEF GroupFails
<1>12. CASE \E s \in Signature : Resolve(s)
  <2> PICK s \in Signature : Resolve(s)
    BY <1>12
  <2>1. [sweep EXCEPT !.left = @ \ {s}] \in Sweep
    BY DEF Sweep
  <2> QED BY <2>1 DEF Resolve
<1> QED BY <1>1, <1>2, <1>3, <1>4, <1>5, <1>6, <1>7, <1>8, <1>9, <1>10,
           <1>11, <1>12 DEF SweepStep

(* The heartbeat's steps keep the types.                                    *)
LEMMA CheckTypes == ASSUME TypeOK, CheckStep PROVE TypeOK'
<1> USE DEF TypeOK, envVars, NoFault, Fault, Crons
<1>1. CASE StartCheck
  BY <1>1 DEF StartCheck, runCheck, snapshot
<1>2. CASE \E w \in Watcher : Check(w)
  BY <1>2 DEF Check, CheckWatcher, Checked
<1>3. CASE \E w \in Watcher : CheckFails(w)
  BY <1>3 DEF CheckFails, CheckWatcherFails, Checked
<1> QED BY <1>1, <1>2, <1>3 DEF CheckStep

(* The environment and the clock keep the types.                            *)
LEMMA EnvironmentTypes == ASSUME TypeOK, Environment \/ Tick PROVE TypeOK'
<1> USE DEF TypeOK, envVars, NoFault, Fault, Crons
<1>1. CASE \E s \in Signature : Log(s)
  BY <1>1 DEF Log, Ages
<1>2. CASE \E w \in Watcher \ {ErrorLog} : OtherBeats(w)
  BY <1>2 DEF OtherBeats, beat
<1>3. CASE OutageChanges
  BY <1>3 DEF OutageChanges
<1>4. CASE ShippingChanges
  BY <1>4 DEF ShippingChanges
<1>5. CASE IndexRestarts
  BY <1>5 DEF IndexRestarts
<1>6. CASE PodRestarts
  BY <1>6, SweepType DEF PodRestarts, register, NoCheck
<1>7. CASE Tick
  <2>1. Aged(logged) \in [Signature -> SUBSET Ages] /\ Aged(indexed) \in [Signature -> SUBSET Ages]
    BY DEF Aged
  <2>2. \A w \in Watcher : Older(age[w]) \in 0..(SilentAfter + 1)
    BY DEF Older
  <2>3. sweep' \in Sweep
    BY <1>7 DEF Tick, Sweep
  <2>4. observed' \in 0..(WINDOW + 1)
    BY <1>7 DEF Tick
  <2> QED BY <1>7, <2>1, <2>2, <2>3, <2>4 DEF Tick
<1> QED BY <1>1, <1>2, <1>3, <1>4, <1>5, <1>6, <1>7 DEF Environment

LEMMA NextTypes == TypeOK /\ [Next]_vars => TypeOK'
<1> SUFFICES ASSUME TypeOK, [Next]_vars PROVE TypeOK'
  OBVIOUS
<1>1. CASE UNCHANGED vars
  BY <1>1 DEF TypeOK, vars
<1> QED BY <1>1, SweepTypes, CheckTypes, EnvironmentTypes DEF Next

(* The types of the watcher and the heartbeat, whatever fails.              *)
THEOREM ErrorLogTypes == Spec => []TypeOK
  BY InitTypes, NextTypes, PTL DEF Spec
-----------------------------------------------------------------------------
(* Recoveries *)

(* What the index holds was logged, and what was logged after the index     *)
(* started is held.                                                         *)
IndexHonest ==
    \A s \in Signature :
        /\ indexed[s] \subseteq logged[s]
        /\ \A a \in logged[s] : a < observed => a \in indexed[s]

(* A sweep that trusts the index has in hand, or has seen, every signature  *)
(* that was failing, and resolves none of them; one that does not trust it  *)
(* resolves nothing.                                                        *)
SweepHonest ==
    /\ sweep.step = "resolve" => sweep.trustResolution /\ sweep.left \cap sweep.failing = {}
    /\ sweep.step = "groups" /\ sweep.trustResolution
          => sweep.failing \subseteq sweep.left \cup sweep.seen

Honest == TypeOK /\ IndexHonest /\ SweepHonest

(* An index that has been up for the whole window knows what was logged.    *)
LEMMA WarmIndex ==
  ASSUME TypeOK, IndexHonest, trustResolution
  PROVE  Worth(indexed) = Worth(logged)
<1>1. observed >= WINDOW
  BY DEF TypeOK, Sweep, trustResolution
<1>2. ASSUME NEW s \in Signature PROVE indexed[s] = logged[s]
  <2>1. \A a \in logged[s] : a < WINDOW
    BY DEF TypeOK, Ages
  <2>2. \A a \in logged[s] : a \in indexed[s]
    BY <1>1, <2>1 DEF TypeOK, IndexHonest, Ages
  <2> QED BY <2>2 DEF IndexHonest
<1> QED BY <1>2 DEF Worth

LEMMA InitHonest == Init => Honest
  BY InitTypes DEF Init, Honest, IndexHonest, SweepHonest, NoSweep

(* Errors, restarts and time: the index stays honest.                       *)
LEMMA IndexStep ==
  ASSUME TypeOK, IndexHonest, [Next]_vars
  PROVE  IndexHonest'
<1>1. CASE UNCHANGED <<logged, indexed, observed>>
  BY <1>1 DEF IndexHonest
<1>2. CASE \E s \in Signature : Log(s)
  BY <1>2 DEF TypeOK, IndexHonest, Log
<1>3. CASE IndexRestarts
  <2>1. \A s \in Signature : \A a \in logged'[s] : ~(a < observed')
    BY <1>3 DEF IndexRestarts, TypeOK, Ages
  <2>2. \A s \in Signature : indexed'[s] = {}
    BY <1>3 DEF IndexRestarts
  <2> QED BY <2>1, <2>2 DEF IndexHonest
<1>4. CASE Tick
  <2> SUFFICES ASSUME NEW s \in Signature
               PROVE  /\ indexed'[s] \subseteq logged'[s]
                      /\ \A a \in logged'[s] : a < observed' => a \in indexed'[s]
    BY DEF IndexHonest
  <2>1. /\ logged'[s] = {a + 1 : a \in logged[s]} \cap Ages
        /\ indexed'[s] = {a + 1 : a \in indexed[s]} \cap Ages
    BY <1>4 DEF Tick, Aged
  <2>2. indexed'[s] \subseteq logged'[s]
    BY <2>1 DEF IndexHonest
  <2>3. ASSUME NEW b \in logged'[s], b < observed' PROVE b \in indexed'[s]
    <3>1. PICK a \in logged[s] : b = a + 1
      BY <2>1
    <3>2. a < observed
      BY <1>4, <2>1, <2>3, <3>1 DEF Tick, TypeOK, Ages
    <3> QED BY <2>1, <3>1, <3>2 DEF IndexHonest
  <2> QED BY <2>2, <2>3
<1>5. CASE UNCHANGED vars \/ SweepStep \/ CheckStep
  BY <1>1, <1>5 DEF vars, SweepStep, CheckStep, envVars, Start, Fetch, KeepWatching,
     ListActive, Resolved, CheckIngestCoverage, FetchFails, ResolveFails, CoverageFails,
     HandleGroup, GroupFails, Resolve, StartCheck, Check, CheckFails
<1>6. CASE \/ \E w \in Watcher \ {ErrorLog} : OtherBeats(w)
           \/ OutageChanges \/ ShippingChanges \/ PodRestarts
  BY <1>1, <1>6 DEF OtherBeats, OutageChanges, ShippingChanges, PodRestarts, envVars
<1> QED BY <1>2, <1>3, <1>4, <1>5, <1>6 DEF Next, Environment

(* A sweep stays honest.                                                    *)
LEMMA SweepHonestStep ==
  ASSUME TypeOK, IndexHonest, SweepHonest, [Next]_vars
  PROVE  SweepHonest'
<1> USE DEF SweepHonest
<1>1. CASE UNCHANGED sweep
  BY <1>1
<1>2. CASE sweep' = NoSweep \/ Start
  BY <1>2 DEF NoSweep, Start
<1>3. CASE Fetch
  <2>1. /\ sweep'.step = "groups" /\ sweep'.left = Worth(indexed)
        /\ sweep'.trustResolution = trustResolution /\ sweep'.failing = Worth(logged)
    BY <1>3 DEF Fetch, TypeOK, Sweep
  <2> QED BY <2>1, WarmIndex
<1>4. CASE KeepWatching \/ Resolved
  BY <1>4 DEF KeepWatching, Resolved, TypeOK, Sweep
<1>5. CASE ListActive
  <2>1. /\ sweep.step = "groups" /\ sweep.left = {} /\ sweep.trustResolution
        /\ \/ ToResolve(previouslyActive)
           \/ ToResolve(active)
    BY <1>5 DEF ListActive
  <2>2. /\ sweep'.step = "resolve" /\ sweep'.left \cap sweep.seen = {} /\ sweep'.seen = sweep.seen
        /\ sweep'.trustResolution /\ sweep'.failing = sweep.failing
    BY <2>1 DEF ToResolve, TypeOK, Sweep
  <2> QED BY <2>1, <2>2
<1>6. ASSUME NEW s \in Signature, HandleGroup(s) \/ GroupFails(s) PROVE SweepHonest'
  <2>1. sweep.step = "groups" /\ s \in sweep.left /\ sweep' = Processed(s)
    BY <1>6 DEF HandleGroup, GroupFails
  <2>2. /\ sweep'.step = "groups" /\ sweep'.left = sweep.left \ {s}
        /\ sweep'.seen = sweep.seen \cup {s}
        /\ sweep'.trustResolution = sweep.trustResolution
        /\ sweep'.failing = sweep.failing
    BY <2>1 DEF Processed, TypeOK, Sweep
  <2> QED BY <2>1, <2>2
<1>7. CASE \E s \in Signature : Resolve(s)
  BY <1>7 DEF Resolve, TypeOK, Sweep
<1>8. CASE Tick
  BY <1>8, <1>1 DEF Tick, TypeOK, Sweep
<1>9. CASE FetchFails \/ ResolveFails \/ CoverageFails \/ CheckIngestCoverage \/ PodRestarts
  BY <1>2, <1>9 DEF FetchFails, ResolveFails, CoverageFails, CheckIngestCoverage,
     PodRestarts, SweepFailed
<1>10. CASE UNCHANGED vars \/ CheckStep
  BY <1>1, <1>10 DEF vars, CheckStep, StartCheck, Check, CheckFails
<1>11. CASE \/ \E s \in Signature : Log(s)
            \/ \E w \in Watcher \ {ErrorLog} : OtherBeats(w)
            \/ OutageChanges \/ ShippingChanges \/ IndexRestarts
  BY <1>1, <1>11 DEF Log, OtherBeats, OutageChanges, ShippingChanges, IndexRestarts
<1> QED BY <1>2, <1>3, <1>4, <1>5, <1>6, <1>7, <1>8, <1>9, <1>10, <1>11
        DEF Next, SweepStep, Environment

LEMMA NextHonest == Honest /\ [Next]_vars => Honest'
  BY NextTypes, IndexStep, SweepHonestStep DEF Honest

(* Only the sweep's resolve closes an alert about errors, and it closes     *)
(* none of a signature that was failing.                                    *)
LEMMA ClosedByResolve ==
  ASSUME Honest, Next, NEW s \in Signature, s \in open, s \notin open'
  PROVE  s \notin sweep.failing
<1> USE DEF Honest
<1>1. CASE \E r \in Signature : Resolve(r)
  BY <1>1 DEF Resolve, SweepHonest
<1>2. CASE CheckStep
  BY <1>2 DEF CheckStep, StartCheck, runCheck, Check, CheckWatcher, CheckFails,
     CheckWatcherFails, Checked
<1>3. CASE CheckIngestCoverage \/ CoverageFails
  BY <1>3 DEF CheckIngestCoverage, CoverageFails, Coverage
<1>4. CASE \/ Start \/ Fetch \/ KeepWatching \/ ListActive \/ Resolved
           \/ FetchFails \/ ResolveFails
           \/ \E r \in Signature : HandleGroup(r) \/ GroupFails(r)
  BY <1>4 DEF Start, Fetch, KeepWatching, ListActive, Resolved, FetchFails,
     ResolveFails, HandleGroup, GroupFails
<1>5. CASE Environment \/ Tick
  BY <1>5 DEF Environment, Tick, Log, OtherBeats, OutageChanges, ShippingChanges,
     IndexRestarts, PodRestarts
<1> QED BY <1>1, <1>2, <1>3, <1>4, <1>5 DEF Next, SweepStep

(* No recovery is announced on the strength of an index that forgot, for    *)
(* any window, any threshold and any number of restarts.                    *)
THEOREM RealRecoveries == Spec => NoFalseRecovery
<1>1. Honest /\ [Next]_vars
      => [\A s \in Signature : s \in open /\ s \notin open' => s \notin sweep.failing]_vars
  BY ClosedByResolve
<1> QED BY <1>1, InitHonest, NextHonest, PTL DEF Spec, NoFalseRecovery

-----------------------------------------------------------------------------
(* A signature that goes on failing keeps its alert *)

(* Every step is one of a running sweep's, ends the sweep, or leaves it in  *)
(* place; the last two do not touch the alerts of signatures.               *)
LEMMA StepsAround ==
  ASSUME TypeOK, [Next]_vars
  PROVE  \/ Start \/ Fetch \/ KeepWatching \/ ListActive \/ Resolved
         \/ \E s \in Signature : HandleGroup(s) \/ GroupFails(s) \/ Resolve(s)
         \/ sweep' = NoSweep /\ open' \cap Signature = open \cap Signature
         \/ /\ open' \cap Signature = open \cap Signature
            /\ sweep' \in {sweep, [sweep EXCEPT !.elapsed = @ + 1]}
<1>1. CASE CheckStep
  <2>1. Signature \cap Watcher = {}
    OBVIOUS
  <2>2. sweep' = sweep
    BY <1>1 DEF CheckStep, StartCheck, Check, CheckFails
  <2>3. open' = open \/ \E w \in Watcher : open' \in {open, open \cup {w}, open \ {w}}
    BY <1>1 DEF CheckStep, StartCheck, runCheck, Check, CheckWatcher, CheckFails,
       CheckWatcherFails, Checked
  <2> QED BY <2>1, <2>2, <2>3
<1>2. CASE CheckIngestCoverage \/ CoverageFails
  <2>1. sweep' = NoSweep /\ open' \in {open, open \cup {Ingest}, open \ {Ingest}}
    BY <1>2 DEF CheckIngestCoverage, CoverageFails, Coverage, SweepFailed
  <2>2. Ingest \notin Signature
    OBVIOUS
  <2> QED BY <2>1, <2>2
<1>3. CASE FetchFails \/ ResolveFails \/ PodRestarts
  BY <1>3 DEF FetchFails, ResolveFails, PodRestarts, SweepFailed
<1>4. CASE \/ Tick \/ UNCHANGED vars \/ OutageChanges \/ ShippingChanges \/ IndexRestarts
           \/ (\E s \in Signature : Log(s)) \/ \E w \in Watcher \ {ErrorLog} : OtherBeats(w)
  BY <1>4 DEF Tick, vars, OutageChanges, ShippingChanges, IndexRestarts, Log, OtherBeats
<1> QED BY <1>1, <1>2, <1>3, <1>4 DEF Next, SweepStep, Environment

(* The running sweep has fetched a summary, and s was failing then.         *)
KnownFailing(s) == sweep.step \notin {"idle", "fetch"} => s \in sweep.failing

LEMMA FailingStays ==
  ASSUME Honest, NEW s \in Signature, KnownFailing(s),
         [Fetch => s \in Worth(logged)]_vars, [Next]_vars
  PROVE  KnownFailing(s)' /\ (s \in open => s \in open')
<1> USE DEF Honest
<1>1. s \in open => s \in open'
  <2>1. CASE Next
    <3>1. sweep.step # "resolve" => (s \in open => s \in open')
      BY <2>1, StepsAround DEF Start, Fetch, KeepWatching, ListActive, Resolved, HandleGroup,
         GroupFails, Resolve
    <3>2. sweep.step = "resolve" => s \in sweep.failing
      BY DEF KnownFailing
    <3> QED BY <2>1, <3>1, <3>2, ClosedByResolve
  <2>2. CASE UNCHANGED vars
    BY <2>2 DEF vars
  <2> QED BY <2>1, <2>2
<1>2. CASE Fetch
  <2>1. sweep'.failing = Worth(logged)
    BY <1>2 DEF Fetch, TypeOK, Sweep
  <2>2. s \in Worth(logged)
    <3>1. sweep' # sweep
      BY <1>2 DEF Fetch, TypeOK, Sweep
    <3> QED BY <1>2, <3>1 DEF vars
  <2> QED BY <1>1, <2>1, <2>2 DEF KnownFailing
<1>3. CASE Start
  BY <1>1, <1>3 DEF Start, KnownFailing, NoSweep
<1>4. CASE KeepWatching \/ ListActive \/ Resolved
  <2>1. sweep'.failing = sweep.failing /\ sweep.step \notin {"idle", "fetch"}
    BY <1>4 DEF KeepWatching, ListActive, ToResolve, Resolved, TypeOK, Sweep
  <2> QED BY <1>1, <2>1 DEF KnownFailing
<1>5. CASE \E r \in Signature : HandleGroup(r) \/ GroupFails(r) \/ Resolve(r)
  <2>1. sweep'.failing = sweep.failing /\ sweep'.step = sweep.step
    BY <1>5 DEF HandleGroup, GroupFails, Processed, Resolve, TypeOK, Sweep
  <2> QED BY <1>1, <2>1 DEF KnownFailing
<1>6. CASE sweep' = NoSweep \/ sweep' \in {sweep, [sweep EXCEPT !.elapsed = @ + 1]}
  BY <1>1, <1>6 DEF KnownFailing, NoSweep, TypeOK, Sweep
<1> QED BY <1>2, <1>3, <1>4, <1>5, <1>6, StepsAround

(* The alert of a signature that is failing whenever a sweep looks is never *)
(* closed again, whatever fails, restarts or forgets, and whether or not    *)
(* its group can be processed.                                              *)
THEOREM FailingKeepsItsAlert ==
  ASSUME NEW s \in Signature
  PROVE  Spec => [](sweep.step = "idle" /\ [][Fetch => s \in Worth(logged)]_vars
                      => [](s \in open => [](s \in open)))
<1> DEFINE IsOpen == s \in open
           Looks == Fetch => s \in Worth(logged)
           IsIdle == sweep.step = "idle"
<1>1. IsIdle => KnownFailing(s)
  BY DEF KnownFailing
<1>2. Honest /\ KnownFailing(s) /\ [Looks]_vars /\ [Next]_vars
        => KnownFailing(s)' /\ (IsOpen => IsOpen')
  BY FailingStays
<1> HIDE DEF IsOpen, Looks, IsIdle
<1>3. Spec => [](IsIdle /\ [][Looks]_vars => [](IsOpen => []IsOpen))
  BY <1>1, <1>2, InitHonest, NextHonest, PTL DEF Spec
<1> QED BY <1>3 DEF IsOpen, Looks, IsIdle

-----------------------------------------------------------------------------
(* One failure costs one group *)

(* The groups this sweep has seen and left without an alert.                *)
Missed == {s \in sweep.seen \ Poison : s \notin open}

Looking == sweep.step \in {"groups", "resolve", "coverage"}

NothingSeen == ~Looking => sweep.seen = {}

(* With F the failures before the sweep: every group it missed was paid     *)
(* for, it closes the alerts of no group it has seen, and unless a call has *)
(* failed it closes those of every other.                                   *)
PaidFor(F) ==
    /\ F <= faults
    /\ Looking => Cardinality(Missed) <= faults - F
    /\ sweep.step = "resolve" => sweep.left \cap sweep.seen = {}
    /\ sweep.step = "groups" /\ sweep.trustResolution
          => sweep.left \cup sweep.seen = sweep.failing
    /\ sweep.step = "resolve" /\ faults = F
          => open \cap Signature \subseteq sweep.left \cup sweep.seen
    /\ sweep.step \in {"resolve", "coverage"} /\ sweep.trustResolution
          => sweep.seen = sweep.failing
    /\ sweep.step = "coverage" /\ sweep.trustResolution /\ faults = F
          => open \cap Signature \subseteq sweep.seen

LEMMA OneMore ==
  ASSUME NEW S, IsFiniteSet(S), NEW T, NEW x, T \subseteq S \cup {x}
  PROVE  /\ Cardinality(T) \in Nat /\ Cardinality(S) \in Nat
         /\ Cardinality(T) <= Cardinality(S) + 1
         /\ T \subseteq S => Cardinality(T) <= Cardinality(S)
<1>1. IsFiniteSet(S \cup {x}) /\ Cardinality(S \cup {x}) \in Nat
      /\ Cardinality(S \cup {x}) <= Cardinality(S) + 1 /\ Cardinality(S) \in Nat
  <2>1. Cardinality(S) \in Nat
    BY FS_CardinalityType
  <2>2. IsFiniteSet(S \cup {x})
        /\ Cardinality(S \cup {x}) \in {Cardinality(S), Cardinality(S) + 1}
    BY FS_AddElement
  <2> QED BY <2>1, <2>2
<1>2. Cardinality(T) <= Cardinality(S \cup {x}) /\ Cardinality(T) \in Nat
  BY <1>1, FS_Subset, FS_CardinalityType
<1>3. T \subseteq S => Cardinality(T) <= Cardinality(S)
  BY FS_Subset
<1> QED BY <1>1, <1>2, <1>3

(* No step takes a failure back.                                            *)
LEMMA FaultsGrow ==
  ASSUME TypeOK, [Next]_vars PROVE faults \in Nat /\ faults' \in {faults, faults + 1}
<1>1. Fault \/ NoFault
  <2>1. CASE SweepStep
    BY <2>1 DEF SweepStep, Start, Fetch, KeepWatching, ListActive, Resolved, CheckIngestCoverage,
       FetchFails, ResolveFails, CoverageFails, HandleGroup, GroupFails, Resolve, NoFault
  <2>2. CASE CheckStep
    BY <2>2 DEF CheckStep, StartCheck, Check, CheckFails
  <2>3. CASE Environment \/ Tick \/ UNCHANGED vars
    BY <2>3 DEF Environment, Log, OtherBeats, OutageChanges, ShippingChanges, IndexRestarts,
       PodRestarts, Tick, vars, NoFault
  <2> QED BY <2>1, <2>2, <2>3 DEF Next
<1> QED BY <1>1 DEF Fault, NoFault, TypeOK

LEMMA NextNothingSeen ==
  ASSUME TypeOK, NothingSeen, [Next]_vars PROVE NothingSeen'
<1> USE DEF NothingSeen, Looking
<1>1. CASE Start \/ Fetch \/ KeepWatching \/ ListActive \/ Resolved
  <2>1. CASE Start
    BY <2>1 DEF Start, NoSweep
  <2>2. CASE Fetch
    <3>1. sweep'.step = "groups"
      BY <2>2 DEF Fetch, TypeOK, Sweep
    <3> QED BY <3>1
  <2>3. CASE KeepWatching \/ Resolved
    BY <2>3 DEF KeepWatching, Resolved, TypeOK, Sweep
  <2>4. CASE ListActive
    <3>1. Looking /\ (ToResolve(previouslyActive) \/ ToResolve(active))
      BY <2>4 DEF ListActive
    <3> QED BY <3>1 DEF ToResolve, TypeOK, Sweep
  <2> QED BY <1>1, <2>1, <2>2, <2>3, <2>4
<1>2. CASE \E s \in Signature : HandleGroup(s) \/ GroupFails(s) \/ Resolve(s)
  BY <1>2 DEF HandleGroup, GroupFails, Processed, Resolve, TypeOK, Sweep
<1>3. CASE sweep' = NoSweep \/ sweep' \in {sweep, [sweep EXCEPT !.elapsed = @ + 1]}
  BY <1>3 DEF NoSweep, TypeOK, Sweep
<1> QED BY <1>1, <1>2, <1>3, StepsAround

(* A step that neither looks at a group nor closes an alert.                *)
LEMMA SameMissed ==
  ASSUME sweep'.seen = sweep.seen, open' \cap Signature = open \cap Signature, TypeOK
  PROVE  Missed' = Missed
<1>1. sweep.seen \subseteq Signature
  BY DEF TypeOK, Sweep
<1> QED BY <1>1 DEF Missed

LEMMA NextPaidFor ==
  ASSUME IsFiniteSet(Signature), NEW F \in Nat,
         Honest, NothingSeen, PaidFor(F), [Next]_vars
  PROVE  PaidFor(F)'
<1> USE DEF Honest
<1>f. /\ faults \in Nat /\ faults' \in Nat /\ F <= faults'
      /\ faults' = faults \/ faults' = faults + 1
  BY FaultsGrow DEF PaidFor
<1>m. IsFiniteSet(Missed) /\ Cardinality(Missed) \in Nat
  <2>1. Missed \subseteq Signature
    BY DEF Missed, TypeOK, Sweep
  <2> QED BY <2>1, FS_Subset, FS_CardinalityType
<1>1. CASE Start \/ sweep' = NoSweep
  BY <1>1, <1>f DEF Start, NoSweep, PaidFor, Looking
<1>2. CASE Fetch
  <2>1. /\ sweep'.step = "groups" /\ sweep'.left = Worth(indexed)
        /\ sweep'.trustResolution = trustResolution /\ sweep'.failing = Worth(logged)
        /\ sweep'.seen = {}
    BY <1>2 DEF Fetch, TypeOK, Sweep, NothingSeen, Looking
  <2>2. Missed' = {}
    BY <2>1 DEF Missed
  <2>3. Cardinality(Missed') = 0
    BY <2>2, FS_EmptySet
  <2>4. sweep'.trustResolution => sweep'.left \cup sweep'.seen = sweep'.failing
    BY <2>1, WarmIndex
  <2>5. Cardinality(Missed') <= faults' - F
    <3>1. \A m, n \in Nat : m <= n => 0 <= n - m
      OBVIOUS
    <3>2. 0 <= faults' - F
      BY <1>f, <3>1
    <3> QED BY <2>3, <3>2
  <2>6. sweep'.step = "groups"
    BY <2>1
  <2> QED BY <1>f, <2>4, <2>5, <2>6 DEF PaidFor
<1>3. CASE KeepWatching
  <2>1. /\ sweep.step = "groups" /\ ~sweep.trustResolution /\ sweep' = [sweep EXCEPT !.step = "coverage"]
        /\ UNCHANGED <<open, faults>>
    BY <1>3 DEF KeepWatching, NoFault
  <2>2. sweep'.step = "coverage" /\ ~sweep'.trustResolution /\ sweep'.seen = sweep.seen
    BY <2>1 DEF TypeOK, Sweep
  <2>3. Missed' = Missed
    BY <2>1, <2>2, SameMissed
  <2> QED BY <2>1, <2>2, <2>3, <1>f DEF PaidFor, Looking
<1>4. CASE ListActive
  <2>1. /\ sweep.step = "groups" /\ sweep.left = {} /\ sweep.trustResolution /\ UNCHANGED open
        /\ sweep'.step = "resolve" /\ sweep'.seen = sweep.seen
        /\ sweep'.trustResolution = sweep.trustResolution /\ sweep'.failing = sweep.failing
        /\ sweep'.left \cap sweep.seen = {}
    <3>1. /\ sweep.step = "groups" /\ sweep.left = {} /\ sweep.trustResolution /\ UNCHANGED open
          /\ \/ ToResolve(previouslyActive)
             \/ ToResolve(active)
      BY <1>4 DEF ListActive
    <3>2. /\ sweep'.step = "resolve" /\ sweep'.left \cap sweep.seen = {} /\ sweep'.seen = sweep.seen
          /\ sweep'.trustResolution = sweep.trustResolution /\ sweep'.failing = sweep.failing
      BY <3>1 DEF ToResolve, TypeOK, Sweep
    <3> QED BY <3>1, <3>2
  <2>2. \/ sweep'.left = previouslyActive \ sweep.seen
        \/ faults' = faults + 1
    BY <1>4 DEF ListActive, ToResolve, Fault, TypeOK, Sweep
  <2>3. Missed' = Missed
    BY <2>1, SameMissed
  <2>4. faults' = F => open' \cap Signature \subseteq sweep'.left \cup sweep'.seen
    BY <1>f, <2>1, <2>2 DEF PaidFor, previouslyActive
  <2> QED BY <1>f, <1>m, <2>1, <2>3, <2>4 DEF PaidFor, Looking
<1>5. CASE Resolved
  <2>1. /\ sweep.step = "resolve" /\ sweep.left = {} /\ UNCHANGED <<open, faults>>
        /\ sweep'.step = "coverage" /\ sweep'.seen = sweep.seen
        /\ sweep'.trustResolution = sweep.trustResolution /\ sweep'.failing = sweep.failing
    BY <1>5 DEF Resolved, NoFault, TypeOK, Sweep
  <2>2. Missed' = Missed
    BY <2>1, SameMissed
  <2> QED BY <2>1, <2>2, <1>f DEF PaidFor, Looking
<1>6. CASE \E s \in Signature : HandleGroup(s) \/ GroupFails(s)
  <2> PICK s \in Signature : HandleGroup(s) \/ GroupFails(s)
    BY <1>6
  <2>1. sweep.step = "groups" /\ s \in sweep.left /\ sweep' = Processed(s)
    BY DEF HandleGroup, GroupFails
  <2>2. /\ sweep'.step = "groups" /\ sweep'.left = sweep.left \ {s}
        /\ sweep'.seen = sweep.seen \cup {s} /\ sweep'.failing = sweep.failing
        /\ sweep'.trustResolution = sweep.trustResolution
    BY <2>1 DEF Processed, TypeOK, Sweep
  <2>3. open \subseteq open'
    BY DEF HandleGroup, GroupFails
  <2>4. \/ faults' = faults /\ Missed' \subseteq Missed
        \/ faults' = faults + 1 /\ Missed' \subseteq Missed \cup {s}
    <3>1. CASE s \in Poison \/ s \in open'
      BY <3>1, <2>2, <2>3, <1>f DEF Missed
    <3>2. CASE ~(s \in Poison \/ s \in open')
      <4>1. faults' = faults + 1
        BY <3>2 DEF HandleGroup, GroupFails, Fault
      <4> QED BY <4>1, <2>2, <2>3 DEF Missed
    <3> QED BY <3>1, <3>2
  <2>5. Cardinality(Missed') \in Nat /\ Cardinality(Missed') <= Cardinality(Missed) + (faults' - faults)
    <3>1. \A T : T \subseteq Missed \cup {s}
                   => /\ Cardinality(T) \in Nat /\ Cardinality(T) <= Cardinality(Missed) + 1
                      /\ T \subseteq Missed => Cardinality(T) <= Cardinality(Missed)
      BY <1>m, OneMore
    <3>2. Missed' \subseteq Missed \cup {s}
      BY <2>4
    <3>3. /\ Cardinality(Missed') \in Nat /\ Cardinality(Missed') <= Cardinality(Missed) + 1
          /\ Missed' \subseteq Missed => Cardinality(Missed') <= Cardinality(Missed)
      BY <3>1, <3>2
    <3> QED BY <1>m, <1>f, <2>4, <3>3
  <2>6. Cardinality(Missed) <= faults - F
    BY <2>1 DEF PaidFor, Looking
  <2>7. Cardinality(Missed') <= faults' - F
    BY <1>f, <1>m, <2>5, <2>6
  <2> QED BY <1>f, <2>1, <2>2, <2>7 DEF PaidFor
<1>7. CASE \E s \in Signature : Resolve(s)
  <2> PICK s \in Signature : Resolve(s)
    BY <1>7
  <2>1. /\ sweep.step = "resolve" /\ s \in sweep.left /\ open' = open \ {s}
        /\ UNCHANGED faults
        /\ sweep'.step = "resolve" /\ sweep'.seen = sweep.seen /\ sweep'.left = sweep.left \ {s}
        /\ sweep'.trustResolution = sweep.trustResolution /\ sweep'.failing = sweep.failing
    BY DEF Resolve, NoFault, TypeOK, Sweep
  <2>2. s \notin sweep.seen
    BY <2>1 DEF PaidFor
  <2>3. Missed' = Missed
    BY <2>1, <2>2 DEF Missed
  <2> QED BY <1>f, <2>1, <2>3 DEF PaidFor, Looking
<1>8. CASE /\ open' \cap Signature = open \cap Signature
           /\ sweep' \in {sweep, [sweep EXCEPT !.elapsed = @ + 1]}
  <2>1. /\ sweep'.step = sweep.step /\ sweep'.seen = sweep.seen /\ sweep'.left = sweep.left
        /\ sweep'.trustResolution = sweep.trustResolution /\ sweep'.failing = sweep.failing
    BY <1>8 DEF TypeOK, Sweep
  <2>2. Missed' = Missed
    BY <1>8, <2>1, SameMissed
  <2>3. Looking' = Looking
    BY <2>1 DEF Looking
  <2>4. Looking => Cardinality(Missed') <= faults' - F
    BY <1>f, <1>m, <2>2 DEF PaidFor
  <2>5. faults' = F => faults = F
    BY <1>f DEF PaidFor
  <2> QED BY <1>f, <1>8, <2>1, <2>3, <2>4, <2>5 DEF PaidFor
<1> QED BY <1>1, <1>2, <1>3, <1>4, <1>5, <1>6, <1>7, <1>8, StepsAround

(* A sweep that gets through its groups has left no more of those it found  *)
(* without an alert than calls have failed, groups that can never be        *)
(* processed apart: one failure costs one group, not the sweep              *)
(* (error-log-watcher.ts:148-149).                                          *)
THEOREM OneFailureCostsOneGroup ==
  ASSUME IsFiniteSet(Signature), NEW F \in Nat
  PROVE  Spec => [](sweep.step = "idle" /\ faults = F
                      => [](sweep.step = "coverage" => Cardinality(Missed) <= faults - F))
<1> DEFINE Begins == sweep.step = "idle" /\ faults = F
           Enough == sweep.step = "coverage" => Cardinality(Missed) <= faults - F
<1>1. Honest /\ Begins => PaidFor(F)
  BY DEF Honest, TypeOK, PaidFor, Looking
<1>2. Honest /\ NothingSeen /\ PaidFor(F) /\ [Next]_vars => PaidFor(F)'
  BY NextPaidFor
<1>3. PaidFor(F) => Enough
  BY DEF PaidFor, Looking
<1>4. Init => NothingSeen
  BY DEF Init, NoSweep, NothingSeen
<1>5. Honest /\ NothingSeen /\ [Next]_vars => NothingSeen'
  BY NextNothingSeen DEF Honest
<1> HIDE DEF Begins, Enough
<1>6. Spec => [](Begins => []Enough)
  BY <1>1, <1>2, <1>3, <1>4, <1>5, InitHonest, NextHonest, PTL DEF Spec
<1> QED BY <1>6 DEF Begins, Enough

(* A sweep in which nothing failed, over an index that has been up for the  *)
(* whole window, leaves an alert for every signature that was failing when  *)
(* it looked and for no other (error-log-watcher.ts:121-165).               *)
THEOREM SweepIsExact ==
  ASSUME IsFiniteSet(Signature), NEW F \in Nat
  PROVE  Spec => [](sweep.step = "idle" /\ faults = F
                      => [](sweep.step = "coverage" /\ sweep.trustResolution /\ faults = F
                              => /\ sweep.failing \ Poison \subseteq open
                                 /\ open \cap Signature \subseteq sweep.failing))
<1> DEFINE Begins == sweep.step = "idle" /\ faults = F
           Exact == sweep.step = "coverage" /\ sweep.trustResolution /\ faults = F
                      => /\ sweep.failing \ Poison \subseteq open
                         /\ open \cap Signature \subseteq sweep.failing
<1>1. Honest /\ Begins => PaidFor(F)
  BY DEF Honest, TypeOK, PaidFor, Looking
<1>2. Honest /\ NothingSeen /\ PaidFor(F) /\ [Next]_vars => PaidFor(F)'
  BY NextPaidFor
<1>3. Honest /\ PaidFor(F) => Exact
  <2> SUFFICES ASSUME Honest, PaidFor(F), sweep.step = "coverage", sweep.trustResolution, faults = F
               PROVE  /\ sweep.failing \ Poison \subseteq open
                      /\ open \cap Signature \subseteq sweep.failing
    OBVIOUS
  <2>1. sweep.seen = sweep.failing /\ open \cap Signature \subseteq sweep.seen
    BY DEF PaidFor
  <2>2. Missed \subseteq Signature
    BY DEF Missed, Honest, TypeOK, Sweep
  <2>3. IsFiniteSet(Missed) /\ Cardinality(Missed) \in Nat
    BY <2>2, FS_Subset, FS_CardinalityType
  <2>4. Cardinality(Missed) <= 0
    BY DEF PaidFor, Looking
  <2>5. Missed = {}
    BY <2>3, <2>4, FS_EmptySet
  <2> QED BY <2>1, <2>5 DEF Missed
<1>4. Init => NothingSeen
  BY DEF Init, NoSweep, NothingSeen
<1>5. Honest /\ NothingSeen /\ [Next]_vars => NothingSeen'
  BY NextNothingSeen DEF Honest
<1> HIDE DEF Begins, Exact
<1>6. Spec => [](Begins => []Exact)
  BY <1>1, <1>2, <1>3, <1>4, <1>5, InitHonest, NextHonest, PTL DEF Spec
<1> QED BY <1>6 DEF Begins, Exact

-----------------------------------------------------------------------------
(* A signature that is quiet gets no alert *)

(* The running sweep has no group of s in hand.                             *)
NothingToSay(s) == sweep.step = "groups" => s \notin sweep.left

LEMMA QuietStep ==
  ASSUME Honest, NEW s \in Signature, Quiet(s), NothingToSay(s), [Next]_vars
  PROVE  NothingToSay(s)' /\ (s \notin open => s \notin open')
<1> USE DEF Honest, NothingToSay
<1>1. CASE Fetch
  <2>1. sweep'.left = Worth(indexed) /\ UNCHANGED open
    BY <1>1 DEF Fetch, TypeOK, Sweep
  <2>2. indexed[s] = {}
    BY DEF Quiet, IndexHonest
  <2>3. Cardinality(indexed[s]) = 0
    BY <2>2, FS_EmptySet
  <2> QED BY <2>1, <2>3 DEF Worth
<1>2. CASE Start \/ KeepWatching \/ ListActive \/ Resolved
  <2>1. UNCHANGED open
    BY <1>2 DEF Start, KeepWatching, ListActive, Resolved
  <2>2. sweep'.step \in {"fetch", "coverage", "resolve"}
    BY <1>2 DEF Start, NoSweep, KeepWatching, ListActive, ToResolve, Resolved, TypeOK, Sweep
  <2> QED BY <2>1, <2>2
<1>3. CASE \E r \in Signature : HandleGroup(r) \/ GroupFails(r)
  <2> PICK r \in Signature : HandleGroup(r) \/ GroupFails(r)
    BY <1>3
  <2>1. /\ sweep.step = "groups" /\ r \in sweep.left /\ sweep' = Processed(r)
        /\ open' \subseteq open \cup {r}
    BY DEF HandleGroup, GroupFails
  <2>2. sweep'.left = sweep.left \ {r}
    BY <2>1 DEF Processed, TypeOK, Sweep
  <2> QED BY <2>1, <2>2
<1>4. CASE \E r \in Signature : Resolve(r)
  BY <1>4 DEF Resolve, TypeOK, Sweep
<1>5. CASE /\ open' \cap Signature = open \cap Signature
           /\ sweep' = NoSweep \/ sweep' \in {sweep, [sweep EXCEPT !.elapsed = @ + 1]}
  BY <1>5 DEF NoSweep, TypeOK, Sweep
<1> QED BY <1>1, <1>2, <1>3, <1>4, <1>5, StepsAround

(* A signature without an alert that logs nothing in the window gets none,  *)
(* whatever fails or restarts and however long the sweep it is in takes.    *)
THEOREM QuietStaysClosed ==
  ASSUME NEW s \in Signature
  PROVE  Spec => [](sweep.step = "idle" /\ []Quiet(s) => [](s \notin open => [](s \notin open)))
<1> DEFINE IsOpen == s \in open
           IsQuiet == Quiet(s)
           IsIdle == sweep.step = "idle"
<1>1. IsIdle => NothingToSay(s)
  BY DEF NothingToSay
<1>2. Honest /\ NothingToSay(s) /\ IsQuiet /\ [Next]_vars
        => NothingToSay(s)' /\ (~IsOpen => ~IsOpen')
  BY QuietStep
<1>3. (s \notin open) <=> ~IsOpen
  OBVIOUS
<1> HIDE DEF IsOpen, IsQuiet, IsIdle
<1>4. Spec => [](IsIdle /\ []IsQuiet => [](~IsOpen => []~IsOpen))
  BY <1>1, <1>2, InitHonest, NextHonest, PTL DEF Spec
<1> QED BY <1>3, <1>4, PTL DEF IsQuiet, IsIdle

-----------------------------------------------------------------------------
(* The heartbeat's check *)

(* The steps of a check, and those that leave it and its alerts be.         *)
LEMMA StepsAroundCheck ==
  ASSUME TypeOK, [Next]_vars
  PROVE  \/ StartCheck
         \/ \E w \in Watcher : Check(w) \/ CheckFails(w)
         \/ check' \in {check, NoCheck} /\ open' \cap Watcher = open \cap Watcher
<1>1. CASE CheckStep
  BY <1>1 DEF CheckStep
<1>2. CASE \E s \in Signature : HandleGroup(s) \/ GroupFails(s) \/ Resolve(s)
  <2>1. check' = check /\ \E s \in Signature : open' \in {open, open \cup {s}, open \ {s}}
    BY <1>2 DEF HandleGroup, GroupFails, Resolve
  <2>2. Signature \cap Watcher = {}
    OBVIOUS
  <2> QED BY <2>1, <2>2
<1>3. CASE CheckIngestCoverage \/ CoverageFails
  <2>1. check' = check /\ open' \in {open, open \cup {Ingest}, open \ {Ingest}}
    BY <1>3 DEF CheckIngestCoverage, CoverageFails, Coverage, SweepFailed
  <2>2. Ingest \notin Watcher
    OBVIOUS
  <2> QED BY <2>1, <2>2
<1>4. CASE Start \/ Fetch \/ KeepWatching \/ ListActive \/ Resolved \/ FetchFails \/ ResolveFails
  BY <1>4 DEF Start, Fetch, KeepWatching, ListActive, Resolved, FetchFails, ResolveFails, SweepFailed
<1>5. CASE Environment \/ Tick \/ UNCHANGED vars
  BY <1>5 DEF Environment, Log, OtherBeats, OutageChanges, ShippingChanges, IndexRestarts,
     PodRestarts, Tick, vars
<1> QED BY <1>1, <1>2, <1>3, <1>4, <1>5 DEF Next, SweepStep

(* The watchers this check has looked at and left with the wrong alerts.    *)
Mistaken == {w \in Watcher \ check.left : (w \in check.silent) # (w \in open)}

ChecksPaidFor(F) ==
    /\ F <= faults
    /\ check.left # {} => Cardinality(Mistaken) <= faults - F

(* The check of one watcher costs at most that watcher, and only by a       *)
(* failed call.                                                             *)
LEMMA CheckPaidFor ==
  ASSUME IsFiniteSet(Watcher), NEW F \in Nat, TypeOK, ChecksPaidFor(F),
         NEW w \in Watcher, Check(w) \/ CheckFails(w)
  PROVE  Cardinality(Mistaken') <= faults' - F
<1>1. /\ w \in check.left /\ open' \in {open, Checked(w)}
      /\ check'.left = check.left \ {w} /\ check'.silent = check.silent
  BY DEF Check, CheckFails, CheckWatcher, CheckWatcherFails, TypeOK
<1>2. \/ faults' = faults /\ Mistaken' \subseteq Mistaken
      \/ faults' = faults + 1 /\ Mistaken' \subseteq Mistaken \cup {w}
  <2>1. Mistaken' \subseteq Mistaken \cup {w}
    BY <1>1 DEF Mistaken, Checked
  <2>2. CASE Check(w)
    <3>1. faults' = faults /\ open' = Checked(w)
      BY <2>2 DEF Check, CheckWatcher, NoFault
    <3>2. (w \in check.silent) <=> (w \in open')
      BY <3>1 DEF Checked
    <3> QED BY <1>1, <2>1, <3>1, <3>2 DEF Mistaken
  <2>3. CASE CheckFails(w)
    BY <2>1, <2>3 DEF CheckFails, Fault
  <2> QED BY <2>2, <2>3
<1>3. IsFiniteSet(Mistaken) /\ Cardinality(Mistaken) \in Nat
  <2>1. Mistaken \subseteq Watcher
    BY DEF Mistaken
  <2> QED BY <2>1, FS_Subset, FS_CardinalityType
<1>4. Cardinality(Mistaken) <= faults - F
  BY <1>1 DEF ChecksPaidFor
<1>5. \A T : T \subseteq Mistaken \cup {w}
               => /\ Cardinality(T) \in Nat /\ Cardinality(T) <= Cardinality(Mistaken) + 1
                  /\ T \subseteq Mistaken => Cardinality(T) <= Cardinality(Mistaken)
  BY <1>3, OneMore
<1>6. Mistaken' \subseteq Mistaken \cup {w}
  BY <1>2
<1>7. /\ Cardinality(Mistaken') \in Nat /\ Cardinality(Mistaken') <= Cardinality(Mistaken) + 1
      /\ Mistaken' \subseteq Mistaken => Cardinality(Mistaken') <= Cardinality(Mistaken)
  BY <1>5, <1>6
<1>8. faults \in Nat
  BY DEF TypeOK
<1> QED BY <1>2, <1>3, <1>4, <1>7, <1>8

LEMMA NextChecksPaidFor ==
  ASSUME IsFiniteSet(Watcher), NEW F \in Nat, TypeOK, ChecksPaidFor(F), [Next]_vars
  PROVE  /\ ChecksPaidFor(F)'
         /\ CheckStep /\ check'.left = {} => Cardinality(Mistaken') <= faults' - F
<1>f. /\ faults \in Nat /\ faults' \in Nat /\ F <= faults'
      /\ faults' = faults \/ faults' = faults + 1
  BY FaultsGrow DEF ChecksPaidFor
<1>1. CASE StartCheck
  <2>1. check'.left = Watcher
    BY <1>1 DEF StartCheck, runCheck, snapshot
  <2>2. Mistaken' = {}
    BY <2>1 DEF Mistaken
  <2>3. Cardinality(Mistaken') = 0
    BY <2>2, FS_EmptySet
  <2>4. \A m, n \in Nat : m <= n => 0 <= n - m
    OBVIOUS
  <2>5. 0 <= faults' - F
    BY <1>f, <2>4
  <2> QED BY <1>f, <2>3, <2>5 DEF ChecksPaidFor
<1>2. CASE \E w \in Watcher : Check(w) \/ CheckFails(w)
  BY <1>2, <1>f, CheckPaidFor DEF ChecksPaidFor
<1>3. CASE check' \in {check, NoCheck} /\ open' \cap Watcher = open \cap Watcher
  <2>1. CASE check' = check
    <3>1. Mistaken' = Mistaken
      BY <1>3, <2>1 DEF Mistaken
    <3>2. IsFiniteSet(Mistaken) /\ Cardinality(Mistaken) \in Nat
      <4>1. Mistaken \subseteq Watcher
        BY DEF Mistaken
      <4> QED BY <4>1, FS_Subset, FS_CardinalityType
    <3>3. check.left # {} => Cardinality(Mistaken') <= faults' - F
      BY <1>f, <3>1, <3>2 DEF ChecksPaidFor
    <3>4. ChecksPaidFor(F)'
      BY <1>f, <2>1, <3>3 DEF ChecksPaidFor
    <3>5. CheckStep => check.left # {} \/ check'.left # {}
      BY DEF CheckStep, StartCheck, runCheck, snapshot, Check, CheckFails, CheckWatcher,
         CheckWatcherFails
    <3> QED BY <2>1, <3>3, <3>4, <3>5
  <2>2. CASE check' = NoCheck
    <3>1. ChecksPaidFor(F)'
      BY <1>f, <2>2 DEF ChecksPaidFor, NoCheck
    <3>2. CheckStep => StartCheck \/ \E w \in Watcher : Check(w) \/ CheckFails(w)
      BY DEF CheckStep
    <3> QED BY <1>1, <1>2, <3>1, <3>2
  <2> QED BY <1>3, <2>1, <2>2
<1> QED BY <1>1, <1>2, <1>3, StepsAroundCheck

(* A check that reaches its end leaves an alert for every watcher its       *)
(* snapshot called silent and for no other, but for as many watchers as     *)
(* calls have failed: one failure costs one watcher                         *)
(* (heartbeat.service.ts:114-128).                                          *)
THEOREM OneFailureCostsOneWatcher ==
  ASSUME IsFiniteSet(Watcher), NEW F \in Nat
  PROVE  Spec => [](check.left = {} /\ faults = F
                      => [][CheckStep /\ check'.left = {}
                              => Cardinality(Mistaken') <= faults' - F]_vars)
<1> DEFINE Begins == check.left = {} /\ faults = F
           Enough == CheckStep /\ check'.left = {} => Cardinality(Mistaken') <= faults' - F
<1>1. TypeOK /\ Begins => ChecksPaidFor(F)
  BY DEF TypeOK, ChecksPaidFor
<1>2. TypeOK /\ ChecksPaidFor(F) /\ [Next]_vars => ChecksPaidFor(F)' /\ [Enough]_vars
  BY NextChecksPaidFor
<1> HIDE DEF Begins, Enough
<1>3. Spec => [](Begins => [][Enough]_vars)
  BY <1>1, <1>2, ErrorLogTypes, PTL DEF Spec
<1> QED BY <1>3 DEF Begins, Enough

(* The running check has not taken w for a watcher that beats, or, the      *)
(* other way round, for a silent one.                                       *)
FoundSilent(w) == w \in check.left => w \in check.silent
FoundBeating(w) == w \in check.left => w \notin check.silent

LEMMA FindingStays ==
  ASSUME TypeOK, NEW w \in Watcher, [Next]_vars
  PROVE  /\ age[w] > SilentAfter /\ FoundSilent(w) => FoundSilent(w)' /\ (w \in open => w \in open')
         /\ ~(age[w] > SilentAfter) /\ FoundBeating(w)
               => FoundBeating(w)' /\ (w \notin open => w \notin open')
<1> USE DEF FoundSilent, FoundBeating
<1>1. CASE StartCheck
  BY <1>1 DEF StartCheck, runCheck, snapshot
<1>2. CASE \E v \in Watcher : Check(v) \/ CheckFails(v)
  <2> PICK v \in Watcher : Check(v) \/ CheckFails(v)
    BY <1>2
  <2>1. /\ v \in check.left /\ open' \in {open, Checked(v)}
        /\ check'.left = check.left \ {v} /\ check'.silent = check.silent
    BY DEF Check, CheckFails, CheckWatcher, CheckWatcherFails, TypeOK
  <2>2. v # w => (w \in open <=> w \in open')
    BY <2>1 DEF Checked
  <2>3. v = w => (w \in check.silent /\ w \in open => w \in open')
                 /\ (w \notin check.silent /\ w \notin open => w \notin open')
    BY <2>1 DEF Checked
  <2> QED BY <2>1, <2>2, <2>3
<1>3. CASE check' \in {check, NoCheck} /\ open' \cap Watcher = open \cap Watcher
  BY <1>3 DEF NoCheck
<1> QED BY <1>1, <1>2, <1>3, StepsAroundCheck

(* From a moment when no check runs, a watcher that stays silent keeps its  *)
(* alert, and one that never does gets none, whatever fails: a failed query *)
(* never turns one into the other (heartbeat.service.ts:114-128).           *)
THEOREM HeartbeatKeepsItsWord ==
  ASSUME NEW w \in Watcher
  PROVE  Spec => [](check.left = {}
                      => /\ [](age[w] > SilentAfter) => [](w \in open => [](w \in open))
                         /\ []~(age[w] > SilentAfter) => [](w \notin open => [](w \notin open)))
<1> DEFINE IsOpen == w \in open
           IsSilent == age[w] > SilentAfter
           IsClosed == w \notin open
           Beats == ~(age[w] > SilentAfter)
           Between == check.left = {}
<1>1. Between => FoundSilent(w) /\ FoundBeating(w)
  BY DEF FoundSilent, FoundBeating
<1>2. TypeOK /\ FoundSilent(w) /\ IsSilent /\ [Next]_vars => FoundSilent(w)' /\ (IsOpen => IsOpen')
  BY FindingStays
<1>3. TypeOK /\ FoundBeating(w) /\ Beats /\ [Next]_vars => FoundBeating(w)' /\ (IsClosed => IsClosed')
  BY FindingStays
<1> HIDE DEF IsOpen, IsClosed, IsSilent, Beats, Between
<1>4. Spec => [](Between => /\ []IsSilent => [](IsOpen => []IsOpen)
                            /\ []Beats => [](IsClosed => []IsClosed))
  BY <1>1, <1>2, <1>3, ErrorLogTypes, PTL DEF Spec
<1> QED BY <1>4 DEF IsOpen, IsClosed, IsSilent, Beats, Between
=============================================================================
