----------------------------- MODULE DigestProofs -----------------------------
(***************************************************************************)
(* Proofs about the daily digest, for any services: the types, that what a  *)
(* digest compares with was heard, and that no day passes in silence.       *)
(***************************************************************************)
EXTENDS DailyDigest, TLAPS

Task == [step : {"idle", "find", "upsert", "send", "report"},
         entries : Entries \cup {NONE}, previous : Entries \cup {NONE}]

-----------------------------------------------------------------------------
(* Types, with what a run that has begun holds *)

(* A run holds entries until it ends, and no baseline once it has ended.    *)
RunsHold ==
  \A r \in Run :
     /\ run[r].step \in {"find", "upsert", "send"} => run[r].entries \in Entries
     /\ run[r].step \in {"idle", "report"} => run[r].previous = NONE

TypeInv == DigestTypes /\ RunsHold

LEMMA ProbedIsEntries ==
  ASSUME DigestTypes PROVE [s \in monitored |-> health[s]] \in Entries
<1>1. monitored \in SUBSET Service /\ \A s \in monitored : health[s] \in BOOLEAN
  BY DEF DigestTypes
<1>2. [s \in monitored |-> health[s]] \in [monitored -> BOOLEAN]
  BY <1>1
<1> QED BY <1>1, <1>2 DEF Entries

LEMMA DayTypes ==
  /\ NewDay \in Day
  /\ \A d \in Day : Worse(d.trouble) \in {"one", "more"}
  /\ \A d \in Day : d.trouble \in {"none", "one", "more"}
  /\ Idle \in Task /\ Idle.step = "idle" /\ Idle.previous = NONE
  /\ [Idle EXCEPT !.step = AfterFailure] \in Task
  /\ [Idle EXCEPT !.step = AfterFailure].step = "report"
  /\ [Idle EXCEPT !.step = AfterFailure].previous = NONE
  BY DEF NewDay, Day, Worse, Idle, Task, AfterFailure

LEMMA InitTypes == Init => TypeInv
  BY DayTypes DEF Init, TypeInv, DigestTypes, RunsHold, Task

(* A run that moves to a task of the right shape keeps the runs' types.     *)
LEMMA OneRun ==
  ASSUME TypeInv, NEW r \in Run, NEW task \in Task, run' = [run EXCEPT ![r] = task],
         task.step \in {"find", "upsert", "send"} => task.entries \in Entries,
         task.step \in {"idle", "report"} => task.previous = NONE
  PROVE  /\ run' \in [Run -> Task] /\ RunsHold' /\ run'[r] = task
         /\ \A q \in Run \ {r} : run'[q] = run[q]
  BY DEF TypeInv, DigestTypes, RunsHold, Task

(* What each step of a run does, field by field.                            *)
LEMMA BeginDoes ==
  ASSUME TypeInv, NEW r \in Run, Begin(r)
  PROVE  /\ TypeInv' /\ ~Running(r) /\ run'[r].step = "find" /\ run'[r].previous = NONE
         /\ \A q \in Run \ {r} : run'[q] = run[q]
<1> DEFINE e == [s \in monitored |-> health[s]]
           task == [Idle EXCEPT !.step = "find", !.entries = e]
<1>1. e \in Entries
  BY ProbedIsEntries DEF TypeInv
<1>2. run' = [run EXCEPT ![r] = task]
  BY DEF Begin
<1> HIDE DEF e
<1>3. task \in Task /\ task.step = "find" /\ task.entries = e /\ task.previous = NONE
  BY <1>1 DEF Idle, Task
<1> HIDE DEF task
<1>4. /\ run' \in [Run -> Task] /\ RunsHold' /\ run'[r] = task
      /\ \A q \in Run \ {r} : run'[q] = run[q]
  BY <1>1, <1>2, <1>3, OneRun
<1>5. today' \in Day /\ due' \in BOOLEAN
  <2>1. PICK t \in {"none", "one", "more"} : today' = [today EXCEPT !.trouble = t]
    BY DEF Begin, TypeInv, DigestTypes, Day
  <2> QED BY <2>1 DEF Begin, TypeInv, DigestTypes, Day
<1>6. UNCHANGED <<monitored, health, yesterday, reported>>
  BY DEF Begin
<1>7. DigestTypes'
  BY <1>4, <1>5, <1>6 DEF TypeInv, DigestTypes, Task
<1> QED BY <1>3, <1>4, <1>7 DEF TypeInv, Begin

LEMMA FindDoes ==
  ASSUME TypeInv, NEW r \in Run, FindYesterday(r)
  PROVE  /\ TypeInv' /\ run'[r].step = "upsert" /\ run'[r].entries = run[r].entries
         /\ run'[r].previous \in {NONE, yesterday.snap}
         /\ \A q \in Run \ {r} : run'[q] = run[q]
<1>1. PICK p \in {NONE, yesterday.snap} :
        run' = [run EXCEPT ![r].step = "upsert", ![r].previous = p]
  BY DEF FindYesterday, yesterdaySnapshot
<1>2. run[r] \in Task /\ p \in Entries \cup {NONE} /\ run[r].entries \in Entries
  BY DEF TypeInv, DigestTypes, RunsHold, FindYesterday, Task, Day
<1> DEFINE task == [run[r] EXCEPT !.step = "upsert", !.previous = p]
<1>3. /\ run' = [run EXCEPT ![r] = task] /\ task \in Task
      /\ task.step = "upsert" /\ task.entries = run[r].entries /\ task.previous = p
  BY <1>1, <1>2 DEF TypeInv, DigestTypes, Task
<1> HIDE DEF task
<1>4. /\ run' \in [Run -> Task] /\ RunsHold' /\ run'[r] = task
      /\ \A q \in Run \ {r} : run'[q] = run[q]
  BY <1>2, <1>3, OneRun
<1>5. UNCHANGED <<monitored, health, today, yesterday, reported, due>>
  BY DEF FindYesterday
<1> QED BY <1>3, <1>4, <1>5 DEF TypeInv, DigestTypes, Task

LEMMA UpsertDoes ==
  ASSUME TypeInv, NEW r \in Run, Upsert(r)
  PROVE  /\ TypeInv' /\ run'[r].step = "send" /\ run'[r].entries = run[r].entries
         /\ run'[r].previous = run[r].previous
         /\ today'.snap = run[r].entries /\ today'.heard = today.heard
         /\ today'.trouble = today.trouble
         /\ \A q \in Run \ {r} : run'[q] = run[q]
<1>1. run[r] \in Task /\ run[r].entries \in Entries
  BY DEF TypeInv, DigestTypes, RunsHold, Upsert, Task
<1> DEFINE task == [run[r] EXCEPT !.step = "send"]
<1>2. /\ run' = [run EXCEPT ![r] = task] /\ task \in Task /\ task.step = "send"
      /\ task.entries = run[r].entries /\ task.previous = run[r].previous
  BY <1>1 DEF Upsert, TypeInv, DigestTypes, Task
<1> HIDE DEF task
<1>3. /\ run' \in [Run -> Task] /\ RunsHold' /\ run'[r] = task
      /\ \A q \in Run \ {r} : run'[q] = run[q]
  BY <1>1, <1>2, OneRun
<1>4. /\ today' \in Day /\ today'.snap = run[r].entries /\ today'.heard = today.heard
      /\ today'.trouble = today.trouble
  BY <1>1 DEF Upsert, TypeInv, DigestTypes, Day
<1>5. UNCHANGED <<monitored, health, yesterday, reported, due>>
  BY DEF Upsert
<1> QED BY <1>2, <1>3, <1>4, <1>5 DEF TypeInv, DigestTypes, Task

LEMMA SendDoes ==
  ASSUME TypeInv, NEW r \in Run, SendTelegram(r)
  PROVE  /\ TypeInv' /\ run'[r].step = "idle" /\ run'[r].previous = NONE
         /\ today'.heard = run[r].entries /\ run[r].entries \in Entries
         /\ today'.snap = today.snap /\ today'.trouble = today.trouble
         /\ \A q \in Run \ {r} : run'[q] = run[q]
<1>1. run[r].entries \in Entries
  BY DEF TypeInv, RunsHold, SendTelegram
<1>2. /\ run' \in [Run -> Task] /\ RunsHold' /\ run'[r] = Idle
      /\ \A q \in Run \ {r} : run'[q] = run[q]
  BY OneRun, DayTypes DEF SendTelegram
<1>3. /\ today' \in Day /\ today'.heard = run[r].entries
      /\ today'.snap = today.snap /\ today'.trouble = today.trouble
  BY <1>1 DEF SendTelegram, TypeInv, DigestTypes, Day
<1>4. UNCHANGED <<monitored, health, yesterday, reported, due>>
  BY DEF SendTelegram
<1> QED BY <1>1, <1>2, <1>3, <1>4, DayTypes DEF TypeInv, DigestTypes, Task

LEMMA FailDoes ==
  ASSUME TypeInv, NEW r \in Run, CallFails(r)
  PROVE  /\ TypeInv' /\ run'[r].step = "report" /\ run'[r].previous = NONE
         /\ today'.trouble = Worse(today.trouble)
         /\ \A q \in Run \ {r} : run'[q] = run[q]
<1>1. run[r].entries \in Entries
  BY DEF TypeInv, RunsHold, CallFails
<1>2. /\ run' \in [Run -> Task] /\ RunsHold'
      /\ run'[r] = [Idle EXCEPT !.step = AfterFailure]
      /\ \A q \in Run \ {r} : run'[q] = run[q]
  BY OneRun, DayTypes DEF CallFails
<1>3. PICK h \in Entries \cup {NONE} :
        today' = [today EXCEPT !.trouble = Worse(@), !.heard = h]
  BY <1>1 DEF CallFails, TypeInv, DigestTypes, Day
<1>4. today' \in Day /\ today'.trouble = Worse(today.trouble)
  BY <1>3, DayTypes DEF TypeInv, DigestTypes, Day
<1>5. UNCHANGED <<monitored, health, yesterday, reported, due>>
  BY DEF CallFails
<1> QED BY <1>2, <1>4, <1>5, DayTypes DEF TypeInv, DigestTypes, Task

LEMMA ReportDoes ==
  ASSUME TypeInv, NEW r \in Run, reportDeliveryFailure(r)
  PROVE  /\ TypeInv' /\ run'[r].step = "idle" /\ run'[r].previous = NONE
         /\ \A q \in Run \ {r} : run'[q] = run[q]
         /\ (reported' = TRUE /\ today' = today) \/ today'.trouble = Worse(today.trouble)
<1>1. /\ run' \in [Run -> Task] /\ RunsHold' /\ run'[r] = Idle
      /\ \A q \in Run \ {r} : run'[q] = run[q]
  BY OneRun, DayTypes DEF reportDeliveryFailure
<1>2. /\ today' \in Day /\ reported' \in BOOLEAN
      /\ (reported' = TRUE /\ today' = today) \/ today'.trouble = Worse(today.trouble)
  BY DayTypes DEF reportDeliveryFailure, TypeInv, DigestTypes, Day
<1>3. UNCHANGED <<monitored, health, yesterday, due>>
  BY DEF reportDeliveryFailure
<1> QED BY <1>1, <1>2, <1>3, DayTypes DEF TypeInv, DigestTypes, Task

RunMoves(r) ==
  Begin(r) \/ FindYesterday(r) \/ Upsert(r) \/ SendTelegram(r) \/ CallFails(r)
  \/ reportDeliveryFailure(r)

LEMMA RestartDoes ==
  ASSUME TypeInv, PodRestarts
  PROVE  TypeInv' /\ today'.trouble = "more" /\ \A r \in Run : run'[r] = Idle
<1>1. today' \in Day /\ today'.trouble = "more"
  BY DEF PodRestarts, TypeInv, DigestTypes, Day
<1>2. run' \in [Run -> Task] /\ \A r \in Run : run'[r] = Idle
  BY DayTypes DEF PodRestarts
<1>3. RunsHold'
  BY <1>2, DayTypes DEF RunsHold
<1>4. /\ UNCHANGED <<health, yesterday, reported>> /\ monitored' \subseteq Service
      /\ due' \in BOOLEAN
  BY DEF PodRestarts, TypeInv, DigestTypes
<1> QED BY <1>1, <1>2, <1>3, <1>4 DEF TypeInv, DigestTypes, Task

LEMMA MidnightDoes ==
  ASSUME TypeInv, Midnight
  PROVE  /\ TypeInv' /\ yesterday' = today /\ today' = NewDay /\ due' = TRUE
         /\ run' = run /\ \A r \in Run : ~Running(r)
  BY DayTypes DEF Midnight, TypeInv, DigestTypes, RunsHold

LEMMA StaysTyped ==
  ASSUME TypeInv, (\E s \in Service : HealthChanges(s)) \/ UNCHANGED vars PROVE TypeInv'
  BY DEF HealthChanges, vars, TypeInv, DigestTypes, RunsHold

LEMMA NextTypes ==
  ASSUME TypeInv, [Next]_vars PROVE TypeInv'
  BY BeginDoes, FindDoes, UpsertDoes, SendDoes, FailDoes, ReportDoes, RestartDoes,
     MidnightDoes, StaysTyped DEF Next, runDigest

(* Every variable keeps its type, for every set of services.                *)
THEOREM DigestTypesCorrect == Spec => []DigestTypes
<1>1. Init => TypeInv
  BY InitTypes
<1>2. TypeInv /\ [Next]_vars => TypeInv'
  BY NextTypes
<1>3. TypeInv => DigestTypes
  BY DEF TypeInv
<1> QED BY <1>1, <1>2, <1>3, PTL DEF Spec

-----------------------------------------------------------------------------
(* The baseline *)

(* On a day without trouble one run is under way at most, and the snapshot  *)
(* is what the chat heard, or what a run is about to send.                  *)
Calm ==
  today.trouble = "none" =>
     /\ \A r, q \in Run : Running(r) /\ Running(q) => r = q
     /\ \A r \in Run : run[r].step # "report"
     /\ \A r \in Run : run[r].step = "send" => today.snap = run[r].entries
     /\ (\A r \in Run : run[r].step # "send") => today.snap = today.heard

Baseline ==
  /\ yesterday.trouble = "none" => yesterday.snap = yesterday.heard
  /\ \A r \in Run : run[r].previous # NONE => run[r].previous = yesterday.snap

BaseInv == TypeInv /\ Calm /\ Baseline

LEMMA RunKeepsBaseline ==
  ASSUME BaseInv, NEW r \in Run, RunMoves(r) PROVE Baseline'
<1> USE DEF BaseInv, Baseline
<1>1. yesterday' = yesterday
  BY DEF RunMoves, Begin, FindYesterday, Upsert, SendTelegram, CallFails, reportDeliveryFailure
<1>2. \A q \in Run \ {r} : run'[q] = run[q]
  BY BeginDoes, FindDoes, UpsertDoes, SendDoes, FailDoes, ReportDoes DEF RunMoves
<1>3. run'[r].previous \in {NONE, yesterday.snap, run[r].previous}
  BY BeginDoes, FindDoes, UpsertDoes, SendDoes, FailDoes, ReportDoes DEF RunMoves
<1> QED BY <1>1, <1>2, <1>3

LEMMA RunKeepsCalm ==
  ASSUME BaseInv, NEW r \in Run, RunMoves(r), today'.trouble = "none" PROVE Calm'
<1> USE DEF BaseInv
<1>1. today.trouble \in {"none", "one", "more"} /\ Worse(today.trouble) # "none"
  BY DayTypes DEF TypeInv, DigestTypes, Worse
<1>2. CASE Begin(r)
  <2>1. today' = today /\ \A q \in Run : ~Running(q)
    <3>1. today' = [today EXCEPT !.trouble = IF \E q \in Run : Running(q) THEN "more" ELSE @]
      BY <1>2 DEF Begin
    <3>2. today \in Day
      BY DEF TypeInv, DigestTypes
    <3>3. ~ \E q \in Run : Running(q)
      BY <3>1, <3>2 DEF Day
    <3> QED BY <3>1, <3>2, <3>3 DEF Day
  <2>2. run'[r].step = "find" /\ \A q \in Run \ {r} : run'[q] = run[q]
    BY <1>2, BeginDoes
  <2> QED BY <2>1, <2>2 DEF Calm, Running
<1>3. CASE FindYesterday(r)
  <2>1. /\ today' = today /\ run[r].step = "find" /\ run'[r].step = "upsert"
        /\ \A q \in Run \ {r} : run'[q] = run[q]
    BY <1>3, FindDoes DEF FindYesterday
  <2> QED BY <2>1 DEF Calm, Running
<1>4. CASE Upsert(r)
  <2>1. /\ run[r].step = "upsert" /\ run'[r].step = "send" /\ today'.snap = run'[r].entries
        /\ today'.trouble = today.trouble /\ \A q \in Run \ {r} : run'[q] = run[q]
    BY <1>4, UpsertDoes DEF Upsert
  <2>2. \A q \in Run \ {r} : run'[q].step = "idle"
    BY <2>1 DEF Calm, Running
  <2> QED BY <2>1, <2>2 DEF Calm, Running
<1>5. CASE SendTelegram(r)
  <2>1. /\ run[r].step = "send" /\ run'[r].step = "idle" /\ today'.snap = today.snap
        /\ today'.heard = run[r].entries /\ today'.trouble = today.trouble
        /\ \A q \in Run \ {r} : run'[q] = run[q]
    BY <1>5, SendDoes DEF SendTelegram
  <2>2. \A q \in Run : run'[q].step = "idle"
    BY <2>1 DEF Calm, Running
  <2> QED BY <2>1, <2>2 DEF Calm, Running
<1>6. CASE CallFails(r)
  BY <1>1, <1>6, FailDoes
<1>7. CASE reportDeliveryFailure(r)
  <2>1. run[r].step = "report"
    BY <1>7 DEF reportDeliveryFailure
  <2>2. today.trouble = "none"
    BY <1>1, <1>7, ReportDoes
  <2> QED BY <2>1, <2>2 DEF Calm
<1> QED BY <1>2, <1>3, <1>4, <1>5, <1>6, <1>7 DEF RunMoves

LEMMA NextBaseline ==
  ASSUME BaseInv, [Next]_vars PROVE BaseInv'
<1> USE DEF BaseInv
<1>1. TypeInv'
  BY NextTypes
<1>2. CASE \E r \in Run : runDigest(r)
  <2>1. PICK r \in Run : RunMoves(r)
    BY <1>2 DEF runDigest, RunMoves
  <2>2. Calm'
    <3>1. CASE today'.trouble = "none"
      BY <2>1, <3>1, RunKeepsCalm
    <3>2. CASE today'.trouble # "none"
      BY <3>2 DEF Calm
    <3> QED BY <3>1, <3>2
  <2> QED BY <1>1, <2>1, <2>2, RunKeepsBaseline
<1>3. CASE (\E s \in Service : HealthChanges(s)) \/ UNCHANGED vars
  BY <1>1, <1>3 DEF HealthChanges, vars, Calm, Baseline, Running
<1>4. CASE PodRestarts
  <2>1. yesterday' = yesterday
    BY <1>4 DEF PodRestarts
  <2> QED BY <1>1, <1>4, <2>1, RestartDoes, DayTypes DEF Calm, Baseline
<1>5. CASE Midnight
  <2>1. \A r \in Run : run[r].step = "idle" /\ run[r].previous = NONE
    BY <1>5, MidnightDoes DEF Running, TypeInv, RunsHold
  <2>2. today.trouble = "none" => today.snap = today.heard
    BY <2>1 DEF Calm
  <2>3. NewDay.snap = NewDay.heard
    BY DEF NewDay
  <2> QED BY <1>1, <1>5, <2>1, <2>2, <2>3, MidnightDoes DEF Calm, Baseline, Running
<1> QED BY <1>2, <1>3, <1>4, <1>5 DEF Next

(* The baseline of a digest is what the chat heard last the day before,     *)
(* unless a call failed, a pod died or two runs overlapped that day.        *)
THEOREM DigestBaselineWasHeard == Spec => []BaselineWasHeard
<1>1. Init => BaseInv
  BY InitTypes, DayTypes DEF Init, NewDay, BaseInv, Calm, Baseline, Running
<1>2. BaseInv /\ [Next]_vars => BaseInv'
  BY NextBaseline
<1>3. BaseInv => BaselineWasHeard
  BY DEF BaseInv, Baseline, BaselineWasHeard
<1> QED BY <1>1, <1>2, <1>3, PTL DEF Spec

-----------------------------------------------------------------------------
(* No silent day *)

(* While the chat has heard nothing, somebody still has something to say:   *)
(* today's cron or a run, and after a failed call the run that reports it.  *)
Unheard == today.heard = NONE /\ ~reported /\ today.trouble # "more"

Outstanding ==
  /\ \A r \in Run : run[r].step = "report" => today.trouble # "none"
  /\ Unheard =>
        \/ today.trouble = "none" /\ (due \/ \E r \in Run : Running(r))
        \/ today.trouble = "one" /\ \E r \in Run : run[r].step = "report"

SilenceInv == TypeInv /\ Outstanding

LEMMA RunSpeaks ==
  ASSUME DigestAssumption, SilenceInv, NEW r \in Run, RunMoves(r) PROVE Outstanding'
<1> USE DEF SilenceInv
<1>1. today.trouble \in {"none", "one", "more"}
  BY DayTypes DEF TypeInv, DigestTypes
<1>2. CASE Begin(r)
  <2>1. /\ ~Running(r) /\ run'[r].step = "find" /\ \A q \in Run \ {r} : run'[q] = run[q]
    BY <1>2, BeginDoes
  <2>2. /\ today'.heard = today.heard /\ reported' = reported
        /\ today'.trouble = today.trouble \/ today'.trouble = "more"
    BY <1>2 DEF Begin, TypeInv, DigestTypes, Day
  <2> QED BY <1>1, <2>1, <2>2 DEF Outstanding, Unheard, Running
<1>3. CASE FindYesterday(r)
  <2>1. /\ UNCHANGED <<today, reported>> /\ run[r].step = "find" /\ run'[r].step = "upsert"
        /\ \A q \in Run \ {r} : run'[q] = run[q]
    BY <1>3, FindDoes DEF FindYesterday
  <2> QED BY <2>1 DEF Outstanding, Unheard, Running
<1>4. CASE Upsert(r)
  <2>1. /\ today'.heard = today.heard /\ today'.trouble = today.trouble /\ reported' = reported
        /\ run[r].step = "upsert" /\ run'[r].step = "send"
        /\ \A q \in Run \ {r} : run'[q] = run[q]
    BY <1>4, UpsertDoes DEF Upsert
  <2> QED BY <2>1 DEF Outstanding, Unheard, Running
<1>5. CASE SendTelegram(r)
  <2>1. /\ today'.heard # NONE /\ today'.trouble = today.trouble /\ run'[r].step = "idle"
        /\ \A q \in Run \ {r} : run'[q] = run[q]
    BY <1>5, SendDoes DEF DigestAssumption
  <2> QED BY <2>1 DEF Outstanding, Unheard
<1>6. CASE CallFails(r)
  <2>1. run'[r].step = "report" /\ today'.trouble = Worse(today.trouble)
    BY <1>6, FailDoes
  <2> QED BY <1>1, <2>1 DEF Outstanding, Unheard, Worse
<1>7. CASE reportDeliveryFailure(r)
  <2>1. /\ run[r].step = "report" /\ today.trouble # "none"
        /\ run'[r].step = "idle" /\ \A q \in Run \ {r} : run'[q] = run[q]
    BY <1>7, ReportDoes DEF reportDeliveryFailure, Outstanding
  <2>2. (reported' = TRUE /\ today' = today) \/ today'.trouble = "more"
    BY <1>1, <1>7, <2>1, ReportDoes DEF Worse
  <2> QED BY <2>1, <2>2 DEF Outstanding, Unheard
<1> QED BY <1>2, <1>3, <1>4, <1>5, <1>6, <1>7 DEF RunMoves

LEMMA NextSpeaks ==
  ASSUME DigestAssumption, SilenceInv, [Next]_vars PROVE SilenceInv'
<1> USE DEF SilenceInv
<1>1. TypeInv'
  BY NextTypes
<1>2. CASE \E r \in Run : runDigest(r)
  BY <1>1, <1>2, RunSpeaks DEF runDigest, RunMoves
<1>3. CASE (\E s \in Service : HealthChanges(s)) \/ UNCHANGED vars
  BY <1>1, <1>3 DEF HealthChanges, vars, Outstanding, Unheard, Running
<1>4. CASE PodRestarts
  BY <1>1, <1>4, RestartDoes, DayTypes DEF Outstanding, Unheard
<1>5. CASE Midnight
  BY <1>1, <1>5, MidnightDoes DEF Outstanding, Unheard, Running, NewDay
<1> QED BY <1>2, <1>3, <1>4, <1>5 DEF Next

(* The chat gets the digest or the news that it failed, every day on which  *)
(* no pod died and no second call failed.                                   *)
THEOREM DaysAreNotSilent == ASSUME DigestAssumption PROVE Spec => NoSilentDay
<1>1. Init => SilenceInv
  BY InitTypes, DayTypes DEF Init, NewDay, SilenceInv, Outstanding, Unheard
<1>2. SilenceInv /\ [Next]_vars => SilenceInv'
  BY NextSpeaks
<1>3. ASSUME SilenceInv, [Next]_vars, ~due, due'
      PROVE  today.heard # NONE \/ reported \/ today.trouble = "more"
  <2>1. Midnight
    BY <1>3 DEF Next, vars, runDigest, Begin, FindYesterday, Upsert, SendTelegram, CallFails,
                reportDeliveryFailure, HealthChanges, PodRestarts
  <2>2. ~due /\ \A r \in Run : run[r].step = "idle"
    BY <2>1 DEF Midnight, Running
  <2> QED BY <1>3, <2>2 DEF SilenceInv, Outstanding, Unheard, Running
<1>4. SilenceInv /\ [Next]_vars
         => [~due /\ due' => today.heard # NONE \/ reported \/ today.trouble = "more"]_due
  BY <1>3
<1> QED BY <1>1, <1>2, <1>4, PTL DEF Spec, NoSilentDay
=============================================================================
