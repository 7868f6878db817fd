---------------------------- MODULE DailyDigest ----------------------------
(***************************************************************************)
(* src/digest: the report of every morning, its snapshot, and what the chat *)
(* hears when the report does not get through.                              *)
(*                                                                          *)
(* Two days are kept, today and the one before.  A run takes its two dates  *)
(* from one clock reading; none is still running at midnight.               *)
(***************************************************************************)
EXTENDS DigestDays

CONSTANT Service     \* registered services

(* What a snapshot holds of the services that were monitorable.             *)
Entries == UNION {[S -> BOOLEAN] : S \in SUBSET Service}

DigestAssumption == NONE \notin Entries

VARIABLES
    monitored,   \* the services that are monitorable
    health       \* what the probe of each would say now

vars == <<monitored, health, today, yesterday, reported, due, run>>

(* snap is the snapshot's row and heard the services of the last digest     *)
(* that reached the chat.  trouble is history: one failed call, or more: a  *)
(* second one, a pod that died or two runs at the same time.                *)
NewDay == [snap |-> NONE, heard |-> NONE, trouble |-> "none"]

Idle == [step |-> "idle", entries |-> NONE, previous |-> NONE]

Init ==
    /\ monitored = Service /\ health = [s \in Service |-> TRUE]
    /\ today = NewDay /\ yesterday = NewDay /\ reported = FALSE /\ due = TRUE
    /\ run = [r \in Run |-> Idle]

Running(r) == run[r].step # "idle"

Worse(trouble) == IF trouble = "none" THEN "one" ELSE "more"

-----------------------------------------------------------------------------
(* getServicesStatus has answered; the digest holds the monitorable ones.   *)
Begin(r) ==
    /\ ~Running(r)
    /\ r = "cron" => due
    /\ due' = (due /\ r # "cron")
    /\ run' = [run EXCEPT ![r] = [Idle EXCEPT !.step = "find",
                  !.entries = [s \in monitored |-> health[s]]]]
    /\ today' = [today EXCEPT !.trouble = IF \E q \in Run : Running(q) THEN "more" ELSE @]
    /\ UNCHANGED <<monitored, health, yesterday, reported>>

\* Mutation: the latest snapshot is taken for yesterday's.
latestSnapshot == IF today.snap # NONE THEN today.snap ELSE yesterday.snap

yesterdaySnapshot == yesterday.snap

(* A snapshot without services counts as none.                              *)
FindYesterday(r) ==
    /\ run[r].step = "find"
    /\ run' = [run EXCEPT ![r].step = "upsert",
                  ![r].previous = IF yesterdaySnapshot = NONE \/ DOMAIN yesterdaySnapshot = {}
                                  THEN NONE ELSE yesterdaySnapshot]
    /\ UNCHANGED <<monitored, health, today, yesterday, reported, due>>

Upsert(r) ==
    /\ run[r].step = "upsert"
    /\ today' = [today EXCEPT !.snap = run[r].entries]
    /\ run' = [run EXCEPT ![r].step = "send"]
    /\ UNCHANGED <<monitored, health, yesterday, reported, due>>

SendTelegram(r) ==
    /\ run[r].step = "send"
    /\ today' = [today EXCEPT !.heard = run[r].entries]
    /\ run' = [run EXCEPT ![r] = Idle]
    /\ UNCHANGED <<monitored, health, yesterday, reported, due>>

\* Mutation: the failure is only logged.
OnlyLogged == "idle"

AfterFailure == "report"

(* Any of the calls throws; a send may throw although it was delivered.     *)
CallFails(r) ==
    /\ run[r].step \in {"find", "upsert", "send"}
    /\ \E delivered \in {FALSE, run[r].step = "send"} :
          today' = [today EXCEPT !.trouble = Worse(@),
                       !.heard = IF delivered THEN run[r].entries ELSE @]
    /\ run' = [run EXCEPT ![r] = [Idle EXCEPT !.step = AfterFailure]]
    /\ UNCHANGED <<monitored, health, yesterday, reported, due>>

reportDeliveryFailure(r) ==
    /\ run[r].step = "report"
    /\ \/ reported' = TRUE /\ UNCHANGED today
       \/ today' = [today EXCEPT !.trouble = Worse(@)] /\ UNCHANGED reported
    /\ run' = [run EXCEPT ![r] = Idle]
    /\ UNCHANGED <<monitored, health, yesterday, due>>

-----------------------------------------------------------------------------
(* A pod that is down when the cron is due misses it.                       *)
PodRestarts ==
    /\ \E missed \in BOOLEAN : due' = (due /\ ~missed)
    /\ monitored' \in SUBSET Service
    /\ today' = [today EXCEPT !.trouble = "more"]
    /\ run' = [r \in Run |-> Idle]
    /\ UNCHANGED <<health, yesterday, reported>>

HealthChanges(s) ==
    /\ health' = [health EXCEPT ![s] = ~@]
    /\ UNCHANGED <<monitored, today, yesterday, reported, due, run>>

Midnight ==
    /\ ~due /\ \A r \in Run : ~Running(r)
    /\ yesterday' = today /\ today' = NewDay /\ reported' = FALSE /\ due' = TRUE
    /\ UNCHANGED <<monitored, health, run>>

runDigest(r) ==
    \/ Begin(r) \/ FindYesterday(r) \/ Upsert(r) \/ SendTelegram(r)
    \/ CallFails(r) \/ reportDeliveryFailure(r)

Next ==
    \/ \E r \in Run : runDigest(r)
    \/ \E s \in Service : HealthChanges(s)
    \/ PodRestarts \/ Midnight

Spec == Init /\ [][Next]_vars

-----------------------------------------------------------------------------
Day == [snap : Entries \cup {NONE}, heard : Entries \cup {NONE},
        trouble : {"none", "one", "more"}]

(* The type of every variable.                                              *)
DigestTypes ==
    /\ monitored \subseteq Service /\ health \in [Service -> BOOLEAN]
    /\ today \in Day /\ yesterday \in Day
    /\ reported \in BOOLEAN /\ due \in BOOLEAN
    /\ run \in [Run -> [step : {"idle", "find", "upsert", "send", "report"},
                        entries : Entries \cup {NONE}, previous : Entries \cup {NONE}]]
=============================================================================
