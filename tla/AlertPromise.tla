--------------------------- MODULE AlertPromise ----------------------------
(***************************************************************************)
(* What the alert lifecycle promises about one row and the chat, with no    *)
(* database, clock, workers or failures in it.                              *)
(*                                                                          *)
(*   - one problem has at most one open alert;                              *)
(*   - a recovery is only ever announced for a resolved alert that owes it, *)
(*     and is owed only by an alert that was open when it closed;           *)
(*   - the debt is settled only once the announcement has been made;        *)
(*   - an alert is reopened silently only while nobody has been told that   *)
(*     it recovered.                                                        *)
(***************************************************************************)
CONSTANTS AlertId, Fingerprint, NULL

VARIABLES
    status,   \* "none", "active", "acknowledged" or "resolved"
    about,    \* the fingerprint of the alert
    owes,     \* the alert owes the chat its recovery message
    told      \* what the chat last heard: "nothing", "down" or "up"

vars == <<status, about, owes, told>>

Init ==
    /\ status = [i \in AlertId |-> "none"]
    /\ about = [i \in AlertId |-> NULL]
    /\ owes = [i \in AlertId |-> FALSE]
    /\ told = [i \in AlertId |-> "nothing"]

Open(i, f) ==
    /\ status[i] = "none"
    /\ f # NULL => \A j \in AlertId : status[j] = "active" => about[j] # f
    /\ status' = [status EXCEPT ![i] = "active"]
    /\ about' = [about EXCEPT ![i] = f]
    /\ UNCHANGED <<owes, told>>

Report(i) ==
    /\ status[i] = "active"
    /\ told' = [told EXCEPT ![i] = "down"]
    /\ UNCHANGED <<status, about, owes>>

Close(i) ==
    /\ status[i] = "active"
    /\ status' = [status EXCEPT ![i] = "resolved"]
    /\ \E debt \in BOOLEAN : owes' = [owes EXCEPT ![i] = debt]
    /\ UNCHANGED <<about, told>>

Reopen(i) ==
    /\ status[i] = "resolved" /\ owes[i] /\ told[i] # "up"
    /\ about[i] # NULL => \A j \in AlertId : status[j] = "active" => about[j] # about[i]
    /\ status' = [status EXCEPT ![i] = "active"]
    /\ owes' = [owes EXCEPT ![i] = FALSE]
    /\ UNCHANGED <<about, told>>

Announce(i) ==
    /\ status[i] = "resolved" /\ owes[i]
    /\ told' = [told EXCEPT ![i] = "up"]
    /\ UNCHANGED <<status, about, owes>>

Settle(i) ==
    /\ owes[i] /\ told[i] = "up"
    /\ owes' = [owes EXCEPT ![i] = FALSE]
    /\ UNCHANGED <<status, about, told>>

(* The operator may acknowledge or resolve any alert; neither creates nor   *)
(* pays a debt.                                                             *)
Operate(i) ==
    /\ status[i] # "none"
    /\ \E s \in {"acknowledged", "resolved"} : status' = [status EXCEPT ![i] = s]
    /\ UNCHANGED <<about, owes, told>>

Next ==
    \E i \in AlertId :
        \/ \E f \in Fingerprint \cup {NULL} : Open(i, f)
        \/ Report(i) \/ Close(i) \/ Reopen(i) \/ Announce(i) \/ Settle(i) \/ Operate(i)

Spec == Init /\ [][Next]_vars
=============================================================================
