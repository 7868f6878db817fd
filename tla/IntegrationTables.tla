------------------------- MODULE IntegrationTables --------------------------
(***************************************************************************)
(* The two tables of src/customer-integrations, what the senders of events  *)
(* were told, and what must always be true of them.                         *)
(***************************************************************************)
EXTENDS Integers, Absent

CONSTANTS
    MaxIds,        \* bound on the integrations created
    Event          \* the events' own ids, as their sender gives them

VARIABLES
    row,           \* row[i]: the table customer_integrations
    stored,        \* stored[i, e]: rows of the events table
    acked          \* the events whose sender was told ok

Integration == 1..MaxIds

(* An event its sender was told ok about is stored, and none is stored      *)
(* twice, whichever requests carry it at the same time (lines 44-47, 63,    *)
(* 37).                                                                     *)
StoredOnce ==
    \A x \in Integration \X Event :
        stored[x] <= 1 /\ (x \in acked => stored[x] = 1)
=============================================================================
