------------------------ MODULE CustomerIntegrations ------------------------
(***************************************************************************)
(* src/customer-integrations: the integrations of a customer, their API     *)
(* keys, and the events that are sent in with them.                         *)
(*                                                                          *)
(* Every handler reads an integration, changes its copy and saves the copy  *)
(* whole: TypeORM's save writes each column in which the copy differs from  *)
(* the row, and inserts the row when it is gone.  Ids and keys are random;  *)
(* that none is drawn twice is assumed here, nothing in the code sees to it *)
(* (the table has no unique index on apiKeyId).  They are numbered in the   *)
(* order they are drawn.                                                    *)
(***************************************************************************)
EXTENDS Integers, IntegrationTables

CONSTANTS
    MaxKeys,       \* bound on the API keys drawn
    Name,          \* what the owner edits
    Handler,       \* requests of the owner in progress at a time
    Ingest         \* requests of senders in progress at a time

IntegrationAssumption == MaxIds \in Nat /\ MaxKeys \in Nat

VARIABLES
    used,          \* the last id given
    drawn,         \* the last key drawn
    request,       \* request[h]: the owner's request that h handles
    ingest         \* ingest[s]: the sender's request that s handles

tableVars == <<row, used, drawn>>
eventVars == <<ingest, stored, acked>>
vars == <<row, used, drawn, request, ingest, stored, acked>>

Key == 1..MaxKeys

Row == [name : Name, key : Key]

Init ==
    /\ row = [i \in Integration |-> NONE] /\ used = 0 /\ drawn = 0
    /\ request = [h \in Handler |-> NONE] /\ ingest = [s \in Ingest |-> NONE]
    /\ stored = [x \in Integration \X Event |-> 0] /\ acked = {}

-----------------------------------------------------------------------------
(* CustomerIntegrationsService *)

generateApiKey(k) == k = drawn + 1 /\ drawn' = k

create(i, n, k) ==
    /\ i = used + 1 /\ used' = i /\ generateApiKey(k)
    /\ row' = [row EXCEPT ![i] = [name |-> n, key |-> k]]
    /\ UNCHANGED <<request, eventVars>>

(* findOwned; a request for an integration that is gone ends with a 404.    *)
findOwned(h, op, i) ==
    /\ request[h] = NONE /\ row[i] # NONE
    /\ \E n \in Name :
          /\ op # "update" => n = row[i].name
          /\ request' = [request EXCEPT ![h] =
                [op |-> op, id |-> i, found |-> [row[i] EXCEPT !.name = n]]]
    /\ UNCHANGED <<tableVars, eventVars>>

Answered(h) == request' = [request EXCEPT ![h] = NONE]

update(h) ==
    /\ request[h] # NONE /\ request[h].op = "update"
    /\ row' = [row EXCEPT ![request[h].id] = request[h].found]
    /\ Answered(h) /\ UNCHANGED <<used, drawn, eventVars>>

rotateKey(h, k) ==
    /\ request[h] # NONE /\ request[h].op = "rotate" /\ generateApiKey(k)
    /\ row' = [row EXCEPT ![request[h].id] = [request[h].found EXCEPT !.key = k]]
    /\ Answered(h) /\ UNCHANGED <<used, eventVars>>

remove(h) ==
    /\ request[h] # NONE /\ request[h].op = "remove"
    /\ row' = [row EXCEPT ![request[h].id] = NONE]
    /\ Answered(h) /\ UNCHANGED <<used, drawn, eventVars>>

-----------------------------------------------------------------------------
(* CustomerIntegrationEventsService.recordEvent *)

(* authenticateIntegration: a row with that key, which is active as every   *)
(* row is; any other key ends with a 401.                                   *)
authenticate(s, e, k) ==
    /\ ingest[s] = NONE
    /\ \E i \in Integration :
        /\ row[i] # NONE /\ row[i].key = k
        /\ ingest' = [ingest EXCEPT ![s] = [step |-> "lookup", of |-> <<i, e>>]]
    /\ UNCHANGED <<tableVars, request, stored, acked>>

(* The event is there already: answered as a duplicate.                     *)
findExisting(s) ==
    /\ ingest[s] # NONE /\ ingest[s].step = "lookup"
    /\ IF stored[ingest[s].of] > 0
       THEN /\ acked' = acked \cup {ingest[s].of}
            /\ ingest' = [ingest EXCEPT ![s] = NONE]
       ELSE /\ ingest' = [ingest EXCEPT ![s].step = "insert"]
            /\ UNCHANGED acked
    /\ UNCHANGED <<tableVars, request, stored>>

\* Mutation: only the lookup keeps duplicates out.
NoIndex(x) == TRUE

(* The unique index on integration and event id.                            *)
uniqueIndex(x) == stored[x] = 0

saveEvent(s) ==
    /\ ingest[s] # NONE /\ ingest[s].step = "insert" /\ uniqueIndex(ingest[s].of)
    /\ stored' = [stored EXCEPT ![ingest[s].of] = @ + 1]
    /\ acked' = acked \cup {ingest[s].of}
    /\ ingest' = [ingest EXCEPT ![s] = NONE]
    /\ UNCHANGED <<tableVars, request>>

(* The insert conflicts, or fails: a 500, which the sender may answer with  *)
(* the same event once more.                                                *)
saveEventFails(s) ==
    /\ ingest[s] # NONE /\ ingest[s].step = "insert"
    /\ ingest' = [ingest EXCEPT ![s] = NONE]
    /\ UNCHANGED <<tableVars, request, stored, acked>>

(* The pod restarts in the middle of every request.                         *)
PodRestarts ==
    /\ request' = [h \in Handler |-> NONE] /\ ingest' = [s \in Ingest |-> NONE]
    /\ UNCHANGED <<tableVars, stored, acked>>

-----------------------------------------------------------------------------
Manage(h) ==
    \/ \E i \in Integration, op \in {"update", "rotate", "remove"} : findOwned(h, op, i)
    \/ update(h) \/ remove(h) \/ \E k \in Key : rotateKey(h, k)

RecordEvent(s) ==
    \/ \E e \in Event, k \in Key : authenticate(s, e, k)
    \/ findExisting(s) \/ saveEvent(s) \/ saveEventFails(s)

Next ==
    \/ \E i \in Integration, n \in Name, k \in Key : create(i, n, k)
    \/ \E h \in Handler : Manage(h)
    \/ \E s \in Ingest : RecordEvent(s)
    \/ PodRestarts

Spec == Init /\ [][Next]_vars

-----------------------------------------------------------------------------
(* The type of every variable.                                              *)
IntegrationTypes ==
    /\ row \in [Integration -> Row \cup {NONE}]
    /\ used \in 0..MaxIds /\ drawn \in 0..MaxKeys
    /\ request \in [Handler ->
          [op : {"update", "rotate", "remove"}, id : Integration, found : Row] \cup {NONE}]
    /\ ingest \in [Ingest ->
          [step : {"lookup", "insert"}, of : Integration \X Event] \cup {NONE}]
    /\ stored \in [Integration \X Event -> Nat]
    /\ acked \subseteq Integration \X Event

(* web/app/customer/page.tsx:103, "Integration record updated. Existing     *)
(* keys were not changed.": a row's key gives way only to a new key.        *)
ReplacedStaysReplaced ==
    [][\A i \in Integration :
          row[i] # NONE /\ row'[i] # NONE /\ row'[i].key # row[i].key
              => row'[i].key > drawn]_vars
=============================================================================
