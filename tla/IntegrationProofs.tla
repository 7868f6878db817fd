-------------------------- MODULE IntegrationProofs --------------------------
(***************************************************************************)
(* Proofs about customer integrations, for any number of requests of owners *)
(* and senders at a time: the types, that an acknowledged event is stored   *)
(* exactly once, and that a rotation or a removal is only ever undone by    *)
(* requests that overlap.                                                   *)
(***************************************************************************)
EXTENDS CustomerIntegrations, TLAPS

-----------------------------------------------------------------------------
(* Types *)

LEMMA InitTypes ==
  ASSUME IntegrationAssumption, Init PROVE IntegrationTypes
  BY DEF IntegrationAssumption, Init, IntegrationTypes

(* The owner's requests keep the types.                                     *)
LEMMA ManageTypes ==
  ASSUME IntegrationTypes, NEW h \in Handler, Manage(h) PROVE IntegrationTypes'
<1> USE DEF IntegrationTypes, eventVars, tableVars, Row, Answered
<1>1. CASE \E i \in Integration, op \in {"update", "rotate", "remove"} : findOwned(h, op, i)
  <2>1. PICK i \in Integration, op \in {"update", "rotate", "remove"} : findOwned(h, op, i)
    BY <1>1
  <2>2. PICK n \in Name :
          request' = [request EXCEPT ![h] =
             [op |-> op, id |-> i, found |-> [row[i] EXCEPT !.name = n]]]
    BY <2>1 DEF findOwned
  <2>3. [row[i] EXCEPT !.name = n] \in Row
    BY <2>1 DEF findOwned
  <2> QED BY <2>1, <2>2, <2>3 DEF findOwned
<1>2. CASE update(h)
  BY <1>2 DEF update
<1>3. CASE remove(h)
  BY <1>3 DEF remove
<1>4. CASE \E k \in Key : rotateKey(h, k)
  BY <1>4 DEF rotateKey, generateApiKey, Key
<1> QED BY <1>1, <1>2, <1>3, <1>4 DEF Manage

(* The senders' requests keep the types.                                    *)
LEMMA RecordTypes ==
  ASSUME IntegrationTypes, NEW s \in Ingest, RecordEvent(s) PROVE IntegrationTypes'
<1> USE DEF IntegrationTypes, eventVars, tableVars
<1>1. CASE \E e \in Event, k \in Key : authenticate(s, e, k)
  BY <1>1 DEF authenticate
<1>2. CASE findExisting(s)
  BY <1>2 DEF findExisting
<1>3. CASE saveEvent(s)
  BY <1>3 DEF saveEvent
<1>4. CASE saveEventFails(s)
  BY <1>4 DEF saveEventFails
<1> QED BY <1>1, <1>2, <1>3, <1>4 DEF RecordEvent

LEMMA NextTypes ==
  ASSUME IntegrationTypes, [Next]_vars PROVE IntegrationTypes'
<1>1. CASE \E i \in Integration, n \in Name, k \in Key : create(i, n, k)
  BY <1>1 DEF IntegrationTypes, create, generateApiKey, eventVars, Integration, Key, Row
<1>2. CASE \E h \in Handler : Manage(h)
  BY <1>2, ManageTypes
<1>3. CASE \E s \in Ingest : RecordEvent(s)
  BY <1>3, RecordTypes
<1>4. CASE PodRestarts
  BY <1>4 DEF IntegrationTypes, PodRestarts, tableVars
<1>5. CASE UNCHANGED vars
  BY <1>5 DEF IntegrationTypes, vars
<1> QED BY <1>1, <1>2, <1>3, <1>4, <1>5 DEF Next

(* Every variable keeps its type, for every value of the constants.         *)
THEOREM IntegrationTypesCorrect ==
  ASSUME IntegrationAssumption PROVE Spec => []IntegrationTypes
<1>1. Init => IntegrationTypes
  BY InitTypes
<1>2. IntegrationTypes /\ [Next]_vars => IntegrationTypes'
  BY NextTypes
<1> QED BY <1>1, <1>2, PTL DEF Spec

-----------------------------------------------------------------------------
(* What a rotation or a removal replaces *)

(* No two requests of the owner are about one integration at one time.      *)
NoOverlap ==
    \A g, h \in Handler :
        g # h /\ request[g] # NONE /\ request[h] # NONE => request[g].id # request[h].id

(* Then the copy a request holds is what the row still says of the key, and *)
(* the row is still there to be written.                                    *)
UpToDate ==
    /\ \A h \in Handler : request[h] # NONE =>
          row[request[h].id] # NONE /\ row[request[h].id].key = request[h].found.key
    /\ \A i \in Integration : row[i] # NONE => i <= used

RemovedStaysRemoved ==
    \A i \in Integration : row[i] = NONE /\ row'[i] # NONE => i > used
KeyGivesWay ==
    \A i \in Integration :
        row[i] # NONE /\ row'[i] # NONE /\ row'[i].key # row[i].key => row'[i].key > drawn

(* A request that writes its copy, whatever it has changed of it.           *)
LEMMA WriteUpToDate ==
  ASSUME IntegrationAssumption, IntegrationTypes, UpToDate, NoOverlap, NEW h \in Handler,
         update(h) \/ remove(h) \/ \E k \in Key : rotateKey(h, k)
  PROVE  UpToDate' /\ RemovedStaysRemoved /\ KeyGivesWay
<1> DEFINE i == request[h].id
<1>1. /\ request[h] # NONE /\ i \in Integration /\ request[h].found \in Row
      /\ row[i] # NONE /\ row[i].key = request[h].found.key /\ used' = used
  BY DEF IntegrationTypes, UpToDate, update, remove, rotateKey, eventVars
<1>2. /\ \A j \in Integration \ {i} : row'[j] = row[j]
      /\ request'[h] = NONE /\ \A g \in Handler \ {h} : request'[g] = request[g]
  BY DEF IntegrationTypes, update, remove, rotateKey, Answered
<1>3. row'[i] # NONE => row'[i].key = row[i].key \/ row'[i].key > drawn
  <2>1. CASE update(h)
    BY <1>1, <2>1 DEF update, IntegrationTypes
  <2>2. CASE remove(h)
    <3>1. row' = [row EXCEPT ![i] = NONE] /\ DOMAIN row = Integration
      BY <2>2 DEF remove, IntegrationTypes
    <3> QED BY <1>1, <3>1
  <2>3. ASSUME NEW k \in Key, rotateKey(h, k)
        PROVE  row'[i].key > drawn
    <3>1. row'[i] = [request[h].found EXCEPT !.key = k] /\ k = drawn + 1 /\ drawn \in Nat
      BY <1>1, <2>3 DEF rotateKey, generateApiKey, IntegrationTypes, IntegrationAssumption
    <3> QED BY <1>1, <3>1 DEF Row
  <2> QED BY <2>1, <2>2, <2>3
<1>4. \A g \in Handler \ {h} : request'[g] # NONE => request'[g].id \in Integration \ {i}
  BY <1>1, <1>2 DEF NoOverlap, IntegrationTypes
<1> HIDE DEF i
<1>5. UpToDate'
  <2>1. ASSUME NEW g \in Handler, request'[g] # NONE
        PROVE  row'[request'[g].id] # NONE /\ row'[request'[g].id].key = request'[g].found.key
    <3>1. g # h /\ request'[g] = request[g] /\ request[g].id \in Integration \ {i}
      BY <1>2, <1>4, <2>1
    <3> QED BY <1>2, <2>1, <3>1 DEF UpToDate
  <2>2. \A j \in Integration : row'[j] # NONE => j <= used'
    BY <1>1, <1>2 DEF UpToDate
  <2> QED BY <2>1, <2>2 DEF UpToDate
<1> QED BY <1>1, <1>2, <1>3, <1>5 DEF RemovedStaysRemoved, KeyGivesWay

LEMMA NextUpToDate ==
  ASSUME IntegrationAssumption, IntegrationTypes, UpToDate, NoOverlap, [Next]_vars
  PROVE  UpToDate' /\ RemovedStaysRemoved /\ KeyGivesWay
<1> USE DEF RemovedStaysRemoved, KeyGivesWay
<1>1. ASSUME NEW i \in Integration, NEW n \in Name, NEW k \in Key, create(i, n, k)
      PROVE  UpToDate' /\ RemovedStaysRemoved /\ KeyGivesWay
  <2>1. /\ i = used + 1 /\ used' = i /\ used \in Nat /\ request' = request
        /\ row' = [row EXCEPT ![i] = [name |-> n, key |-> k]]
    BY <1>1 DEF create, IntegrationTypes, IntegrationAssumption
  <2>2. row[i] = NONE
    BY <2>1 DEF UpToDate
  <2>3. \A h \in Handler : request[h] # NONE => request[h].id \in Integration \ {i}
    BY <2>2 DEF UpToDate, IntegrationTypes
  <2>4. \A j \in Integration \ {i} : row'[j] = row[j]
    BY <2>1 DEF IntegrationTypes
  <2>5. \A j \in Integration : row'[j] # NONE => j <= used'
    <3>1. \A j \in Integration : j \in Nat
      BY DEF Integration, IntegrationAssumption
    <3> QED BY <2>1, <2>4, <3>1 DEF UpToDate
  <2> QED BY <2>1, <2>2, <2>3, <2>4, <2>5 DEF UpToDate
<1>2. ASSUME NEW h \in Handler, Manage(h)
      PROVE  UpToDate' /\ RemovedStaysRemoved /\ KeyGivesWay
  <2>1. CASE \E i \in Integration, op \in {"update", "rotate", "remove"} : findOwned(h, op, i)
    <3>1. PICK i \in Integration, op \in {"update", "rotate", "remove"}, n \in Name :
             /\ row[i] # NONE
             /\ request' = [request EXCEPT ![h] =
                   [op |-> op, id |-> i, found |-> [row[i] EXCEPT !.name = n]]]
      BY <2>1 DEF findOwned
    <3>2. row[i] \in Row /\ UNCHANGED <<row, used>>
      BY <2>1, <3>1 DEF findOwned, tableVars, IntegrationTypes
    <3>3. request'[h].id = i /\ request'[h].found.key = row[i].key
      BY <3>1, <3>2 DEF IntegrationTypes, Row
    <3>4. \A g \in Handler \ {h} : request'[g] = request[g]
      BY <3>1 DEF IntegrationTypes
    <3> QED BY <3>1, <3>2, <3>3, <3>4 DEF UpToDate
  <2>2. CASE update(h) \/ remove(h) \/ \E k \in Key : rotateKey(h, k)
    BY <2>2, WriteUpToDate
  <2> QED BY <1>2, <2>1, <2>2 DEF Manage
<1>3. CASE (\E s \in Ingest : RecordEvent(s)) \/ UNCHANGED vars
  <2>1. UNCHANGED <<row, used, request>>
    BY <1>3 DEF RecordEvent, authenticate, findExisting, saveEvent, saveEventFails, tableVars, vars
  <2> QED BY <2>1 DEF UpToDate
<1>4. CASE PodRestarts
  <2>1. UNCHANGED <<row, used>> /\ \A h \in Handler : request'[h] = NONE
    BY <1>4 DEF PodRestarts, tableVars
  <2> QED BY <2>1 DEF UpToDate
<1> QED BY <1>1, <1>2, <1>3, <1>4 DEF Next

(* What the console tells the owner (web/app/customer/page.tsx:103) is true *)
(* as long as no two requests about one integration overlap: a key, once    *)
(* replaced, never comes back, however often the pod restarts in between.   *)
(* So the rotation that run rotation_undone finds undone takes an overlap,  *)
(* and nothing else can undo one.                                           *)
THEOREM OnlyOverlapsUndo ==
  ASSUME IntegrationAssumption PROVE Spec => ([]NoOverlap => ReplacedStaysReplaced)
<1>1. Init => UpToDate
  BY DEF Init, UpToDate
<1>2. IntegrationTypes /\ UpToDate /\ NoOverlap /\ [Next]_vars => UpToDate' /\ [KeyGivesWay]_vars
  BY NextUpToDate
<1> QED BY <1>1, <1>2, IntegrationTypesCorrect, PTL
       DEF Spec, ReplacedStaysReplaced, KeyGivesWay

(* Under the same condition an integration that was removed is not written  *)
(* back: rows appear under a new id only.                                   *)
THEOREM OnlyOverlapsBringBack ==
  ASSUME IntegrationAssumption PROVE Spec => ([]NoOverlap => [][RemovedStaysRemoved]_vars)
<1>1. Init => UpToDate
  BY DEF Init, UpToDate
<1>2. IntegrationTypes /\ UpToDate /\ NoOverlap /\ [Next]_vars
        => UpToDate' /\ [RemovedStaysRemoved]_vars
  BY NextUpToDate
<1> QED BY <1>1, <1>2, IntegrationTypesCorrect, PTL DEF Spec

-----------------------------------------------------------------------------
(* Events *)

(* StoredOnce is inductive with the types: the insert finds no row, and a   *)
(* lookup that answers finds one.                                           *)
LEMMA NextStored ==
  ASSUME IntegrationTypes, StoredOnce, [Next]_vars PROVE StoredOnce'
<1>1. CASE \E s \in Ingest : findExisting(s)
  BY <1>1 DEF IntegrationTypes, StoredOnce, findExisting
<1>2. CASE \E s \in Ingest : saveEvent(s)
  <2>1. PICK s \in Ingest : saveEvent(s)
    BY <1>2
  <2> DEFINE x == ingest[s].of
  <2>2. x \in Integration \X Event /\ stored[x] = 0
    BY <2>1 DEF IntegrationTypes, saveEvent, uniqueIndex
  <2>3. stored' = [stored EXCEPT ![x] = 1] /\ acked' = acked \cup {x}
    BY <2>1, <2>2 DEF saveEvent
  <2> QED BY <2>2, <2>3 DEF IntegrationTypes, StoredOnce
<1>3. CASE UNCHANGED <<stored, acked>>
  BY <1>3 DEF StoredOnce
<1>4. \/ UNCHANGED <<stored, acked>>
      \/ \E s \in Ingest : findExisting(s) \/ saveEvent(s)
  <2>1. CASE \E h \in Handler : Manage(h)
    BY <2>1 DEF Manage, findOwned, update, rotateKey, remove, eventVars
  <2>2. CASE \E s \in Ingest : RecordEvent(s)
    BY <2>2 DEF RecordEvent, authenticate, saveEventFails
  <2>3. CASE \E i \in Integration, n \in Name, k \in Key : create(i, n, k)
    BY <2>3 DEF create, eventVars
  <2>4. CASE PodRestarts \/ UNCHANGED vars
    BY <2>4 DEF PodRestarts, vars
  <2> QED BY <2>1, <2>2, <2>3, <2>4 DEF Next
<1> QED BY <1>1, <1>2, <1>3, <1>4

(* An event that was acknowledged is stored once, however often and by      *)
(* however many requests it was sent.                                       *)
THEOREM EventsStoredOnce == ASSUME IntegrationAssumption PROVE Spec => []StoredOnce
<1>1. Init => IntegrationTypes /\ StoredOnce
  BY InitTypes DEF Init, StoredOnce
<1>2. IntegrationTypes /\ StoredOnce /\ [Next]_vars => (IntegrationTypes /\ StoredOnce)'
  BY NextTypes, NextStored
<1> QED BY <1>1, <1>2, PTL DEF Spec
=============================================================================
