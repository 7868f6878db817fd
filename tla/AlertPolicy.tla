---------------------------- MODULE AlertPolicy ----------------------------
(***************************************************************************)
(* The notification policy of src/alerts/alert-policy.ts: pure functions    *)
(* of an alert row and the current time that say when a message is due.     *)
(* Times and durations are counted in ticks; a run says how long a tick is. *)
(***************************************************************************)
EXTENDS Integers, Sequences

CONSTANTS
    FLAP_WINDOW,     \* ticks a resolved alert must stay quiet
    REPEAT_BACKOFF,  \* escalating gaps between repeats, in ticks
    NULL             \* a database NULL, and a JavaScript null

ASSUME PolicyAssumption ==
    /\ FLAP_WINDOW \in Nat
    /\ REPEAT_BACKOFF \in Seq(Nat)
    /\ Len(REPEAT_BACKOFF) > 0
    /\ NULL \notin Int

Time == Nat

\* Mutation: the schedule is read one entry too early.
laggingBackoff(occurrenceCount) ==
    LET capped == IF occurrenceCount - 2 > Len(REPEAT_BACKOFF)
                    THEN Len(REPEAT_BACKOFF) ELSE occurrenceCount - 2
    IN  REPEAT_BACKOFF[IF capped < 1 THEN 1 ELSE capped]

(* The gap for the Nth occurrence, capped at the last entry.  The index is  *)
(* the source's max(0, min(n - 2, length - 1)), shifted to base 1.          *)
repeatBackoff(occurrenceCount) ==
    LET capped == IF occurrenceCount - 1 > Len(REPEAT_BACKOFF)
                    THEN Len(REPEAT_BACKOFF) ELSE occurrenceCount - 1
    IN  REPEAT_BACKOFF[IF capped < 1 THEN 1 ELSE capped]

shouldNotifyRepeat(alert, now) ==
    \/ alert.lastNotifiedAt = NULL
    \/ now - alert.lastNotifiedAt >= repeatBackoff(alert.occurrenceCount)

(* A re-fire inside the flap window reopens the row silently.               *)
isFlapReopen(alert, now) ==
    /\ alert.pendingResolveSince # NULL
    /\ now - alert.pendingResolveSince < FLAP_WINDOW

\* Mutation: a recovery is announced without waiting out the flap window.
dueWheneverOwed(alert, now) == alert.pendingResolveSince # NULL

(* A deferred recovery has been quiet for the whole window.                 *)
isResolveDue(alert, now) ==
    /\ alert.pendingResolveSince # NULL
    /\ ~isFlapReopen(alert, now)
=============================================================================
