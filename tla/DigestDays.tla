----------------------------- MODULE DigestDays -----------------------------
(***************************************************************************)
(* The days and the runs of src/digest: what each day's snapshot holds,     *)
(* what the chat heard of it, and what must be true of the two.             *)
(***************************************************************************)
EXTENDS Integers, Absent

VARIABLES
    today,       \* today's snapshot, and what became of today's runs
    yesterday,   \* the same of the day before
    reported,    \* the chat was told today that a digest failed
    due,         \* today's cron has yet to fire
    run          \* run[r]: the local variables of runDigest

(* The cron's run, and one an operator triggers over the digest controller. *)
Run == {"cron", "operator"}

(* The baseline of a digest, against which it names what changed since      *)
(* yesterday, is what the chat heard last yesterday, unless a call failed,  *)
(* a pod died or two runs overlapped that day (daily-digest.service.ts      *)
(* :44-57).                                                                 *)
BaselineWasHeard ==
    \A r \in Run :
        run[r].previous # NONE /\ yesterday.trouble = "none"
            => run[r].previous = yesterday.heard

(* A day does not pass in silence: the chat gets the digest or the news     *)
(* that it failed, unless the pod died or a second call failed as well      *)
(* (lines 68-89).  The cron of a new day falls due at midnight.             *)
NoSilentDay ==
    [][~due /\ due' => today.heard # NONE \/ reported \/ today.trouble = "more"]_due
=============================================================================
