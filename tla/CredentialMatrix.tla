-------------------------- MODULE CredentialMatrix --------------------------
(***************************************************************************)
(* The matrix of credentials that src/alerts/credential-watcher.ts draws    *)
(* up, next to the truth it is about.                                       *)
(***************************************************************************)
EXTENDS Integers, Absent

CONSTANTS
    Principal,   \* service principals
    TTL,         \* REPORT_TTL_MINUTES, in rounds
    HORIZON      \* EXPIRY_HORIZON_DAYS, in rounds

VARIABLES
    matrix,      \* matrix[p]: the row of this round's sweep
    life,        \* life[p]: rounds until the token p holds expires
    worked       \* history: rounds since p's target last accepted its token

(* A row says accepted only while the target accepted that principal's      *)
(* token no longer ago than the reports' lifetime, whatever was reported,   *)
(* lost or restarted since (credential-watcher.ts:13-21, 224-240).          *)
AcceptedWorked ==
    \A p \in Principal :
        matrix[p] # NONE /\ matrix[p].status = "accepted" => worked[p] <= TTL

(* A row that shows an expiry and no warning is of a principal whose token  *)
(* has longer to live than the horizon, stale rows and renewed tokens       *)
(* included (lines 248-276).  It is not so once the token was replaced by   *)
(* one of a shorter life (shortened), until that one is reported.           *)
ExpiryForewarned ==
    \A p \in Principal :
        /\ matrix[p] # NONE /\ matrix[p].exp # NONE
        /\ ~matrix[p].expiringSoon /\ ~matrix[p].shortened
        => life[p] > HORIZON
=============================================================================
