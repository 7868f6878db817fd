-------------------------- MODULE FailureSurfaces --------------------------
(***************************************************************************)
(* src/config/failure-surfaces.ts: the ledger of everything that can fail,  *)
(* and which of it automated repair may touch.  A surface is its name.      *)
(***************************************************************************)

(* The entries marked autoFixEligible, by kind.                             *)
Eligible ==
    [cronjob |-> {"cliplot-readiness-monitor", "domain-research-expiry-recheck",
                  "domain-research-notification-dispatch",
                  "marketing-order-affinity-allegro-daily",
                  "marketing-order-affinity-aukro-daily",
                  "marketing-order-affinity-bazos-daily",
                  "marketing-order-affinity-central-orders-backfill",
                  "speakasap-lesson-record-sync", "warehouse-reservation-expiry"},
     crontab |-> {},
     systemd |-> {"gnome-gui-recover"},
     user |-> {"ips-ecosystem-validator", "next-tasks-scan", "statex-ecosystem-digest"}]

(* Those a person has to repair.                                            *)
HumansOnly ==
    [cronjob |-> {"catalog-contract-monitor", "pod-janitor"},
     crontab |-> {"docker-prune-cron", "rotate-logging-admin-token",
                  "check-ingest-staleness", "backup-all-databases", "poll-systemd-timers"},
     systemd |-> {"alfares-critical-backup", "statex-secret-census"},
     user |-> {"vault-eso-token-renew", "statex-token-health", "systemd-user-bus"}]

Kinds == DOMAIN Eligible

AutoFixEligible == UNION {Eligible[k] : k \in Kinds}
FAILURE_SURFACES == AutoFixEligible \cup UNION {HumansOnly[k] : k \in Kinds}

(* The entry of that name, if there is one.                                 *)
findSurface(name) == FAILURE_SURFACES \cap {name}

isAutoFixEligible(name) == name \in AutoFixEligible
=============================================================================
