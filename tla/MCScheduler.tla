---------------------------- MODULE MCScheduler ----------------------------
(* Small instances of Scheduler for TLC. *)
EXTENDS Scheduler, TLC

CONSTANTS once, interval, cron

\* One task of each type; nobody waits for the answers of the cron task.
Types == once :> "once" @@ interval :> "interval" @@ cron :> "cron"
Values == once :> 1 @@ interval :> 2 @@ cron :> 2
=============================================================================
