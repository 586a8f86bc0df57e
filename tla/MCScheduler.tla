---------------------------- MODULE MCScheduler -----------------------------
(* Small instances of Scheduler for TLC. *)
EXTENDS Scheduler

CONSTANTS j1, j2, badCron

MCConfig(e, i, c) == [enabled |-> e, interval |-> i, cron |-> c]

\* Off and on, and an enabled configuration with another interval and a cron
\* expression that does not parse.
MCConfigs ==
  {MCConfig(FALSE, 1, NoCron), MCConfig(TRUE, 1, NoCron), MCConfig(TRUE, 2, badCron)}

MCBadCrons == {badCron}

MCBuiltTriggers == {<<"simple", 1>>}

MCBothJobs == {j1, j2}
MCFirstJob == {j1}
=============================================================================
