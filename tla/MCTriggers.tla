------------------------------ MODULE MCTriggers ------------------------------
(***************************************************************************)
(* TriggerRegistry for model checking: configurations of each type, and    *)
(* one that does not start.                                                *)
(***************************************************************************)
EXTENDS TriggerRegistry, TLC

Config(type, v, starts) == [type |-> type, v |-> v, starts |-> starts]
MCConfigs == {Config("cron", 1, TRUE), Config("cron", 2, TRUE), Config("file_watch", 1, TRUE),
              Config("file_watch", 2, FALSE), Config("webhook", 1, TRUE)}
Symmetry == Permutations(Requests) \cup Permutations(Triggers)
=============================================================================
